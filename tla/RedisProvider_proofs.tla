-------------------------- MODULE RedisProvider_proofs --------------------------
(***************************************************************************)
(* The clock and the Function library of RedisProvider, for any number of  *)
(* readers, clocks, deployments and applications, and the notifications    *)
(* (Notifications.tla), for any number of receivers and listeners.  The    *)
(* parts share no state, so each has an inductive invariant of its own.    *)
(***************************************************************************)
EXTENDS RedisProvider, Notifications, TLAPS

\* The values of a clock's attributes, and what some steps do to them.
ClockValue ==
    [calibrated : BOOLEAN, since : 0 .. Interval, refreshing : BOOLEAN,
     task : {"none", "reading", "storing", "clearing"},
     closer : {"open", "awaiting", "finishing", "closed"}]

LEMMA ClockUpdates ==
    ASSUME clock \in [Clocks -> ClockValue], NEW c \in Clocks
    PROVE  /\ [clock EXCEPT ![c].refreshing = TRUE, ![c].since = 0, ![c].task = "reading"]
                 \in [Clocks -> ClockValue]
           /\ [clock EXCEPT ![c].calibrated = TRUE, ![c].since = 0] \in [Clocks -> ClockValue]
           /\ [clock EXCEPT ![c].closer = "awaiting", ![c].task = "clearing"] \in [Clocks -> ClockValue]
           /\ \A b \in BOOLEAN : [clock EXCEPT ![c].closer = "closed", ![c].refreshing = b]
                 \in [Clocks -> ClockValue]
<1>1. 0 \in 0 .. Interval
  BY ClockConstantsOK
<1>2. ASSUME NEW b \in 0 .. Interval
      PROVE  [clock EXCEPT ![c].refreshing = TRUE, ![c].since = b, ![c].task = "reading"]
                \in [Clocks -> ClockValue]
  <2>1. [clock[c] EXCEPT !.refreshing = TRUE, !.since = b, !.task = "reading"] \in ClockValue
    BY Zenon DEF ClockValue
  <2> QED BY <2>1, Zenon
<1>4. ASSUME NEW b \in 0 .. Interval
      PROVE  [clock EXCEPT ![c].calibrated = TRUE, ![c].since = b] \in [Clocks -> ClockValue]
  BY ZenonT(30) DEF ClockValue
<1>3. \A b \in BOOLEAN : [clock EXCEPT ![c].closer = "closed", ![c].refreshing = b]
         \in [Clocks -> ClockValue]
  BY ZenonT(30) DEF ClockValue
<1>5. [clock EXCEPT ![c].closer = "awaiting", ![c].task = "clearing"] \in [Clocks -> ClockValue]
  BY ZenonT(30) DEF ClockValue
<1> QED BY <1>1, <1>2, <1>3, <1>4, <1>5, Zenon

Reader == [at : {"idle", "waiting", "calibrating"}, clock : Clocks \cup {0}]

\* A reader holds the clock of the loop, or one that was closed with it inside;
\* the clock of the loop is open.  So nobody starts a refresh on a clock that was
\* closed with no reader in it, and once its task has ended it stays ended.
ClockInv ==
    /\ FlagMeansRefresh
    /\ reader \in [Readers -> Reader]
    /\ \A r \in Readers : reader[r].clock \in {0, current} \cup inside
    /\ current # 0 => clock[current].closer = "open"
    /\ \A c \in Clocks :
          clock[c].closer = "finishing" /\ c \notin inside => clock[c].task = "none"

LEMMA ClockInit_ClockInv == ClockInit => ClockInv
BY ClockConstantsOK DEF ClockInit, ClockInv, FlagMeansRefresh, ClockTypeOK, Fresh, Reader

LEMMA ClockNext_ClockInv == ClockInv /\ ClockNext => ClockInv'
<1> SUFFICES ASSUME ClockInv, ClockNext PROVE ClockInv'
  BY Zenon
<1> USE ClockConstantsOK
<1> USE DEF ClockInv, FlagMeansRefresh, ClockTypeOK, Reader
<1>1. CASE \E r \in Readers : Anow(r)
  <2>1. PICK r \in Readers : Anow(r)
    BY <1>1, Zenon
  <2> QED BY <2>1 DEF Anow, Fresh
<1>2. CASE \E r \in Readers, c \in Clocks : Enter(r, c)
  <2>0. PICK r \in Readers : \E c \in Clocks : Enter(r, c)
    BY <1>2, Zenon
  <2>1. PICK c \in Clocks : Enter(r, c)
    BY <2>0, Zenon
  <2>2. CASE clock' = clock
    BY <2>1, <2>2 DEF Enter, Leave, ReaderAt
  <2>3. CASE clock' = [clock EXCEPT ![c].refreshing = TRUE, ![c].since = 0, ![c].task = "reading"]
    <3>1. ClockTypeOK'
      <4>1. current' = current
        BY <2>1, Zenon DEF Enter
      <4> QED BY <2>3, <4>1, ClockUpdates, Zenon DEF ClockValue
    <3>2. c \in {current} \cup inside /\ UNCHANGED <<current, inside>>
      BY <2>1 DEF Enter, ReaderAt
    <3>3. reader' \in [Readers -> Reader]
          /\ \A x \in Readers : reader'[x].clock \in {0, reader[x].clock}
      BY <2>1 DEF Enter, Leave
    <3> QED BY <2>3, <3>1, <3>2, <3>3
  <2> QED BY <2>1, <2>2, <2>3, Zenon DEF Enter
<1>3. CASE \E r \in Readers, c \in Clocks : Calibrates(r, c)
  <2>0. PICK r \in Readers : \E c \in Clocks : Calibrates(r, c)
    BY <1>3, Zenon
  <2>1. PICK c \in Clocks : Calibrates(r, c)
    BY <2>0, Zenon
  <2>2. /\ reader' \in [Readers -> Reader] /\ UNCHANGED <<current, inside>>
        /\ \A x \in Readers : reader'[x].clock \in {0, reader[x].clock}
    BY <2>1, Zenon DEF Calibrates, Leave
  <2>3. CASE clock' = clock
    BY <2>2, <2>3, Zenon
  <2>4. CASE clock' = [clock EXCEPT ![c].calibrated = TRUE, ![c].since = 0]
    <3>1. ClockTypeOK'
      BY <2>2, <2>4, ClockUpdates, Zenon DEF ClockValue
    <3> QED BY <2>2, <2>4, <3>1
  <2> QED BY <2>1, <2>3, <2>4, Zenon DEF Calibrates
<1>4. CASE \E c \in Clocks : Read(c)
  <2>1. PICK c \in Clocks : Read(c)
    BY <1>4, Zenon
  <2>2. clock[c].task = "reading" /\ UNCHANGED <<current, reader, inside>>
    BY <2>1, Zenon DEF Read
  <2>3. CASE clock' = [clock EXCEPT ![c].task = "storing"]
    BY <2>2, <2>3
  <2>4. CASE clock' = [clock EXCEPT ![c].task = "clearing"]
    BY <2>2, <2>4
  <2> QED BY <2>1, <2>3, <2>4, Zenon DEF Read
<1>5. CASE \E c \in Clocks : Store(c)
  BY <1>5 DEF Store
<1>6. CASE \E c \in Clocks : Clear(c)
  BY <1>6, SMT, SMTT(30) DEF Clear
<1>7. CASE \E c \in Clocks : Aclose(c)
  <2>1. PICK c \in Clocks : Aclose(c)
    BY <1>7, Zenon
  <2>2. c # 0 /\ c = current /\ current' = 0 /\ clock[c].closer = "open"
    BY <2>1, Zenon DEF Aclose
  <2>3. /\ inside' = inside \cup {d \in {c} : \E r \in Readers : reader[r].clock = d}
        /\ reader' = reader
    BY <2>1, Zenon DEF Aclose
  <2>a. current' = 0 /\ inside \subseteq inside' /\ reader' = reader
    BY <2>2, <2>3, Zenon
  <2>4. \/ clock[c].task = "none" /\ clock' = [clock EXCEPT ![c].closer = "closed"]
        \/ clock[c].task # "none" /\ clock' = [clock EXCEPT ![c].closer = "awaiting", ![c].task = "clearing"]
        \/ clock[c].task # "none" /\ clock' = [clock EXCEPT ![c].closer = "finishing", ![c].task = "none"]
    BY <2>1, Zenon DEF Aclose
  <2>5. \A r \in Readers : reader'[r].clock \in {0, current'} \cup inside'
    BY <2>2, <2>3, Zenon
  <2>6. CASE clock[c].task = "none" /\ clock' = [clock EXCEPT ![c].closer = "closed"]
    BY <2>2, <2>3, <2>5, <2>6
  <2>7. CASE clock[c].task # "none" /\ clock' = [clock EXCEPT ![c].closer = "awaiting", ![c].task = "clearing"]
    <3>1. ClockTypeOK'
      BY <2>2, <2>7, ClockUpdates, Zenon DEF ClockValue
    <3>2. /\ clock'[c].closer = "awaiting" /\ clock'[c].task = "clearing"
          /\ clock'[c].refreshing = clock[c].refreshing /\ clock[c].refreshing
          /\ \A d \in Clocks \ {c} : clock'[d] = clock[d]
      BY <2>7
    <3> QED BY <2>a, <2>5, <3>1, <3>2, ZenonT(30)
  <2>8. CASE clock[c].task # "none" /\ clock' = [clock EXCEPT ![c].closer = "finishing", ![c].task = "none"]
    <3>1. ClockTypeOK'
      BY <2>2, <2>3, <2>8
    <3>2. /\ clock'[c].closer = "finishing" /\ clock'[c].task = "none"
          /\ \A d \in Clocks \ {c} : clock'[d] = clock[d]
      BY <2>8
    <3> QED BY <2>a, <2>2, <2>3, <2>5, <3>1, <3>2
  <2> QED BY <2>4, <2>6, <2>7, <2>8, Zenon
<1>8. CASE \E c \in Clocks : Closed(c)
  <2>1. PICK c \in Clocks : Closed(c)
    BY <1>8, Zenon
  <2>2. CASE clock[c].task = "none"
    <3>1. /\ clock' = [clock EXCEPT ![c].closer = "closed", ![c].refreshing = FALSE]
          /\ UNCHANGED <<current, reader, inside>> /\ clock[c].closer = "finishing"
      BY <2>1, <2>2, Zenon DEF Closed
    <3>2. ClockTypeOK'
      BY <3>1, ClockUpdates, Zenon DEF ClockValue
    <3> QED BY <2>2, <3>1, <3>2
  <2>3. CASE clock[c].task # "none"
    <3>1. /\ clock' = [clock EXCEPT ![c].closer = "closed", ![c].refreshing = TRUE]
          /\ UNCHANGED <<current, reader, inside>> /\ clock[c].closer = "finishing"
      BY <2>1, <2>3, Zenon DEF Closed
    <3>2. ClockTypeOK'
      BY <3>1, ClockUpdates, Zenon DEF ClockValue
    <3> QED BY <2>3, <3>1, <3>2
  <2> QED BY <2>2, <2>3, Zenon
<1>9. CASE ClockTick
  BY <1>9, SMT, SMTT(30) DEF ClockTick
<1> QED BY <1>1, <1>2, <1>3, <1>4, <1>5, <1>6, <1>7, <1>8, <1>9, Zenon DEF ClockNext, ReaderStep, TaskStep

\* For any number of readers and clocks: the refresh flag of a clock is up exactly
\* while a refresh runs or aclose is about to lower it, and no refresh outlives a
\* clock that was closed with no reader inside (RedisQueueClock of clock.py).
THEOREM ClocksStopRefreshing == Spec => []FlagMeansRefresh
<1>1. Init => ClockInv
  BY ClockInit_ClockInv, Zenon DEF Init
<1>2. ClockInv /\ [Next]_vars => ClockInv'
  <2> SUFFICES ASSUME ClockInv, [Next]_vars PROVE ClockInv'
    BY Zenon
  <2>1. ClockNext \/ UNCHANGED clockvars
    BY Zenon DEF Next, vars
  <2>2. CASE ClockNext
    BY <2>2, ClockNext_ClockInv, Zenon
  <2>3. CASE UNCHANGED clockvars
    BY <2>3, Zenon DEF clockvars, ClockInv, FlagMeansRefresh, ClockTypeOK
  <2> QED BY <2>1, <2>2, <2>3, Zenon
<1>3. ClockInv => FlagMeansRefresh
  BY Zenon DEF ClockInv
<1> QED BY <1>1, <1>2, <1>3, PTL DEF Spec

-------------------------------------------------------------------------------
\* What CallsAreCompatible leaves out: the values of a deployment's variables.
LibraryInv ==
    /\ CallsAreCompatible
    /\ deployer \in [Deployers -> [at : {"start", "list", "decide", "release", "done"},
                                   seen : {Absent} \cup {Bundled[d] : d \in Deployers}]]

LEMMA LibraryInit_LibraryInv == LibraryInit => LibraryInv
<1> SUFFICES ASSUME LibraryInit PROVE LibraryInv
  BY Zenon
<1>1. LibraryTypeOK
  BY Zenon DEF LibraryInit, LibraryTypeOK
<1>2. OneDeployment
  BY <1>1, Zenon DEF LibraryInit, OneDeployment, Deploying
<1>3. CallsAreCompatible
  BY <1>2, Zenon DEF LibraryInit, CallsAreCompatible, CallerAt
<1> QED BY <1>3, Zenon DEF LibraryInit, LibraryInv

\* A deployment that no lapsed lease is involved in loads an older API only with
\* --rollback, because the library it compared is the one it replaces.
LEMMA LoadIsNoDowngrade ==
    ASSUME LibraryInv, NEW d \in Deployers, FunctionLoad(d), ApiOf(installed') < ApiOf(installed)
    PROVE  d \in Rollback \cup overrun
<1> SUFFICES ASSUME d \notin overrun PROVE d \in Rollback
  BY Zenon
<1>1. installed \in {Absent} \cup [library : Nat, api : Nat] /\ Bundled[d] \in [library : Nat, api : Nat]
  BY DeploymentConstantsOK DEF LibraryInv, CallsAreCompatible, OneDeployment, LibraryTypeOK
<1>2. Bundled[d] # Absent
  BY <1>1, DeploymentConstantsOK, Zenon
<1>3. deployer[d].seen = installed
  BY Zenon DEF LibraryInv, CallsAreCompatible, OneDeployment, FunctionLoad
<1>4. Loads(d) /\ installed' = Bundled[d]
  BY <1>1 DEF FunctionLoad, ApiOf
<1> QED BY <1>1, <1>2, <1>3, <1>4, Zenon DEF Loads, ApiOf

LEMMA LibraryNext_LibraryInv == LibraryInv /\ LibraryNext => LibraryInv'
<1> SUFFICES ASSUME LibraryInv, LibraryNext PROVE LibraryInv'
  BY Zenon
<1> USE DeploymentConstantsOK
<1> USE DEF LibraryInv, CallsAreCompatible, OneDeployment, LibraryTypeOK, CallerAt, lockvars
<1>1. CASE \E d \in Deployers : Acquire(d)
  <2>1. PICK d \in Deployers : Acquire(d)
    BY <1>1, Zenon
  <2>2. CASE lock = Free
    <3>1. /\ lock' = d /\ deployer' = [deployer EXCEPT ![d] = [at |-> "list", seen |-> Absent]]
          /\ overrun' = IF Beside(d) THEN overrun \cup {d} ELSE overrun
          /\ UNCHANGED <<installed, caller, lapsed, lowered>>
      BY <2>1, <2>2, Zenon DEF Acquire, Moves
    <3>2. \A e \in Deployers \ lapsed : ~Deploying(e)
      BY <2>2, Zenon
    <3>3. \A e \in Deployers \ {d} : deployer'[e] = deployer[e]
      BY <3>1, Zenon
    <3>4. LibraryTypeOK'
      BY <3>1, Zenon
    <3>5. OneDeployment'
      <4>1. \A e \in Deployers \ lapsed' : Deploying(e)' => lock' = e
        BY <3>1, <3>2, <3>3, Zenon DEF Deploying
      <4>2. ASSUME NEW e \in Deployers \ overrun'
            PROVE  /\ Deploying(e)' => ~Beside(e)'
                   /\ deployer'[e].at = "decide" => deployer'[e].seen = installed'
        <5>1. CASE e = d
          <6>1. ~Beside(d) /\ deployer'[d].at = "list"
            BY <3>1, <4>2, <5>1, Zenon
          <6> QED BY <3>3, <5>1, <6>1, Zenon DEF Deploying, Beside
        <5>2. CASE e # d
          <6>1. ~Deploying(e)
            BY <3>1, <3>2, <4>2, Zenon
          <6> QED BY <3>3, <5>2, <6>1, Zenon DEF Deploying
        <5> QED BY <5>1, <5>2, Zenon
      <4> QED BY <3>4, <4>1, <4>2, Zenon
    <3> QED BY <3>1, <3>5, Zenon DEF Compatible
  <2>3. CASE lock # Free
    <3>1. /\ deployer' = [deployer EXCEPT ![d] = [at |-> "done", seen |-> Absent]]
          /\ UNCHANGED <<lock, installed, caller, lapsed, overrun, lowered>>
      BY <2>1, <2>3, Zenon DEF Acquire, Moves
    <3>2. \A e \in Deployers : deployer'[e] = deployer[e] \/ deployer'[e].at = "done"
      BY <3>1, Zenon
    <3>3. \A e \in Deployers : Deploying(e)' => Deploying(e)
      BY <3>2, Zenon DEF Deploying
    <3>4. OneDeployment'
      BY <3>1, <3>2, <3>3, SMT, SMTT(30) DEF Beside
    <3> QED BY <3>1, <3>4, Zenon DEF Compatible
  <2> QED BY <2>2, <2>3, Zenon
<1>2. CASE \E d \in Deployers : FunctionList(d)
  BY <1>2 DEF FunctionList, Deploying, Beside
<1>3. CASE \E d \in Deployers : FunctionLoad(d)
  <2>1. PICK d \in Deployers : FunctionLoad(d)
    BY <1>3, Zenon
  <2>2. OneDeployment'
    BY <2>1, SMT, SMTT(30) DEF FunctionLoad, Moves, Deploying, Beside
  <2>3. deployer' \in [Deployers -> [at : {"start", "list", "decide", "release", "done"},
                                     seen : {Absent} \cup {Bundled[e] : e \in Deployers}]]
    BY <2>1, Zenon DEF FunctionLoad, Moves
  <2>4. ASSUME NEW c \in Callers, c \notin lowered', Compatible(installed)
        PROVE  Compatible(installed')
    <3>1. installed' \in {installed, Bundled[d]} /\ ~(ApiOf(installed') < ApiOf(installed))
      BY <2>1, <2>4, Zenon DEF FunctionLoad
    <3>2. Bundled[d] \in [library : Nat, api : Nat] /\ Bundled[d] # Absent
          /\ installed \in [library : Nat, api : Nat] /\ installed # Absent
      BY <2>4 DEF Compatible
    <3>3. installed' \in [library : Nat, api : Nat] /\ installed' # Absent
      BY <3>1, <3>2, Zenon
    <3> QED BY <2>4, <3>1, <3>2, <3>3 DEF Compatible, ApiOf
  <2>5. caller' = caller /\ lowered \subseteq lowered'
    BY <2>1, Zenon DEF FunctionLoad
  <2> QED BY <2>2, <2>3, <2>4, <2>5, Zenon
<1>4. CASE \E d \in Deployers : Release(d)
  BY <1>4, SMT, SMTT(30) DEF Release, Moves, Deploying, Beside
<1>5. CASE \E d \in Deployers : DeployFails(d)
  BY <1>5, SMT, SMTT(30) DEF DeployFails, Moves, Deploying, Beside
<1>6. CASE \E d \in Deployers : DeployerDies(d)
  BY <1>6, SMT, SMTT(30) DEF DeployerDies, Moves, Deploying, Beside
<1>7. CASE \E d \in Deployers : DeployAgain(d)
  BY <1>7, SMT, SMTT(30) DEF DeployAgain, Moves, Deploying, Beside
<1>8. CASE LeaseEnds
  BY <1>8, Zenon DEF LeaseEnds, Deploying, Beside
<1>9. CASE \E c \in Callers : Fcall(c)
  BY <1>9 DEF Fcall, Deploying, Beside
<1>10. CASE \E c \in Callers : InfoAnswers(c)
  BY <1>10 DEF InfoAnswers, Deploying, Beside
<1>11. CASE \E c \in Callers : CallRuns(c)
  BY <1>11, SMT, SMTT(30) DEF CallRuns, Deploying, Beside
<1>12. CASE \E c \in Callers : ForgetsFlag(c)
  <2>1. PICK c \in Callers : ForgetsFlag(c)
    BY <1>12, Zenon
  <2>2. caller' \in [Callers -> [at : {"idle", "info", "call"}, flag : BOOLEAN]]
    BY <2>1, ZenonT(30) DEF ForgetsFlag
  <2>3. \A x \in Callers : caller'[x].at = caller[x].at /\ (caller'[x].flag => caller[x].flag)
    BY <2>1 DEF ForgetsFlag
  <2>4. UNCHANGED <<lock, installed, deployer, lapsed, overrun, lowered>>
    BY <2>1, Zenon DEF ForgetsFlag
  <2> QED BY <2>2, <2>3, <2>4, Zenon DEF Deploying, Beside, Compatible
<1> QED
  BY <1>1, <1>2, <1>3, <1>4, <1>5, <1>6, <1>7, <1>8, <1>9, <1>10, <1>11, <1>12, ZenonT(40)
  DEF LibraryNext, DeployStep

LEMMA LibraryInvariant == Spec => []LibraryInv
<1>1. Init => LibraryInv
  BY LibraryInit_LibraryInv, Zenon DEF Init
<1>2. LibraryInv /\ [Next]_vars => LibraryInv'
  <2> SUFFICES ASSUME LibraryInv, [Next]_vars PROVE LibraryInv'
    BY Zenon
  <2>1. LibraryNext \/ UNCHANGED libraryvars
    BY Zenon DEF Next, vars
  <2>2. CASE LibraryNext
    BY <2>2, LibraryNext_LibraryInv, Zenon
  <2>3. CASE UNCHANGED libraryvars
    BY <2>3, Zenon DEF libraryvars, LibraryInv, CallsAreCompatible, OneDeployment, LibraryTypeOK,
                CallerAt, Deploying, Beside, Compatible, ApiOf
  <2> QED BY <2>1, <2>2, <2>3, Zenon
<1> QED BY <1>1, <1>2, PTL DEF Spec

\* For any number of deployments and applications: deployments that no lapsed lease
\* is involved in run one at a time, and a Function is called only in a library that
\* is new enough for its caller, unless the API version was lowered since its check
\* (_deployment_lease of redis_lua_lib.py, _ensure_function_compatibility).
THEOREM CallersFindTheirLibrary == Spec => []CallsAreCompatible
<1>1. LibraryInv => CallsAreCompatible
  BY Zenon DEF LibraryInv
<1> QED BY <1>1, LibraryInvariant, PTL

\* For any number of deployments and any libraries: the API version is lowered only
\* with --rollback, or by a deployment that a lapsed lease let run beside another.
THEOREM LibraryIsNotLowered == Spec => NoSilentDowngrade
<1>1. LibraryInv /\ [Next]_vars => [Downgrade]_libraryvars
  <2> SUFFICES ASSUME LibraryInv, Next, ApiOf(installed') < ApiOf(installed)
               PROVE  \E d \in Rollback \cup overrun : FunctionLoad(d)
    BY Zenon DEF Downgrade, vars, libraryvars
  <2>1. installed' # installed
    <3>1. ApiOf(installed) \in Int
      BY DeploymentConstantsOK
         DEF LibraryInv, CallsAreCompatible, OneDeployment, LibraryTypeOK, ApiOf
    <3> QED BY <3>1
  <2>2. LibraryNext
    BY <2>1, Zenon DEF Next, libraryvars
  <2>3. PICK d \in Deployers : FunctionLoad(d)
    BY <2>1, <2>2, Zenon
       DEF LibraryNext, DeployStep, Acquire, FunctionList, Release, DeployFails, DeployerDies,
           DeployAgain, LeaseEnds, Fcall, InfoAnswers, CallRuns, ForgetsFlag
  <2> QED BY <2>3, LoadIsNoDowngrade, Zenon
<1> QED BY <1>1, LibraryInvariant, PTL DEF Spec, NoSilentDowngrade

-------------------------------------------------------------------------------
\* Notifications: how often listener l of r was invoked for a note that r has not
\* missed, and what r has read and has still to read.
Expected(r, n, l) ==
    IF r \notin audience[n] \/ n \in Range(inbox[r]) THEN 0
    ELSE IF At(r, "dispatch") /\ receiver[r].note = n
    THEN IF l < receiver[r].listener THEN 1 ELSE 0
    ELSE 1
Ahead(r, n) == \A m \in Range(inbox[r]) : Position(n) < Position(m)
ReadInv(r) ==
    /\ \A m \in Range(inbox[r]) : m \in Published /\ r \in audience[m]
    /\ \A i, j \in DOMAIN inbox[r] : i < j => Position(inbox[r][i]) < Position(inbox[r][j])
    /\ At(r, "dispatch") =>
          /\ receiver[r].note \in Published /\ r \in audience[receiver[r].note]
          /\ Ahead(r, receiver[r].note)
    /\ \A n \in Notes \ Published, l \in Listeners : tried[r][n][l] = 0
    /\ \A n \in Published, l \in Listeners :
          /\ <<r, n>> \notin missed => tried[r][n][l] = Expected(r, n, l)
          /\ tried[r][n][l] > 0 => Ahead(r, n)

Places == {"down", "expire", "next", "dispatch", "stopped"}
HistoryShapes ==
    /\ published \in Seq(Notes) /\ Injective(published)
    /\ audience \in [Notes -> SUBSET Receivers]
    /\ tried \in [Receivers -> [Notes -> [Listeners -> Nat]]]
    /\ receiver \in [Receivers -> [at : Places, note : Nat, listener : Listeners]]
    /\ inbox \in [Receivers -> Seq(Notes)]
    /\ faults \in 0 .. MaxFaults

\* The stored copies are those with a deadline, and no note with a removal lease.
StoreInv ==
    /\ now \in 0 .. MaxTime
    /\ records = DOMAIN deadlines /\ DOMAIN deadlines \subseteq Published
    /\ deadlines \in [DOMAIN deadlines -> 0 .. MaxTime]
    /\ DOMAIN leases \subseteq Published /\ DOMAIN leases \cap records = {}
    /\ leases \in [DOMAIN leases -> Nat] /\ (~Redis => leases = <<>>)

NotificationsInv == HistoryShapes /\ StoreInv /\ \A r \in Receivers : ReadInv(r)

LEMMA AppendedTo ==
    ASSUME NEW S, NEW list \in Seq(S), NEW e
    PROVE  Range(Append(list, e)) = Range(list) \cup {e}
<1>1. PICK n \in Nat : n = Len(list)
  OBVIOUS
<1>2. PICK new : new = Append(list, e)
  BY Zenon
<1>3. /\ DOMAIN new = 1 .. n + 1 /\ DOMAIN list = 1 .. n
      /\ \A i \in 1 .. n : new[i] = list[i] /\ i \in 1 .. n + 1
      /\ new[n + 1] = e /\ n + 1 \in 1 .. n + 1
      /\ \A i \in 1 .. n + 1 : i \in 1 .. n \/ i = n + 1
  BY <1>1, <1>2
<1>4. Range(new) = Range(list) \cup {e}
  BY <1>3, Zenon DEF Range
<1> QED BY <1>2, <1>4, Zenon

LEMMA PositionOf ==
    ASSUME published \in Seq(Notes), NEW n \in Published
    PROVE  Position(n) \in DOMAIN published /\ published[Position(n)] = n /\ Position(n) \in Nat
<1>1. \E i \in DOMAIN published : published[i] = n
  BY Zenon DEF Published, Range
<1>2. Position(n) \in DOMAIN published /\ published[Position(n)] = n
  BY <1>1, Zenon DEF Position
<1> QED BY <1>2

\* A note that is published comes behind all the others.
LEMMA PublishedLast ==
    ASSUME HistoryShapes, NEW n \in Notes, n \notin Published, published' = Append(published, n)
    PROVE  /\ published' \in Seq(Notes) /\ Injective(published') /\ Published' = Published \cup {n}
           /\ \A m \in Published : Position(m)' = Position(m) /\ Position(m) < Position(n)'
<1>1. published \in Seq(Notes) /\ Injective(published)
  BY Zenon DEF HistoryShapes
<1>2. published' \in Seq(Notes) /\ Injective(published') /\ Published' = Published \cup {n}
  <2>1. PICK k \in Nat : k = Len(published) /\ DOMAIN published = 1 .. k
    BY <1>1
  <2>2. /\ published' \in Seq(Notes) /\ DOMAIN published' = 1 .. k + 1 /\ published'[k + 1] = n
        /\ \A i \in 1 .. k : published'[i] = published[i]
    BY <1>1, <2>1
  <2>3. Published' = Published \cup {n}
    BY <1>1, AppendedTo, Zenon DEF Published
  <2>4. \A i \in 1 .. k : published[i] # n
    BY <2>1, Zenon DEF Published, Range
  <2>5. \A i \in 1 .. k + 1 : i \in 1 .. k \/ i = k + 1
    OBVIOUS
  <2>6. Injective(published')
    <3> SUFFICES ASSUME NEW i \in 1 .. k + 1, NEW j \in 1 .. k + 1, published'[i] = published'[j]
                 PROVE  i = j
      BY <2>2, Zenon DEF Injective
    <3>1. CASE i \in 1 .. k /\ j \in 1 .. k
      BY <1>1, <2>1, <2>2, <3>1, Zenon DEF Injective
    <3> QED BY <2>2, <2>4, <2>5, <3>1, Zenon
  <2> QED BY <2>2, <2>3, <2>6, Zenon
<1>3. PICK k \in Nat : k = Len(published) /\ DOMAIN published = 1 .. k
  BY <1>1
<1>4. /\ DOMAIN published' = 1 .. k + 1 /\ published'[k + 1] = n
      /\ \A i \in 1 .. k : published'[i] = published[i]
  BY <1>1, <1>3
<1>5. \A m \in Published' : (Position(m) \in DOMAIN published /\ published[Position(m)] = m)'
  <2>1. ASSUME NEW m \in Published'
        PROVE  (Position(m) \in DOMAIN published /\ published[Position(m)] = m)'
    <3>1. (\E i \in DOMAIN published : published[i] = m)'
      BY Zenon DEF Published, Range
    <3> QED BY <3>1, Zenon DEF Position
  <2> QED BY <2>1, Zenon
<1>6. Position(n)' = k + 1
  BY <1>2, <1>4, <1>5 DEF Injective
<1>7. ASSUME NEW m \in Published PROVE Position(m)' = Position(m) /\ Position(m) < Position(n)'
  <2>1. PICK i \in 1 .. k : i = Position(m) /\ published[i] = m
    BY <1>1, <1>3, PositionOf, Zenon
  <2>2. published'[i] = m /\ i \in DOMAIN published'
    BY <1>4, <2>1
  <2>3. Position(m)' = i
    BY <1>2, <1>5, <2>2 DEF Injective
  <2> QED BY <1>6, <2>1, <2>3
<1> QED BY <1>2, <1>7, Zenon

\* A receiver that reads no message, or gives up what it has, in whole or in part.
LEMMA GivesUp ==
    ASSUME NEW r \in Receivers, ReadInv(r), UNCHANGED <<published, audience>>, missed \subseteq missed',
           tried'[r] = tried[r],
           \/ inbox'[r] = inbox[r]
           \/ inbox'[r] = <<>> /\ \A n \in Range(inbox[r]) : <<r, n>> \in missed',
           \/ receiver'[r] = receiver[r]
           \/ receiver'[r].at # "dispatch" /\ (At(r, "dispatch") => <<r, receiver[r].note>> \in missed')
    PROVE  ReadInv(r)'
<1>1. Published' = Published /\ \A n : Position(n)' = Position(n)
  BY ZenonT(30) DEF Published, Position
<1>2. Range(<<>>) = {} /\ DOMAIN <<>> = {}
  BY DEF Range
<1>3. Range(inbox'[r]) \subseteq Range(inbox[r])
  BY <1>2, ZenonT(30)
<1>4. \A n : Ahead(r, n) => Ahead(r, n)'
  BY <1>1, <1>3, ZenonT(30) DEF Ahead
<1>5. At(r, "dispatch")' => At(r, "dispatch") /\ receiver'[r] = receiver[r]
  BY ZenonT(30) DEF At
<1>6. \A m \in Range(inbox'[r]) : m \in Published' /\ r \in audience'[m]
  BY <1>1, <1>3, ZenonT(30) DEF ReadInv
<1>7. (\A i, j \in DOMAIN inbox[r] : i < j => Position(inbox[r][i]) < Position(inbox[r][j]))'
  <2>1. CASE inbox'[r] = <<>>
    BY <1>2, <2>1, Zenon
  <2>2. CASE inbox'[r] = inbox[r]
    BY <2>2 DEF ReadInv, Position
  <2> QED BY <2>1, <2>2, ZenonT(30)
<1>8. At(r, "dispatch")' =>
        /\ receiver'[r].note \in Published' /\ r \in audience'[receiver'[r].note]
        /\ Ahead(r, receiver[r].note)'
  BY <1>1, <1>4, <1>5, Zenon DEF ReadInv, Ahead
<1>9. \A n \in Notes \ Published', l \in Listeners : tried'[r][n][l] = 0
  BY <1>1, ZenonT(30) DEF ReadInv
<1>10. ASSUME NEW n \in Published', NEW l \in Listeners
       PROVE  /\ <<r, n>> \notin missed' => tried'[r][n][l] = Expected(r, n, l)'
              /\ tried'[r][n][l] > 0 => Ahead(r, n)'
  <2>1. tried'[r][n][l] > 0 => Ahead(r, n)'
    BY <1>1, <1>4, <1>10, ZenonT(30) DEF ReadInv
  <2>2. ASSUME <<r, n>> \notin missed' PROVE tried'[r][n][l] = Expected(r, n, l)'
    <3>1. n \in Range(inbox'[r]) <=> n \in Range(inbox[r])
      BY <1>3, <2>2, ZenonT(30)
    <3>2. (At(r, "dispatch") /\ receiver[r].note = n)' <=> At(r, "dispatch") /\ receiver[r].note = n
      BY <1>5, <2>2, ZenonT(30) DEF At
    <3>3. At(r, "dispatch")' => receiver'[r].listener = receiver[r].listener
      BY <1>5, ZenonT(30)
    <3>4. Expected(r, n, l)' = Expected(r, n, l)
      BY <3>1, <3>2, <3>3, ZenonT(30) DEF Expected
    <3>5. tried[r][n][l] = Expected(r, n, l)
      BY <1>1, <1>10, <2>2, ZenonT(30) DEF ReadInv
    <3> QED BY <3>4, <3>5, ZenonT(30)
  <2> QED BY <2>1, <2>2, ZenonT(30)
<1> QED BY <1>6, <1>7, <1>8, <1>9, <1>10, ZenonT(30) DEF ReadInv

\* A note is published: those it reaches have it last in their inbox.
LEMMA PublishedReads ==
    ASSUME HistoryShapes, NEW r \in Receivers, ReadInv(r),
           NEW n \in Notes, n \notin Published, published' = Append(published, n),
           NEW A \in SUBSET Receivers, audience' = [audience EXCEPT ![n] = A],
           inbox'[r] = IF r \in A THEN Append(inbox[r], n) ELSE inbox[r],
           UNCHANGED <<receiver, tried, missed>>
    PROVE  ReadInv(r)'
<1>1. /\ audience \in [Notes -> SUBSET Receivers] /\ inbox[r] \in Seq(Notes) /\ published \in Seq(Notes)
      /\ Published \subseteq Notes
  BY DEF HistoryShapes, Published, Range
<1>2. /\ Published' = Published \cup {n}
      /\ \A m \in Published : Position(m)' = Position(m) /\ Position(m) < Position(n)'
  BY PublishedLast, Zenon
<1>3. audience'[n] = A /\ \A m \in Published : audience'[m] = audience[m]
  BY <1>1, Zenon
<1>4. PICK k \in Nat : k = Len(inbox[r]) /\ DOMAIN inbox[r] = 1 .. k
  <2>1. Len(inbox[r]) \in Nat /\ DOMAIN inbox[r] = 1 .. Len(inbox[r])
    BY <1>1, SMT, SMTT(30)
  <2> QED BY <2>1, Zenon
<1>5. r \in A =>
        /\ DOMAIN inbox'[r] = 1 .. k + 1 /\ inbox'[r][k + 1] = n
        /\ \A i \in 1 .. k : inbox'[r][i] = inbox[r][i]
  BY <1>1, <1>4
<1>6. Range(inbox'[r]) = IF r \in A THEN Range(inbox[r]) \cup {n} ELSE Range(inbox[r])
  BY <1>1, AppendedTo, ZenonT(30)
<1>7. \A m \in Range(inbox[r]) : m \in Published /\ r \in audience[m]
  BY Zenon DEF ReadInv
<1>8. \A m \in Published : Ahead(r, m) => Ahead(r, m)'
  <2>1. ASSUME NEW m \in Published, Ahead(r, m), NEW x \in Range(inbox'[r])
        PROVE  Position(m)' < Position(x)'
    <3>1. CASE x = n
      BY <1>2, <3>1, Zenon
    <3>2. CASE x \in Range(inbox[r])
      BY <1>2, <1>7, <2>1, <3>2, ZenonT(30) DEF Ahead
    <3> QED BY <1>6, <3>1, <3>2, ZenonT(30)
  <2> QED BY <2>1, ZenonT(30) DEF Ahead
<1>9. \A m \in Range(inbox'[r]) : m \in Published' /\ r \in audience'[m]
  BY <1>2, <1>3, <1>6, <1>7, ZenonT(30)
<1>10. (\A i, j \in DOMAIN inbox[r] : i < j => Position(inbox[r][i]) < Position(inbox[r][j]))'
  <2>1. \A i, j \in DOMAIN inbox[r] : i < j => Position(inbox[r][i]) < Position(inbox[r][j])
    BY ZenonT(30) DEF ReadInv
  <2>2. \A i \in DOMAIN inbox[r] : inbox[r][i] \in Range(inbox[r])
    BY ZenonT(30) DEF Range
  <2>4. ASSUME NEW i \in DOMAIN inbox'[r], NEW j \in DOMAIN inbox'[r], i < j
        PROVE  (Position(inbox[r][i]) < Position(inbox[r][j]))'
    <3>1. i \in 1 .. k /\ inbox'[r][i] = inbox[r][i]
      BY <1>4, <1>5, <2>4
    <3>2. PICK x \in Published : x = inbox[r][i]
      BY <1>4, <1>7, <2>2, <3>1, Zenon
    <3>3. PICK y \in Published' : y = inbox'[r][j]
      BY <1>9, ZenonT(30) DEF Range
    <3>4. Position(x)' < Position(y)'
      <4>1. CASE j \in 1 .. k
        <5>1. y = inbox[r][j] /\ y \in Published
          BY <1>4, <1>5, <1>7, <2>2, <3>3, <4>1, ZenonT(30)
        <5> QED BY <1>2, <1>4, <2>1, <2>4, <3>1, <3>2, <4>1, <5>1, ZenonT(30)
      <4>2. CASE j \notin 1 .. k
        <5>1. y = n
          BY <1>4, <1>5, <3>3, <4>2
        <5> QED BY <1>2, <5>1, ZenonT(30)
      <4> QED BY <4>1, <4>2, Zenon
    <3>5. x = (inbox[r][i])' /\ y = (inbox[r][j])'
      BY <3>1, <3>2, <3>3, Zenon
    <3> QED BY <3>4, <3>5, ZenonT(30)
  <2> QED BY <2>4, ZenonT(30)
<1>11. At(r, "dispatch")' =>
        /\ receiver'[r].note \in Published' /\ r \in audience'[receiver'[r].note]
        /\ Ahead(r, receiver[r].note)'
  <2>1. ASSUME At(r, "dispatch")'
        PROVE  /\ receiver'[r].note \in Published' /\ r \in audience'[receiver'[r].note]
               /\ Ahead(r, receiver[r].note)'
    <3>1. PICK x : x = receiver[r].note /\ x = receiver'[r].note
      BY ZenonT(30)
    <3>2. x \in Published /\ r \in audience[x] /\ Ahead(r, x)
      BY <2>1, <3>1, ZenonT(30) DEF At, ReadInv
    <3>3. Ahead(r, x)'
      BY <1>8, <3>2, ZenonT(30)
    <3> QED BY <1>2, <1>3, <3>1, <3>2, <3>3, ZenonT(30)
  <2> QED BY <2>1, ZenonT(30)
<1>12. \A m \in Notes \ Published', l \in Listeners : tried'[r][m][l] = 0
  BY <1>2, ZenonT(30) DEF ReadInv
<1>13. ASSUME NEW m \in Published', NEW l \in Listeners
       PROVE  /\ <<r, m>> \notin missed' => tried'[r][m][l] = Expected(r, m, l)'
              /\ tried'[r][m][l] > 0 => Ahead(r, m)'
  <2>1. CASE m = n
    <3>1. tried'[r][m][l] = 0
      BY <2>1, ZenonT(30) DEF ReadInv
    <3>2. Expected(r, m, l)' = 0
      BY <1>3, <1>6, <2>1, ZenonT(30) DEF Expected
    <3> QED BY <3>1, <3>2
  <2>2. CASE m \in Published
    <3>1. m \in Range(inbox'[r]) <=> m \in Range(inbox[r])
      BY <1>6, <2>2, ZenonT(30)
    <3>2. Expected(r, m, l)' = Expected(r, m, l)
      BY <1>3, <2>2, <3>1, ZenonT(30) DEF Expected, At
    <3> QED BY <1>8, <2>2, <3>2, ZenonT(30) DEF ReadInv
  <2> QED BY <1>2, <2>1, <2>2, ZenonT(30)
<1> QED BY <1>9, <1>10, <1>11, <1>12, <1>13, ZenonT(30) DEF ReadInv

\* A receiver takes the first message of its inbox.
LEMMA NextReads ==
    ASSUME HistoryShapes, NEW r \in Receivers, ReadInv(r), ~At(r, "dispatch"), inbox[r] # <<>>,
           receiver'[r] = [at |-> "dispatch", note |-> Head(inbox[r]), listener |-> 1],
           inbox'[r] = Tail(inbox[r]), UNCHANGED <<published, audience, tried, missed>>
    PROVE  ReadInv(r)'
<1>1. inbox[r] \in Seq(Notes)
  BY Zenon DEF HistoryShapes
<1>2. PICK k \in Nat : k = Len(inbox[r]) /\ DOMAIN inbox[r] = 1 .. k
  <2>1. Len(inbox[r]) \in Nat /\ DOMAIN inbox[r] = 1 .. Len(inbox[r])
    BY <1>1, SMT, SMTT(30)
  <2> QED BY <2>1, Zenon
<1>3. /\ k > 0 /\ DOMAIN inbox'[r] = 1 .. k - 1 /\ Head(inbox[r]) = inbox[r][1]
      /\ \A i \in 1 .. k - 1 : inbox'[r][i] = inbox[r][i + 1]
  BY <1>1, <1>2
<1>4. PICK h : h = inbox[r][1]
  BY ZenonT(30)
<1>5. /\ receiver'[r].at = "dispatch" /\ receiver'[r].note = h /\ receiver'[r].listener = 1
  BY <1>3, <1>4
<1>6. /\ h \in Range(inbox[r])
      /\ \A m \in Range(inbox'[r]) : \E i \in 2 .. k : m = inbox[r][i]
      /\ \A i \in 2 .. k : inbox[r][i] \in Range(inbox'[r])
  <2>1. h \in Range(inbox[r])
    BY <1>2, <1>3, <1>4, SMT, SMTT(30) DEF Range
  <2>2. \A i \in 1 .. k - 1 : i + 1 \in 2 .. k
    OBVIOUS
  <2>3. \A m \in Range(inbox'[r]) : \E i \in 2 .. k : m = inbox[r][i]
    BY <1>3, <2>2, ZenonT(30) DEF Range
  <2>4. ASSUME NEW i \in 2 .. k PROVE inbox[r][i] \in Range(inbox'[r])
    <3>1. i - 1 \in 1 .. k - 1 /\ (i - 1) + 1 = i
      OBVIOUS
    <3>2. inbox'[r][i - 1] = inbox[r][i]
      BY <1>3, <3>1, ZenonT(30)
    <3> QED BY <1>3, <3>1, <3>2, ZenonT(30) DEF Range
  <2> QED BY <2>1, <2>3, <2>4, ZenonT(30)
<1>7. Published' = Published /\ \A n : Position(n)' = Position(n)
  BY ZenonT(30) DEF Published, Position
<1>8. /\ \A m \in Range(inbox[r]) : m \in Published /\ r \in audience[m]
      /\ \A i, j \in DOMAIN inbox[r] : i < j => Position(inbox[r][i]) < Position(inbox[r][j])
  BY ZenonT(30) DEF ReadInv
<1>9. Range(inbox'[r]) \subseteq Range(inbox[r]) /\ \A m \in Range(inbox[r]) : m = h \/ m \in Range(inbox'[r])
  <2>1. Range(inbox'[r]) \subseteq Range(inbox[r])
    <3>1. \A i \in 2 .. k : i \in DOMAIN inbox[r]
      BY <1>2
    <3>2. \A i \in DOMAIN inbox[r] : inbox[r][i] \in Range(inbox[r])
      BY ZenonT(30) DEF Range
    <3> QED BY <1>6, <3>1, <3>2, ZenonT(30)
  <2>2. ASSUME NEW m \in Range(inbox[r]) PROVE m = h \/ m \in Range(inbox'[r])
    <3>1. PICK i \in 1 .. k : m = inbox[r][i]
      BY <1>2, ZenonT(30) DEF Range
    <3>2. i = 1 \/ i \in 2 .. k
      OBVIOUS
    <3> QED BY <1>4, <1>6, <3>1, <3>2, ZenonT(30)
  <2> QED BY <2>1, <2>2, ZenonT(30)
<1>10. \A m \in Range(inbox'[r]) : Position(h) < Position(m)
  <2>1. ASSUME NEW i \in 2 .. k PROVE Position(h) < Position(inbox[r][i])
    <3>1. 1 \in DOMAIN inbox[r] /\ i \in DOMAIN inbox[r] /\ 1 < i
      BY <1>2, <1>3
    <3> QED BY <1>4, <1>8, <3>1, ZenonT(30)
  <2> QED BY <1>6, <2>1, ZenonT(30)
<1>11. h \notin Range(inbox'[r])
  <2>1. h \in Published /\ published \in Seq(Notes)
    BY <1>6, <1>8, ZenonT(30) DEF HistoryShapes
  <2>2. Position(h) \in Nat
    BY <2>1, PositionOf, ZenonT(30)
  <2>3. ~(Position(h) < Position(h))
    BY <2>2
  <2> QED BY <1>10, <2>3, ZenonT(30)
<1>12. \A m \in Range(inbox'[r]) : m \in Published' /\ r \in audience'[m]
  BY <1>7, <1>8, <1>9, ZenonT(30)
<1>13. (\A i, j \in DOMAIN inbox[r] : i < j => Position(inbox[r][i]) < Position(inbox[r][j]))'
  <2>1. ASSUME NEW i \in DOMAIN inbox'[r], NEW j \in DOMAIN inbox'[r], i < j
        PROVE  (Position(inbox[r][i]) < Position(inbox[r][j]))'
    <3>1. /\ i \in 1 .. k - 1 /\ j \in 1 .. k - 1
          /\ i + 1 \in DOMAIN inbox[r] /\ j + 1 \in DOMAIN inbox[r] /\ i + 1 < j + 1
      BY <1>2, <1>3, <2>1
    <3>2. PICK x, y : x = inbox[r][i + 1] /\ y = inbox[r][j + 1]
      BY ZenonT(30)
    <3>3. Position(x)' < Position(y)'
      BY <1>7, <1>8, <3>1, <3>2, ZenonT(30)
    <3>4. x = (inbox[r][i])' /\ y = (inbox[r][j])'
      BY <1>3, <3>1, <3>2, ZenonT(30)
    <3> QED BY <3>3, <3>4, ZenonT(30)
  <2> QED BY <2>1, ZenonT(30)
<1>14. At(r, "dispatch")' =>
        /\ receiver'[r].note \in Published' /\ r \in audience'[receiver'[r].note]
        /\ Ahead(r, receiver[r].note)'
  <2>1. Ahead(r, h)'
    BY <1>7, <1>10, ZenonT(30) DEF Ahead
  <2>2. h = (receiver[r].note)'
    BY <1>5, ZenonT(30)
  <2>3. h \in Published' /\ r \in audience'[h]
    BY <1>6, <1>7, <1>8, ZenonT(30)
  <2> QED BY <2>1, <2>2, <2>3, ZenonT(30)
<1>15. \A n \in Notes \ Published', l \in Listeners : tried'[r][n][l] = 0
  BY <1>7, ZenonT(30) DEF ReadInv
<1>16. ASSUME NEW n \in Published', NEW l \in Listeners
       PROVE  /\ <<r, n>> \notin missed' => tried'[r][n][l] = Expected(r, n, l)'
              /\ tried'[r][n][l] > 0 => Ahead(r, n)'
  <2>1. tried'[r][n][l] > 0 => Ahead(r, n)'
    <3>1. Ahead(r, n) => Ahead(r, n)'
      BY <1>7, <1>9, ZenonT(30) DEF Ahead
    <3> QED BY <1>7, <3>1, ZenonT(30) DEF ReadInv
  <2>2. <<r, n>> \notin missed => tried[r][n][l] = Expected(r, n, l)
    BY <1>7, ZenonT(30) DEF ReadInv
  <2>3. CASE n = h
    <3>1. Expected(r, n, l) = 0
      BY <1>6, <2>3, ZenonT(30) DEF Expected
    <3>2. ~(l < 1)
      BY SMT, SMTT(30) DEF Listeners
    <3>3. Expected(r, n, l)' = 0
      BY <1>5, <2>3, <3>2, Zenon DEF Expected, At
    <3> QED BY <2>1, <2>2, <3>1, <3>3, ZenonT(30)
  <2>4. CASE n # h
    <3>1. n \in Range(inbox'[r]) <=> n \in Range(inbox[r])
      BY <1>9, <2>4, ZenonT(30)
    <3>2. Expected(r, n, l)' = Expected(r, n, l)
      BY <1>5, <2>4, <3>1, ZenonT(30) DEF Expected
    <3> QED BY <2>1, <2>2, <3>2, ZenonT(30)
  <2> QED BY <2>3, <2>4, ZenonT(30)
<1> QED BY <1>12, <1>13, <1>14, <1>15, <1>16, ZenonT(30) DEF ReadInv

\* A listener is invoked: its receiver goes on to the next one, or is done.
LEMMA DispatchReads ==
    ASSUME HistoryShapes, NEW r \in Receivers, ReadInv(r), NEW outcome, Dispatch(r, outcome)
    PROVE  ReadInv(r)' /\ HistoryShapes'
<1>1. /\ tried \in [Receivers -> [Notes -> [Listeners -> Nat]]] /\ Published \subseteq Notes
      /\ receiver \in [Receivers -> [at : Places, note : Nat, listener : Listeners]]
      /\ published \in Seq(Notes) /\ NumListeners \in Nat \ {0}
  BY NotificationConstantsOK DEF HistoryShapes, Published, Range
<1>2. PICK h \in Published : h = receiver[r].note
  BY Zenon DEF Dispatch, ReadInv
<1>3. PICK p \in Listeners : p = receiver[r].listener
  BY <1>1, Zenon
<1>4. receiver[r].at = "dispatch" /\ UNCHANGED <<published, audience, inbox, missed, faults>>
  BY Zenon DEF Dispatch, At
<1>5. /\ receiver' \in [Receivers -> [at : Places, note : Nat, listener : Listeners]]
      /\ p >= NumListeners => receiver'[r].at = "expire"
      /\ p < NumListeners => /\ receiver'[r].at = "dispatch" /\ receiver'[r].note = h
                             /\ receiver'[r].listener = p + 1
  <2>1. receiver[r] \in [at : Places, note : Nat, listener : Listeners]
    BY <1>1, Zenon
  <2>2. "expire" \in Places
    BY Zenon DEF Places
  <2>3. PICK new : new = AfterListener(r, outcome)
    BY Zenon
  <2>4. receiver' = [receiver EXCEPT ![r] = new]
    BY <2>3, Zenon DEF Dispatch
  <2>5. CASE p >= NumListeners
    <3>1. new = [receiver[r] EXCEPT !.at = "expire"]
      BY <1>3, <2>3, <2>5, Zenon DEF AfterListener
    <3>2. new \in [at : Places, note : Nat, listener : Listeners] /\ new.at = "expire"
      BY <2>1, <2>2, <3>1, Zenon
    <3>3. ~(p < NumListeners)
      BY <1>1, <2>5 DEF Listeners
    <3> QED BY <1>1, <2>4, <3>2, <3>3, Zenon
  <2>6. CASE p < NumListeners
    <3>1. ~(p >= NumListeners) /\ p + 1 \in Listeners
      BY <1>1, <2>6 DEF Listeners
    <3>2. new = [receiver[r] EXCEPT !.listener = p + 1]
      BY <1>3, <2>3, <3>1, Zenon DEF AfterListener
    <3>3. /\ new \in [at : Places, note : Nat, listener : Listeners]
          /\ new.at = "dispatch" /\ new.note = h /\ new.listener = p + 1
      BY <1>2, <1>4, <2>1, <3>1, <3>2, Zenon
    <3> QED BY <1>1, <2>4, <3>1, <3>3, Zenon
  <2> QED BY <1>1, <2>5, <2>6 DEF Listeners
<1>6. /\ tried' \in [Receivers -> [Notes -> [Listeners -> Nat]]]
      /\ tried'[r][h][p] = tried[r][h][p] + 1
      /\ \A l \in Listeners : l # p => tried'[r][h][l] = tried[r][h][l]
      /\ \A n \in Notes : n # h => tried'[r][n] = tried[r][n]
  <2>1. tried' = [tried EXCEPT ![r][h][p] = tried[r][h][p] + 1]
    BY <1>2, <1>3, Zenon DEF Dispatch
  <2>2. h \in Notes /\ tried[r][h][p] \in Nat
    BY <1>1
  <2> QED BY <1>1, <2>1, <2>2, SMT, SMTT(30)
<1>7. HistoryShapes'
  BY <1>4, <1>5, <1>6, Zenon DEF HistoryShapes
<1>8. Published' = Published /\ \A n : Position(n)' = Position(n)
  BY <1>4, Zenon DEF Published, Position
<1>9. \A n : Ahead(r, n)' <=> Ahead(r, n)
  BY <1>4, <1>8, ZenonT(30) DEF Ahead
<1>10. Ahead(r, h) /\ r \in audience[h] /\ h \notin Range(inbox[r])
  <2>1. Ahead(r, h) /\ r \in audience[h]
    BY <1>2, <1>4, Zenon DEF ReadInv, At
  <2>2. Position(h) \in Nat
    BY <1>1, PositionOf, Zenon
  <2> QED BY <2>1, <2>2 DEF Ahead
<1>11. \A m \in Range(inbox'[r]) : m \in Published' /\ r \in audience'[m]
  BY <1>4, <1>8, ZenonT(30) DEF ReadInv
<1>12. (\A i, j \in DOMAIN inbox[r] : i < j => Position(inbox[r][i]) < Position(inbox[r][j]))'
  BY <1>4 DEF ReadInv, Position
<1>13. At(r, "dispatch")' =>
        /\ receiver'[r].note \in Published' /\ r \in audience'[receiver'[r].note]
        /\ Ahead(r, receiver[r].note)'
  <2>1. SUFFICES ASSUME At(r, "dispatch")'
                 PROVE  /\ receiver'[r].note \in Published' /\ r \in audience'[receiver'[r].note]
                        /\ Ahead(r, receiver[r].note)'
    BY Zenon
  <2>2. receiver'[r].note = h
    BY <1>1, <1>5, <2>1 DEF At, Listeners
  <2>3. h \in Published' /\ r \in audience'[h] /\ Ahead(r, h)'
    BY <1>4, <1>8, <1>9, <1>10, ZenonT(30)
  <2>4. Ahead(r, receiver[r].note)'
    BY <2>2, <2>3, Zenon DEF Ahead, Position
  <2> QED BY <2>2, <2>3, <2>4, Zenon
<1>14. \A n \in Notes \ Published', l \in Listeners : tried'[r][n][l] = 0
  <2> SUFFICES ASSUME NEW n \in Notes \ Published', NEW l \in Listeners PROVE tried'[r][n][l] = 0
    BY Zenon
  <2>1. n \in Notes \ Published /\ n # h
    BY <1>8, Zenon
  <2>2. tried'[r][n] = tried[r][n]
    BY <1>6, <2>1, Zenon
  <2>3. tried[r][n][l] = 0
    BY <2>1, ZenonT(30) DEF ReadInv
  <2> QED BY <2>2, <2>3, Zenon
<1>15. ASSUME NEW n \in Published', NEW l \in Listeners
       PROVE  /\ <<r, n>> \notin missed' => tried'[r][n][l] = Expected(r, n, l)'
              /\ tried'[r][n][l] > 0 => Ahead(r, n)'
  <2>1. /\ <<r, n>> \notin missed => tried[r][n][l] = Expected(r, n, l)
        /\ tried[r][n][l] > 0 => Ahead(r, n)
    BY <1>8, ZenonT(30) DEF ReadInv
  <2>2. CASE n # h
    <3>1. tried'[r][n][l] = tried[r][n][l]
      BY <1>1, <1>6, <1>8, <2>2, Zenon
    <3>2. ~(At(r, "dispatch") /\ receiver[r].note = n) /\ ~(At(r, "dispatch") /\ receiver[r].note = n)'
      BY <1>1, <1>2, <1>5, <2>2 DEF At, Listeners
    <3>3. Expected(r, n, l)' = Expected(r, n, l)
      BY <1>4, <3>2, ZenonT(30) DEF Expected
    <3> QED BY <1>4, <1>9, <2>1, <3>1, <3>3, ZenonT(30)
  <2>3. CASE n = h
    <3>1. Expected(r, n, l) = IF l < p THEN 1 ELSE 0
      BY <1>2, <1>3, <1>4, <1>10, <2>3, ZenonT(30) DEF Expected, At
    <3>2. Expected(r, n, l)' = IF l <= p THEN 1 ELSE 0
      <4>1. CASE p >= NumListeners
        <5>1. Expected(r, n, l)' = 1
          BY <1>4, <1>5, <1>10, <2>3, <4>1, Zenon DEF Expected, At
        <5>2. l <= p
          BY <1>1, <4>1 DEF Listeners
        <5> QED BY <5>1, <5>2, Zenon
      <4>2. CASE p < NumListeners
        <5>1. Expected(r, n, l)' = IF l < p + 1 THEN 1 ELSE 0
          BY <1>4, <1>5, <1>10, <2>3, <4>2, Zenon DEF Expected, At
        <5>2. l < p + 1 <=> l <= p
          BY DEF Listeners
        <5> QED BY <5>1, <5>2, Zenon
      <4> QED BY <1>1, <4>1, <4>2 DEF Listeners
    <3>3. Ahead(r, n)'
      BY <1>9, <1>10, <2>3, ZenonT(30)
    <3>4. CASE l = p
      <4>1. ~(l < p) /\ l <= p
        BY <3>4 DEF Listeners
      <4>2. tried'[r][n][l] = tried[r][n][l] + 1
        BY <1>6, <2>3, <3>4, Zenon
      <4>3. Expected(r, n, l) = 0 /\ Expected(r, n, l)' = 1
        BY <3>1, <3>2, <4>1, Zenon
      <4>4. 0 + 1 = 1
        OBVIOUS
      <4> QED BY <1>4, <2>1, <3>3, <4>2, <4>3, <4>4, Zenon
    <3>5. CASE l # p
      <4>1. l <= p <=> l < p
        BY <3>5 DEF Listeners
      <4>2. tried'[r][n][l] = tried[r][n][l]
        BY <1>6, <2>3, <3>5, ZenonT(30)
      <4> QED BY <1>4, <2>1, <3>1, <3>2, <3>3, <4>1, <4>2, Zenon
    <3> QED BY <3>4, <3>5, ZenonT(30)
  <2> QED BY <2>2, <2>3, Zenon
<1> QED BY <1>7, <1>11, <1>12, <1>13, <1>14, <1>15, ZenonT(30) DEF ReadInv

\* What an expiry does to the store.
LEMMA ExpiredStore ==
    ASSUME StoreInv, Expired, UNCHANGED <<backend, now, published>>
    PROVE  StoreInv'
<1>1. /\ Expiring \subseteq DOMAIN deadlines /\ Published' = Published
      /\ records = DOMAIN deadlines /\ DOMAIN deadlines \subseteq Published
      /\ deadlines \in [DOMAIN deadlines -> 0 .. MaxTime]
  BY Zenon DEF Expiring, DueAt, Published, StoreInv
<1>2. PICK S \in SUBSET DOMAIN deadlines : S = Expiring
  BY <1>1, Zenon
<1>3. /\ records' = records \ S /\ DOMAIN deadlines' = DOMAIN deadlines \ S
      /\ deadlines' \in [DOMAIN deadlines' -> 0 .. MaxTime]
  BY <1>1, <1>2, Zenon DEF Expired, Without
<1>4. now \in Nat /\ now + RemovalLease \in Nat
  BY NotificationConstantsOK DEF StoreInv
<1>5. /\ DOMAIN leases' \subseteq DOMAIN leases \cup S /\ leases' \in [DOMAIN leases' -> Nat]
      /\ ~Redis => leases' = leases
  <2>1. leases \in [DOMAIN leases -> Nat]
    BY Zenon DEF StoreInv
  <2>2. leases' = Lease(S)
    BY <1>2, Zenon DEF Expired
  <2>3. CASE Redis
    <3>1. leases' = [n \in DOMAIN leases \cup S |-> IF n \in S THEN now + RemovalLease ELSE leases[n]]
      BY <2>2, <2>3, Zenon DEF Lease
    <3> QED BY <1>4, <2>1, <2>3, <3>1, Zenon
  <2>4. CASE ~Redis
    <3>1. leases' = leases
      BY <2>2, <2>4, Zenon DEF Lease
    <3> QED BY <2>1, <2>4, <3>1, Zenon
  <2> QED BY <2>3, <2>4, Zenon
<1>6. DOMAIN leases' \subseteq Published /\ DOMAIN leases' \cap records' = {}
  BY <1>1, <1>3, <1>5, Zenon DEF StoreInv
<1>7. ~Redis' => leases' = <<>>
  BY <1>5, Zenon DEF StoreInv, Redis
<1>8. now' \in 0 .. MaxTime
  BY Zenon DEF StoreInv
<1> QED BY <1>1, <1>3, <1>5, <1>6, <1>7, <1>8, Zenon DEF StoreInv

LEMMA NoteStored ==
    ASSUME StoreInv, HistoryShapes, NEW n \in Notes, NEW life \in Lifetimes, NotificationStore(n, life)
    PROVE  StoreInv'
<1>1. Published' = Published \cup {n} /\ n \notin Published
  BY PublishedLast, Zenon DEF NotificationStore
<1>2. now + life \in 0 .. MaxTime
  BY NotificationConstantsOK DEF StoreInv, NotificationStore
<1>3. /\ records' = records \cup {n} /\ leases' = leases /\ now' = now /\ backend' = backend
      /\ deadlines' = Zadd(deadlines, n, now + life)
  BY Zenon DEF NotificationStore
<1>4. DOMAIN deadlines' = DOMAIN deadlines \cup {n} /\ deadlines' \in [DOMAIN deadlines' -> 0 .. MaxTime]
  BY <1>2, <1>3, Zenon DEF StoreInv, Zadd
<1> QED BY <1>1, <1>3, <1>4, Zenon DEF StoreInv, Redis

LEMMA StoreCleared ==
    ASSUME StoreInv, NotificationClear
    PROVE  StoreInv'
<1>1. /\ records' = records \ DOMAIN deadlines /\ deadlines' = <<>>
      /\ leases' = Without(leases, DOMAIN deadlines) /\ UNCHANGED <<backend, now, published>>
  BY Zenon DEF NotificationClear
<1>2. records' = {} /\ DOMAIN deadlines' = {} /\ deadlines' \in [DOMAIN deadlines' -> 0 .. MaxTime]
  BY <1>1 DEF StoreInv
<1>3. DOMAIN leases' \subseteq DOMAIN leases /\ leases' \in [DOMAIN leases' -> Nat]
  BY <1>1, Zenon DEF StoreInv, Without
<1>4. ~Redis => leases' = <<>>
  BY <1>1, Zenon DEF StoreInv, Without
<1> QED BY <1>1, <1>2, <1>3, <1>4, Zenon DEF StoreInv, Published, Redis

LEMMA StoreTicks ==
    ASSUME StoreInv, Tick
    PROVE  StoreInv'
<1>1. /\ now' = now + 1 /\ now < MaxTime /\ UNCHANGED <<backend, records, deadlines, published>>
      /\ leases' = Without(leases, DueAt(leases, now + 1))
  BY Zenon DEF Tick, history
<1>2. now' \in 0 .. MaxTime
  BY <1>1, NotificationConstantsOK DEF StoreInv
<1>3. DOMAIN leases' \subseteq DOMAIN leases /\ leases' \in [DOMAIN leases' -> Nat]
  BY <1>1, Zenon DEF StoreInv, Without
<1>4. ~Redis => leases' = <<>>
  BY <1>1 DEF StoreInv, Without
<1> QED BY <1>1, <1>2, <1>3, <1>4, Zenon DEF StoreInv, Published, Redis

LEMMA StoreSame ==
    ASSUME StoreInv, UNCHANGED <<backend, records, deadlines, leases, now, published>>
    PROVE  StoreInv'
  BY Zenon DEF StoreInv, Published, Redis

\* A receiver goes on elsewhere.
LEMMA GoesElsewhere ==
    ASSUME HistoryShapes, NEW r \in Receivers, NEW where \in Places, Go(r, where)
    PROVE  /\ receiver' \in [Receivers -> [at : Places, note : Nat, listener : Listeners]]
           /\ receiver'[r].at = where /\ \A x \in Receivers \ {r} : receiver'[x] = receiver[x]
<1>1. receiver \in [Receivers -> [at : Places, note : Nat, listener : Listeners]]
  BY Zenon DEF HistoryShapes
<1>2. PICK new : new = [receiver[r] EXCEPT !.at = where]
  BY Zenon
<1>3. new \in [at : Places, note : Nat, listener : Listeners] /\ new.at = where
  BY <1>1, <1>2, Zenon
<1>4. receiver' = [receiver EXCEPT ![r] = new]
  BY <1>2, Zenon DEF Go
<1> QED BY <1>1, <1>3, <1>4, Zenon

\* A step of a receiver that reads and gives up nothing.
LEMMA QuietReceiver ==
    ASSUME NotificationsInv, NEW r \in Receivers, ~At(r, "dispatch"),
           NEW where \in Places, where # "dispatch", Go(r, where),
           UNCHANGED <<inbox, faults, published, audience, tried, missed>>, StoreInv'
    PROVE  NotificationsInv'
<1>1. HistoryShapes /\ \A x \in Receivers : ReadInv(x)
  BY Zenon DEF NotificationsInv
<1>2. /\ receiver' \in [Receivers -> [at : Places, note : Nat, listener : Listeners]]
      /\ receiver'[r].at = where /\ \A x \in Receivers \ {r} : receiver'[x] = receiver[x]
  BY <1>1, GoesElsewhere, Zenon
<1>3. HistoryShapes'
  BY <1>1, <1>2, Zenon DEF HistoryShapes
<1>4. ASSUME NEW x \in Receivers PROVE ReadInv(x)'
  BY <1>1, <1>2, GivesUp, Zenon
<1> QED BY <1>3, <1>4, Zenon DEF NotificationsInv

LEMMA SubscribedInv ==
    ASSUME NotificationsInv, NEW r \in Receivers, EnsureSubscribed(r) \/ ExpireDue(r)
    PROVE  NotificationsInv'
<1>1. "expire" \in Places /\ "next" \in Places
  BY Zenon DEF Places
<1>2. CASE EnsureSubscribed(r)
  <2>1. StoreInv'
    BY <1>2, StoreSame, Zenon DEF NotificationsInv, EnsureSubscribed, store, history
  <2> QED BY <1>1, <1>2, <2>1, QuietReceiver, ZenonT(30) DEF EnsureSubscribed, history, At
<1>3. CASE ExpireDue(r)
  <2>1. StoreInv'
    BY <1>3, ExpiredStore, Zenon DEF NotificationsInv, ExpireDue, history
  <2> QED BY <1>1, <1>3, <2>1, QuietReceiver, Zenon DEF ExpireDue, history, At
<1> QED BY <1>2, <1>3, Zenon

LEMMA NextMessageInv ==
    ASSUME NotificationsInv, NEW r \in Receivers, NextMessage(r)
    PROVE  NotificationsInv'
<1>1. StoreInv'
  BY StoreSame, Zenon DEF NotificationsInv, NextMessage, store, history
<1>2. CASE inbox[r] = <<>>
  <2>1. "expire" \in Places
    BY Zenon DEF Places
  <2> QED BY <1>1, <1>2, <2>1, QuietReceiver, Zenon DEF NextMessage, history, At
<1>3. CASE inbox[r] # <<>>
  <2>1. HistoryShapes /\ \A x \in Receivers : ReadInv(x)
    BY Zenon DEF NotificationsInv
  <2>2. /\ inbox[r] \in Seq(Notes) /\ Tail(inbox[r]) \in Seq(Notes) /\ Head(inbox[r]) \in Nat
        /\ inbox \in [Receivers -> Seq(Notes)]
        /\ receiver \in [Receivers -> [at : Places, note : Nat, listener : Listeners]]
    <3>1. inbox[r] \in Seq(Notes)
      BY <2>1, Zenon DEF HistoryShapes
    <3>2. Tail(inbox[r]) \in Seq(Notes) /\ Head(inbox[r]) \in Notes
      BY <1>3, <3>1
    <3> QED BY <2>1, <3>1, <3>2, NotificationConstantsOK, Zenon DEF HistoryShapes
  <2>3. PICK new : new = [at |-> "dispatch", note |-> Head(inbox[r]), listener |-> 1]
    BY Zenon
  <2>4. new \in [at : Places, note : Nat, listener : Listeners]
    BY <2>2, <2>3, NotificationConstantsOK DEF Places, Listeners
  <2>5. /\ receiver' = [receiver EXCEPT ![r] = new] /\ inbox' = [inbox EXCEPT ![r] = Tail(inbox[r])]
        /\ UNCHANGED <<faults, published, audience, tried, missed>> /\ ~At(r, "dispatch")
    BY <1>3, <2>3, Zenon DEF NextMessage, history, At
  <2>6. /\ receiver' \in [Receivers -> [at : Places, note : Nat, listener : Listeners]]
        /\ inbox' \in [Receivers -> Seq(Notes)] /\ receiver'[r] = new /\ inbox'[r] = Tail(inbox[r])
        /\ \A x \in Receivers \ {r} : receiver'[x] = receiver[x] /\ inbox'[x] = inbox[x]
    BY <2>2, <2>4, <2>5, Zenon
  <2>7. HistoryShapes'
    BY <2>1, <2>5, <2>6, Zenon DEF HistoryShapes
  <2>8. ReadInv(r)'
    BY <1>3, <2>1, <2>3, <2>5, <2>6, NextReads, ZenonT(30)
  <2>9. ASSUME NEW x \in Receivers \ {r} PROVE ReadInv(x)'
    BY <2>1, <2>5, <2>6, GivesUp, Zenon
  <2> QED BY <1>1, <2>7, <2>8, <2>9, Zenon DEF NotificationsInv
<1> QED BY <1>2, <1>3, ZenonT(30)

LEMMA DispatchInv ==
    ASSUME NotificationsInv, NEW r \in Receivers, NEW outcome, Dispatch(r, outcome)
    PROVE  NotificationsInv'
<1>1. StoreInv'
  BY StoreSame, Zenon DEF NotificationsInv, Dispatch, store
<1>2. HistoryShapes /\ \A x \in Receivers : ReadInv(x)
  BY Zenon DEF NotificationsInv
<1>3. ReadInv(r)' /\ HistoryShapes'
  BY <1>2, DispatchReads, Zenon
<1>4. ASSUME NEW x \in Receivers \ {r} PROVE ReadInv(x)'
  <2>1. /\ receiver'[x] = receiver[x] /\ tried'[x] = tried[x]
        /\ UNCHANGED <<inbox, published, audience, missed>>
    BY <1>2, Zenon DEF HistoryShapes, Dispatch
  <2> QED BY <1>2, <2>1, GivesUp, ZenonT(30)
<1> QED BY <1>1, <1>3, <1>4, Zenon DEF NotificationsInv

LEMMA StopInv ==
    ASSUME NotificationsInv, NEW r \in Receivers, NEW where \in Places, where # "dispatch", Stop(r, where)
    PROVE  NotificationsInv'
<1>1. StoreInv'
  BY StoreSame, Zenon DEF NotificationsInv, Stop, store
<1>2. HistoryShapes /\ \A x \in Receivers : ReadInv(x)
  BY Zenon DEF NotificationsInv
<1>3. /\ receiver' \in [Receivers -> [at : Places, note : Nat, listener : Listeners]]
      /\ receiver'[r].at = where /\ \A x \in Receivers \ {r} : receiver'[x] = receiver[x]
  BY <1>2, GoesElsewhere, Zenon DEF Stop
<1>4. /\ inbox' \in [Receivers -> Seq(Notes)] /\ \A x \in Receivers \ {r} : inbox'[x] = inbox[x]
      /\ inbox'[r] = inbox[r] \/ (Redis /\ inbox'[r] = <<>>)
  <2>1. inbox \in [Receivers -> Seq(Notes)] /\ <<>> \in Seq(Notes)
    BY <1>2 DEF HistoryShapes
  <2> QED BY <2>1, Zenon DEF Stop
<1>5. faults' \in 0 .. MaxFaults
  <2>1. faults \in 0 .. MaxFaults /\ faults < MaxFaults /\ faults' = faults + 1
    BY <1>2, Zenon DEF Stop, HistoryShapes
  <2>2. MaxFaults \in Nat
    BY NotificationConstantsOK, Zenon
  <2> QED BY <2>1, <2>2
<1>6. HistoryShapes'
  BY <1>2, <1>3, <1>4, <1>5, Zenon DEF HistoryShapes, Stop
<1>7. /\ missed \subseteq missed' /\ UNCHANGED <<published, audience, tried>>
      /\ Redis => \A n \in Range(inbox[r]) : <<r, n>> \in missed'
      /\ At(r, "dispatch") => <<r, receiver[r].note>> \in missed'
  BY Zenon DEF Stop, Unread
<1>8. ASSUME NEW x \in Receivers PROVE ReadInv(x)'
  <2>1. CASE x = r
    BY <1>2, <1>3, <1>4, <1>7, <2>1, GivesUp, ZenonT(30)
  <2>2. CASE x # r
    BY <1>2, <1>3, <1>4, <1>7, <2>2, GivesUp, Zenon
  <2> QED BY <2>1, <2>2, Zenon
<1> QED BY <1>1, <1>6, <1>8, Zenon DEF NotificationsInv

LEMMA NoteStoredInv ==
    ASSUME NotificationsInv, NEW n \in Notes, NEW life \in Lifetimes, NotificationStore(n, life)
    PROVE  NotificationsInv'
<1>1. HistoryShapes /\ StoreInv /\ \A x \in Receivers : ReadInv(x)
  BY Zenon DEF NotificationsInv
<1>2. StoreInv'
  BY <1>1, NoteStored, Zenon
<1>3. PICK A \in SUBSET Receivers : A = Audience
  BY NotificationConstantsOK, Zenon DEF Audience, Running
<1>4. /\ n \notin Published /\ published' = Append(published, n) /\ audience' = [audience EXCEPT ![n] = A]
      /\ UNCHANGED <<receiver, faults, tried, missed>>
  BY <1>3, Zenon DEF NotificationStore
<1>5. inbox' = [r \in Receivers |-> IF r \in A THEN Append(inbox[r], n) ELSE inbox[r]]
  BY <1>3, Zenon DEF NotificationStore, PublishNote
<1>6. inbox' \in [Receivers -> Seq(Notes)]
  <2>1. \A r \in Receivers : inbox[r] \in Seq(Notes) /\ Append(inbox[r], n) \in Seq(Notes)
    BY <1>1 DEF HistoryShapes
  <2> QED BY <1>5, <2>1, Zenon
<1>7. published' \in Seq(Notes) /\ Injective(published')
  BY <1>1, <1>4, PublishedLast, Zenon
<1>8. audience' \in [Notes -> SUBSET Receivers]
  BY <1>1, <1>4, Zenon DEF HistoryShapes
<1>9. HistoryShapes'
  BY <1>1, <1>4, <1>6, <1>7, <1>8, Zenon DEF HistoryShapes
<1>10. ASSUME NEW r \in Receivers PROVE ReadInv(r)'
  <2>1. inbox'[r] = IF r \in A THEN Append(inbox[r], n) ELSE inbox[r]
    BY <1>5, Zenon
  <2> QED BY <1>1, <1>4, <2>1, PublishedReads, Zenon
<1> QED BY <1>2, <1>9, <1>10, Zenon DEF NotificationsInv

LEMMA NotesClearedInv ==
    ASSUME NotificationsInv, NotificationClear
    PROVE  NotificationsInv'
<1>1. HistoryShapes /\ StoreInv /\ \A x \in Receivers : ReadInv(x)
  BY Zenon DEF NotificationsInv
<1>2. StoreInv'
  BY <1>1, StoreCleared, Zenon
<1>3. UNCHANGED <<receiver, faults, published, audience, tried>>
  BY ZenonT(40) DEF NotificationClear
<1>4. /\ inbox' \in [Receivers -> Seq(Notes)] /\ missed \subseteq missed'
      /\ \A r \in Receivers :
            \/ inbox'[r] = inbox[r]
            \/ inbox'[r] = <<>> /\ \A n \in Range(inbox[r]) : <<r, n>> \in missed'
  <2>1. inbox \in [Receivers -> Seq(Notes)] /\ <<>> \in Seq(Notes)
    BY <1>1 DEF HistoryShapes
  <2>2. CASE Redis
    BY <2>1, <2>2, ZenonT(30) DEF NotificationClear
  <2>3. CASE ~Redis
    <3>1. /\ inbox' = [inbox EXCEPT ![Home] = <<>>]
          /\ missed' = missed \cup {<<Home, n>> : n \in Range(inbox[Home])}
      BY <2>3, Zenon DEF NotificationClear
    <3>2. \A n \in Range(inbox[Home]) : <<Home, n>> \in missed'
      BY <3>1, Zenon
    <3>3. ASSUME NEW r \in Receivers
          PROVE  \/ inbox'[r] = inbox[r]
                 \/ inbox'[r] = <<>> /\ \A n \in Range(inbox[r]) : <<r, n>> \in missed'
      <4>1. CASE r = Home
        BY <2>1, <3>1, <3>2, <4>1, Zenon
      <4>2. CASE r # Home
        BY <2>1, <3>1, <4>2, Zenon
      <4> QED BY <4>1, <4>2, Zenon
    <3> QED BY <2>1, <3>1, <3>3, Zenon
  <2> QED BY <2>2, <2>3, Zenon
<1>5. HistoryShapes'
  BY <1>1, <1>3, <1>4, Zenon DEF HistoryShapes
<1>6. ASSUME NEW r \in Receivers PROVE ReadInv(r)'
  BY <1>1, <1>3, <1>4, GivesUp, Zenon
<1> QED BY <1>2, <1>5, <1>6, Zenon DEF NotificationsInv

\* Nothing but time, or nothing at all.
LEMMA NotesSame ==
    ASSUME NotificationsInv, UNCHANGED <<inbox, receiver, faults, published, audience, tried, missed>>, StoreInv'
    PROVE  NotificationsInv'
<1>1. HistoryShapes'
  BY Zenon DEF NotificationsInv, HistoryShapes
<1>2. ASSUME NEW r \in Receivers PROVE ReadInv(r)'
  BY GivesUp, Zenon DEF NotificationsInv
<1> QED BY <1>1, <1>2, Zenon DEF NotificationsInv

LEMMA NotificationsStart ==
    ASSUME NotificationsInit
    PROVE  NotificationsInv
<1>1. Range(<<>>) = {} /\ DOMAIN <<>> = {} /\ <<>> \in Seq(Notes)
  BY SMT, SMTT(30) DEF Range
<1>2. Published = {}
  BY <1>1, Zenon DEF NotificationsInit, Published
<1>3. StoreInv
  BY <1>1, <1>2, NotificationConstantsOK DEF NotificationsInit, StoreInv
<1>4. HistoryShapes
  <2>1. receiver \in [Receivers -> [at : Places, note : Nat, listener : Listeners]]
    BY NotificationConstantsOK, SMT, SMTT(30) DEF NotificationsInit, Places, Listeners
  <2>2. inbox \in [Receivers -> Seq(Notes)] /\ published \in Seq(Notes) /\ Injective(published)
    BY <1>1, Zenon DEF NotificationsInit, Injective
  <2>3. audience \in [Notes -> SUBSET Receivers] /\ tried \in [Receivers -> [Notes -> [Listeners -> Nat]]]
    BY Zenon DEF NotificationsInit
  <2>4. faults \in 0 .. MaxFaults
    BY NotificationConstantsOK DEF NotificationsInit
  <2> QED BY <2>1, <2>2, <2>3, <2>4, Zenon DEF HistoryShapes
<1>5. ASSUME NEW r \in Receivers PROVE ReadInv(r)
  <2>1. inbox[r] = <<>> /\ receiver[r].at = "down" /\ \A n \in Notes, l \in Listeners : tried[r][n][l] = 0
    BY Zenon DEF NotificationsInit
  <2> QED BY <1>1, <1>2, <2>1, Zenon DEF ReadInv, At
<1> QED BY <1>3, <1>4, <1>5, Zenon DEF NotificationsInv

LEMMA NotificationsStep ==
    ASSUME NotificationsInv, [NotificationsNext]_notificationvars
    PROVE  NotificationsInv'
<1>1. ASSUME NEW n \in Notes, NEW life \in Lifetimes, NotificationStore(n, life) PROVE NotificationsInv'
  BY <1>1, NoteStoredInv, Zenon
<1>2. CASE NotificationClear
  BY <1>2, NotesClearedInv, Zenon
<1>3. CASE Tick
  <2>1. StoreInv'
    BY <1>3, StoreTicks, Zenon DEF NotificationsInv
  <2> QED BY <1>3, <2>1, NotesSame, Zenon DEF Tick, history
<1>4. ASSUME NEW r \in Receivers, ReceiverStep(r) \/ CallFails(r) \/ ReceiverCancelled(r)
      PROVE  NotificationsInv'
  <2>1. CASE EnsureSubscribed(r) \/ ExpireDue(r)
    BY <2>1, SubscribedInv, Zenon
  <2>2. CASE NextMessage(r)
    BY <2>2, NextMessageInv, Zenon
  <2>3. CASE \E outcome \in Outcomes : Dispatch(r, outcome)
    BY <2>3, DispatchInv, Zenon
  <2>4. CASE CallFails(r) \/ ReceiverCancelled(r)
    <3>1. "down" \in Places /\ "stopped" \in Places
      BY Zenon DEF Places
    <3>2. CASE Stop(r, "down")
      BY <3>1, <3>2, StopInv, Zenon
    <3>3. CASE Stop(r, "stopped")
      BY <3>1, <3>3, StopInv, Zenon
    <3> QED BY <2>4, <3>2, <3>3, Zenon DEF CallFails, ReceiverCancelled
  <2> QED BY <1>4, <2>1, <2>2, <2>3, <2>4, Zenon DEF ReceiverStep
<1>5. CASE UNCHANGED notificationvars
  <2>1. StoreInv'
    BY <1>5, StoreSame, Zenon DEF NotificationsInv, notificationvars, store, history
  <2> QED BY <1>5, <2>1, NotesSame, Zenon DEF notificationvars, history
<1> QED BY <1>1, <1>2, <1>3, <1>4, <1>5, Zenon DEF NotificationsNext

LEMMA ListenersOnce ==
    ASSUME NotificationsInv
    PROVE  EveryListenerOnce
<1>1. HistoryShapes /\ StoreInv /\ \A x \in Receivers : ReadInv(x)
  BY Zenon DEF NotificationsInv
<1>2. Published \subseteq Notes
  BY <1>1, SMT, SMTT(30) DEF HistoryShapes, Published, Range
<1>3. NotificationsTypeOK
  <2>1. \A r \in Receivers :
          /\ receiver[r].at \in {"down", "expire", "next", "dispatch", "stopped"}
          /\ receiver[r].listener \in Listeners
    BY <1>1, Zenon DEF HistoryShapes, Places
  <2>2. \A r \in Receivers : At(r, "dispatch") => receiver[r].note \in Published
    BY <1>1, Zenon DEF ReadInv
  <2>3. records \subseteq Notes /\ DOMAIN deadlines \subseteq Notes /\ DOMAIN leases \subseteq Notes
    BY <1>1, <1>2, Zenon DEF StoreInv
  <2> QED BY <1>1, <2>1, <2>2, <2>3, Zenon DEF NotificationsTypeOK, StoreInv, HistoryShapes
<1>4. ASSUME NEW r \in Receivers, NEW n \in Published, NEW l \in Listeners
      PROVE  /\ <<r, n>> \notin missed =>
                  tried[r][n][l] =
                      IF r \notin audience[n] \/ n \in Range(inbox[r]) THEN 0
                      ELSE IF At(r, "dispatch") /\ receiver[r].note = n
                      THEN IF l < receiver[r].listener THEN 1 ELSE 0
                      ELSE 1
             /\ tried[r][n][l] > 0 => \A m \in Range(inbox[r]) : Position(n) < Position(m)
  BY <1>1, Zenon DEF ReadInv, Expected, Ahead
<1> QED BY <1>3, <1>4, Zenon DEF EveryListenerOnce

\* A receiver that has moved on from a note it read has invoked every listener
\* exactly once for it, in the order of publication (NotificationQueueWorker,
\* whatever fails, is stopped, cleared or expires meanwhile).
THEOREM ListenersRunOnce == NotificationsSpec => []EveryListenerOnce
<1>1. NotificationsInit => NotificationsInv
  BY NotificationsStart, Zenon
<1>2. NotificationsInv /\ [NotificationsNext]_notificationvars => NotificationsInv'
  BY NotificationsStep, Zenon
<1>3. NotificationsInv => EveryListenerOnce
  BY ListenersOnce, Zenon
<1> QED BY <1>1, <1>2, <1>3, PTL DEF NotificationsSpec

\* One copy expires at a time, a due one with the earliest deadline.
LEMMA OneExpires ==
    ASSUME NotificationsInv, Expired
    PROVE  ExpiresInTurn
<1>1. /\ HistoryShapes /\ StoreInv /\ records = DOMAIN deadlines /\ DOMAIN deadlines \subseteq Published
      /\ \A n \in DOMAIN deadlines : deadlines[n] \in Nat /\ n \in Nat
      /\ records' = records \ Expiring /\ Expiring \subseteq DOMAIN deadlines
  <2>1. HistoryShapes /\ StoreInv
    BY Zenon DEF NotificationsInv
  <2>2. Published \subseteq Nat
    <3>1. published \in Seq(Notes) /\ Notes \subseteq Nat
      BY <2>1, NotificationConstantsOK, Zenon DEF HistoryShapes
    <3>2. \A i \in DOMAIN published : published[i] \in Notes
      <4>1. published \in Seq(Notes)
        BY <3>1, Zenon
      <4> QED BY <4>1
    <3> QED BY <3>1, <3>2, Zenon DEF Published, Range
  <2>3. records = DOMAIN deadlines /\ DOMAIN deadlines \subseteq Published
    BY <2>1, Zenon DEF StoreInv
  <2>4. \A n \in DOMAIN deadlines : deadlines[n] \in Nat
    <3>1. deadlines \in [DOMAIN deadlines -> 0 .. MaxTime]
      BY <2>1, Zenon DEF StoreInv
    <3> QED BY <3>1
  <2>5. records' = records \ Expiring /\ Expiring \subseteq DOMAIN deadlines
    BY Zenon DEF Expired, Expiring, DueAt
  <2> QED BY <2>1, <2>2, <2>3, <2>4, <2>5, Zenon
<1>2. CASE Expiring = {}
  BY <1>1, <1>2, Zenon DEF ExpiresInTurn
<1>3. ASSUME NEW n \in Expiring PROVE ExpiresInTurn
  <2>1. n \in DOMAIN deadlines /\ deadlines[n] <= now /\ \A m \in DOMAIN deadlines \ {n} : Sooner(n, m)
    BY <1>3, Zenon DEF Expiring, DueAt
  <2>2. \A m \in DOMAIN deadlines : Position(m) \in Nat
    BY <1>1, PositionOf, Zenon DEF HistoryShapes
  <2>3. \A m \in DOMAIN deadlines \ {n} : deadlines[n] <= deadlines[m] /\ ~Sooner(m, n)
    <3>1. ASSUME NEW m \in DOMAIN deadlines \ {n} PROVE deadlines[n] <= deadlines[m] /\ ~Sooner(m, n)
      <4>1. /\ deadlines[n] \in Nat /\ deadlines[m] \in Nat /\ n \in Nat /\ m \in Nat
            /\ Position(n) \in Nat /\ Position(m) \in Nat /\ Sooner(n, m)
        BY <1>1, <2>1, <2>2, Zenon
      <4>2. CASE Redis
        BY <4>1, <4>2, SMT, SMTT(30) DEF Sooner, Before
      <4>3. CASE ~Redis
        BY <4>1, <4>3, SMT, SMTT(30) DEF Sooner
      <4> QED BY <4>2, <4>3, Zenon
    <3> QED BY <3>1, Zenon
  <2>4. Expiring = {n}
    BY <1>3, <2>1, <2>3, Zenon DEF Expiring, DueAt
  <2>5. \A m \in records : deadlines[n] <= deadlines[m]
    BY <1>1, <2>1, <2>3, SMT, SMTT(30)
  <2> QED BY <1>1, <2>1, <2>4, <2>5, Zenon DEF ExpiresInTurn
<1> QED BY <1>2, <1>3, Zenon

\* What is gone is not stored again, and had no copy when its lease was taken.
LEMMA CopiesGo ==
    ASSUME NotificationsInv, [NotificationsNext]_notificationvars
    PROVE  [ExpiresInTurn /\ StaysGone]_notificationvars
<1>1. StoreInv /\ HistoryShapes
  BY Zenon DEF NotificationsInv
<1>2. StaysGone
  <2>1. SUFFICES ASSUME NEW n \in Published, ~Found(n) PROVE ~Found(n)'
    BY Zenon DEF StaysGone
  <2>2. n \notin records
    BY <1>1, <2>1, Zenon DEF Found, StoreInv
  <2>3. n \notin records'
    BY <2>1, <2>2, Zenon DEF NotificationsNext, NotificationStore, NotificationClear, Tick, ReceiverStep,
          EnsureSubscribed, ExpireDue, Expired, NextMessage, Dispatch, CallFails, ReceiverCancelled, Stop,
          store, notificationvars
  <2> QED BY <2>3, Zenon DEF Found
<1>3. CASE records' = records
  BY <1>2, <1>3, Zenon DEF ExpiresInTurn
<1>4. ASSUME NEW n \in Notes, NEW life \in Lifetimes, NotificationStore(n, life)
      PROVE  ExpiresInTurn
  BY <1>4, Zenon DEF NotificationStore, ExpiresInTurn
<1>5. CASE NotificationClear
  BY <1>2, <1>5, Zenon DEF ExpiresInTurn
<1>6. ASSUME NEW r \in Receivers, ExpireDue(r) PROVE ExpiresInTurn
  BY <1>6, OneExpires, Zenon DEF ExpireDue
<1>7. CASE Tick \/ UNCHANGED notificationvars
  BY <1>3, <1>7, Zenon DEF Tick, notificationvars, store
<1>8. ASSUME NEW r \in Receivers,
             \/ EnsureSubscribed(r) \/ NextMessage(r) \/ (\E outcome \in Outcomes : Dispatch(r, outcome))
             \/ CallFails(r) \/ ReceiverCancelled(r)
      PROVE  records' = records
  BY <1>8, Zenon DEF EnsureSubscribed, NextMessage, Dispatch, CallFails, ReceiverCancelled, Stop, store
<1> QED BY <1>2, <1>3, <1>4, <1>5, <1>6, <1>7, <1>8, Zenon DEF NotificationsNext, ReceiverStep

\* A stored copy leaves by a clear or, one at a time and earliest first, once its
\* lifetime is over, however many receivers tick, and does not come back
\* (django_queue_notification_expire, aexpire_due_notifications).
THEOREM CopiesExpireInTurn == NotificationsSpec => [][ExpiresInTurn /\ StaysGone]_notificationvars
<1>1. NotificationsInit => NotificationsInv
  BY NotificationsStart, Zenon
<1>2. NotificationsInv /\ [NotificationsNext]_notificationvars => NotificationsInv'
  BY NotificationsStep, Zenon
<1>3. NotificationsInv /\ [NotificationsNext]_notificationvars => [ExpiresInTurn /\ StaysGone]_notificationvars
  BY CopiesGo, Zenon
<1> QED BY <1>1, <1>2, <1>3, PTL DEF NotificationsSpec

===============================================================================
