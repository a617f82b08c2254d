---------------------------- MODULE StartupProofs ----------------------------
(* Theorems about Startup, for any number of attempts and any configurations. *)
EXTENDS Startup, TLAPS

\* Before the first task is spawned there is nothing an attempt could leave
\* behind, and this is where attempts fail; the SDK's loop is spawned alone,
\* then the rest, each once.
BeforeSpawning == {"loading", "connecting", "enabling", "announcing", "waiting", "exited"}

TasksInv ==
    /\ tasks \in [Task -> 0 .. 1]
    /\ phase \in BeforeSpawning => tasks = NoTasks /\ notices = {}
    /\ phase = "launching" =>
         notices = {} /\ \A t \in Task \ {"sdk"} : tasks[t] = 0

AttemptInv ==
    /\ attempt \in 1 .. MaxAttempts
    /\ phase = "waiting" => attempt < MaxAttempts

\* What the notice says was decided before the receiver chose its address.
NoticeInv ==
    /\ phase # "serving" => listener = {}
    /\ phase = "serving" => listener = {ListenAddress(config)}
    /\ phase \in {"binding", "serving"} =>
         ("receiver_unreachable" \in notices
             <=> SaidLoopback(config) /\ config.polling = "off")

ShapeInv ==
    /\ config \in Config
    /\ phase \in BeforeSpawning \cup {"launching", "binding", "serving"}
    /\ code \in {"none", "success", "failure"}
    /\ uploads \in {"never", "fresh", "old"}
    /\ notices \subseteq Reported \cup {"receiver_unreachable"}
    /\ page \subseteq Reported \cup {"receiver_unreachable"}

StartupInv == ShapeInv /\ TasksInv /\ AttemptInv /\ NoticeInv

LEMMA InitEstablishes == Init => StartupInv
  BY AttemptsAssumption
     DEF Init, StartupInv, ShapeInv, TasksInv, AttemptInv, NoticeInv, NoTasks, Task,
         BeforeSpawning, Reported

\* A step of main's keeps the invariant.
LEMMA MainKeeps == ASSUME StartupInv, Main PROVE StartupInv'
<1> USE AttemptsAssumption
    DEF StartupInv, ShapeInv, TasksInv, AttemptInv, NoticeInv, NoTasks, Task,
        BeforeSpawning, Reported, Goto
<1>1. CASE LoadConfig \/ Retry \/ Connect \/ EnableManagement
  <2>1. /\ phase' \in {"connecting", "enabling", "announcing"}
        /\ UNCHANGED <<config, code, tasks, listener, uploads, notices, page>>
        /\ tasks = NoTasks /\ listener = {} /\ notices = {}
    BY <1>1 DEF LoadConfig, Retry, Connect, EnableManagement
  <2>2. attempt' \in 1 .. MaxAttempts
    BY <1>1 DEF LoadConfig, Retry, Connect, EnableManagement
  <2> QED BY <2>1, <2>2
<1>2. CASE LoadFails
  BY <1>2 DEF LoadFails, Exit, NothingLeft
<1>3. CASE ConnectFails
  <2>1. CASE attempt < MaxAttempts
    <3>1. /\ phase' = "waiting"
          /\ UNCHANGED <<config, attempt, code, tasks, listener, uploads, notices, page>>
          /\ tasks = NoTasks /\ listener = {} /\ notices = {}
      BY <1>3, <2>1 DEF ConnectFails, AttemptFails
    <3> QED BY <2>1, <3>1
  <2>2. CASE attempt = MaxAttempts
    BY <1>3, <2>2 DEF ConnectFails, AttemptFails, Exit, NothingLeft
  <2> QED BY <1>3, <2>1, <2>2 DEF ConnectFails, AttemptFails
<1>4. CASE StartSdkLoop
  BY <1>4 DEF StartSdkLoop
<1>5. CASE Launch
  <2>1. tasks' \in [Task -> 0 .. 1]
    BY <1>5 DEF Launch, Spawned
  <2>2. "receiver_unreachable" \in notices'
          <=> SaidLoopback(config) /\ config.polling = "off"
    BY <1>5 DEF Launch
  <2> QED BY <1>5, <2>1, <2>2 DEF Launch, SaidLoopback
<1>6. CASE Listen
  BY <1>6 DEF Listen, ListenAddress, SaidLoopback
<1>7. CASE ListenFails
  BY <1>7 DEF ListenFails, Exit, NothingLeft
<1> QED BY <1>1, <1>2, <1>3, <1>4, <1>5, <1>6, <1>7 DEF Main

\* So does every other step.
LEMMA RestKeeps ==
  ASSUME StartupInv, [Next]_vars, ~Main PROVE StartupInv'
<1> USE AttemptsAssumption
    DEF StartupInv, ShapeInv, TasksInv, AttemptInv, NoticeInv, NoTasks, Task,
        BeforeSpawning, Reported, mainVars
<1>1. CASE ServerEnds
  BY <1>1 DEF ServerEnds, Exit, NothingLeft
<1>2. ASSUME NEW t \in Task, Ends(t) PROVE StartupInv'
  BY <1>2 DEF Ends, SaidLoopback, ListenAddress
<1>3. CASE Upload \/ Silence
  BY <1>3 DEF Upload, Silence, SaidLoopback, ListenAddress
<1>4. CASE Check
  <2>1. phase \in {"binding", "serving"}
    BY <1>4 DEF Check
  <2>2. /\ notices' \subseteq Reported \cup {"receiver_unreachable"}
        /\ "receiver_unreachable" \in notices' <=> "receiver_unreachable" \in notices
    BY <1>4 DEF Check
  <2> QED BY <1>4, <2>1, <2>2 DEF Check, SaidLoopback, ListenAddress
<1>5. CASE Relaunch
  BY <1>5 DEF Relaunch, NothingLeft
<1>6. CASE Deliver
  BY <1>6 DEF Deliver, SaidLoopback, ListenAddress
<1>7. CASE UNCHANGED vars
  BY <1>7 DEF vars, SaidLoopback, ListenAddress
<1> QED BY <1>1, <1>2, <1>3, <1>4, <1>5, <1>6, <1>7 DEF Next, SdkLoopEnds, PollerPanics

THEOREM InvariantHolds == Spec => []StartupInv
<1>1. StartupInv /\ [Next]_vars => StartupInv'
  BY MainKeeps, RestKeeps
<1> QED BY InitEstablishes, <1>1, PTL DEF Spec

\* Types, the bound on attempts, and nothing left of a process that ended.
THEOREM TypeCorrect == Spec => []TypeOK
<1>1. StartupInv => TypeOK
  BY AttemptsAssumption, ConfigAssumption
     DEF StartupInv, ShapeInv, TasksInv, AttemptInv, NoticeInv, NoTasks, Task,
         BeforeSpawning, TypeOK, ListenAddress, Bind
<1> QED BY InvariantHolds, <1>1, PTL

\* However often start-up fails and is retried, no two attempts' tasks run side
\* by side: what can fail an attempt comes before what it spawns.
THEOREM AttemptsDoNotPileUpHolds == Spec => []AttemptsDoNotPileUp
<1>1. StartupInv => AttemptsDoNotPileUp
  BY DEF StartupInv, TasksInv, AttemptsDoNotPileUp
<1> QED BY InvariantHolds, <1>1, PTL

\* In every configuration but one with an address left empty, the notice about
\* the receiver's address agrees with where it listens.
THEOREM UnreachableIsSaidHolds == Spec => []UnreachableIsSaid
<1>1. StartupInv => UnreachableIsSaid
  <2> SUFFICES ASSUME StartupInv, phase = "serving", config.polling # "blank"
               PROVE  "receiver_unreachable" \in notices
                        <=> listener = {"loopback"} /\ config.polling = "off"
    BY DEF UnreachableIsSaid
  <2>1. listener = {"loopback"} <=> SaidLoopback(config)
    BY ConfigAssumption DEF StartupInv, ShapeInv, NoticeInv, ListenAddress, SaidLoopback, Bind
  <2> QED BY <2>1 DEF StartupInv, NoticeInv
<1> QED BY InvariantHolds, <1>1, PTL

=============================================================================
