------------------------------- MODULE Startup -------------------------------
(* The life of a plugin process: main's attempts, the tasks an attempt       *)
(* leaves behind, the receiver, and what becomes of the process when one of  *)
(* them ends.  Only try_start's first two calls can fail it; from the first  *)
(* spawned task on, every failure is logged and survived, but for the        *)
(* receiver's, with which the process ends.  A notice is raised by any task, *)
(* but only the SDK's loop, the process's one line to homeCore, can put it   *)
(* on the plugin page.  The watchdog's timing is SilenceWatch's subject:     *)
(* here an upload is fresh or it is not.                                     *)
EXTENDS Naturals

CONSTANTS
    MaxAttempts,   \* MAX_ATTEMPTS
    Config         \* configurations the plugin may be started with

Bind == {"lan", "loopback", "garbled"}    \* [ecowitt].bind_addr

\* gateway_ip and poll_interval_secs: not given; an address, polled every so
\* often or at an interval of zero; an address that was given and left empty.
Polling == {"off", "every", "zero", "blank"}

ASSUME AttemptsAssumption == MaxAttempts \in Nat \ {0}
ASSUME ConfigAssumption == Config \subseteq [bind : Bind, polling : Polling]

Task == {"sdk", "watchdog", "livedata", "gateway"}

VARIABLES
    config,    \* the configuration of the process
    phase,     \* where main is
    attempt,   \* which try_start it is in
    code,      \* how the process ended
    tasks,     \* how many of each spawned task are running
    listener,  \* where the receiver listens (option)
    uploads,   \* last_report: never, fresh or too old
    notices,   \* notices raised
    page       \* notices homeCore shows

mainVars == <<phase, attempt, code>>
vars == <<config, mainVars, tasks, listener, uploads, notices, page>>

NoTasks == [t \in Task |-> 0]

Init ==
    /\ config \in Config
    /\ phase = "loading" /\ attempt = 1 /\ code = "none"
    /\ tasks = NoTasks /\ listener = {}
    /\ uploads = "never" /\ notices = {} /\ page = {}

-----------------------------------------------------------------------------
(* main.                                                                     *)

\* What a process holds goes with it; homeCore's page stays.
NothingLeft ==
    /\ tasks' = NoTasks /\ listener' = {}
    /\ uploads' = "never" /\ notices' = {}
    /\ UNCHANGED page

Exit(how) ==
    /\ phase' = "exited" /\ code' = how
    /\ NothingLeft
    /\ UNCHANGED <<config, attempt>>

Goto(where) ==
    /\ phase' = where
    /\ UNCHANGED <<config, attempt, code>>

LoadConfig ==
    /\ phase = "loading"
    /\ Goto("connecting")
    /\ UNCHANGED <<tasks, listener, uploads, notices, page>>

LoadFails == phase = "loading" /\ Exit("failure")

\* Mutant: one attempt too many.
AttemptFailsOnceMore ==
    /\ attempt <= MaxAttempts
    /\ Goto("waiting")
    /\ UNCHANGED <<tasks, listener, uploads, notices, page>>

\* try_start returns an error.
AttemptFails ==
    \/ /\ attempt < MaxAttempts
       /\ Goto("waiting")
       /\ UNCHANGED <<tasks, listener, uploads, notices, page>>
    \/ /\ attempt = MaxAttempts
       /\ Exit("failure")

\* Mutant: the attempts are not counted.
RetryUncounted ==
    /\ phase = "waiting"
    /\ Goto("connecting")
    /\ UNCHANGED <<tasks, listener, uploads, notices, page>>

\* RETRY_DELAY_SECS later.
Retry ==
    /\ phase = "waiting"
    /\ phase' = "connecting" /\ attempt' = attempt + 1
    /\ UNCHANGED <<config, code, tasks, listener, uploads, notices, page>>

-----------------------------------------------------------------------------
(* try_start.                                                                *)

Connect ==
    /\ phase = "connecting"
    /\ Goto("enabling")
    /\ UNCHANGED <<tasks, listener, uploads, notices, page>>

EnableManagement ==
    /\ phase = "enabling"
    /\ Goto("announcing")
    /\ UNCHANGED <<tasks, listener, uploads, notices, page>>

ConnectFails == phase \in {"connecting", "enabling"} /\ AttemptFails

\* The status "active", whether it can be published or not, and the SDK's loop.
StartSdkLoop ==
    /\ phase = "announcing"
    /\ Goto("launching")
    /\ tasks' = [tasks EXCEPT !["sdk"] = @ + 1]
    /\ UNCHANGED <<listener, uploads, notices, page>>

\* Mutant: an address that cannot be parsed is taken for a reachable one.
SaidLoopbackOnlyIfRead(c) == c.bind = "loopback"

\* What the start-up check and the watchdog take the address for.
SaidLoopback(c) == c.bind # "lan"

\* Mutant: a plugin that polls is thought to need no watchdog.
SpawnedUnlessPolled(c) ==
    IF c.polling = "off" THEN {"watchdog", "gateway"} ELSE {"livedata", "gateway"}

\* The tasks spawned before the receiver starts; an address left empty is an
\* address to the poller.
Spawned(c) == {"watchdog", "gateway"} \cup (IF c.polling = "off" THEN {} ELSE {"livedata"})

\* The shared state is made, the configuration looked at, the tasks spawned.  To
\* the notice, too, an address left empty is one.
Launch ==
    /\ phase = "launching"
    /\ Goto("binding")
    /\ notices' = IF SaidLoopback(config) /\ config.polling = "off"
                  THEN {"receiver_unreachable"} ELSE {}
    /\ tasks' = [t \in Task |-> tasks[t] + (IF t \in Spawned(config) THEN 1 ELSE 0)]
    /\ UNCHANGED <<listener, uploads, page>>

\* serve: an address that cannot be parsed is replaced by loopback.
ListenAddress(c) == IF c.bind = "garbled" THEN "loopback" ELSE c.bind

Listen ==
    /\ phase = "binding"
    /\ Goto("serving")
    /\ listener' = {ListenAddress(config)}
    /\ UNCHANGED <<tasks, uploads, notices, page>>

\* Mutant: a bind that fails is an error of try_start's.
ListenFailsTheAttempt == phase = "binding" /\ AttemptFails

\* The port is taken: serve returns, try_start returns Ok, and so does main.
ListenFails == phase = "binding" /\ Exit("success")

\* So it does when the server ends with an error.
ServerEnds == phase = "serving" /\ Exit("success")

-----------------------------------------------------------------------------
(* The tasks.                                                                *)

Ends(t) ==
    /\ tasks[t] > 0
    /\ tasks' = [tasks EXCEPT ![t] = @ - 1]
    /\ UNCHANGED <<config, mainVars, listener, uploads, notices, page>>

\* run_managed returns an error, which is logged: the plugin goes on, and what
\* it says no longer reaches homeCore.
SdkLoopEnds == Ends("sdk")

\* The SDK's loop puts the raised notices on the plugin page.
Deliver ==
    /\ tasks["sdk"] > 0
    /\ page # notices
    /\ page' = notices
    /\ UNCHANGED <<config, mainVars, tasks, listener, uploads, notices>>

\* tokio::time::interval panics on a period of zero, and nobody joins the task.
PollerPanics == config.polling = "zero" /\ Ends("livedata")

\* A console somewhere else on the network uploads.
Upload ==
    /\ listener = {"lan"}
    /\ uploads' = "fresh"
    /\ UNCHANGED <<config, mainVars, tasks, listener, notices, page>>

\* SILENCE_WARN_AFTER passes without one.
Silence ==
    /\ uploads = "fresh"
    /\ uploads' = "old"
    /\ UNCHANGED <<config, mainVars, tasks, listener, notices, page>>

Reported == {"gateway_silent", "no_reports_received"}

\* watch_for_silence, once around its loop.
Check ==
    /\ tasks["watchdog"] > 0
    /\ notices' = CASE uploads = "fresh" -> notices \ Reported
                    [] uploads = "old"   -> notices \cup {"gateway_silent"}
                    [] uploads = "never" -> notices \cup {"no_reports_received"}
    /\ UNCHANGED <<config, mainVars, tasks, listener, uploads, page>>

\* homeCore starts the plugin again, perhaps configured anew: after it ended,
\* or to make a change known to it.
Relaunch ==
    /\ phase \in {"serving", "exited"}
    /\ config' \in Config
    /\ phase' = "loading" /\ attempt' = 1 /\ code' = "none"
    /\ NothingLeft

-----------------------------------------------------------------------------

Main ==
    \/ LoadConfig \/ LoadFails \/ Retry
    \/ Connect \/ EnableManagement \/ ConnectFails
    \/ StartSdkLoop \/ Launch \/ Listen \/ ListenFails

Next ==
    \/ Main \/ ServerEnds
    \/ SdkLoopEnds \/ Deliver \/ PollerPanics \/ Upload \/ Silence \/ Check
    \/ Relaunch

\* The calls of main and of the watchdog return, and the SDK's loop, while it
\* runs, delivers.
Spec == Init /\ [][Next]_vars /\ WF_vars(Main) /\ WF_vars(Check) /\ WF_vars(Deliver)

-----------------------------------------------------------------------------
(* Properties.                                                               *)

\* Every variable has its type; the attempts are those MAX_ATTEMPTS allows,
\* and a process that ended left nothing running.
TypeOK ==
    /\ config \in Config
    /\ phase \in {"loading", "connecting", "enabling", "announcing", "launching",
                  "binding", "serving", "waiting", "exited"}
    /\ attempt \in 1 .. MaxAttempts
    /\ code \in {"none", "success", "failure"}
    /\ tasks \in [Task -> Nat]
    /\ listener \in {{}, {"lan"}, {"loopback"}}
    /\ uploads \in {"never", "fresh", "old"}
    /\ notices \subseteq Reported \cup {"receiver_unreachable"}
    /\ page \subseteq Reported \cup {"receiver_unreachable"}
    /\ phase = "exited" => tasks = NoTasks /\ listener = {} /\ notices = {}

\* An attempt is made again only after one that left nothing behind: there are
\* never two SDK loops under one plugin id, nor two pollers or watchdogs.
AttemptsDoNotPileUp == \A t \in Task : tasks[t] <= 1

\* README: "receiver_unreachable: Bound to loopback with no poller configured":
\* raised exactly then, although bind_addr is parsed three times, each with a
\* default of its own.  An address left empty is excepted, which the editor
\* offers for staying push-only: the code takes it for a poller, so the notice is
\* not raised although nothing can be polled.
UnreachableIsSaid ==
    phase = "serving" /\ config.polling # "blank" =>
        ("receiver_unreachable" \in notices
            <=> listener = {"loopback"} /\ config.polling = "off")

\* Start-up comes to an end, well or badly.
StartsOrGivesUp == phase = "loading" ~> phase \in {"serving", "exited"}

\* server.rs: "The listener being up says nothing about whether data is
\* reaching it": if uploads stay away from a process that stays up, the plugin
\* page comes to say so and goes on saying so, however the process is configured
\* (an address left empty included) and whether or not its poller has died.  It
\* takes the SDK's loop: when that has ended, nothing reaches the page.
DeafnessIsSaid ==
    <>[](phase = "serving" /\ uploads # "fresh" /\ tasks["sdk"] > 0)
        => <>[](page \cap Reported # {})

=============================================================================
