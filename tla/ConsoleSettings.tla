--------------------------- MODULE ConsoleSettings ---------------------------
(* The two tasks that read or write the console's settings over its web API: *)
(* the streaming action set_custom_server, and the gateway-device poller,    *)
(* which registers the console as a homeCore device and shows its settings.  *)
(* Both fetch the settings with fetch_custom_server and may log in; the      *)
(* console keeps one session for the plugin's address.  Every HTTP exchange, *)
(* publish and event is a point where the other task runs.                   *)
(*                                                                           *)
(* An exchange takes effect at the console at once or not at all; its answer *)
(* may be lost.  An option is a set with at most one element.                *)
EXTENDS Naturals

CONSTANTS
    Dest,         \* servers with port, path and interval to upload to
    Request,      \* parameters of set_custom_server
    Factory,      \* settings the console starts with
    Dialects,     \* dialects the console may speak
    Guards,       \* what its firmware may put behind the login
    Passwords,    \* [ecowitt].gateway_password: none, right or wrong
    StationMac,   \* sta_mac of /get_device_info (option)
    NetworkMac,   \* mac of /get_network_info (option)
    InfoMac,      \* mac of /get_device_info (option)
    Lossy,        \* may requests and answers be lost?
    SessionEnds,  \* may the console end a session?
    Faulty,       \* other calls that may fail
    Restarts      \* may the process crash and restart?

Protocol == {"ecowitt", "wunderground"}

ASSUME SettingsAssumption ==
    /\ Request \subseteq [protocol : Protocol, enable : BOOLEAN, dest : Dest]
    /\ Factory \in [protocol : Protocol, enable : BOOLEAN, dest : [Protocol -> Dest]]

ASSUME ConsoleAssumption ==
    /\ Dialects \subseteq {"modern", "ws"}
    /\ Guards \subseteq SUBSET {"read", "write"}
    /\ Passwords \subseteq {"none", "right", "wrong"}

ASSUME FaultAssumption ==
    /\ Lossy \in BOOLEAN /\ SessionEnds \in BOOLEAN /\ Restarts \in BOOLEAN
    /\ Faulty \subseteq {"event", "resolve", "detect", "register", "publish"}

Task == {"stream", "refresh"}

VARIABLES
    console,   \* its dialect, what it guards, and the configured password
    session,   \* has the plugin's address a session?
    settings,  \* the console's upload settings, a destination per protocol
    pc,        \* where each task is
    read,      \* what fetch_custom_server returned to each task (option)
    wanted,    \* parameters of the last set_custom_server (option)
    verdict,   \* what the operator was told of it
    id,        \* the device id a refresh computed (option)
    cell,      \* GatewayDeviceState (option of an id)
    devices,   \* gateway devices homeCore knows
    shown      \* last published state: device and its settings (option)

consoleVars == <<console, session, settings>>
actionVars == <<wanted, verdict>>
deviceVars == <<id, cell, devices, shown>>
vars == <<consoleVars, pc, read, actionVars, deviceVars>>

Init ==
    /\ console \in [dialect : Dialects, guards : Guards, password : Passwords]
    /\ session = FALSE
    /\ settings = Factory
    /\ pc = [t \in Task |-> "idle"]
    /\ read = [t \in Task |-> {}]
    /\ wanted = {} /\ verdict = "none"
    /\ id = {} /\ cell = {} /\ devices = {} /\ shown = {}

Goto(t, where) == pc' = [pc EXCEPT ![t] = where]

-----------------------------------------------------------------------------
(* The console.                                                              *)

Grants(what) == what \in console.guards => session

\* A GET of a settings page is answered with success.
Answers(dialect) == console.dialect = dialect /\ Grants("read")

\* normalize_ws_settings, and what /get_customserver returns as it is: the
\* destination is that of the current protocol.
Normalized(s) ==
    [protocol |-> s.protocol, enable |-> s.enable, dest |-> s.dest[s.protocol]]

\* Mutant: the body leaves out whether uploads are enabled.
WrittenLeavesEnable(s, r) ==
    [protocol |-> r.protocol, enable |-> s.enable,
     dest |-> [s.dest EXCEPT ![r.protocol] = r.dest]]

\* The fields a write carries: those of the protocol it selects.
Written(s, r) ==
    [protocol |-> r.protocol, enable |-> r.enable,
     dest |-> [s.dest EXCEPT ![r.protocol] = r.dest]]

SessionExpires ==
    /\ SessionEnds /\ session
    /\ session' = FALSE
    /\ UNCHANGED <<console, settings, pc, read, actionVars, deviceVars>>

\* The management action get_custom_server fetches too; what it leaves behind
\* is a session.
QueryLogsIn ==
    /\ ~session /\ console.password = "right"
    /\ Lossy \/ "read" \in console.guards
    /\ session' = TRUE
    /\ UNCHANGED <<console, settings, pc, read, actionVars, deviceVars>>

-----------------------------------------------------------------------------
(* fetch_custom_server, for both tasks.                                      *)

\* The action ends in an error, if its event can be sent.
Fail ==
    /\ Goto("stream", "idle")
    /\ verdict' \in {"error"} \cup (IF "event" \in Faulty THEN {"aborted"} ELSE {})

\* Where a task goes with the result, or without.
Fetched(t, result) ==
    /\ read' = [read EXCEPT ![t] = result]
    /\ CASE t = "refresh" -> Goto(t, "publish") /\ UNCHANGED verdict
         [] t = "stream" /\ result # {} -> Goto(t, "sign in") /\ UNCHANGED verdict
         [] OTHER -> Fail

FetchUnchanged == UNCHANGED <<settings, console, wanted, deviceVars>>

Answer == {[dialect |-> console.dialect, settings |-> Normalized(settings)]}

\* GET /get_customserver; any failure leads on to the other page.
FetchModern(t) ==
    /\ pc[t] = "modern"
    /\ \/ Answers("modern") /\ Fetched(t, Answer)
       \/ /\ ~Answers("modern") \/ Lossy
          /\ Goto(t, "legacy") /\ UNCHANGED <<read, verdict>>
    /\ UNCHANGED session /\ FetchUnchanged

\* GET /get_ws_settings; any failure leads to a login, if there is a password.
FetchLegacy(t) ==
    /\ pc[t] = "legacy"
    /\ \/ Answers("ws") /\ Fetched(t, Answer)
       \/ /\ ~Answers("ws") \/ Lossy
          /\ IF console.password # "none"
             THEN Goto(t, "login") /\ UNCHANGED <<read, verdict>>
             ELSE Fetched(t, {})
    /\ UNCHANGED session /\ FetchUnchanged

\* gw_login succeeds: the console opens a session for the right password.
LogsIn == console.password = "right" /\ session' = TRUE

\* gw_login fails; if only its answer was lost there is a session now.
LoginFails ==
    /\ console.password # "right" \/ Lossy
    /\ session' \in {session, session \/ console.password = "right"}

Login(t) ==
    /\ pc[t] = "login"
    /\ \/ LogsIn /\ Goto(t, "again") /\ UNCHANGED <<read, verdict>>
       \/ LoginFails /\ Fetched(t, {})
    /\ FetchUnchanged

\* Mutant: login and retry are repeated until the page is read.
FetchAgainUntilRead(t) ==
    /\ pc[t] = "again"
    /\ \/ Answers("ws") /\ Fetched(t, Answer)
       \/ /\ ~Answers("ws") \/ Lossy
          /\ Goto(t, "login") /\ UNCHANGED <<read, verdict>>
    /\ UNCHANGED session /\ FetchUnchanged

\* The one retry, of /get_ws_settings only.
FetchAgain(t) ==
    /\ pc[t] = "again"
    /\ \/ Answers("ws") /\ Fetched(t, Answer)
       \/ (~Answers("ws") \/ Lossy) /\ Fetched(t, {})
    /\ UNCHANGED session /\ FetchUnchanged

Fetch(t) == FetchModern(t) \/ FetchLegacy(t) \/ Login(t) \/ FetchAgain(t)

-----------------------------------------------------------------------------
(* set_custom_server.  Each stage is announced by a progress event.          *)

StreamUnchanged == UNCHANGED <<console, wanted, deviceVars>>

SetCustomServer(r) ==
    /\ pc["stream"] = "idle"
    /\ Goto("stream", "resolve")
    /\ wanted' = {r} /\ verdict' = "pending"
    /\ read' = [read EXCEPT !["stream"] = {}]
    /\ UNCHANGED <<consoleVars, deviceVars>>

\* The event that opens a stage cannot be sent: the action returns there.
EventFails ==
    /\ "event" \in Faulty
    /\ pc["stream"] \in {"resolve", "detect", "modern", "sign in", "report"}
    /\ Goto("stream", "idle") /\ verdict' = "aborted"
    /\ UNCHANGED <<session, settings, read>> /\ StreamUnchanged

\* A blank server is detected; a given one is taken.
Resolve ==
    /\ pc["stream"] = "resolve"
    /\ \/ \E stage \in {"detect", "modern"} : Goto("stream", stage) /\ UNCHANGED verdict
       \/ "resolve" \in Faulty /\ Fail
    /\ UNCHANGED <<session, settings, read>> /\ StreamUnchanged

\* detect_local_ip_to: ports 80 and 443.
Detect ==
    /\ pc["stream"] = "detect"
    /\ \/ Goto("stream", "modern") /\ UNCHANGED verdict
       \/ "detect" \in Faulty /\ Fail
    /\ UNCHANGED <<session, settings, read>> /\ StreamUnchanged

\* push_custom_server logs in first and ignores how that went.
SignIn ==
    /\ pc["stream"] = "sign in"
    /\ \/ console.password = "none" /\ UNCHANGED session
       \/ console.password # "none" /\ (LogsIn \/ LoginFails)
    /\ Goto("stream", "post")
    /\ UNCHANGED <<settings, read, verdict>> /\ StreamUnchanged

\* A write is applied, and answered with success.
WriteSucceeds ==
    /\ Grants("write")
    /\ \E r \in wanted : settings' = Written(settings, r)
    /\ Goto("stream", "report") /\ UNCHANGED verdict

\* It is refused or lost, or applied and its answer lost.
WriteFails ==
    \/ (~Grants("write") \/ Lossy) /\ UNCHANGED settings
    \/ /\ Grants("write") /\ Lossy
       /\ \E r \in wanted : settings' = Written(settings, r)

\* POST /set_customserver, repeated as a GET, or /set_ws_settings.
Post ==
    /\ pc["stream"] = "post"
    /\ \/ WriteSucceeds
       \/ /\ WriteFails
          /\ \E answer \in read["stream"] :
               IF answer.dialect = "modern"
               THEN Goto("stream", "fallback") /\ UNCHANGED verdict
               ELSE Fail
    /\ UNCHANGED <<session, read>> /\ StreamUnchanged

Fallback ==
    /\ pc["stream"] = "fallback"
    /\ WriteSucceeds \/ (WriteFails /\ Fail)
    /\ UNCHANGED <<session, read>> /\ StreamUnchanged

Report ==
    /\ pc["stream"] = "report"
    /\ Goto("stream", "idle") /\ verdict' = "complete"
    /\ UNCHANGED <<session, settings, read>> /\ StreamUnchanged

-----------------------------------------------------------------------------
(* refresh of the gateway device.                                            *)

RefreshUnchanged == UNCHANGED <<consoleVars, actionVars>>

\* Mutant: the console is shown once.
RefreshBeginsOnce ==
    /\ pc["refresh"] = "idle" /\ cell = {}
    /\ Goto("refresh", "info")
    /\ read' = [read EXCEPT !["refresh"] = {}] /\ id' = {}
    /\ UNCHANGED <<cell, devices, shown>> /\ RefreshUnchanged

\* Every five minutes, once an address is known.
RefreshBegins ==
    /\ pc["refresh"] = "idle"
    /\ Goto("refresh", "info")
    /\ read' = [read EXCEPT !["refresh"] = {}] /\ id' = {}
    /\ UNCHANGED <<cell, devices, shown>> /\ RefreshUnchanged

\* /get_device_info; without it the cycle is given up.
GetInfo ==
    /\ pc["refresh"] = "info"
    /\ Goto("refresh", "network") \/ (Lossy /\ Goto("refresh", "idle"))
    /\ UNCHANGED <<read, deviceVars>> /\ RefreshUnchanged

\* sta_mac, else the mac of whichever page has one.
Mac(network) ==
    IF StationMac # {} THEN StationMac ELSE IF network # {} THEN network ELSE InfoMac

\* Mutant: a console without a MAC is kept.
GetNetworkUnkeyed ==
    /\ pc["refresh"] = "network"
    /\ \E network \in {NetworkMac} \cup (IF Lossy THEN {{}} ELSE {}) : id' = Mac(network)
    /\ Goto("refresh", "register")
    /\ UNCHANGED <<read, cell, devices, shown>> /\ RefreshUnchanged

\* /get_network_info, which may fail; without a MAC the cycle is given up.
GetNetwork ==
    /\ pc["refresh"] = "network"
    /\ \E network \in {NetworkMac} \cup (IF Lossy THEN {{}} ELSE {}) : id' = Mac(network)
    /\ Goto("refresh", IF id' = {} THEN "idle" ELSE "register")
    /\ UNCHANGED <<read, cell, devices, shown>> /\ RefreshUnchanged

\* The device is registered once per process.
Register ==
    /\ pc["refresh"] = "register"
    /\ IF cell = {}
       THEN cell' = id /\ devices' = devices \cup id
       ELSE UNCHANGED <<cell, devices>>
    /\ Goto("refresh", "modern")
    /\ UNCHANGED <<read, id, shown>> /\ RefreshUnchanged

\* Mutant: a failed registration counts as one.
RegisterFailsUnseen ==
    /\ "register" \in Faulty
    /\ pc["refresh"] = "register" /\ cell = {}
    /\ devices' \in {devices, devices \cup id}
    /\ cell' = id
    /\ Goto("refresh", "modern")
    /\ UNCHANGED <<read, id, shown>> /\ RefreshUnchanged

\* The cycle is given up; homeCore may have got the message all the same.
RegisterFails ==
    /\ "register" \in Faulty
    /\ pc["refresh"] = "register" /\ cell = {}
    /\ devices' \in {devices, devices \cup id}
    /\ Goto("refresh", "idle")
    /\ UNCHANGED <<read, id, cell, shown>> /\ RefreshUnchanged

\* The state carries the settings if they could be fetched.
Publish ==
    /\ pc["refresh"] = "publish"
    /\ Goto("refresh", "idle")
    /\ shown' = {[device |-> d, settings |-> {a.settings : a \in read["refresh"]}] : d \in id}
    /\ UNCHANGED <<read, id, cell, devices>> /\ RefreshUnchanged

PublishFails ==
    /\ "publish" \in Faulty
    /\ pc["refresh"] = "publish"
    /\ Goto("refresh", "idle")
    /\ UNCHANGED <<read, deviceVars>> /\ RefreshUnchanged

-----------------------------------------------------------------------------

\* The process dies and starts again; homeCore and the console remember.
Restart ==
    /\ Restarts
    /\ pc' = [t \in Task |-> "idle"]
    /\ read' = [t \in Task |-> {}]
    /\ id' = {} /\ cell' = {}
    /\ verdict' = IF verdict = "pending" THEN "aborted" ELSE verdict
    /\ UNCHANGED <<consoleVars, wanted, devices, shown>>

Stream ==
    Resolve \/ Detect \/ Fetch("stream") \/ SignIn \/ Post \/ Fallback \/ Report

Refresh ==
    \/ RefreshBegins \/ GetInfo \/ GetNetwork \/ Register \/ RegisterFails
    \/ Fetch("refresh") \/ Publish \/ PublishFails

Next ==
    \/ \E r \in Request : SetCustomServer(r)
    \/ Stream \/ EventFails \/ Refresh
    \/ SessionExpires \/ QueryLogsIn \/ Restart

Spec == Init /\ [][Next]_vars

\* HTTP calls time out, MQTT calls return, the interval ticks; a call that is
\* made again and again is not lost every time; the process stays up some day.
LiveSpec ==
    /\ Spec /\ <>[][~Restart]_vars
    /\ WF_vars(Stream) /\ WF_vars(Refresh)
    /\ SF_vars(GetInfo /\ pc'["refresh"] = "network")
    /\ SF_vars(GetNetwork /\ pc'["refresh"] = "register")
    /\ SF_vars(Register)
    /\ SF_vars(Fetch("refresh") /\ read'["refresh"] # {})
    /\ SF_vars(Login("refresh") /\ pc'["refresh"] = "again")
    /\ SF_vars(Publish /\ read["refresh"] # {})

-----------------------------------------------------------------------------
(* Properties.                                                               *)

Setting == [protocol : Protocol, enable : BOOLEAN, dest : Dest]
Reading == [dialect : Dialects, settings : Setting]
Fetching == {"modern", "legacy", "login", "again"}

\* A refresh beyond /get_network_info has an id.
TypeOK ==
    /\ session \in BOOLEAN
    /\ settings \in [protocol : Protocol, enable : BOOLEAN, dest : [Protocol -> Dest]]
    /\ pc["stream"] \in {"idle", "resolve", "detect", "sign in", "post", "fallback",
                         "report"} \cup Fetching
    /\ pc["refresh"] \in {"idle", "info", "network", "register", "publish"} \cup Fetching
    /\ read \in [Task -> {{}} \cup {{a} : a \in Reading}]
    /\ verdict \in {"none", "pending", "complete", "error", "aborted"}
    /\ pc["refresh"] \in {"register", "publish"} \cup Fetching => id # {}

\* The console takes what the operator asked for or nothing, and is said to
\* have taken it only if it has (main.rs: set_custom_server_streaming).
Promise == INSTANCE SettingsRequest WITH
    settings <- Normalized(settings), Factory <- Normalized(Factory)

IsSettingsRequest == Promise!Spec

\* A state goes to a device homeCore knows, whatever failed or was restarted
\* before (gateway_device.rs: "register the virtual device on first sight").
ShownIsRegistered == \A s \in shown : s.device \in devices

\* Every action comes to an end the operator can see.
ActionEnds == verdict = "pending" ~> verdict # "pending"

\* Can fetch_custom_server read this console?
Readable ==
    \/ "read" \notin console.guards
    \/ console.dialect = "ws" /\ console.password = "right"

\* Settings the console keeps are shown some day, whatever was lost meanwhile.
SettingsGetShown ==
    \A r \in Request :
        Readable /\ Normalized(settings) = r
            ~> Normalized(settings) # r \/ \E s \in shown : r \in s.settings

=============================================================================
