------------------------ MODULE ConsoleSettingsProofs ------------------------
(* Safety of ConsoleSettings for all requests, consoles and failures: the    *)
(* types, that the streaming action keeps the promise of SettingsRequest,    *)
(* and that a state goes to a registered device.                             *)
EXTENDS ConsoleSettings, TLAPS

Stored == [protocol : Protocol, enable : BOOLEAN, dest : [Protocol -> Dest]]
StreamStage ==
    {"idle", "resolve", "detect", "sign in", "post", "fallback", "report"} \cup Fetching
RefreshStage == {"idle", "info", "network", "register", "publish"} \cup Fetching
\* What the streaming action relies on: the operator waits exactly while it
\* runs, and it reports only what the console holds.
StreamInv ==
    /\ settings \in Stored
    /\ wanted \in {{}} \cup {{r} : r \in Request}
    /\ pc \in [Task -> StreamStage \cup RefreshStage]
    /\ verdict \in {"none", "pending", "complete", "error", "aborted"}
    /\ verdict = "pending" <=> pc["stream"] # "idle"
    /\ verdict = "pending" => wanted # {}
    /\ pc["stream"] = "report" => wanted = {Normalized(settings)}

-----------------------------------------------------------------------------

\* A console that takes a write answers the next GET with what was written,
\* whichever protocol had been selected (push_custom_server's bodies against
\* normalize_ws_settings).
LEMMA WrittenReadsBack ==
    ASSUME NEW s \in Stored, NEW r \in Request
    PROVE  /\ Written(s, r) \in Stored
           /\ Normalized(Written(s, r)) = r
<1>1. r \in [protocol : Protocol, enable : BOOLEAN, dest : Dest]
  BY SettingsAssumption
<1> QED
  BY <1>1 DEF Written, Normalized, Stored

\* A write that succeeds leaves the console with what is wanted.
LEMMA WriteTakes ==
    ASSUME StreamInv, wanted # {}, NEW r \in wanted, settings' = Written(settings, r)
    PROVE  /\ settings' \in Stored
           /\ wanted = {Normalized(settings')}
           /\ Normalized(settings)' = r
<1>1. PICK q \in Request : wanted = {q}
  BY DEF StreamInv
<1>2. r \in Request /\ wanted = {r}
  BY <1>1
<1>3. settings' \in Stored /\ Normalized(settings') = r
  BY <1>2, WrittenReadsBack DEF StreamInv
<1> QED
  BY <1>2, <1>3 DEF Normalized

-----------------------------------------------------------------------------
(* The kinds of step the streaming action can make, or see.                  *)

\* A step of the other task, or of the console's session.
LEMMA NotTheStream ==
    ASSUME StreamInv, UNCHANGED <<settings, wanted, verdict>>,
           pc' \in [Task -> StreamStage \cup RefreshStage], pc'["stream"] = pc["stream"]
    PROVE  StreamInv' /\ UNCHANGED Promise!vars
BY DEF StreamInv, Promise!vars, Normalized

\* The action goes on to another stage before its report.
LEMMA GoesOn ==
    ASSUME StreamInv, pc["stream"] # "idle",
           NEW where \in StreamStage \ {"idle", "report"}, Goto("stream", where),
           UNCHANGED <<settings, wanted, verdict>>
    PROVE  StreamInv' /\ UNCHANGED Promise!vars
<1>1. pc' \in [Task -> StreamStage \cup RefreshStage] /\ pc'["stream"] = where
  BY DEF StreamInv, Goto, Task
<1>2. UNCHANGED Promise!vars
  BY DEF Promise!vars, Normalized
<1> QED
  BY <1>1, <1>2 DEF StreamInv

\* The action ends unsuccessfully.
LEMMA EndsBadly ==
    ASSUME StreamInv, pc["stream"] # "idle", Goto("stream", "idle"), UNCHANGED wanted,
           verdict' \in {"error", "aborted"},
           settings' = settings \/ \E r \in wanted : settings' = Written(settings, r)
    PROVE  StreamInv' /\ Promise!Fail
<1>1. pc' \in [Task -> StreamStage \cup RefreshStage] /\ pc'["stream"] = "idle"
  BY DEF StreamInv, Goto, Task, StreamStage
<1>2. verdict = "pending" /\ wanted # {}
  BY DEF StreamInv
<1>3. CASE settings' = settings
  <2>1. Normalized(settings)' = Normalized(settings)
    BY <1>3 DEF Normalized
  <2> QED
    BY <1>1, <1>2, <1>3, <2>1 DEF StreamInv, Promise!Fail
<1>4. ASSUME NEW r \in wanted, settings' = Written(settings, r)
      PROVE  StreamInv' /\ Promise!Fail
  <2>1. settings' \in Stored /\ Normalized(settings)' = r
    BY <1>2, <1>4, WriteTakes
  <2> QED
    BY <1>1, <1>2, <1>4, <2>1 DEF StreamInv, Promise!Fail
<1> QED
  BY <1>3, <1>4

LEMMA FailEnds ==
    ASSUME StreamInv, pc["stream"] # "idle", Fail, UNCHANGED wanted,
           settings' = settings \/ \E r \in wanted : settings' = Written(settings, r)
    PROVE  StreamInv' /\ Promise!Fail
<1>1. Goto("stream", "idle") /\ verdict' \in {"error", "aborted"}
  BY DEF Fail
<1> QED
  BY <1>1, EndsBadly

LEMMA SucceedsEndsInReport ==
    ASSUME StreamInv, pc["stream"] # "idle", WriteSucceeds, UNCHANGED wanted
    PROVE  StreamInv' /\ Promise!Take
<1>1. PICK r \in wanted : settings' = Written(settings, r)
  BY DEF WriteSucceeds
<1>2. verdict = "pending" /\ wanted # {}
  BY DEF StreamInv
<1>3. settings' \in Stored /\ wanted = {Normalized(settings')} /\ Normalized(settings)' = r
  BY <1>1, <1>2, WriteTakes
<1>4. pc' \in [Task -> StreamStage \cup RefreshStage] /\ pc'["stream"] = "report"
  BY DEF StreamInv, WriteSucceeds, Goto, Task, StreamStage
<1>5. Normalized(settings)' = Normalized(settings')
  BY DEF Normalized
<1>6. UNCHANGED <<wanted, verdict>>
  BY DEF WriteSucceeds
<1>7. StreamInv'
  BY <1>2, <1>3, <1>4, <1>5, <1>6 DEF StreamInv
<1>8. Promise!Take
  BY <1>1, <1>2, <1>3, <1>6 DEF Promise!Take
<1> QED
  BY <1>7, <1>8

-----------------------------------------------------------------------------
(* fetch_custom_server, called by either task.                               *)

LEMMA StreamFetched ==
    ASSUME StreamInv, pc["stream"] \in Fetching, NEW result,
           Fetched("stream", result), UNCHANGED <<settings, wanted>>
    PROVE  StreamInv' /\ [Promise!Next]_(Promise!vars)
<1>0. pc["stream"] # "idle"
  BY DEF Fetching
<1>1. CASE result # {}
  <2>1. Goto("stream", "sign in") /\ UNCHANGED verdict
    BY <1>1 DEF Fetched
  <2> QED
    BY <1>0, <2>1, GoesOn DEF StreamStage
<1>2. CASE result = {}
  <2>1. Fail
    BY <1>2 DEF Fetched
  <2> QED
    BY <1>0, <2>1, FailEnds DEF Promise!Next
<1> QED
  BY <1>1, <1>2

LEMMA StreamFetches ==
    ASSUME StreamInv, Fetch("stream")
    PROVE  StreamInv' /\ [Promise!Next]_(Promise!vars)
<1>1. pc["stream"] \in Fetching /\ UNCHANGED <<settings, wanted>>
  BY DEF Fetch, FetchModern, FetchLegacy, Login, FetchAgain, FetchUnchanged, Fetching
<1>2. CASE \E result : Fetched("stream", result)
  BY <1>1, <1>2, StreamFetched
<1>3. CASE \E stage \in Fetching : Goto("stream", stage) /\ UNCHANGED verdict
  <2>1. PICK stage \in Fetching : Goto("stream", stage) /\ UNCHANGED verdict
    BY <1>3
  <2>2. stage \in StreamStage \ {"idle", "report"} /\ pc["stream"] # "idle"
    BY <1>1 DEF StreamStage, Fetching
  <2> QED
    BY <1>1, <2>1, <2>2, GoesOn
<1>4. \/ \E result : Fetched("stream", result)
      \/ \E stage \in Fetching : Goto("stream", stage) /\ UNCHANGED verdict
  <2>1. CASE FetchModern("stream")
    BY <2>1 DEF FetchModern, Fetching
  <2>2. CASE FetchLegacy("stream")
    BY <2>2 DEF FetchLegacy, Fetching
  <2>3. CASE Login("stream")
    BY <2>3 DEF Login, Fetching
  <2>4. CASE FetchAgain("stream")
    BY <2>4 DEF FetchAgain, Fetching
  <2> QED
    BY <2>1, <2>2, <2>3, <2>4 DEF Fetch
<1> QED
  BY <1>2, <1>3, <1>4

\* The refresh's fetch moves only the refresh.
LEMMA RefreshFetches ==
    ASSUME StreamInv, Fetch("refresh")
    PROVE  /\ UNCHANGED <<settings, wanted, verdict, deviceVars>>
           /\ pc["refresh"] \in Fetching
           /\ \E stage \in Fetching \cup {"publish"} : Goto("refresh", stage)
<1>1. pc["refresh"] \in Fetching /\ UNCHANGED <<settings, wanted, deviceVars>>
  BY DEF Fetch, FetchModern, FetchLegacy, Login, FetchAgain, FetchUnchanged, Fetching
<1>2. ASSUME NEW result, Fetched("refresh", result)
      PROVE  Goto("refresh", "publish") /\ UNCHANGED verdict
  BY <1>2 DEF Fetched
<1>3. \/ \E result : Fetched("refresh", result)
      \/ \E stage \in Fetching : Goto("refresh", stage) /\ UNCHANGED verdict
  <2>1. CASE FetchModern("refresh")
    BY <2>1 DEF FetchModern, Fetching
  <2>2. CASE FetchLegacy("refresh")
    BY <2>2 DEF FetchLegacy, Fetching
  <2>3. CASE Login("refresh")
    BY <2>3 DEF Login, Fetching
  <2>4. CASE FetchAgain("refresh")
    BY <2>4 DEF FetchAgain, Fetching
  <2> QED
    BY <2>1, <2>2, <2>3, <2>4 DEF Fetch
<1> QED
  BY <1>1, <1>2, <1>3

-----------------------------------------------------------------------------
(* The streaming action keeps its promise.                                   *)

\* A step of the refresh between its own stages.
LEMMA RefreshSteps ==
    ASSUME StreamInv, NEW where \in RefreshStage, Goto("refresh", where),
           UNCHANGED <<settings, wanted, verdict>>
    PROVE  StreamInv' /\ UNCHANGED Promise!vars
<1>1. pc' \in [Task -> StreamStage \cup RefreshStage] /\ pc'["stream"] = pc["stream"]
  BY DEF StreamInv, Goto, Task
<1> QED
  BY <1>1, NotTheStream

LEMMA StreamSteps ==
    ASSUME StreamInv, [Next]_vars
    PROVE  StreamInv' /\ [Promise!Next]_(Promise!vars)
<1> USE DEF StreamUnchanged, RefreshUnchanged, consoleVars, actionVars, deviceVars
<1>1. ASSUME NEW r \in Request, SetCustomServer(r)
      PROVE  StreamInv' /\ [Promise!Next]_(Promise!vars)
  <2>1. pc' \in [Task -> StreamStage \cup RefreshStage] /\ pc'["stream"] = "resolve"
    BY <1>1 DEF StreamInv, SetCustomServer, Goto, Task, StreamStage
  <2>2. StreamInv'
    BY <1>1, <2>1 DEF StreamInv, SetCustomServer
  <2>3. Promise!Ask(r)
    BY <1>1 DEF StreamInv, SetCustomServer, Promise!Ask, Normalized
  <2> QED
    BY <1>1, <2>2, <2>3 DEF Promise!Next
<1>2. CASE EventFails
  <2>1. Goto("stream", "idle") /\ UNCHANGED <<settings, wanted>> /\ verdict' = "aborted"
    BY <1>2 DEF EventFails
  <2>2. pc["stream"] # "idle"
    BY <1>2 DEF EventFails
  <2> QED
    BY <2>1, <2>2, EndsBadly DEF Promise!Next
<1>3. CASE Resolve
  <2>1. pc["stream"] # "idle" /\ UNCHANGED <<settings, wanted>>
    BY <1>3 DEF Resolve
  <2>2. CASE Fail
    BY <2>1, <2>2, FailEnds DEF Promise!Next
  <2>3. ASSUME NEW stage \in {"detect", "modern"}, Goto("stream", stage), UNCHANGED verdict
        PROVE  StreamInv' /\ UNCHANGED Promise!vars
    BY <2>1, <2>3, GoesOn DEF StreamStage, Fetching
  <2> QED
    BY <1>3, <2>2, <2>3 DEF Resolve
<1>4. CASE Detect
  <2>1. pc["stream"] # "idle" /\ UNCHANGED <<settings, wanted>>
    BY <1>4 DEF Detect
  <2>2. CASE Fail
    BY <2>1, <2>2, FailEnds DEF Promise!Next
  <2>3. CASE Goto("stream", "modern") /\ UNCHANGED verdict
    BY <2>1, <2>3, GoesOn DEF StreamStage, Fetching
  <2> QED
    BY <1>4, <2>2, <2>3 DEF Detect
<1>5. CASE Fetch("stream")
  BY <1>5, StreamFetches
<1>6. CASE SignIn
  <2>1. /\ pc["stream"] # "idle" /\ Goto("stream", "post")
        /\ UNCHANGED <<settings, wanted, verdict>>
    BY <1>6 DEF SignIn
  <2> QED
    BY <2>1, GoesOn DEF StreamStage
<1>7. CASE Post
  <2>1. pc["stream"] # "idle" /\ UNCHANGED wanted
    BY <1>7 DEF Post
  <2>2. CASE WriteSucceeds
    BY <2>1, <2>2, SucceedsEndsInReport DEF Promise!Next
  <2>3. CASE WriteFails /\ Fail
    BY <2>1, <2>3, FailEnds DEF WriteFails, Promise!Next
  <2>4. CASE WriteFails /\ Goto("stream", "fallback") /\ UNCHANGED verdict
    <3>1. pc' \in [Task -> StreamStage \cup RefreshStage] /\ pc'["stream"] = "fallback"
      BY <2>4 DEF StreamInv, Goto, Task, StreamStage
    <3>2. verdict = "pending" /\ wanted # {}
      BY <2>1 DEF StreamInv
    <3>3. CASE UNCHANGED settings
      BY <2>1, <2>4, <3>3, GoesOn DEF StreamStage
    <3>4. ASSUME NEW r \in wanted, settings' = Written(settings, r)
          PROVE  StreamInv' /\ Promise!Take
      <4>1. settings' \in Stored /\ Normalized(settings)' = r
        BY <3>2, <3>4, WriteTakes
      <4> QED
        BY <2>1, <2>4, <3>1, <3>2, <4>1 DEF StreamInv, Promise!Take
    <3> QED
      BY <2>4, <3>3, <3>4 DEF WriteFails, Promise!Next
  <2> QED
    BY <1>7, <2>2, <2>3, <2>4 DEF Post
<1>8. CASE Fallback
  <2>1. pc["stream"] # "idle" /\ UNCHANGED wanted
    BY <1>8 DEF Fallback
  <2>2. CASE WriteSucceeds
    BY <2>1, <2>2, SucceedsEndsInReport DEF Promise!Next
  <2>3. CASE WriteFails /\ Fail
    BY <2>1, <2>3, FailEnds DEF WriteFails, Promise!Next
  <2> QED
    BY <1>8, <2>2, <2>3 DEF Fallback
<1>9. CASE Report
  <2>1. pc' \in [Task -> StreamStage \cup RefreshStage] /\ pc'["stream"] = "idle"
    BY <1>9 DEF StreamInv, Report, Goto, Task, StreamStage
  <2>2. StreamInv'
    BY <1>9, <2>1 DEF StreamInv, Report
  <2>3. Promise!Complete
    BY <1>9 DEF StreamInv, Report, Promise!Complete, Normalized
  <2> QED
    BY <2>2, <2>3 DEF Promise!Next
<1>10. CASE RefreshBegins \/ GetInfo \/ GetNetwork \/ Register \/ RegisterFails
            \/ Publish \/ PublishFails
  <2>1. \E where \in RefreshStage : Goto("refresh", where)
    BY <1>10 DEF RefreshBegins, GetInfo, GetNetwork, Register, RegisterFails, Publish,
                 PublishFails, RefreshStage, Fetching
  <2>2. UNCHANGED <<settings, wanted, verdict>>
    BY <1>10 DEF RefreshBegins, GetInfo, GetNetwork, Register, RegisterFails, Publish,
                 PublishFails
  <2> QED
    BY <2>1, <2>2, RefreshSteps
<1>11. CASE Fetch("refresh")
  BY <1>11, RefreshFetches, RefreshSteps DEF RefreshStage
<1>12. CASE SessionExpires \/ QueryLogsIn
  BY <1>12, NotTheStream DEF SessionExpires, QueryLogsIn, StreamInv
<1>13. CASE Restart
  <2>1. pc' \in [Task -> StreamStage \cup RefreshStage] /\ pc'["stream"] = "idle"
    BY <1>13 DEF Restart, Task, StreamStage
  <2>2. UNCHANGED <<settings, wanted>> /\ Normalized(settings)' = Normalized(settings)
    BY <1>13 DEF Restart, Normalized
  <2>3. StreamInv'
    BY <1>13, <2>1, <2>2 DEF StreamInv, Restart
  <2>4. Promise!Fail \/ UNCHANGED Promise!vars
    BY <1>13, <2>2 DEF Restart, Promise!Fail, Promise!vars
  <2> QED
    BY <2>3, <2>4 DEF Promise!Next
<1>14. CASE UNCHANGED vars
  BY <1>14, NotTheStream DEF vars, StreamInv
<1> QED
  BY <1>1, <1>2, <1>3, <1>4, <1>5, <1>6, <1>7, <1>8, <1>9, <1>10, <1>11, <1>12, <1>13,
     <1>14 DEF Next, Stream, Refresh

\* set_custom_server leaves the console with what was asked for or with what
\* it had, and says it is done only if the console took it: whatever is lost,
\* refused, aborted or restarted (main.rs: set_custom_server_streaming).
THEOREM KeepsPromise == Spec => IsSettingsRequest
<1>1. Init => StreamInv /\ Promise!Init
  BY SettingsAssumption
  DEF Init, StreamInv, Promise!Init, Stored, Task, StreamStage, Normalized
<1>2. StreamInv /\ [Next]_vars => StreamInv' /\ [Promise!Next]_(Promise!vars)
  BY StreamSteps
<1> QED
  BY <1>1, <1>2, PTL DEF Spec, IsSettingsRequest, Promise!Spec

-----------------------------------------------------------------------------
(* A state goes to a registered device, if every page names the same MAC.    *)

\* With one MAC m every id is {m}, so the id a refresh computed after the
\* registration is the one that was registered.
ShownInv(m) ==
    /\ id \subseteq {m}
    /\ cell \subseteq {m} /\ cell \subseteq devices
    /\ pc["refresh"] \in {"publish"} \cup Fetching => id \subseteq devices
    /\ ShownIsRegistered

LEMMA ShownSteps ==
    ASSUME StreamInv, NEW m, StationMac \cup NetworkMac \cup InfoMac \subseteq {m},
           ShownInv(m), [Next]_vars
    PROVE  ShownInv(m)'
<1> USE DEF ShownIsRegistered, deviceVars
<1>0. ASSUME NEW where, Goto("refresh", where)
      PROVE  pc'["refresh"] = where
  BY <1>0 DEF StreamInv, Goto, Task
<1>1. CASE pc'["refresh"] = pc["refresh"] /\ UNCHANGED deviceVars
  BY <1>1 DEF ShownInv
<1>2. CASE (\E r \in Request : SetCustomServer(r)) \/ EventFails \/ Stream
  <2>1. ASSUME NEW where, Goto("stream", where)
        PROVE  pc'["refresh"] = pc["refresh"]
    BY <2>1 DEF StreamInv, Goto, Task
  <2>2. \E where : Goto("stream", where)
    <3>1. CASE Fetch("stream")
      <4>1. ASSUME NEW result, Fetched("stream", result)
            PROVE  \E where : Goto("stream", where)
        BY <4>1 DEF Fetched, Fail
      <4> QED
        BY <3>1, <4>1 DEF Fetch, FetchModern, FetchLegacy, Login, FetchAgain
    <3>2. CASE Post
      BY <3>2, Zenon DEF Post, WriteSucceeds, Fail
    <3> QED
      BY <1>2, <3>1, <3>2
      DEF SetCustomServer, EventFails, Stream, Resolve, Detect, SignIn, Fallback, Report,
          WriteSucceeds, Fail
  <2>3. UNCHANGED deviceVars
    BY <1>2 DEF SetCustomServer, EventFails, Stream, Resolve, Detect, Fetch, FetchModern,
                FetchLegacy, Login, FetchAgain, FetchUnchanged, SignIn, Post, Fallback,
                Report, StreamUnchanged
  <2> QED
    BY <1>1, <2>1, <2>2, <2>3
<1>3. CASE RefreshBegins \/ GetInfo \/ PublishFails
  <2>1. pc'["refresh"] \in {"idle", "info", "network"}
    BY <1>0, <1>3 DEF RefreshBegins, GetInfo, PublishFails
  <2>2. id' \subseteq id /\ UNCHANGED <<cell, devices, shown>>
    BY <1>3 DEF RefreshBegins, GetInfo, PublishFails
  <2> QED
    BY <2>1, <2>2 DEF ShownInv, Fetching
<1>4. CASE GetNetwork
  <2>1. pc'["refresh"] \in {"idle", "register"}
    BY <1>0, <1>4 DEF GetNetwork
  <2>2. id' \subseteq {m} /\ UNCHANGED <<cell, devices, shown>>
    BY <1>4 DEF GetNetwork, Mac
  <2> QED
    BY <2>1, <2>2 DEF ShownInv, Fetching
<1>5. CASE Register
  <2>1. id' = id /\ id \subseteq devices' /\ UNCHANGED shown
    BY <1>5 DEF Register, ShownInv
  <2>2. devices \subseteq devices' /\ cell' \subseteq devices' /\ cell' \subseteq {m}
    BY <1>5 DEF Register, ShownInv
  <2> QED
    BY <2>1, <2>2 DEF ShownInv
<1>6. CASE RegisterFails
  <2>1. pc'["refresh"] = "idle"
    BY <1>0, <1>6 DEF RegisterFails
  <2>2. devices \subseteq devices' /\ UNCHANGED <<id, cell, shown>>
    BY <1>6 DEF RegisterFails
  <2> QED
    BY <2>1, <2>2 DEF ShownInv, Fetching
<1>7. CASE Fetch("refresh")
  <2>1. pc["refresh"] \in Fetching /\ UNCHANGED deviceVars
    BY <1>7, RefreshFetches
  <2> QED
    BY <2>1 DEF ShownInv
<1>8. CASE Publish
  <2>1. \A s \in shown' : s.device \in id
    BY <1>8 DEF Publish
  <2>2. id \subseteq devices /\ UNCHANGED <<id, cell, devices>>
    BY <1>8 DEF Publish, ShownInv
  <2> QED
    BY <2>1, <2>2 DEF ShownInv
<1>9. CASE SessionExpires \/ QueryLogsIn
  BY <1>1, <1>9 DEF SessionExpires, QueryLogsIn
<1>10. CASE Restart
  BY <1>10 DEF Restart, ShownInv, Fetching, Task
<1>11. CASE UNCHANGED vars
  BY <1>1, <1>11 DEF vars
<1> QED
  BY <1>2, <1>3, <1>4, <1>5, <1>6, <1>7, <1>8, <1>9, <1>10, <1>11 DEF Next, Refresh

\* Whatever registration failed, was repeated or forgotten by a restart, no
\* state is published for a gateway device homeCore does not know, as long as
\* the console's pages do not name different MACs (gateway_device.rs: refresh).
THEOREM ShownIsRegisteredHolds ==
    ASSUME NEW m, StationMac \cup NetworkMac \cup InfoMac \subseteq {m}
    PROVE  Spec => []ShownIsRegistered
<1>1. Init => StreamInv /\ ShownInv(m)
  <2>1. Init => StreamInv
    BY SettingsAssumption DEF Init, StreamInv, Stored, Task, StreamStage, Normalized
  <2>2. Init => ShownInv(m)
    BY DEF Init, ShownInv, ShownIsRegistered, Fetching, Task
  <2> QED
    BY <2>1, <2>2
<1>2. StreamInv /\ ShownInv(m) /\ [Next]_vars => StreamInv' /\ ShownInv(m)'
  BY StreamSteps, ShownSteps
<1>3. ShownInv(m) => ShownIsRegistered
  BY DEF ShownInv
<1> QED
  BY <1>1, <1>2, <1>3, PTL DEF Spec

-----------------------------------------------------------------------------
(* Types.                                                                    *)

Keyed == {"register", "publish"} \cup Fetching

TypeInv ==
    /\ console.dialect \in Dialects
    /\ session \in BOOLEAN
    /\ pc["stream"] \in StreamStage
    /\ pc["refresh"] \in RefreshStage
    /\ read \in [Task -> {{}} \cup {{a} : a \in Reading}]
    /\ pc["refresh"] \in Keyed => id # {}

\* What a settings page answers is a reading.
LEMMA AnswerIsReading ==
    ASSUME StreamInv, TypeInv
    PROVE  Answer \in {{a} : a \in Reading}
<1>1. Normalized(settings) \in Setting
  BY DEF StreamInv, Stored, Normalized, Setting
<1> QED
  BY <1>1 DEF Answer, TypeInv, Reading

\* A task inside fetch_custom_server leaves with a reading or with none.
LEMMA FetchTypes ==
    ASSUME StreamInv, TypeInv, NEW t \in Task, Fetch(t)
    PROVE  /\ console' = console /\ id' = id
           /\ session' \in BOOLEAN
           /\ read' \in [Task -> {{}} \cup {{a} : a \in Reading}]
           /\ pc[t] \in Fetching
           /\ \E stage \in Fetching \cup {"idle", "sign in", "publish"} :
                /\ Goto(t, stage)
                /\ stage = "publish" <=> t = "refresh" /\ stage \notin Fetching
<1>1. pc[t] \in Fetching /\ console' = console /\ id' = id
  BY DEF Fetch, FetchModern, FetchLegacy, Login, FetchAgain, FetchUnchanged, Fetching,
         deviceVars
<1>2. ASSUME NEW result \in {{}, Answer}, Fetched(t, result)
      PROVE  /\ read' \in [Task -> {{}} \cup {{a} : a \in Reading}]
             /\ \E stage \in {"idle", "sign in", "publish"} :
                  Goto(t, stage) /\ (stage = "publish" <=> t = "refresh")
  <2>1. read' \in [Task -> {{}} \cup {{a} : a \in Reading}]
    BY <1>2, AnswerIsReading DEF Fetched, TypeInv
  <2>2. CASE t = "refresh"
    BY <1>2, <2>1, <2>2 DEF Fetched
  <2>3. CASE t = "stream"
    BY <1>2, <2>1, <2>3 DEF Fetched, Fail
  <2> QED
    BY <2>2, <2>3 DEF Task
<1>3. \/ \E result \in {{}, Answer} : Fetched(t, result)
      \/ (\E stage \in Fetching : Goto(t, stage)) /\ UNCHANGED read
  <2>1. CASE FetchModern(t)
    BY <2>1 DEF FetchModern, Fetching
  <2>2. CASE FetchLegacy(t)
    BY <2>2 DEF FetchLegacy, Fetching
  <2>3. CASE Login(t)
    BY <2>3 DEF Login, Fetching
  <2>4. CASE FetchAgain(t)
    BY <2>4 DEF FetchAgain, Fetching
  <2> QED
    BY <2>1, <2>2, <2>3, <2>4 DEF Fetch
<1>4. session' \in BOOLEAN
  BY DEF Fetch, FetchModern, FetchLegacy, Login, FetchAgain, LogsIn, LoginFails, TypeInv
<1> QED
  BY <1>1, <1>2, <1>3, <1>4 DEF TypeInv, Fetching

LEMMA TypeSteps ==
    ASSUME StreamInv, TypeInv, [Next]_vars
    PROVE  TypeInv'
<1> USE DEF StreamUnchanged, RefreshUnchanged, consoleVars, actionVars, deviceVars
<1>0. ASSUME NEW t \in Task, NEW where, Goto(t, where)
      PROVE  /\ pc'[t] = where
             /\ \A u \in Task \ {t} : pc'[u] = pc[u]
  BY <1>0 DEF StreamInv, Goto
<1>1. ASSUME NEW where \in StreamStage, Goto("stream", where),
             UNCHANGED <<console, id>>, session' \in BOOLEAN,
             read' \in [Task -> {{}} \cup {{a} : a \in Reading}]
      PROVE  TypeInv'
  BY <1>0, <1>1 DEF TypeInv, Task
<1>2. CASE \E r \in Request : SetCustomServer(r)
  <2>1. read' \in [Task -> {{}} \cup {{a} : a \in Reading}]
    BY <1>2 DEF SetCustomServer, TypeInv
  <2> QED
    BY <1>1, <1>2, <2>1 DEF SetCustomServer, StreamStage, TypeInv
<1>3. CASE EventFails \/ Resolve \/ Detect \/ SignIn \/ Post \/ Fallback \/ Report
  <2>1. UNCHANGED <<console, id, read>>
    BY <1>3 DEF EventFails, Resolve, Detect, SignIn, Post, Fallback, Report
  <2>2. session' \in BOOLEAN
    BY <1>3 DEF EventFails, Resolve, Detect, SignIn, Post, Fallback, Report, LogsIn,
                LoginFails, TypeInv
  <2>3. \E where \in StreamStage : Goto("stream", where)
    <3>1. CASE Post
      BY <3>1, Zenon DEF Post, WriteSucceeds, Fail, StreamStage
    <3> QED
      BY <1>3, <3>1 DEF EventFails, Resolve, Detect, SignIn, Fallback, Report,
                        WriteSucceeds, Fail, StreamStage, Fetching
  <2> QED
    BY <1>1, <2>1, <2>2, <2>3 DEF TypeInv
<1>4. ASSUME NEW t \in Task, Fetch(t)
      PROVE  TypeInv'
  <2>1. CASE t = "stream"
    BY <1>1, <1>4, <2>1, FetchTypes DEF StreamStage, Fetching
  <2>2. CASE t = "refresh"
    BY <1>0, <1>4, <2>2, FetchTypes DEF TypeInv, RefreshStage, Keyed, Fetching, Task
  <2> QED
    BY <2>1, <2>2 DEF Task
<1>5. CASE RefreshBegins \/ GetInfo \/ GetNetwork \/ Register \/ RegisterFails
           \/ Publish \/ PublishFails
  <2>1. UNCHANGED <<console, session>>
    BY <1>5 DEF RefreshBegins, GetInfo, GetNetwork, Register, RegisterFails, Publish,
                PublishFails
  <2>2. read' \in [Task -> {{}} \cup {{a} : a \in Reading}]
    BY <1>5 DEF RefreshBegins, GetInfo, GetNetwork, Register, RegisterFails, Publish,
                PublishFails, TypeInv
  <2>3. \E where \in RefreshStage : Goto("refresh", where) /\ (where \in Keyed => id' # {})
    BY <1>5 DEF RefreshBegins, GetInfo, GetNetwork, Register, RegisterFails, Publish,
                PublishFails, TypeInv, RefreshStage, Keyed, Fetching
  <2> QED
    BY <1>0, <2>1, <2>2, <2>3 DEF TypeInv, Task
<1>6. CASE SessionExpires \/ QueryLogsIn
  BY <1>6 DEF SessionExpires, QueryLogsIn, TypeInv
<1>7. CASE Restart
  BY <1>7 DEF Restart, TypeInv, StreamStage, RefreshStage, Keyed, Fetching, Task
<1>8. CASE UNCHANGED vars
  BY <1>8 DEF vars, TypeInv
<1> QED
  BY <1>2, <1>3, <1>4, <1>5, <1>6, <1>7, <1>8 DEF Next, Stream, Refresh, Task

\* Both tasks stay within their stages, a fetch returns settings of a known
\* shape, and no refresh goes beyond the MAC lookup without an id.
THEOREM TypeCorrect == Spec => []TypeOK
<1>1. Init => StreamInv /\ TypeInv
  <2>1. Init => StreamInv
    BY SettingsAssumption DEF Init, StreamInv, Stored, Task, StreamStage, Normalized
  <2>2. Init => TypeInv
    BY DEF Init, TypeInv, StreamStage, RefreshStage, Keyed, Fetching, Task
  <2> QED
    BY <2>1, <2>2
<1>2. StreamInv /\ TypeInv /\ [Next]_vars => StreamInv' /\ TypeInv'
  BY StreamSteps, TypeSteps
<1>3. StreamInv /\ TypeInv => TypeOK
  BY DEF StreamInv, TypeInv, TypeOK, Stored, StreamStage, RefreshStage, Keyed
<1> QED
  BY <1>1, <1>2, <1>3, PTL DEF Spec

=============================================================================
