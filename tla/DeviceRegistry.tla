--------------------------- MODULE DeviceRegistry ---------------------------
(* The path of a batch of sensor readings through the plugin: the HTTP       *)
(* receiver and the livedata poller hand batches to one registry behind an   *)
(* async mutex, which registers unknown devices with homeCore, publishes     *)
(* each device's retained schema when its attribute names changed, and       *)
(* publishes its state.  An .await of the code is a point between two        *)
(* actions, but for the two after a registration (Announce); a task keeps    *)
(* the mutex across them.                                                    *)
(*                                                                           *)
(* A reading keeps its attribute names, all that the registry looks at: it   *)
(* stands for a state, and for the schema generated from that state, which   *)
(* describes exactly these names (Readings has the JSON types it describes   *)
(* them by).  An optional value is a set with at most one element.           *)
EXTENDS Naturals, Sequences

CONSTANTS
    Device,            \* homeCore device ids the parsers can produce
    Attribute,         \* attribute names
    Handler,           \* concurrent requests of the HTTP receiver
    Poller,            \* the livedata poller: one task, or none
    Reports,           \* batches a POSTed report can parse to
    Polls,             \* batches a livedata response can parse to
    Peer,              \* source addresses of requests
    AllowedSourceIps,  \* [ecowitt].allowed_source_ips, typos dropped
    FaultyCalls,       \* calls that may return an error
    Drops,             \* when a request's future may be dropped
    OperatorDeletes,   \* may the operator DELETE /plugins/:id/devices?
    Restarts           \* may the process crash and restart?

Task == Handler \cup Poller

Reading == SUBSET Attribute
Update == [device : Device, names : Reading]
Batch == Seq(Update) \ {<<>>}

\* A handler returns early on an empty batch, a poller skips it.
ASSUME BatchAssumption == Reports \subseteq Batch /\ Polls \subseteq Batch
ASSUME TaskAssumption == Handler \cap Poller = {}
ASSUME FaultAssumption ==
    /\ FaultyCalls \subseteq {"register", "availability", "save", "schema", "state"}
    /\ Drops \subseteq {"before effect", "after effect"}
    /\ OperatorDeletes \in BOOLEAN
    /\ Restarts \in BOOLEAN

VARIABLES
    registered,      \* DeviceRegistry.registered
    publishedAttrs,  \* DeviceRegistry.published_attrs: option of a reading
    heard,           \* SharedState.last_report is Some
    holder,          \* the task inside SharedState.registry's mutex, if any
    pc, batch, pos,  \* where each task is, its batch and its place in it
    coreDevices,     \* homeCore's devices
    online,          \* devices whose availability topic says true
    schemaTopic,     \* retained schema of each device (option)
    stateTopic,      \* last published state of each device (option)
    tracked,         \* the SDK's tracked-device set
    idsFile          \* .published-device-ids.json

registryVars == <<registered, publishedAttrs>>
coreVars == <<coreDevices, online, schemaTopic, stateTopic>>
sdkVars == <<tracked, idsFile>>
taskVars == <<holder, pc, batch, pos>>
vars == <<registryVars, heard, taskVars, coreVars, sdkVars>>

Init ==
    /\ registered = {}
    /\ publishedAttrs = [d \in Device |-> {}]
    /\ heard = FALSE
    /\ holder = {}
    /\ pc = [t \in Task |-> "idle"]
    /\ batch = [t \in Task |-> <<>>]
    /\ pos = [t \in Task |-> 0]
    /\ coreDevices = {} /\ online = {}
    /\ schemaTopic = [d \in Device |-> {}]
    /\ stateTopic = [d \in Device |-> {}]
    /\ tracked = {} /\ idsFile = {}

-----------------------------------------------------------------------------
(* Arrival of a batch, and the mutex.                                        *)

IpAllowed(peer) == AllowedSourceIps = {} \/ peer \in AllowedSourceIps

Enqueue(t, b) ==
    /\ pc[t] = "idle"
    /\ pc' = [pc EXCEPT ![t] = "waiting"]
    /\ batch' = [batch EXCEPT ![t] = b]
    /\ UNCHANGED <<holder, pos, registryVars, coreVars, sdkVars>>

\* handle_report up to the registry's lock: the report counts as heard
\* before it is processed.
AcceptReport(h, peer, b) ==
    /\ IpAllowed(peer)
    /\ heard' = TRUE
    /\ Enqueue(h, b)

\* run_poller up to the registry's lock; last_report is not touched.
FetchLivedata(p, b) ==
    /\ Enqueue(p, b)
    /\ UNCHANGED heard

\* Mutant: the registry is used without its mutex.
AcquireRegistryUnlocked(t) ==
    /\ pc[t] = "waiting"
    /\ holder' = {t}
    /\ pc' = [pc EXCEPT ![t] = "register"]
    /\ pos' = [pos EXCEPT ![t] = 1]
    /\ UNCHANGED <<batch, heard, registryVars, coreVars, sdkVars>>

\* lock().await resolves.  tokio's mutex is FIFO, so no waiter starves.
AcquireRegistry(t) ==
    /\ pc[t] = "waiting" /\ holder = {}
    /\ holder' = {t}
    /\ pc' = [pc EXCEPT ![t] = "register"]
    /\ pos' = [pos EXCEPT ![t] = 1]
    /\ UNCHANGED <<batch, heard, registryVars, coreVars, sdkVars>>

\* Mutant: the guard outlives the task.
LeaveLocked(t) ==
    /\ UNCHANGED holder
    /\ pc' = [pc EXCEPT ![t] = "idle"]
    /\ pos' = [pos EXCEPT ![t] = 0]
    /\ batch' = [batch EXCEPT ![t] = <<>>]

\* The task leaves process_updates: the guard is dropped, the batch consumed.
Leave(t) ==
    /\ holder' = holder \ {t}
    /\ pc' = [pc EXCEPT ![t] = "idle"]
    /\ pos' = [pos EXCEPT ![t] = 0]
    /\ batch' = [batch EXCEPT ![t] = <<>>]

-----------------------------------------------------------------------------
(* process_updates, first loop: register devices on first sight.             *)

Current(t) == batch[t][pos[t]]

\* Mutant: the loop runs one update too far.
AtLastOffByOne(t) == pos[t] > Len(batch[t])

AtLast(t) == pos[t] = Len(batch[t])

\* Mutant: the last of several updates is never considered.
NextToRegisterSkipsLast(t) ==
    /\ pos' = [pos EXCEPT ![t] = IF pos[t] + 1 >= Len(batch[t]) THEN 1 ELSE @ + 1]
    /\ pc' = [pc EXCEPT ![t] = IF pos[t] + 1 >= Len(batch[t]) THEN "schema" ELSE "register"]
    /\ UNCHANGED <<holder, batch, heard>>

\* The next update of the first loop, or the start of the second.
NextToRegister(t) ==
    /\ pos' = [pos EXCEPT ![t] = IF AtLast(t) THEN 1 ELSE @ + 1]
    /\ pc' = [pc EXCEPT ![t] = IF AtLast(t) THEN "schema" ELSE "register"]
    /\ UNCHANGED <<holder, batch, heard>>

AlreadyRegistered(t) ==
    /\ pc[t] = "register" /\ Current(t).device \in registered
    /\ NextToRegister(t)
    /\ UNCHANGED <<registryVars, coreVars, sdkVars>>

\* register_device_full: homeCore learns the device, the SDK tracks it and
\* persists what it tracks.
CoreRegisters(d) ==
    /\ coreDevices' = coreDevices \cup {d}
    /\ tracked' = tracked \cup {d}
    /\ idsFile' = tracked'

RegisterDevice(t) ==
    /\ pc[t] = "register" /\ Current(t).device \notin registered
    /\ CoreRegisters(Current(t).device)
    /\ pc' = [pc EXCEPT ![t] = "announce"]
    /\ UNCHANGED <<holder, batch, pos, heard, registryVars,
                   online, schemaTopic, stateTopic>>

\* Mutant: the early return after an error is lost.
RegisterFailsButInserts(t) ==
    /\ "register" \in FaultyCalls
    /\ pc[t] = "register" /\ Current(t).device \notin registered
    /\ registered' = registered \cup {Current(t).device}
    /\ NextToRegister(t)
    /\ UNCHANGED <<publishedAttrs, coreVars, sdkVars>>

RegisterFails(t) ==
    /\ "register" \in FaultyCalls
    /\ pc[t] = "register" /\ Current(t).device \notin registered
    /\ NextToRegister(t)
    /\ UNCHANGED <<registryVars, coreVars, sdkVars>>

\* The rest of register_device: the command topic and availability, which are
\* awaited one after the other with nothing between them that others see, then
\* registered.insert, then save_cache, which overwrites the file with this
\* process's own devices.
Announce(t) ==
    /\ pc[t] = "announce"
    /\ LET d == Current(t).device IN
       /\ \/ online' = online \cup {d}
          \/ "availability" \in FaultyCalls /\ UNCHANGED online
       /\ registered' = registered \cup {d}
       /\ \/ idsFile' = registered'
          \/ "save" \in FaultyCalls /\ UNCHANGED idsFile
    /\ NextToRegister(t)
    /\ UNCHANGED <<publishedAttrs, coreDevices, schemaTopic, stateTopic, tracked>>

-----------------------------------------------------------------------------
(* process_updates, second loop: schema if the names changed, then state.    *)

\* Mutant: the schema is published on first sight only.
SchemaMissing(t) == publishedAttrs[Current(t).device] = {}

SchemaChanged(t) ==
    publishedAttrs[Current(t).device] # {Current(t).names}

ToState(t) ==
    /\ pc' = [pc EXCEPT ![t] = "state"]
    /\ UNCHANGED <<holder, batch, pos, heard, registered, sdkVars,
                   coreDevices, online, stateTopic>>

SchemaUnchanged(t) ==
    /\ pc[t] = "schema" /\ ~SchemaChanged(t)
    /\ ToState(t)
    /\ UNCHANGED <<publishedAttrs, schemaTopic>>

\* schema::publish sends nothing for an empty reading, and reports success.
SendSchema(u) ==
    schemaTopic' = IF u.names = {} THEN schemaTopic
                   ELSE [schemaTopic EXCEPT ![u.device] = {u.names}]

PublishSchema(t) ==
    /\ pc[t] = "schema" /\ SchemaChanged(t)
    /\ SendSchema(Current(t))
    /\ publishedAttrs' =
         [publishedAttrs EXCEPT ![Current(t).device] = {Current(t).names}]
    /\ ToState(t)

SchemaFails(t) ==
    /\ "schema" \in FaultyCalls
    /\ pc[t] = "schema" /\ SchemaChanged(t)
    /\ ToState(t)
    /\ UNCHANGED <<publishedAttrs, schemaTopic>>

SendState(u) == stateTopic' = [stateTopic EXCEPT ![u.device] = {u.names}]

\* The next update of the second loop, or the end of process_updates.
NextToPublish(t) ==
    IF AtLast(t)
    THEN Leave(t)
    ELSE /\ pos' = [pos EXCEPT ![t] = @ + 1]
         /\ pc' = [pc EXCEPT ![t] = "schema"]
         /\ UNCHANGED <<holder, batch>>

\* publish_state's result is ignored.
PublishState(t) ==
    /\ pc[t] = "state"
    /\ \/ SendState(Current(t))
       \/ "state" \in FaultyCalls /\ UNCHANGED stateTopic
    /\ NextToPublish(t)
    /\ UNCHANGED <<heard, registryVars, sdkVars, coreDevices, online, schemaTopic>>

-----------------------------------------------------------------------------
(* The environment.                                                          *)

\* The client of a request went away: hyper drops the handler's future at an
\* await point, and with it the mutex guard.  The call in flight had no effect.
DropRequest(h) ==
    /\ "before effect" \in Drops
    /\ pc[h] # "idle"
    /\ Leave(h)
    /\ UNCHANGED <<heard, registryVars, coreVars, sdkVars>>

\* The same, after the message of the call in flight was handed to the broker.
DropSentRequest(h) ==
    /\ "after effect" \in Drops
    /\ \/ /\ pc[h] = "register" /\ Current(h).device \notin registered
          /\ CoreRegisters(Current(h).device)
          /\ UNCHANGED <<online, schemaTopic, stateTopic>>
       \/ /\ pc[h] = "announce"
          /\ online' = online \cup {Current(h).device}
          /\ UNCHANGED <<coreDevices, schemaTopic, stateTopic, sdkVars>>
       \/ /\ pc[h] = "schema" /\ SchemaChanged(h)
          /\ SendSchema(Current(h))
          /\ UNCHANGED <<coreDevices, online, stateTopic, sdkVars>>
       \/ /\ pc[h] = "state"
          /\ SendState(Current(h))
          /\ UNCHANGED <<coreDevices, online, schemaTopic, sdkVars>>
    /\ Leave(h)
    /\ UNCHANGED <<heard, registryVars>>

\* The operator deletes a device from homeCore; the SDK stops tracking it.
OperatorDelete(d) ==
    /\ OperatorDeletes /\ d \in coreDevices
    /\ coreDevices' = coreDevices \ {d}
    /\ online' = online \ {d}
    /\ schemaTopic' = [schemaTopic EXCEPT ![d] = {}]
    /\ stateTopic' = [stateTopic EXCEPT ![d] = {}]
    /\ tracked' = tracked \ {d}
    /\ idsFile' = idsFile \ {d}
    /\ UNCHANGED <<registryVars, heard, taskVars>>

\* The process dies and starts again: memory is lost, the SDK reloads its
\* snapshot, what homeCore and the broker retain stays.
Restart ==
    /\ Restarts
    /\ registered' = {}
    /\ publishedAttrs' = [d \in Device |-> {}]
    /\ heard' = FALSE
    /\ holder' = {}
    /\ pc' = [t \in Task |-> "idle"]
    /\ batch' = [t \in Task |-> <<>>]
    /\ pos' = [t \in Task |-> 0]
    /\ tracked' = idsFile
    /\ UNCHANGED <<coreVars, idsFile>>

-----------------------------------------------------------------------------

Process(t) ==
    \/ AlreadyRegistered(t) \/ RegisterDevice(t) \/ RegisterFails(t) \/ Announce(t)
    \/ SchemaUnchanged(t) \/ PublishSchema(t) \/ SchemaFails(t) \/ PublishState(t)

Next ==
    \/ \E h \in Handler, peer \in Peer, b \in Reports : AcceptReport(h, peer, b)
    \/ \E p \in Poller, b \in Polls : FetchLivedata(p, b)
    \/ \E t \in Task : AcquireRegistry(t) \/ Process(t)
    \/ \E h \in Handler : DropRequest(h) \/ DropSentRequest(h)
    \/ \E d \in Device : OperatorDelete(d)
    \/ Restart

Spec == Init /\ [][Next]_vars

-----------------------------------------------------------------------------
(* Scheduling.  The SDK's calls return and the async mutex is fair; nothing  *)
(* is promised of requests, drops, deletions and restarts.                   *)

Fairness ==
    \A t \in Task : WF_vars(Process(t)) /\ SF_vars(AcquireRegistry(t))

\* The gateway keeps reporting every device it has reported.
ReportsKeepComing ==
    \A d \in Device : SF_vars(\E h \in Handler, peer \in Peer, b \in Reports :
        (\E i \in 1 .. Len(b) : b[i].device = d) /\ AcceptReport(h, peer, b))

\* Registration does not fail for ever.
RegistrationRecovers ==
    \A d \in Device : SF_vars(\E t \in Task :
        pc[t] = "register" /\ Current(t).device = d /\ RegisterDevice(t))

LiveSpec == Spec /\ Fairness
FairSpec == LiveSpec /\ ReportsKeepComing /\ RegistrationRecovers

-----------------------------------------------------------------------------
(* Properties.                                                               *)

InProcess(t) == pc[t] \in {"register", "announce", "schema", "state"}

\* A task that holds the registry is at an update of its batch.
TaskTypeOK ==
    /\ holder \subseteq Task
    /\ pc \in [Task -> {"idle", "waiting", "register", "announce", "schema", "state"}]
    /\ batch \in [Task -> Seq(Update)]
    /\ pos \in [Task -> Nat]
    /\ \A t \in Task : InProcess(t) => pos[t] \in 1 .. Len(batch[t])

\* Every variable has its type, and the two loops of process_updates stay
\* within the batch.
TypeOK ==
    /\ TaskTypeOK
    /\ registered \subseteq Device
    /\ publishedAttrs \in [Device -> SUBSET Reading]
    /\ heard \in BOOLEAN
    /\ coreDevices \subseteq Device /\ online \subseteq Device
    /\ schemaTopic \in [Device -> SUBSET Reading]
    /\ stateTopic \in [Device -> SUBSET Reading]
    /\ tracked \subseteq Device /\ idsFile \subseteq Device

\* A device the registry will not register again is one homeCore has and,
\* when availability messages are not lost, shows as online: whichever calls
\* failed, whichever request was dropped half-way, whatever was forgotten in a
\* restart.
RegisteredAtCore ==
    /\ registered \subseteq coreDevices
    /\ "availability" \notin FaultyCalls => registered \subseteq online

\* process_updates publishes in order and nobody overtakes it: while a task
\* walks its second loop, the last reading of every device behind it is the
\* one it published.
BatchPrefixPublished ==
    \A t \in Task : pc[t] \in {"schema", "state"} =>
        \A i \in 1 .. pos[t] - 1 :
            (\A j \in i + 1 .. pos[t] - 1 : batch[t][j].device # batch[t][i].device)
            => stateTopic[batch[t][i].device] = {batch[t][i].names}

DeclaredNames(d) == UNION schemaTopic[d]
ReportedNames(d) == UNION stateTopic[d]

\* schema.rs: "Republished as the reported set grows": no reading is published
\* while the retained schema lacks one of its attributes, although the schema
\* is sent only when the registry's memory of it differs.
EveryReadingDeclared ==
    [][\A d \in Device : stateTopic'[d] # stateTopic[d]
         => ReportedNames(d)' \subseteq DeclaredNames(d)]_vars

\* With reliable registration and schema calls the registry, its mutex, its
\* caches and its restarts are invisible: homeCore sees a DeviceFeed.
Feed == INSTANCE DeviceFeed WITH
    devices <- coreDevices,
    declared <- [d \in Device |-> DeclaredNames(d)],
    reported <- [d \in Device |-> ReportedNames(d)]

IsDeviceFeed == Feed!Spec

\* Every request that was let in, and every poll, is answered.
BatchAnswered == \A t \in Task : pc[t] # "idle" ~> pc[t] = "idle"

\* The registry has registered d, or is past register_device_full for it.
Remembered(d) ==
    d \in registered \/ \E t \in Task : pc[t] = "announce" /\ Current(t).device = d

\* "On first sight of a device_id, registers it automatically": whenever the
\* registry does not remember a device that keeps being reported, homeCore has
\* it later.  Registration may fail any number of times, requests be dropped,
\* the process restart, the operator delete the device: a failure is never
\* remembered as a success.  Nothing is promised of a device deleted while the
\* registry does remember it: see DeletedDeviceComesBack.
EveryDeviceRegistered == \A d \in Device : ~Remembered(d) ~> d \in coreDevices

-----------------------------------------------------------------------------
(* What the repository says and the code does not do.                        *)

\* main.rs: "SDK persistence so the tracked-device set survives restarts".
TrackedSurvivesRestart ==
    [][(heard /\ ~heard') => tracked \subseteq tracked']_vars

\* main.rs: "Use DELETE /plugins/:id/devices to clean up zombies on demand;
\* auto-register-on-first-sight recreates anything that's still live".
DeletedDeviceComesBack == \A d \in Device : []<>(d \in coreDevices)

=============================================================================
