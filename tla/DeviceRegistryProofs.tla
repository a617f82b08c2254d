------------------------ MODULE DeviceRegistryProofs ------------------------
(* Theorems about DeviceRegistry, for every set of devices, attributes,      *)
(* tasks and batches.                                                        *)
EXTENDS DeviceRegistry, SequenceTheorems, TLAPS

-----------------------------------------------------------------------------
\* A task inside process_updates is at an update of its batch.
LEMMA CurrentType ==
    ASSUME TaskTypeOK, NEW t \in Task, InProcess(t)
    PROVE  /\ Current(t) \in Update
           /\ Current(t).device \in Device
           /\ Current(t).names \in Reading
<1>1. batch[t] \in Seq(Update) /\ pos[t] \in 1 .. Len(batch[t])
  BY DEF TaskTypeOK
<1>2. Current(t) \in Update
  BY <1>1, ElementOfSeq DEF Current
<1> QED
  BY <1>2 DEF Update

-----------------------------------------------------------------------------
(* Types, and the mutex.                                                     *)

\* A busy task has a batch; the tasks inside process_updates are those that
\* hold the registry's mutex, and there is at most one.
TasksOK ==
    /\ \A t \in Task : pc[t] # "idle" => batch[t] # <<>>
    /\ \A t \in Task : InProcess(t) <=> t \in holder
    /\ \A s, t \in holder : s = t

TaskInv == TaskTypeOK /\ TasksOK

\* Leaving process_updates, finished or dropped, keeps types and mutex.
LEMMA LeaveTasks ==
    ASSUME TaskInv, NEW t \in Task, Leave(t)
    PROVE  TaskInv'
<1>1. <<>> \in Seq(Update)
  OBVIOUS
<1>2. \A s \in Task : s # t => pc'[s] = pc[s] /\ pos'[s] = pos[s] /\ batch'[s] = batch[s]
  BY DEF TaskInv, TaskTypeOK, Leave
<1>3. pc'[t] = "idle"
  BY DEF TaskInv, TaskTypeOK, Leave
<1>4. \A s \in Task : InProcess(s)' <=> s # t /\ InProcess(s)
  BY <1>2, <1>3 DEF InProcess
<1>5. TasksOK'
  BY <1>2, <1>3, <1>4 DEF TaskInv, TasksOK, Leave
<1>6. TaskTypeOK'
  BY <1>1, <1>2, <1>4 DEF TaskInv, TaskTypeOK, Leave
<1> QED
  BY <1>5, <1>6 DEF TaskInv

\* So does a step of the task inside process_updates to some update of its
\* batch, whichever phase it enters.
LEMMA WalkTasks ==
    ASSUME TaskInv, NEW t \in Task, InProcess(t),
           NEW place \in 1 .. Len(batch[t]),
           NEW phase \in {"register", "announce", "schema", "state"},
           pos' = [pos EXCEPT ![t] = place],
           pc' = [pc EXCEPT ![t] = phase],
           holder' = holder, batch' = batch
    PROVE  TaskInv'
<1>1. Len(batch[t]) \in Nat /\ place \in Nat
  BY DEF TaskInv, TaskTypeOK
<1>2. /\ pos' \in [Task -> Nat]
      /\ \A s \in Task : s # t => pos'[s] = pos[s]
      /\ pos'[t] = place
  BY <1>1 DEF TaskInv, TaskTypeOK
<1>3. /\ pc' \in [Task -> {"idle", "waiting", "register", "announce", "schema", "state"}]
      /\ \A s \in Task : s # t => pc'[s] = pc[s]
      /\ pc'[t] = phase
  BY DEF TaskInv, TaskTypeOK
<1>4. \A s \in Task : InProcess(s)' <=> InProcess(s)
  BY <1>3 DEF InProcess
<1>5. TasksOK'
  BY <1>3, <1>4 DEF TaskInv, TasksOK, InProcess
<1>6. \A s \in Task : InProcess(s)' => pos'[s] \in 1 .. Len(batch'[s])
  BY <1>2, <1>4 DEF TaskInv, TaskTypeOK
<1>7. TaskTypeOK'
  BY <1>2, <1>3, <1>6 DEF TaskInv, TaskTypeOK
<1> QED
  BY <1>5, <1>7 DEF TaskInv

\* A task inside process_updates that is not at its last update may go on.
LEMMA PlaceInBatch ==
    ASSUME TaskInv, NEW t \in Task, InProcess(t)
    PROVE  /\ pos[t] \in 1 .. Len(batch[t])
           /\ 1 \in 1 .. Len(batch[t])
           /\ ~AtLast(t) => pos[t] + 1 \in 1 .. Len(batch[t])
<1>1. pos[t] \in 1 .. Len(batch[t]) /\ Len(batch[t]) \in Nat
  BY DEF TaskInv, TaskTypeOK
<1> QED
  BY <1>1 DEF AtLast

LEMMA NextToRegisterTasks ==
    ASSUME TaskInv, NEW t \in Task, InProcess(t), NextToRegister(t)
    PROVE  TaskInv'
<1> DEFINE place == IF AtLast(t) THEN 1 ELSE pos[t] + 1
           phase == IF AtLast(t) THEN "schema" ELSE "register"
<1>1. place \in 1 .. Len(batch[t]) /\ phase \in {"register", "announce", "schema", "state"}
  BY PlaceInBatch
<1>2. /\ pos' = [pos EXCEPT ![t] = place]
      /\ pc' = [pc EXCEPT ![t] = phase]
      /\ holder' = holder /\ batch' = batch
  BY DEF NextToRegister
<1> HIDE DEF place, phase
<1> QED
  BY <1>1, <1>2, WalkTasks

LEMMA NextToPublishTasks ==
    ASSUME TaskInv, NEW t \in Task, InProcess(t), NextToPublish(t)
    PROVE  TaskInv'
<1>1. CASE AtLast(t)
  <2>1. Leave(t)
    BY <1>1 DEF NextToPublish
  <2> QED
    BY <2>1, LeaveTasks
<1>2. CASE ~AtLast(t)
  <2>1. /\ pos' = [pos EXCEPT ![t] = pos[t] + 1]
        /\ pc' = [pc EXCEPT ![t] = "schema"]
        /\ holder' = holder /\ batch' = batch
    BY <1>2 DEF NextToPublish
  <2>2. pos[t] + 1 \in 1 .. Len(batch[t])
    BY <1>2, PlaceInBatch
  <2> QED
    BY <2>1, <2>2, WalkTasks
<1> QED
  BY <1>1, <1>2

LEMMA EnqueueTasks ==
    ASSUME TaskInv, NEW t \in Task, NEW b \in Batch, Enqueue(t, b)
    PROVE  TaskInv'
<1>1. b \in Seq(Update) /\ b # <<>>
  BY DEF Batch
<1>2. \A s \in Task : s # t => pc'[s] = pc[s] /\ batch'[s] = batch[s]
  BY DEF TaskInv, TaskTypeOK, Enqueue
<1>3. pc[t] = "idle" /\ pc'[t] = "waiting" /\ batch'[t] = b
  BY DEF TaskInv, TaskTypeOK, Enqueue
<1>4. holder' = holder /\ pos' = pos
  BY DEF Enqueue
<1>5. \A s \in Task : InProcess(s)' <=> s # t /\ InProcess(s)
  BY <1>2, <1>3 DEF InProcess
<1>6. ~InProcess(t)
  BY <1>3 DEF InProcess
<1>7. TasksOK'
  BY <1>1, <1>2, <1>3, <1>4, <1>5, <1>6 DEF TaskInv, TasksOK
<1>8. TaskTypeOK'
  BY <1>1, <1>2, <1>4, <1>5 DEF TaskInv, TaskTypeOK, Enqueue
<1> QED
  BY <1>7, <1>8 DEF TaskInv

LEMMA AcquireTasks ==
    ASSUME TaskInv, NEW t \in Task, AcquireRegistry(t)
    PROVE  TaskInv'
<1>1. pc[t] = "waiting" /\ holder = {} /\ holder' = {t} /\ batch' = batch
  BY DEF AcquireRegistry
<1>2. \A s \in Task : s # t => pc'[s] = pc[s] /\ pos'[s] = pos[s]
  BY DEF TaskInv, TaskTypeOK, AcquireRegistry
<1>3. pc'[t] = "register" /\ pos'[t] = 1
  BY DEF TaskInv, TaskTypeOK, AcquireRegistry
<1>4. 1 \in 1 .. Len(batch[t])
  <2>1. batch[t] \in Seq(Update) /\ batch[t] # <<>>
    BY <1>1 DEF TaskInv, TaskTypeOK, TasksOK
  <2> QED
    BY <2>1, EmptySeq
<1>5. \A s \in Task : InProcess(s)' <=> s = t
  BY <1>1, <1>2, <1>3 DEF InProcess, TaskInv, TasksOK
<1>6. TasksOK'
  BY <1>1, <1>2, <1>3, <1>5 DEF TaskInv, TasksOK
<1>7. TaskTypeOK'
  BY <1>1, <1>3, <1>4, <1>5 DEF TaskInv, TaskTypeOK, AcquireRegistry
<1> QED
  BY <1>6, <1>7 DEF TaskInv

LEMMA ToStateTasks ==
    ASSUME TaskInv, NEW t \in Task, InProcess(t), ToState(t)
    PROVE  TaskInv'
<1>1. /\ pc' = [pc EXCEPT ![t] = "state"]
      /\ pos' = [pos EXCEPT ![t] = pos[t]]
      /\ holder' = holder /\ batch' = batch
  BY DEF ToState, TaskInv, TaskTypeOK
<1> QED
  BY <1>1, PlaceInBatch, WalkTasks

\* Every step keeps the tasks and the mutex in order.
LEMMA StepTasks ==
    ASSUME TaskInv, [Next]_vars
    PROVE  TaskInv'
<1>1. ASSUME NEW h \in Handler, NEW peer \in Peer, NEW b \in Reports,
             AcceptReport(h, peer, b)
      PROVE  TaskInv'
  <2>1. h \in Task /\ b \in Batch /\ Enqueue(h, b)
    BY <1>1, BatchAssumption DEF AcceptReport, Task
  <2> QED
    BY <2>1, EnqueueTasks
<1>2. ASSUME NEW p \in Poller, NEW b \in Polls, FetchLivedata(p, b)
      PROVE  TaskInv'
  <2>1. p \in Task /\ b \in Batch /\ Enqueue(p, b)
    BY <1>2, BatchAssumption DEF FetchLivedata, Task
  <2> QED
    BY <2>1, EnqueueTasks
<1>3. ASSUME NEW t \in Task, Process(t)
      PROVE  TaskInv'
  <2>1. InProcess(t)
    BY <1>3 DEF Process, InProcess, AlreadyRegistered, RegisterDevice, RegisterFails,
        Announce, SchemaUnchanged, PublishSchema, SchemaFails, PublishState
  <2>2. CASE NextToRegister(t)
    BY <2>1, <2>2, NextToRegisterTasks
  <2>3. CASE ToState(t)
    BY <2>1, <2>3, ToStateTasks
  <2>4. CASE NextToPublish(t)
    BY <2>1, <2>4, NextToPublishTasks
  <2>5. CASE RegisterDevice(t)
    <3>1. /\ pc' = [pc EXCEPT ![t] = "announce"]
          /\ pos' = [pos EXCEPT ![t] = pos[t]]
          /\ holder' = holder /\ batch' = batch
      BY <2>5 DEF RegisterDevice, TaskInv, TaskTypeOK
    <3> QED
      BY <2>1, <3>1, PlaceInBatch, WalkTasks
  <2> QED
    BY <1>3, <2>2, <2>3, <2>4, <2>5 DEF Process, AlreadyRegistered, RegisterFails,
        Announce, SchemaUnchanged, PublishSchema, SchemaFails, PublishState
<1>4. ASSUME NEW h \in Handler, DropRequest(h) \/ DropSentRequest(h)
      PROVE  TaskInv'
  <2>1. h \in Task /\ Leave(h)
    BY <1>4 DEF DropRequest, DropSentRequest, Task
  <2> QED
    BY <2>1, LeaveTasks
<1>5. CASE Restart
  <2>1. <<>> \in Seq(Update)
    OBVIOUS
  <2> QED
    BY <1>5, <2>1 DEF Restart, TaskInv, TaskTypeOK, TasksOK, InProcess
<1>6. CASE UNCHANGED taskVars
  BY <1>6 DEF taskVars, TaskInv, TaskTypeOK, TasksOK, InProcess
<1> QED
  BY <1>1, <1>2, <1>3, <1>4, <1>5, <1>6, AcquireTasks DEF Next, vars, OperatorDelete

DataTypeOK ==
    /\ registered \subseteq Device
    /\ publishedAttrs \in [Device -> SUBSET Reading]
    /\ heard \in BOOLEAN
    /\ coreDevices \subseteq Device /\ online \subseteq Device
    /\ schemaTopic \in [Device -> SUBSET Reading]
    /\ stateTopic \in [Device -> SUBSET Reading]
    /\ tracked \subseteq Device /\ idsFile \subseteq Device

\* The actions of a task and the topics, caches and sets they write.
LEMMA ProcessData ==
    ASSUME TaskInv, DataTypeOK, NEW t \in Task, Process(t)
    PROVE  DataTypeOK'
<1>1. InProcess(t)
  BY DEF Process, InProcess, AlreadyRegistered, RegisterDevice, RegisterFails,
      Announce, SchemaUnchanged, PublishSchema, SchemaFails, PublishState
<1> DEFINE u == Current(t)
<1>2. u.device \in Device /\ u.names \in Reading
  BY <1>1, CurrentType DEF TaskInv
<1> HIDE DEF u
<1>3. CASE AlreadyRegistered(t) \/ RegisterFails(t)
  BY <1>3 DEF AlreadyRegistered, RegisterFails, NextToRegister, DataTypeOK,
      registryVars, coreVars, sdkVars
<1>4. CASE RegisterDevice(t)
  BY <1>2, <1>4 DEF RegisterDevice, CoreRegisters, DataTypeOK, registryVars, u
<1>5. CASE Announce(t)
  BY <1>2, <1>5 DEF Announce, NextToRegister, DataTypeOK, u
<1>6. CASE SchemaUnchanged(t) \/ SchemaFails(t)
  BY <1>6 DEF SchemaUnchanged, SchemaFails, ToState, DataTypeOK, sdkVars
<1>7. CASE PublishSchema(t)
  <2>1. publishedAttrs' = [publishedAttrs EXCEPT ![u.device] = {u.names}]
    BY <1>7 DEF PublishSchema, u
  <2>2. \/ schemaTopic' = schemaTopic
        \/ schemaTopic' = [schemaTopic EXCEPT ![u.device] = {u.names}]
    BY <1>7 DEF PublishSchema, SendSchema, u
  <2>3. publishedAttrs' \in [Device -> SUBSET Reading]
    BY <1>2, <2>1 DEF DataTypeOK
  <2>4. schemaTopic' \in [Device -> SUBSET Reading]
    BY <1>2, <2>2 DEF DataTypeOK
  <2> QED
    BY <1>7, <2>3, <2>4 DEF PublishSchema, ToState, DataTypeOK, sdkVars
<1>8. CASE PublishState(t)
  <2>1. \/ stateTopic' = stateTopic
        \/ stateTopic' = [stateTopic EXCEPT ![u.device] = {u.names}]
    BY <1>8 DEF PublishState, SendState, u
  <2>2. stateTopic' \in [Device -> SUBSET Reading]
    BY <1>2, <2>1 DEF DataTypeOK
  <2> QED
    BY <1>8, <2>2 DEF PublishState, DataTypeOK, sdkVars, registryVars
<1> QED
  BY <1>3, <1>4, <1>5, <1>6, <1>7, <1>8 DEF Process

LEMMA DropSentData ==
    ASSUME TaskInv, DataTypeOK, NEW h \in Task, DropSentRequest(h)
    PROVE  DataTypeOK'
<1>1. InProcess(h)
  BY DEF InProcess, DropSentRequest
<1> DEFINE u == Current(h)
<1>2. u.device \in Device /\ u.names \in Reading
  BY <1>1, CurrentType DEF TaskInv
<1> HIDE DEF u
<1>3. /\ \/ schemaTopic' = schemaTopic
         \/ schemaTopic' = [schemaTopic EXCEPT ![u.device] = {u.names}]
      /\ \/ stateTopic' = stateTopic
         \/ stateTopic' = [stateTopic EXCEPT ![u.device] = {u.names}]
  BY DEF DropSentRequest, SendSchema, SendState, u
<1>4. schemaTopic' \in [Device -> SUBSET Reading]
  BY <1>2, <1>3 DEF DataTypeOK
<1>5. stateTopic' \in [Device -> SUBSET Reading]
  BY <1>2, <1>3 DEF DataTypeOK
<1>6. /\ coreDevices' \subseteq Device /\ online' \subseteq Device
      /\ tracked' \subseteq Device /\ idsFile' \subseteq Device
  BY <1>2 DEF DropSentRequest, CoreRegisters, DataTypeOK, sdkVars, u
<1> QED
  BY <1>4, <1>5, <1>6 DEF DropSentRequest, DataTypeOK, registryVars

LEMMA StepData ==
    ASSUME TaskInv, DataTypeOK, [Next]_vars
    PROVE  DataTypeOK'
<1>1. ASSUME NEW h \in Handler, NEW peer \in Peer, NEW b \in Reports,
             AcceptReport(h, peer, b)
      PROVE  DataTypeOK'
  BY <1>1 DEF AcceptReport, Enqueue, DataTypeOK, registryVars, coreVars, sdkVars
<1>2. ASSUME NEW p \in Poller, NEW b \in Polls, FetchLivedata(p, b)
      PROVE  DataTypeOK'
  BY <1>2 DEF FetchLivedata, Enqueue, DataTypeOK, registryVars, coreVars, sdkVars
<1>3. ASSUME NEW t \in Task, AcquireRegistry(t)
      PROVE  DataTypeOK'
  BY <1>3 DEF AcquireRegistry, DataTypeOK, registryVars, coreVars, sdkVars
<1>4. ASSUME NEW h \in Handler, DropRequest(h)
      PROVE  DataTypeOK'
  BY <1>4 DEF DropRequest, DataTypeOK, registryVars, coreVars, sdkVars
<1>5. ASSUME NEW d \in Device, OperatorDelete(d)
      PROVE  DataTypeOK'
  BY <1>5 DEF OperatorDelete, DataTypeOK, registryVars
<1>6. CASE Restart
  BY <1>6 DEF Restart, DataTypeOK, coreVars
<1>7. CASE UNCHANGED vars
  BY <1>7 DEF vars, DataTypeOK, registryVars, coreVars, sdkVars
<1>8. \A h \in Handler : h \in Task
  BY DEF Task
<1> QED
  BY <1>1, <1>2, <1>3, <1>4, <1>5, <1>6, <1>7, <1>8, ProcessData, DropSentData DEF Next

LEMMA InitTypes ==
    ASSUME Init
    PROVE  TaskInv /\ DataTypeOK
<1>1. <<>> \in Seq(Update)
  OBVIOUS
<1>2. TaskInv
  BY <1>1 DEF Init, TaskInv, TaskTypeOK, TasksOK, InProcess
<1>3. DataTypeOK
  BY DEF Init, DataTypeOK
<1> QED
  BY <1>2, <1>3

\* Every variable has its type in every reachable state; in particular no loop
\* of process_updates leaves its batch, and the mutex has one holder.
THEOREM TypeCorrect == Spec => [](TypeOK /\ TasksOK)
<1>1. Init => TaskInv /\ DataTypeOK
  BY InitTypes
<1>2. (TaskInv /\ DataTypeOK) /\ [Next]_vars => (TaskInv /\ DataTypeOK)'
  BY StepTasks, StepData
<1>3. TaskInv /\ DataTypeOK => TypeOK /\ TasksOK
  BY DEF TaskInv, DataTypeOK, TypeOK
<1> QED
  BY <1>1, <1>2, <1>3, PTL DEF Spec

-----------------------------------------------------------------------------
(* What is registered is at homeCore.                                        *)

\* A step of one task leaves the others where they are.
LEMMA ProcessOthers ==
    ASSUME TaskInv, NEW t \in Task, Process(t), NEW s \in Task, s # t
    PROVE  pc'[s] = pc[s] /\ batch'[s] = batch[s] /\ pos'[s] = pos[s]
<1>1. CASE NextToRegister(t)
  BY <1>1 DEF TaskInv, TaskTypeOK, NextToRegister
<1>2. CASE ToState(t)
  BY <1>2 DEF TaskInv, TaskTypeOK, ToState
<1>3. CASE NextToPublish(t)
  BY <1>3 DEF TaskInv, TaskTypeOK, NextToPublish, Leave
<1>4. CASE RegisterDevice(t)
  BY <1>4 DEF TaskInv, TaskTypeOK, RegisterDevice
<1> QED
  BY <1>1, <1>2, <1>3, <1>4 DEF Process, AlreadyRegistered, RegisterFails,
      Announce, SchemaUnchanged, PublishSchema, SchemaFails, PublishState

\* Between register_device_full and registered.insert homeCore has the device.
AnnouncedAtCore ==
    \A t \in Task : pc[t] = "announce" => Current(t).device \in coreDevices

CoreInv == TaskInv /\ RegisteredAtCore /\ AnnouncedAtCore

LEMMA ProcessCore ==
    ASSUME CoreInv, NEW t \in Task, Process(t)
    PROVE  RegisteredAtCore' /\ AnnouncedAtCore'
<1>1. coreDevices \subseteq coreDevices' /\ online \subseteq online'
  BY DEF Process, AlreadyRegistered, RegisterDevice, RegisterFails, Announce,
      SchemaUnchanged, PublishSchema, SchemaFails, PublishState, NextToRegister,
      ToState, CoreRegisters, coreVars
<1>2. \A s \in Task : s # t /\ pc'[s] = "announce" => Current(s)'.device \in coreDevices'
  <2> SUFFICES ASSUME NEW s \in Task, s # t, pc'[s] = "announce"
               PROVE  Current(s)'.device \in coreDevices'
    OBVIOUS
  <2>1. pc[s] = "announce" /\ Current(s)' = Current(s)
    BY ProcessOthers DEF CoreInv, Current
  <2> QED
    BY <2>1, <1>1 DEF CoreInv, AnnouncedAtCore
<1>3. CASE RegisterDevice(t)
  <2>1. Current(t)' = Current(t) /\ Current(t).device \in coreDevices'
    BY <1>3 DEF RegisterDevice, CoreRegisters, Current
  <2>2. registered' = registered
    BY <1>3 DEF RegisterDevice, registryVars
  <2> QED
    BY <1>1, <1>2, <2>1, <2>2 DEF CoreInv, RegisteredAtCore, AnnouncedAtCore
<1>4. CASE ~RegisterDevice(t)
  <2>1. pc'[t] # "announce"
    BY <1>4 DEF Process, AlreadyRegistered, RegisterFails, Announce, SchemaUnchanged,
        PublishSchema, SchemaFails, PublishState, NextToRegister, ToState,
        NextToPublish, Leave, CoreInv, TaskInv, TaskTypeOK
  <2>2. AnnouncedAtCore'
    BY <1>2, <2>1 DEF AnnouncedAtCore
  <2>3. RegisteredAtCore'
    <3>1. CASE Announce(t)
      <4>1. /\ Current(t).device \in coreDevices
            /\ registered' = registered \cup {Current(t).device}
            /\ "availability" \notin FaultyCalls => Current(t).device \in online'
        BY <3>1 DEF Announce, CoreInv, AnnouncedAtCore
      <4> QED
        BY <1>1, <4>1 DEF CoreInv, RegisteredAtCore
    <3>2. CASE ~Announce(t)
      <4>1. registered' = registered
        BY <1>4, <3>2 DEF Process, AlreadyRegistered, RegisterFails, SchemaUnchanged,
            PublishSchema, SchemaFails, PublishState, ToState, registryVars
      <4> QED
        BY <1>1, <4>1 DEF CoreInv, RegisteredAtCore
    <3> QED
      BY <3>1, <3>2
  <2> QED
    BY <2>2, <2>3
<1> QED
  BY <1>3, <1>4

\* Any step of the environment but a deletion at most adds to homeCore, and
\* starts no announcement.
LEMMA EnvironmentCore ==
    ASSUME CoreInv, [Next]_vars, ~OperatorDeletes, \A t \in Task : ~Process(t)
    PROVE  RegisteredAtCore' /\ AnnouncedAtCore'
<1>1. /\ registered' \subseteq registered
      /\ coreDevices \subseteq coreDevices' /\ online \subseteq online'
  BY DEF Next, vars, AcceptReport, FetchLivedata, Enqueue, AcquireRegistry, DropRequest,
      DropSentRequest, CoreRegisters, OperatorDelete, Restart, registryVars, coreVars
<1>2. \A t \in Task : pc'[t] = "announce" => pc[t] = "announce" /\ Current(t)' = Current(t)
  <2> SUFFICES ASSUME NEW t \in Task, pc'[t] = "announce"
               PROVE  pc[t] = "announce" /\ pos'[t] = pos[t] /\ batch'[t] = batch[t]
    BY DEF Current
  <2>1. CASE \E s \in Task, b \in Batch : Enqueue(s, b)
    BY <2>1 DEF Enqueue, CoreInv, TaskInv, TaskTypeOK
  <2>2. CASE \E s \in Task : AcquireRegistry(s)
    BY <2>2 DEF AcquireRegistry, CoreInv, TaskInv, TaskTypeOK
  <2>3. CASE \E s \in Task : Leave(s)
    BY <2>3 DEF Leave, CoreInv, TaskInv, TaskTypeOK
  <2>4. CASE Restart
    BY <2>4 DEF Restart
  <2>5. CASE UNCHANGED taskVars
    BY <2>5 DEF taskVars
  <2> QED
    BY <2>1, <2>2, <2>3, <2>4, <2>5, BatchAssumption DEF Next, vars, AcceptReport,
        FetchLivedata, DropRequest, DropSentRequest, OperatorDelete, Task
<1> QED
  BY <1>1, <1>2 DEF CoreInv, RegisteredAtCore, AnnouncedAtCore

\* Unless the operator deletes devices, a device the registry will not
\* register again is at homeCore (and online, if availability messages arrive):
\* for any number of requests, any failing calls, dropped requests and restarts.
THEOREM RegisteredAtCoreHolds ==
    ASSUME ~OperatorDeletes
    PROVE  Spec => []RegisteredAtCore
<1>1. Init => CoreInv
  BY InitTypes DEF Init, CoreInv, RegisteredAtCore, AnnouncedAtCore
<1>2. CoreInv /\ [Next]_vars => CoreInv'
  BY StepTasks, ProcessCore, EnvironmentCore DEF CoreInv
<1>3. CoreInv => RegisteredAtCore
  BY DEF CoreInv
<1> QED
  BY <1>1, <1>2, <1>3, PTL DEF Spec

-----------------------------------------------------------------------------
(* No reading is published under a schema that lacks one of its attributes.  *)

\* What the registry remembers of a device's schema, the retained schema has.
CacheSound ==
    \A d \in Device : \A names \in publishedAttrs[d] : names \subseteq DeclaredNames(d)

\* A task about to publish a reading has its names declared.
NextReadingDeclared ==
    \A t \in Task : pc[t] = "state" =>
        Current(t).names \subseteq DeclaredNames(Current(t).device)

SchemaInv == TaskInv /\ DataTypeOK /\ CacheSound /\ NextReadingDeclared

\* Publishing a schema, or sending none for an empty reading, declares the
\* names of the reading; other devices keep theirs.
LEMMA SendSchemaDeclares ==
    ASSUME DataTypeOK, NEW u \in Update, SendSchema(u)
    PROVE  /\ u.names \subseteq DeclaredNames(u.device)'
           /\ \A d \in Device \ {u.device} : DeclaredNames(d)' = DeclaredNames(d)
<1>1. u.device \in Device /\ u.names \in Reading
  BY DEF Update
<1>2. CASE u.names = {}
  BY <1>2 DEF SendSchema, DeclaredNames
<1>3. CASE u.names # {}
  <2>1. schemaTopic' = [schemaTopic EXCEPT ![u.device] = {u.names}]
    BY <1>3 DEF SendSchema
  <2>2. schemaTopic'[u.device] = {u.names}
    BY <1>1, <2>1 DEF DataTypeOK
  <2>3. \A d \in Device \ {u.device} : schemaTopic'[d] = schemaTopic[d]
    BY <2>1 DEF DataTypeOK
  <2> QED
    BY <2>2, <2>3 DEF DeclaredNames
<1> QED
  BY <1>2, <1>3

\* A step that touches neither schemas nor the registry's memory of them, and
\* brings no task to its publish_state, keeps both invariants.
LEMMA SchemaFrame ==
    ASSUME SchemaInv,
           schemaTopic' = schemaTopic,
           \A d \in Device : publishedAttrs'[d] \subseteq publishedAttrs[d],
           \A t \in Task : pc'[t] = "state" =>
               pc[t] = "state" /\ pos'[t] = pos[t] /\ batch'[t] = batch[t]
    PROVE  CacheSound' /\ NextReadingDeclared'
<1>1. \A d : DeclaredNames(d)' = DeclaredNames(d)
  BY DEF DeclaredNames
<1>2. CacheSound'
  BY <1>1 DEF SchemaInv, CacheSound
<1>3. \A t \in Task : pc'[t] = "state" => Current(t)' = Current(t)
  BY DEF Current
<1>4. NextReadingDeclared'
  BY <1>1, <1>3 DEF SchemaInv, NextReadingDeclared
<1> QED
  BY <1>2, <1>4

LEMMA ProcessSchema ==
    ASSUME SchemaInv, NEW t \in Task, Process(t), "schema" \notin FaultyCalls
    PROVE  CacheSound' /\ NextReadingDeclared'
<1>1. InProcess(t) /\ \A s \in Task : s # t => ~InProcess(s)
  BY DEF SchemaInv, TaskInv, TasksOK, Process, InProcess, AlreadyRegistered,
      RegisterDevice, RegisterFails, Announce, SchemaUnchanged, PublishSchema,
      SchemaFails, PublishState
<1>2. \A s \in Task : s # t => pc'[s] # "state"
  BY <1>1, ProcessOthers DEF SchemaInv, InProcess
<1>3. Current(t) \in Update /\ Current(t).device \in Device
  BY <1>1, CurrentType DEF SchemaInv, TaskInv
<1>4. CASE AlreadyRegistered(t) \/ RegisterFails(t) \/ Announce(t) \/ RegisterDevice(t)
           \/ PublishState(t)
  <2>1. pc'[t] # "state"
    BY <1>4 DEF AlreadyRegistered, RegisterFails, Announce, RegisterDevice, PublishState,
        NextToRegister, NextToPublish, Leave, SchemaInv, TaskInv, TaskTypeOK
  <2>2. schemaTopic' = schemaTopic /\ publishedAttrs' = publishedAttrs
    BY <1>4 DEF AlreadyRegistered, RegisterFails, Announce, RegisterDevice, PublishState,
        registryVars, coreVars
  <2> QED
    BY <1>2, <2>1, <2>2, SchemaFrame
<1>5. CASE SchemaUnchanged(t)
  <2>1. /\ publishedAttrs[Current(t).device] = {Current(t).names}
        /\ Current(t)' = Current(t)
        /\ schemaTopic' = schemaTopic /\ publishedAttrs' = publishedAttrs
    BY <1>5 DEF SchemaUnchanged, SchemaChanged, ToState, Current
  <2>2. \A d : DeclaredNames(d)' = DeclaredNames(d)
    BY <2>1 DEF DeclaredNames
  <2>3. Current(t).names \subseteq DeclaredNames(Current(t).device)
    BY <1>3, <2>1 DEF SchemaInv, CacheSound
  <2>4. CacheSound'
    BY <2>1, <2>2 DEF SchemaInv, CacheSound
  <2>5. NextReadingDeclared'
    BY <1>2, <2>1, <2>2, <2>3 DEF NextReadingDeclared
  <2> QED
    BY <2>4, <2>5
<1>6. CASE PublishSchema(t)
  <2>1. /\ SendSchema(Current(t))
        /\ publishedAttrs' = [publishedAttrs EXCEPT ![Current(t).device] =
                                {Current(t).names}]
        /\ Current(t)' = Current(t)
    BY <1>6 DEF PublishSchema, ToState, Current
  <2>2. /\ Current(t).names \subseteq DeclaredNames(Current(t).device)'
        /\ \A d \in Device \ {Current(t).device} : DeclaredNames(d)' = DeclaredNames(d)
    BY <1>3, <2>1, SendSchemaDeclares DEF SchemaInv
  <2>3. CacheSound'
    <3> SUFFICES ASSUME NEW d \in Device, NEW names \in publishedAttrs'[d]
                 PROVE  names \subseteq DeclaredNames(d)'
      BY DEF CacheSound
    <3>1. CASE d = Current(t).device
      BY <2>1, <2>2, <3>1 DEF SchemaInv, DataTypeOK
    <3>2. CASE d # Current(t).device
      BY <2>1, <2>2, <3>2 DEF SchemaInv, DataTypeOK, CacheSound
    <3> QED
      BY <3>1, <3>2
  <2>4. NextReadingDeclared'
    <3> SUFFICES ASSUME NEW s \in Task, pc'[s] = "state"
                 PROVE  Current(s)'.names \subseteq DeclaredNames(Current(s).device)'
      BY DEF NextReadingDeclared
    <3> QED
      BY <1>2, <2>1, <2>2
  <2> QED
    BY <2>3, <2>4
<1> QED
  BY <1>4, <1>5, <1>6 DEF Process, SchemaFails

LEMMA EnvironmentSchema ==
    ASSUME SchemaInv, [Next]_vars, ~OperatorDeletes, "after effect" \notin Drops,
           \A t \in Task : ~Process(t)
    PROVE  CacheSound' /\ NextReadingDeclared' /\ UNCHANGED stateTopic
<1>1. /\ schemaTopic' = schemaTopic /\ stateTopic' = stateTopic
      /\ \A d \in Device : publishedAttrs'[d] \subseteq publishedAttrs[d]
  BY DEF Next, vars, AcceptReport, FetchLivedata, Enqueue, AcquireRegistry, DropRequest,
      DropSentRequest, OperatorDelete, Restart, registryVars, coreVars
<1>2. \A t \in Task : pc'[t] = "state" =>
          pc[t] = "state" /\ pos'[t] = pos[t] /\ batch'[t] = batch[t]
  <2> SUFFICES ASSUME NEW t \in Task, pc'[t] = "state"
               PROVE  pc[t] = "state" /\ pos'[t] = pos[t] /\ batch'[t] = batch[t]
    OBVIOUS
  <2>1. CASE \E s \in Task, b \in Batch : Enqueue(s, b)
    BY <2>1 DEF Enqueue, SchemaInv, TaskInv, TaskTypeOK
  <2>2. CASE \E s \in Task : AcquireRegistry(s)
    BY <2>2 DEF AcquireRegistry, SchemaInv, TaskInv, TaskTypeOK
  <2>3. CASE \E s \in Task : Leave(s)
    BY <2>3 DEF Leave, SchemaInv, TaskInv, TaskTypeOK
  <2>4. CASE Restart
    BY <2>4 DEF Restart
  <2>5. CASE UNCHANGED taskVars
    BY <2>5 DEF taskVars
  <2> QED
    BY <2>1, <2>2, <2>3, <2>4, <2>5, BatchAssumption DEF Next, vars, AcceptReport,
        FetchLivedata, DropRequest, DropSentRequest, OperatorDelete, Task
<1> QED
  BY <1>1, <1>2, SchemaFrame

\* A reading is only published by a task at "state", whose names are declared,
\* and publishing it changes no schema.
LEMMA StepDeclared ==
    ASSUME SchemaInv, [Next]_vars, ~OperatorDeletes, "after effect" \notin Drops,
           NEW d \in Device, stateTopic'[d] # stateTopic[d]
    PROVE  ReportedNames(d)' \subseteq DeclaredNames(d)
<1>1. PICK t \in Task : PublishState(t)
  BY DEF Next, vars, Process, AcceptReport, FetchLivedata, Enqueue, AcquireRegistry,
      AlreadyRegistered, RegisterDevice, RegisterFails, Announce, SchemaUnchanged,
      PublishSchema, SchemaFails, ToState, DropRequest, DropSentRequest,
      OperatorDelete, Restart, registryVars, coreVars
<1>2. /\ pc[t] = "state"
      /\ stateTopic' = [stateTopic EXCEPT ![Current(t).device] = {Current(t).names}]
  BY <1>1 DEF PublishState, SendState
<1>3. d = Current(t).device /\ stateTopic'[d] = {Current(t).names}
  BY <1>2 DEF SchemaInv, DataTypeOK
<1>4. ReportedNames(d)' = Current(t).names
  BY <1>3 DEF ReportedNames
<1> QED
  BY <1>2, <1>3, <1>4 DEF SchemaInv, NextReadingDeclared

\* With schema calls that do not fail, requests that are dropped cleanly and no
\* deletions, no reading is published under a schema that lacks one of its
\* attributes: whatever the batches, the tasks and the restarts, and even if
\* registration fails.
THEOREM EveryReadingDeclaredHolds ==
    ASSUME ~OperatorDeletes, "after effect" \notin Drops, "schema" \notin FaultyCalls
    PROVE  Spec => EveryReadingDeclared
<1>1. Init => SchemaInv
  <2>1. Init => CacheSound /\ NextReadingDeclared
    BY DEF Init, CacheSound, NextReadingDeclared
  <2> QED
    BY <2>1, InitTypes DEF SchemaInv
<1>2. SchemaInv /\ [Next]_vars => SchemaInv'
  BY StepTasks, StepData, ProcessSchema, EnvironmentSchema DEF SchemaInv
<1>3. SchemaInv /\ [Next]_vars =>
        [\A d \in Device : stateTopic'[d] # stateTopic[d]
           => ReportedNames(d)' \subseteq DeclaredNames(d)]_vars
  BY StepDeclared
<1> QED
  BY <1>1, <1>2, <1>3, PTL DEF Spec, EveryReadingDeclared

=============================================================================
