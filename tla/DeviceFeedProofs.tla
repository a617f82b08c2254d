-------------------------- MODULE DeviceFeedProofs ---------------------------
(* The registry implements DeviceFeed, and publishes its batches in order,   *)
(* for every set of devices, attributes, tasks and batches.                  *)
EXTENDS DeviceRegistryProofs

-----------------------------------------------------------------------------
(* The second loop only meets devices that are registered.                   *)

\* The first loop has registered what is behind it, and in the end everything.
BatchRegistered ==
    \A t \in Task :
        /\ pc[t] \in {"register", "announce"} =>
             \A i \in 1 .. pos[t] - 1 : batch[t][i].device \in registered
        /\ pc[t] \in {"schema", "state"} =>
             \A i \in 1 .. Len(batch[t]) : batch[t][i].device \in registered

FeedInv == SchemaInv /\ CoreInv /\ BatchRegistered

\* A step of the first loop that leaves the device of its update registered.
LEMMA NextToRegisterRegistered ==
    ASSUME TaskInv, BatchRegistered, NEW t \in Task,
           pc[t] \in {"register", "announce"}, NextToRegister(t),
           registered \subseteq registered', Current(t).device \in registered'
    PROVE  /\ pc'[t] \in {"register", "announce"} =>
                \A i \in 1 .. pos'[t] - 1 : batch'[t][i].device \in registered'
           /\ pc'[t] \in {"schema", "state"} =>
                \A i \in 1 .. Len(batch'[t]) : batch'[t][i].device \in registered'
<1>1. pos[t] \in 1 .. Len(batch[t]) /\ Len(batch[t]) \in Nat
  BY DEF TaskInv, TaskTypeOK, InProcess
<1>2. \A i \in 1 .. pos[t] : batch[t][i].device \in registered'
  <2>1. \A i \in 1 .. pos[t] : i = pos[t] \/ i \in 1 .. pos[t] - 1
    BY <1>1
  <2> QED
    BY <2>1 DEF BatchRegistered, Current
<1>3. CASE AtLast(t)
  <2>1. pc'[t] = "schema" /\ batch' = batch
    BY <1>3 DEF NextToRegister, TaskInv, TaskTypeOK
  <2> QED
    BY <1>2, <1>3, <2>1 DEF AtLast
<1>4. CASE ~AtLast(t)
  <2>1. pc'[t] = "register" /\ pos'[t] = pos[t] + 1 /\ batch' = batch
    BY <1>4 DEF NextToRegister, TaskInv, TaskTypeOK
  <2>2. pos'[t] - 1 = pos[t]
    BY <1>1, <2>1
  <2> QED
    BY <1>2, <2>1, <2>2
<1> QED
  BY <1>3, <1>4

LEMMA ProcessRegistered ==
    ASSUME TaskInv, BatchRegistered, NEW t \in Task, Process(t), "register" \notin FaultyCalls
    PROVE  BatchRegistered'
<1>1. registered \subseteq registered'
  BY DEF Process, AlreadyRegistered, RegisterDevice, RegisterFails, Announce,
      SchemaUnchanged, PublishSchema, SchemaFails, PublishState, ToState, registryVars
<1>2. SUFFICES ASSUME NEW s \in Task
      PROVE  /\ pc'[s] \in {"register", "announce"} =>
                  \A i \in 1 .. pos'[s] - 1 : batch'[s][i].device \in registered'
             /\ pc'[s] \in {"schema", "state"} =>
                  \A i \in 1 .. Len(batch'[s]) : batch'[s][i].device \in registered'
  BY DEF BatchRegistered
<1>3. CASE s # t
  BY <1>1, <1>3, ProcessOthers DEF BatchRegistered
<1>4. CASE s = t
  <2>1. CASE AlreadyRegistered(t) \/ Announce(t)
    <3>1. /\ pc[t] \in {"register", "announce"} /\ NextToRegister(t)
          /\ Current(t).device \in registered'
      BY <2>1 DEF AlreadyRegistered, Announce, registryVars
    <3> QED
      BY <1>1, <1>4, <3>1, NextToRegisterRegistered
  <2>2. CASE RegisterDevice(t)
    BY <1>1, <1>4, <2>2 DEF RegisterDevice, BatchRegistered, TaskInv, TaskTypeOK
  <2>3. CASE ToState(t)
    BY <1>1, <1>4, <2>3 DEF ToState, Process, AlreadyRegistered, RegisterDevice,
        RegisterFails, Announce, SchemaUnchanged, PublishSchema, SchemaFails,
        PublishState, NextToRegister, BatchRegistered, TaskInv, TaskTypeOK
  <2>4. CASE PublishState(t)
    BY <1>1, <1>4, <2>4 DEF PublishState, NextToPublish, Leave, BatchRegistered,
        TaskInv, TaskTypeOK
  <2> QED
    BY <2>1, <2>2, <2>3, <2>4 DEF Process, RegisterFails, SchemaUnchanged, PublishSchema,
        SchemaFails
<1> QED
  BY <1>3, <1>4

LEMMA EnvironmentRegistered ==
    ASSUME TaskInv, BatchRegistered, [Next]_vars, \A t \in Task : ~Process(t)
    PROVE  BatchRegistered'
<1>1. CASE Restart
  BY <1>1 DEF Restart, BatchRegistered
<1>2. CASE ~Restart
  <2>1. registered' = registered
    BY <1>2 DEF Next, vars, AcceptReport, FetchLivedata, Enqueue, AcquireRegistry,
        DropRequest, DropSentRequest, OperatorDelete, registryVars
  <2>2. CASE \E s \in Task, b \in Batch : Enqueue(s, b)
    BY <2>1, <2>2 DEF Enqueue, BatchRegistered, TaskInv, TaskTypeOK
  <2>3. CASE \E s \in Task : AcquireRegistry(s)
    BY <2>1, <2>3 DEF AcquireRegistry, BatchRegistered, TaskInv, TaskTypeOK
  <2>4. CASE \E s \in Task : Leave(s)
    BY <2>1, <2>4 DEF Leave, BatchRegistered, TaskInv, TaskTypeOK
  <2>5. CASE UNCHANGED taskVars
    BY <2>1, <2>5 DEF taskVars, BatchRegistered
  <2> QED
    BY <1>2, <2>2, <2>3, <2>4, <2>5, BatchAssumption DEF Next, vars, AcceptReport,
        FetchLivedata, DropRequest, DropSentRequest, OperatorDelete, Task
<1> QED
  BY <1>1, <1>2

\* A task in its second loop is at a device homeCore has.
LEMMA CurrentAtCore ==
    ASSUME FeedInv, NEW t \in Task, pc[t] \in {"schema", "state"}
    PROVE  Current(t).device \in coreDevices
<1>1. pos[t] \in 1 .. Len(batch[t])
  BY DEF FeedInv, CoreInv, TaskInv, TaskTypeOK, InProcess
<1> QED
  BY <1>1 DEF FeedInv, CoreInv, BatchRegistered, RegisteredAtCore, Current

-----------------------------------------------------------------------------
(* What each step is to DeviceFeed.                                          *)

LEMMA FeedUnchanged ==
    ASSUME UNCHANGED <<coreDevices, schemaTopic, stateTopic>>
    PROVE  UNCHANGED Feed!vars
BY DEF Feed!vars, DeclaredNames, ReportedNames

LEMMA FeedAppears ==
    ASSUME NEW d \in Device, CoreRegisters(d), UNCHANGED <<schemaTopic, stateTopic>>
    PROVE  Feed!Next
BY DEF Feed!Next, Feed!Appear, CoreRegisters, DeclaredNames, ReportedNames

LEMMA FeedDeclares ==
    ASSUME DataTypeOK, NEW u \in Update, SendSchema(u), u.device \in coreDevices,
           UNCHANGED <<coreDevices, stateTopic>>
    PROVE  [Feed!Next]_(Feed!vars)
<1>1. u.device \in Device /\ u.names \in Reading
  BY DEF Update
<1>2. u.names \in SUBSET Attribute
  BY <1>1 DEF Reading
<1>3. CASE u.names = {}
  BY <1>3, FeedUnchanged DEF SendSchema
<1>4. CASE u.names # {}
  <2>1. schemaTopic' = [schemaTopic EXCEPT ![u.device] = {u.names}]
    BY <1>4 DEF SendSchema
  <2>2. schemaTopic'[u.device] = {u.names}
    BY <1>1, <2>1 DEF DataTypeOK
  <2>3. DeclaredNames(u.device)' = u.names
    BY <1>2, <2>2 DEF DeclaredNames
  <2>4. \A d \in Device \ {u.device} : DeclaredNames(d)' = DeclaredNames(d)
    BY <2>1 DEF DataTypeOK, DeclaredNames
  <2>5. [d \in Device |-> DeclaredNames(d)]'
          = [[d \in Device |-> DeclaredNames(d)] EXCEPT ![u.device] = u.names]
    BY <1>1, <2>3, <2>4
  <2>6. Feed!Declare(u.device, u.names)
    BY <2>5 DEF Feed!Declare, ReportedNames
  <2> QED
    BY <1>1, <1>2, <2>6 DEF Feed!Next
<1> QED
  BY <1>3, <1>4

LEMMA FeedReports ==
    ASSUME DataTypeOK, NEW u \in Update, SendState(u), u.device \in coreDevices,
           u.names \subseteq DeclaredNames(u.device),
           UNCHANGED <<coreDevices, schemaTopic>>
    PROVE  Feed!Next
<1>1. u.device \in Device /\ u.names \in Reading
  BY DEF Update
<1>2. u.names \in SUBSET Attribute
  BY <1>1 DEF Reading
<1>3. stateTopic' = [stateTopic EXCEPT ![u.device] = {u.names}]
  BY DEF SendState
<1>4. ReportedNames(u.device)' = u.names
  BY <1>1, <1>3 DEF DataTypeOK, ReportedNames
<1>5. \A d \in Device \ {u.device} : ReportedNames(d)' = ReportedNames(d)
  BY <1>3 DEF DataTypeOK, ReportedNames
<1>6. [d \in Device |-> ReportedNames(d)]'
        = [[d \in Device |-> ReportedNames(d)] EXCEPT ![u.device] = u.names]
  BY <1>1, <1>4, <1>5
<1>7. Feed!Report(u.device, u.names)
  BY <1>1, <1>6 DEF Feed!Report, DeclaredNames
<1> QED
  BY <1>1, <1>2, <1>7 DEF Feed!Next

LEMMA ProcessFeeds ==
    ASSUME FeedInv, NEW t \in Task, Process(t)
    PROVE  [Feed!Next]_(Feed!vars)
<1>1. InProcess(t)
  BY DEF Process, InProcess, AlreadyRegistered, RegisterDevice, RegisterFails,
      Announce, SchemaUnchanged, PublishSchema, SchemaFails, PublishState
<1>2. Current(t) \in Update /\ Current(t).device \in Device /\ DataTypeOK
  BY <1>1, CurrentType DEF FeedInv, CoreInv, TaskInv, SchemaInv
<1>3. CASE AlreadyRegistered(t) \/ RegisterFails(t) \/ Announce(t)
           \/ SchemaUnchanged(t) \/ SchemaFails(t)
  BY <1>3, FeedUnchanged DEF AlreadyRegistered, RegisterFails, Announce, SchemaUnchanged,
      SchemaFails, ToState, coreVars
<1>4. CASE RegisterDevice(t)
  BY <1>2, <1>4, FeedAppears DEF RegisterDevice
<1>5. CASE PublishSchema(t)
  <2>1. Current(t).device \in coreDevices
    BY <1>5, CurrentAtCore DEF PublishSchema
  <2> QED
    BY <1>2, <1>5, <2>1, FeedDeclares DEF PublishSchema, ToState
<1>6. CASE PublishState(t)
  <2>1. /\ Current(t).device \in coreDevices
        /\ Current(t).names \subseteq DeclaredNames(Current(t).device)
    BY <1>6, CurrentAtCore DEF PublishState, FeedInv, SchemaInv, NextReadingDeclared
  <2>2. UNCHANGED <<coreDevices, schemaTopic>>
    BY <1>6 DEF PublishState
  <2>3. CASE SendState(Current(t))
    BY <1>2, <2>1, <2>2, <2>3, FeedReports
  <2>4. CASE UNCHANGED stateTopic
    BY <2>2, <2>4, FeedUnchanged
  <2> QED
    BY <1>6, <2>3, <2>4 DEF PublishState
<1> QED
  BY <1>3, <1>4, <1>5, <1>6 DEF Process

LEMMA EnvironmentFeeds ==
    ASSUME [Next]_vars, ~OperatorDeletes, "after effect" \notin Drops,
           \A t \in Task : ~Process(t)
    PROVE  UNCHANGED Feed!vars
<1>1. UNCHANGED <<coreDevices, schemaTopic, stateTopic>>
  BY DEF Next, vars, AcceptReport, FetchLivedata, Enqueue, AcquireRegistry, DropRequest,
      DropSentRequest, OperatorDelete, Restart, coreVars
<1> QED
  BY <1>1, FeedUnchanged

\* The registry, its mutex, its caches, its restarts and the requests dropped
\* on the way are invisible: homeCore sees a DeviceFeed.  Assumed: registration
\* and schema calls succeed, what is dropped is dropped before its effect, and
\* the operator deletes nothing; states, snapshots and availability may be lost.
THEOREM ImplementsDeviceFeed ==
    ASSUME ~OperatorDeletes, "after effect" \notin Drops,
           "register" \notin FaultyCalls, "schema" \notin FaultyCalls
    PROVE  Spec => IsDeviceFeed
<1>1. Init => FeedInv
  BY InitTypes DEF Init, FeedInv, SchemaInv, CoreInv, CacheSound, NextReadingDeclared,
      RegisteredAtCore, AnnouncedAtCore, BatchRegistered
<1>2. FeedInv /\ [Next]_vars => FeedInv'
  <2> SUFFICES ASSUME FeedInv, [Next]_vars PROVE FeedInv'
    OBVIOUS
  <2>1. TaskInv' /\ DataTypeOK'
    BY StepTasks, StepData DEF FeedInv, CoreInv, SchemaInv
  <2>2. CASE \E t \in Task : Process(t)
    BY <2>1, <2>2, ProcessSchema, ProcessCore, ProcessRegistered
       DEF FeedInv, CoreInv, SchemaInv
  <2>3. CASE \A t \in Task : ~Process(t)
    BY <2>1, <2>3, EnvironmentSchema, EnvironmentCore, EnvironmentRegistered
       DEF FeedInv, CoreInv, SchemaInv
  <2> QED
    BY <2>2, <2>3
<1>3. Init => Feed!Init
  <2> SUFFICES ASSUME Init PROVE Feed!Init
    OBVIOUS
  <2>1. ASSUME NEW d \in Device PROVE DeclaredNames(d) = {} /\ ReportedNames(d) = {}
    <3>1. schemaTopic[d] = {} /\ stateTopic[d] = {}
      BY <2>1 DEF Init
    <3> QED
      BY <3>1, Zenon DEF DeclaredNames, ReportedNames
  <2> QED
    BY <2>1, Zenon DEF Init, Feed!Init
<1>4. FeedInv /\ [Next]_vars => [Feed!Next]_(Feed!vars)
  BY ProcessFeeds, EnvironmentFeeds
<1> QED
  BY <1>1, <1>2, <1>3, <1>4, PTL DEF Spec, IsDeviceFeed, Feed!Spec

-----------------------------------------------------------------------------
(* Batches are published in order.                                           *)

PrefixInv == TaskInv /\ DataTypeOK /\ BatchPrefixPublished

\* A task's own part of BatchPrefixPublished.
PrefixPublished(t) ==
    pc[t] \in {"schema", "state"} =>
        \A i \in 1 .. pos[t] - 1 :
            (\A j \in i + 1 .. pos[t] - 1 : batch[t][j].device # batch[t][i].device)
            => stateTopic[batch[t][i].device] = {batch[t][i].names}

\* One more reading of the batch is published: it is the last one of its
\* device, and those of other devices stay.
LEMMA PublishExtendsPrefix ==
    ASSUME TaskInv, DataTypeOK, NEW t \in Task, PrefixPublished(t),
           pc[t] = "state", SendState(Current(t)),
           pos'[t] = pos[t] + 1, batch' = batch
    PROVE  PrefixPublished(t)'
<1>1. pos[t] \in 1 .. Len(batch[t]) /\ Len(batch[t]) \in Nat /\ batch[t] \in Seq(Update)
  BY DEF TaskInv, TaskTypeOK, InProcess
<1>2. pos'[t] - 1 = pos[t]
  BY <1>1
<1>3. /\ stateTopic'[Current(t).device] = {Current(t).names}
      /\ \A d \in Device \ {Current(t).device} : stateTopic'[d] = stateTopic[d]
  <2>1. Current(t).device \in Device
    BY CurrentType DEF TaskInv, InProcess
  <2> QED
    BY <2>1 DEF SendState, DataTypeOK
<1>4. SUFFICES ASSUME NEW i \in 1 .. pos[t],
                      \A j \in i + 1 .. pos[t] : batch[t][j].device # batch[t][i].device
               PROVE  stateTopic'[batch[t][i].device] = {batch[t][i].names}
  BY <1>2 DEF PrefixPublished
<1>5. CASE i = pos[t]
  BY <1>3, <1>5 DEF Current
<1>6. CASE i # pos[t]
  <2>1. i \in 1 .. pos[t] - 1 /\ pos[t] \in i + 1 .. pos[t]
    BY <1>1, <1>6
  <2>2. \A j \in i + 1 .. pos[t] - 1 : j \in i + 1 .. pos[t]
    BY <1>1
  <2>3. stateTopic[batch[t][i].device] = {batch[t][i].names}
    BY <1>4, <2>1, <2>2 DEF PrefixPublished
  <2>4. batch[t][i].device # Current(t).device
    BY <1>4, <2>1 DEF Current
  <2>5. i \in 1 .. Len(batch[t])
    BY <1>1
  <2>6. batch[t][i] \in Update
    BY <1>1, <2>5, ElementOfSeq
  <2>7. batch[t][i].device \in Device
    BY <2>6 DEF Update
  <2> QED
    BY <1>3, <2>3, <2>4, <2>7
<1> QED
  BY <1>5, <1>6

LEMMA ProcessPrefix ==
    ASSUME PrefixInv, NEW t \in Task, Process(t), "state" \notin FaultyCalls
    PROVE  BatchPrefixPublished'
<1>1. InProcess(t) /\ \A s \in Task : s # t => ~InProcess(s)
  BY DEF PrefixInv, TaskInv, TasksOK, Process, InProcess, AlreadyRegistered,
      RegisterDevice, RegisterFails, Announce, SchemaUnchanged, PublishSchema,
      SchemaFails, PublishState
<1>2. \A s \in Task : s # t => pc'[s] \notin {"schema", "state"}
  BY <1>1, ProcessOthers DEF PrefixInv, InProcess
<1>3. SUFFICES PrefixPublished(t)'
  BY <1>2 DEF BatchPrefixPublished, PrefixPublished
<1>4. PrefixPublished(t)
  BY DEF PrefixInv, BatchPrefixPublished, PrefixPublished
<1>5. CASE NextToRegister(t)
  <2>1. pc'[t] \in {"schema", "state"} => pos'[t] = 1
    BY <1>5 DEF NextToRegister, PrefixInv, TaskInv, TaskTypeOK
  <2> QED
    BY <2>1 DEF PrefixPublished
<1>6. CASE RegisterDevice(t)
  <2>1. pc'[t] = "announce"
    BY <1>6 DEF RegisterDevice, PrefixInv, TaskInv, TaskTypeOK
  <2> QED
    BY <2>1 DEF PrefixPublished
<1>7. CASE ToState(t) /\ pc[t] = "schema"
  <2>1. pos' = pos /\ batch' = batch /\ stateTopic' = stateTopic
    BY <1>7 DEF ToState
  <2> QED
    BY <1>4, <1>7, <2>1 DEF PrefixPublished
<1>8. CASE PublishState(t)
  <2>1. pc[t] = "state" /\ SendState(Current(t))
    BY <1>8 DEF PublishState
  <2>2. CASE AtLast(t)
    <3>1. pc'[t] = "idle"
      BY <1>8, <2>2 DEF PublishState, NextToPublish, Leave, PrefixInv, TaskInv, TaskTypeOK
    <3> QED
      BY <3>1 DEF PrefixPublished
  <2>3. CASE ~AtLast(t)
    <3>1. pos'[t] = pos[t] + 1 /\ batch' = batch
      BY <1>8, <2>3 DEF PublishState, NextToPublish, PrefixInv, TaskInv, TaskTypeOK
    <3> QED
      BY <1>4, <2>1, <3>1, PublishExtendsPrefix DEF PrefixInv
  <2> QED
    BY <2>2, <2>3
<1> QED
  BY <1>5, <1>6, <1>7, <1>8 DEF Process, AlreadyRegistered, RegisterFails, Announce,
      SchemaUnchanged, PublishSchema, SchemaFails

LEMMA EnvironmentPrefix ==
    ASSUME PrefixInv, [Next]_vars, ~OperatorDeletes, \A t \in Task : ~Process(t)
    PROVE  BatchPrefixPublished'
<1>1. CASE \E h \in Handler : DropSentRequest(h)
  <2>1. PICK h \in Handler : DropSentRequest(h)
    BY <1>1
  <2>2. h \in Task /\ InProcess(h) /\ Leave(h)
    BY <2>1 DEF DropSentRequest, InProcess, Task
  <2>3. \A s \in Task : pc'[s] \notin {"schema", "state"}
    BY <2>2 DEF Leave, PrefixInv, TaskInv, TaskTypeOK, TasksOK, InProcess
  <2> QED
    BY <2>3 DEF BatchPrefixPublished
<1>2. CASE ~\E h \in Handler : DropSentRequest(h)
  <2>1. stateTopic' = stateTopic
    BY <1>2 DEF Next, vars, AcceptReport, FetchLivedata, Enqueue, AcquireRegistry,
        DropRequest, OperatorDelete, Restart, coreVars
  <2>2. SUFFICES ASSUME NEW t \in Task, pc'[t] \in {"schema", "state"}
                 PROVE  pc[t] = pc'[t] /\ pos'[t] = pos[t] /\ batch'[t] = batch[t]
    BY <2>1 DEF BatchPrefixPublished, PrefixInv
  <2>3. CASE \E s \in Task, b \in Batch : Enqueue(s, b)
    BY <2>2, <2>3 DEF Enqueue, PrefixInv, TaskInv, TaskTypeOK
  <2>4. CASE \E s \in Task : AcquireRegistry(s)
    BY <2>2, <2>4 DEF AcquireRegistry, PrefixInv, TaskInv, TaskTypeOK
  <2>5. CASE \E s \in Task : Leave(s)
    BY <2>2, <2>5 DEF Leave, PrefixInv, TaskInv, TaskTypeOK
  <2>6. CASE Restart
    BY <2>2, <2>6 DEF Restart
  <2>7. CASE UNCHANGED taskVars
    BY <2>7 DEF taskVars
  <2> QED
    BY <1>2, <2>3, <2>4, <2>5, <2>6, <2>7, BatchAssumption DEF Next, vars, AcceptReport,
        FetchLivedata, DropRequest, OperatorDelete, Task
<1> QED
  BY <1>1, <1>2

\* While a task walks its second loop nobody publishes between its readings,
\* whatever else is posted, polled, dropped or restarted, if publish_state does
\* not fail and the operator deletes nothing.
THEOREM BatchPrefixPublishedHolds ==
    ASSUME ~OperatorDeletes, "state" \notin FaultyCalls
    PROVE  Spec => []BatchPrefixPublished
<1>1. Init => PrefixInv
  BY InitTypes DEF Init, PrefixInv, BatchPrefixPublished
<1>2. PrefixInv /\ [Next]_vars => PrefixInv'
  BY StepTasks, StepData, ProcessPrefix, EnvironmentPrefix DEF PrefixInv
<1>3. PrefixInv => BatchPrefixPublished
  BY DEF PrefixInv
<1> QED
  BY <1>1, <1>2, <1>3, PTL DEF Spec

=============================================================================
