---------------------------- MODULE GatewayCache ----------------------------
(* How the plugin finds the console's address and remembers it: management   *)
(* actions, the streaming set_custom_server and the gateway-device poller    *)
(* resolve it concurrently, through a cell in memory and the file            *)
(* .cached-gateway-ip, which outlives a restart.  Every HTTP probe, broadcast *)
(* and file operation is a point where the others run.                       *)
(*                                                                           *)
(* An address is a model value; of its text only the length matters, where   *)
(* two writers of the file overlap.  An option is a set with at most one     *)
(* element.                                                                  *)
EXTENDS Naturals, Sequences

CONSTANTS
    Host,        \* addresses consoles may have
    Length,      \* length of each address
    Garbage,     \* any other text read back from the file
    Blank,       \* the empty string
    Configured,  \* [ecowitt].gateway_ip (option of Host or Blank)
    Manual,      \* [ecowitt].manual_hosts
    Lan,         \* consoles the UDP broadcast reaches
    Mgmt,        \* the management handler: one task, or none
    Stream,      \* set_custom_server (Concurrency::Single): one task, or none
    Poller,      \* the gateway-device poller: one task, or none
    FailWrites,  \* may a write of the file fail?
    Restarts     \* may the process crash and restart?

Task == Mgmt \cup Stream \cup Poller

ASSUME HostAssumption ==
    /\ Length \in [Host -> Nat \ {0}]
    /\ Garbage \notin Host /\ Blank \notin Host /\ Garbage # Blank
    /\ Configured = {} \/ \E c \in Host \cup {Blank} : Configured = {c}
    /\ Manual \in Seq(Host) /\ Lan \subseteq Host
    /\ FailWrites \in BOOLEAN /\ Restarts \in BOOLEAN

ASSUME TaskAssumption ==
    Mgmt \cap Stream = {} /\ Mgmt \cap Poller = {} /\ Stream \cap Poller = {}

VARIABLES
    mem,        \* the shared cell gateway_ip (option)
    disk,       \* the file: the address it starts with and its size (option)
    answering,  \* hosts that answer /get_device_info
    pc,         \* where each task is
    ip,         \* the address a task has settled on (option)
    place,      \* the manual host a task probes
    spoiled     \* history: what happened to the updates of the file since the
                \* last one that nothing happened to

fileVars == <<mem, disk, spoiled>>
taskVars == <<pc, ip, place>>
vars == <<fileVars, answering, taskVars>>

\* An update of cell and file began inside another, or could not write.
Mishap == {"crossed", "failed"}

-----------------------------------------------------------------------------
(* The file.                                                                 *)

\* fs::write puts its text at the start of what is there by then: nothing, or
\* what another writer wrote since this one truncated the file.
WriteOver(content, h) ==
    {[start |-> h,
      size |-> IF \E c \in content : c.size > Length[h]
               THEN (CHOOSE c \in content : TRUE).size
               ELSE Length[h]]}

ReadFile(content) ==
    {IF c.size = Length[c.start] THEN c.start ELSE Garbage : c \in content}

\* Mutant: the filter on the empty string is lost.
InitialCacheUnfiltered(content) ==
    IF Configured # {} THEN Configured
    ELSE IF content = {} THEN {Blank} ELSE ReadFile(content)

\* configured > on-disk cache; an empty text is no address.
InitialCache(content) ==
    (IF Configured # {} THEN Configured ELSE ReadFile(content)) \ {Blank}

Init ==
    /\ disk = {}
    /\ mem = InitialCache({})
    /\ answering \in SUBSET Host
    /\ pc = [t \in Task |-> "idle"]
    /\ ip = [t \in Task |-> {}]
    /\ place = [t \in Task |-> 0]
    /\ spoiled = {}

-----------------------------------------------------------------------------
(* Starting: each entry point reads the cell once.                           *)

Goto(t, where, address) ==
    /\ pc' = [pc EXCEPT ![t] = where]
    /\ ip' = [ip EXCEPT ![t] = address]

\* The task returns; its next run starts afresh.
Done(t) ==
    /\ Goto(t, "idle", {})
    /\ place' = [place EXCEPT ![t] = 0]

Begin(t) ==
    /\ pc[t] = "idle"
    /\ place' = [place EXCEPT ![t] = 1]
    /\ UNCHANGED <<fileVars, answering>>

\* The SDK's loop, which starts management and streaming actions, waits for
\* the management handler's thread.
LoopFree == \A m \in Mgmt : pc[m] = "idle"

\* resolve_gateway_ip: a host parameter is taken, and will be remembered,
\* unprobed; a cached address is trusted, whether its host answers or not (the
\* comment on the function says that it is probed).
ResolveForAction(t, override) ==
    /\ LoopFree
    /\ Begin(t)
    /\ IF override # {} THEN Goto(t, "remember", override)
       ELSE IF mem # {} THEN Goto(t, "use", mem)
       ELSE Goto(t, "probe", {})

\* resolve_gateway_for_poller.
ResolveForPoller(t) ==
    /\ Begin(t)
    /\ IF mem # {} THEN Goto(t, "use", mem)
       ELSE IF Configured \cap Host # {} THEN Goto(t, "remember", Configured)
       ELSE Goto(t, "probe", {})

\* discover_gateways broadcasts whatever the cell holds.
Discover(t) ==
    /\ LoopFree
    /\ Begin(t)
    /\ Goto(t, "discover", {})

-----------------------------------------------------------------------------
(* Looking for a console.                                                    *)

\* The next manual host answers its probe, or does not.
ProbeAnswers(t) ==
    /\ pc[t] = "probe" /\ place[t] <= Len(Manual)
    /\ Manual[place[t]] \in answering
    /\ Goto(t, "remember", {Manual[place[t]]})
    /\ UNCHANGED <<place, fileVars, answering>>

\* Mutant: the next probe is to the same host.
ProbeFailsAgain(t) ==
    /\ pc[t] = "probe" /\ place[t] <= Len(Manual)
    /\ Manual[place[t]] \notin answering
    /\ UNCHANGED <<place, pc, ip, fileVars, answering>>

ProbeFails(t) ==
    /\ pc[t] = "probe" /\ place[t] <= Len(Manual)
    /\ Manual[place[t]] \notin answering
    /\ place' = [place EXCEPT ![t] = @ + 1]
    /\ UNCHANGED <<pc, ip, fileVars, answering>>

\* No manual host answered: an action broadcasts, the poller gives up.
ProbesExhausted(t) ==
    /\ pc[t] = "probe" /\ place[t] > Len(Manual)
    /\ \/ t \in Poller /\ Done(t)
       \/ t \notin Poller /\ Goto(t, "broadcast", {}) /\ UNCHANGED place
    /\ UNCHANGED <<fileVars, answering>>

\* udp_discovery::discover_gateways: the first console to answer within 3 s.
\* Datagrams are lost, and the socket may fail, so nobody may answer.
FirstResponder == {{}} \cup {{h} : h \in Lan \cap answering}

\* An action resolves to the first responder, or ends in an error.
Broadcast(t) ==
    /\ pc[t] = "broadcast"
    /\ \E found \in FirstResponder :
         \/ found = {} /\ Done(t)
         \/ found # {} /\ Goto(t, "remember", found) /\ UNCHANGED place
    /\ UNCHANGED <<fileVars, answering>>

\* discover_gateways: the broadcast's first answer is the selection, but the
\* manual hosts are probed before it is remembered.
DiscoverBroadcast(t) ==
    /\ pc[t] = "discover"
    /\ \E found \in FirstResponder : Goto(t, "sweep", found)
    /\ UNCHANGED <<place, fileVars, answering>>

SweepManual(t) ==
    /\ pc[t] = "sweep" /\ place[t] <= Len(Manual)
    /\ ip' = [ip EXCEPT ![t] =
                IF @ = {} THEN {Manual[place[t]]} \cap answering ELSE @]
    /\ place' = [place EXCEPT ![t] = @ + 1]
    /\ UNCHANGED <<pc, fileVars, answering>>

SweepDone(t) ==
    /\ pc[t] = "sweep" /\ place[t] > Len(Manual)
    /\ \/ ip[t] = {} /\ Done(t)
       \/ ip[t] # {} /\ Goto(t, "remember", ip[t]) /\ UNCHANGED place
    /\ UNCHANGED <<fileVars, answering>>

-----------------------------------------------------------------------------
(* update_cache: the cell under its lock, then the file outside it.          *)

Updating(t) == pc[t] \in {"truncate", "write"}

SpoiledBy(mishap, happens) == spoiled' = spoiled \cup {m \in {mishap} : happens}

\* Mutant: the file is written only when the cell was empty.
RememberOnce(t) ==
    /\ pc[t] = "remember"
    /\ mem' = ip[t]
    /\ Goto(t, IF mem = {} THEN "truncate" ELSE "use", ip[t])
    /\ SpoiledBy("crossed", \E u \in Task \ {t} : Updating(u))
    /\ UNCHANGED <<disk, answering, place>>

Remember(t) ==
    /\ pc[t] = "remember"
    /\ mem' = ip[t]
    /\ Goto(t, "truncate", ip[t])
    /\ SpoiledBy("crossed", \E u \in Task \ {t} : Updating(u))
    /\ UNCHANGED <<disk, answering, place>>

\* fs::write ends with an error, which is logged: the file could not be opened,
\* or the text not be written after it was truncated.
WriteFails(t) ==
    /\ FailWrites
    /\ Updating(t)
    /\ Goto(t, "use", ip[t])
    /\ SpoiledBy("failed", TRUE)
    /\ UNCHANGED <<mem, disk, answering, place>>

\* Mutant: the file is opened without truncating it.
TruncateFileSkipped(t) ==
    /\ pc[t] = "truncate"
    /\ Goto(t, "write", ip[t])
    /\ UNCHANGED <<fileVars, answering, place>>

\* A file that is emptied when nobody else is at it, for the address in the
\* cell, makes up for what happened before.
TruncateFile(t) ==
    /\ pc[t] = "truncate"
    /\ disk' = {}
    /\ Goto(t, "write", ip[t])
    /\ spoiled' = IF mem = ip[t] /\ \A u \in Task \ {t} : ~Updating(u) THEN {} ELSE spoiled
    /\ UNCHANGED <<mem, answering, place>>

WriteFile(t) ==
    /\ pc[t] = "write"
    /\ \E h \in ip[t] : disk' = WriteOver(disk, h)
    /\ Goto(t, "use", ip[t])
    /\ UNCHANGED <<mem, spoiled, answering, place>>

\* The HTTP calls the address was resolved for.
Use(t) ==
    /\ pc[t] = "use"
    /\ Done(t)
    /\ UNCHANGED <<fileVars, answering>>

-----------------------------------------------------------------------------

\* The process dies, at any point, and starts again.
Restart ==
    /\ Restarts
    /\ mem' = InitialCache(disk)
    /\ pc' = [t \in Task |-> "idle"]
    /\ ip' = [t \in Task |-> {}]
    /\ place' = [t \in Task |-> 0]
    /\ UNCHANGED <<disk, spoiled, answering>>

Advance(t) ==
    \/ ProbeAnswers(t) \/ ProbeFails(t) \/ ProbesExhausted(t)
    \/ Broadcast(t) \/ DiscoverBroadcast(t) \/ SweepManual(t) \/ SweepDone(t)
    \/ Remember(t) \/ TruncateFile(t) \/ WriteFile(t) \/ WriteFails(t) \/ Use(t)

Overrides == {{}} \cup {{h} : h \in Host}

Next ==
    \/ \E t \in Mgmt \cup Stream, override \in Overrides : ResolveForAction(t, override)
    \/ \E t \in Mgmt : Discover(t)
    \/ \E t \in Poller : ResolveForPoller(t)
    \/ \E t \in Task : Advance(t)
    \/ Restart

Spec == Init /\ [][Next]_vars

\* HTTP probes and broadcasts time out, file operations return.
LiveSpec == Spec /\ \A t \in Task : WF_vars(Advance(t))

-----------------------------------------------------------------------------
(* Properties.                                                               *)

TypeOK ==
    /\ mem \in SUBSET (Host \cup {Garbage})
    /\ \A c \in disk : c.start \in Host /\ c.size >= Length[c.start]
    /\ answering \subseteq Host
    /\ pc \in [Task -> {"idle", "probe", "broadcast", "discover", "sweep",
                        "remember", "truncate", "write", "use"}]
    /\ ip \in [Task -> SUBSET (Host \cup {Garbage})]
    /\ place \in [Task -> 0 .. Len(Manual) + 1]
    /\ spoiled \subseteq Mishap

\* What is remembered is an address somebody gave or found, never an empty or a
\* half-written text, although three tasks write the file and the process may die
\* inside any write: unless one update of cell and file began inside another and
\* no later one made up for it (see MemoryIsAHost).
MemoryIsAHostUnlessCrossed == "crossed" \in spoiled \/ mem \subseteq Host

\* main.rs: the file "makes the previously-discovered IP survive a plugin
\* restart": whatever crashed, failed or crossed before, as long as no update is
\* under way and the last ones neither crossed nor failed.  A configured address
\* is excepted, as it wins by design, and one that was configured and left empty,
\* which hides the file as well.
SurvivesQuietRestart ==
    [][Restart /\ (\A t \in Task : ~Updating(t)) /\ spoiled = {} /\ Configured = {}
        => mem' = mem]_vars

\* Every resolution ends: with an address, or by giving up, whichever hosts do
\* not answer and whichever writes fail.
ResolutionEnds == \A t \in Task : pc[t] # "idle" ~> pc[t] = "idle"

-----------------------------------------------------------------------------
(* What the repository says and the code does not do.                        *)

\* main.rs: "makes the previously-discovered IP survive a plugin restart": what
\* a start reads from the file is an address that was written there.
MemoryIsAHost == mem \subseteq Host

=============================================================================
