------------------------- MODULE GatewayCacheProofs -------------------------
(* The console's address for every network, configuration and set of tasks.  *)
EXTENDS GatewayCache, TLAPS

Address == Host \cup {Garbage}

Content == [start : Host, size : Nat]

AtMostOneAddress(address) == address = {} \/ \E h \in Host : address = {h}

\* TypeOK, and what the file and a task under way look like.
CacheInv ==
    /\ TypeOK
    /\ disk = {} \/ \E c \in Content : disk = {c}
    /\ \A t \in Task :
         /\ pc[t] # "idle" => place[t] >= 1
         /\ pc[t] \in {"sweep", "remember", "truncate", "write"} => AtMostOneAddress(ip[t])
         /\ pc[t] \in {"remember", "truncate", "write"} => ip[t] # {}

LEMMA ConfiguredIsAddress == Configured \ {Blank} \subseteq Host
BY HostAssumption

LEMMA ManualIsHost == ASSUME NEW i \in 1 .. Len(Manual) PROVE Manual[i] \in Host
BY HostAssumption

LEMMA ManualLength == Len(Manual) \in Nat
BY HostAssumption

LEMMA LengthOfHost == ASSUME NEW h \in Host PROVE Length[h] \in Nat
BY HostAssumption

\* What a process finds in the file is an address, or text that is none.
LEMMA InitialCacheIsAddress ==
    ASSUME NEW content, content = {} \/ \E c \in Content : content = {c}
    PROVE  InitialCache(content) \subseteq Address
<1>1. ReadFile(content) \subseteq Address
  BY DEF ReadFile, Content, Address
<1> QED
  BY <1>1, ConfiguredIsAddress DEF InitialCache, Address

\* A write leaves a file that begins with what was written and is no shorter.
LEMMA WriteOverContent ==
    ASSUME NEW content, content = {} \/ \E c \in Content : content = {c}, NEW h \in Host
    PROVE  \E c \in Content : /\ WriteOver(content, h) = {c} /\ c.start = h
                              /\ c.size >= Length[h]
                              /\ content = {} => c.size = Length[h]
<1>1. \E n \in Nat : /\ n >= Length[h]
                     /\ WriteOver(content, h) = {[start |-> h, size |-> n]}
                     /\ content = {} => n = Length[h]
  <2>1. CASE content = {}
    BY <2>1, LengthOfHost DEF WriteOver
  <2>2. CASE \E c \in Content : content = {c}
    <3>1. PICK c \in Content : content = {c}
      BY <2>2
    <3>2. (CHOOSE d \in content : TRUE) = c /\ c.size \in Nat
      BY <3>1 DEF Content
    <3>3. CASE c.size > Length[h]
      BY <3>1, <3>2, <3>3, LengthOfHost DEF WriteOver
    <3>4. CASE ~(c.size > Length[h])
      BY <3>1, <3>4, LengthOfHost DEF WriteOver
    <3> QED
      BY <3>3, <3>4
  <2> QED
    BY <2>1, <2>2
<1>2. PICK n \in Nat : /\ n >= Length[h]
                       /\ WriteOver(content, h) = {[start |-> h, size |-> n]}
                       /\ content = {} => n = Length[h]
  BY <1>1
<1>3. PICK written \in Content : written = [start |-> h, size |-> n]
  BY DEF Content
<1>4. WriteOver(content, h) = {written}
  <2>1. WriteOver(content, h) = {[start |-> h, size |-> n]}
    BY <1>2
  <2> QED
    BY <1>3, <2>1
<1>5. written.start = h /\ written.size = n
  BY <1>3
<1>6. written.size >= Length[h] /\ (content = {} => written.size = Length[h])
  BY <1>2, <1>5, LengthOfHost
<1> QED
  BY <1>4, <1>5, <1>6, Zenon

LEMMA InitCache == Init => CacheInv
<1> SUFFICES ASSUME Init
             PROVE  CacheInv
  OBVIOUS
<1>1. mem \subseteq Address /\ disk = {}
  BY InitialCacheIsAddress DEF Init
<1>2. TypeOK
  BY <1>1, ManualLength DEF Init, TypeOK, Address
<1> QED
  BY <1>1, <1>2 DEF Init, CacheInv

-----------------------------------------------------------------------------
(* The steps.  A task's step changes its own part of the state only.         *)

Step(t) ==
    \/ \E override \in Overrides : ResolveForAction(t, override)
    \/ t \in Mgmt /\ Discover(t)
    \/ ResolveForPoller(t) \/ Advance(t)

LEMMA NextCases == Next => (\E t \in Task : Step(t)) \/ Restart
BY DEF Next, Step, Task

\* A resolution begins: it goes to stage where with address.
LEMMA BeginCache ==
    ASSUME CacheInv, NEW t \in Task, Begin(t),
           NEW where \in {"probe", "discover", "remember", "use"},
           NEW address \in SUBSET Address, Goto(t, where, address),
           where = "remember" => AtMostOneAddress(address) /\ address # {}
    PROVE  CacheInv'
<1>1. TypeOK'
  BY ManualLength DEF CacheInv, TypeOK, Begin, Goto, fileVars, Address
<1>2. disk' = {} \/ \E c \in Content : disk' = {c}
  BY DEF CacheInv, Begin, fileVars
<1> QED
  BY <1>1, <1>2 DEF CacheInv, TypeOK, Begin, Goto, AtMostOneAddress

\* A resolution ends.
LEMMA DoneCache ==
    ASSUME CacheInv, NEW t \in Task, Done(t), UNCHANGED <<fileVars, answering>>
    PROVE  CacheInv'
<1>1. TypeOK'
  BY ManualLength DEF CacheInv, TypeOK, Done, Goto, fileVars
<1>2. disk' = {} \/ \E c \in Content : disk' = {c}
  BY DEF CacheInv, fileVars
<1> QED
  BY <1>1, <1>2 DEF CacheInv, TypeOK, Done, Goto, AtMostOneAddress

\* A resolution goes on to stage where with address, the file as it may be.
LEMMA GoesOnCache ==
    ASSUME CacheInv, NEW t \in Task, pc[t] # "idle", UNCHANGED <<place, answering>>,
           NEW where \in {"broadcast", "sweep", "remember", "truncate", "write", "use"},
           NEW address \in SUBSET Address, Goto(t, where, address),
           where \in {"sweep", "remember", "truncate", "write"} => AtMostOneAddress(address),
           where \in {"remember", "truncate", "write"} => address # {},
           mem' \subseteq Address, spoiled' \subseteq Mishap,
           disk' = {} \/ \E c \in Content : disk' = {c} /\ c.size >= Length[c.start]
    PROVE  CacheInv'
<1>1. TypeOK'
  BY DEF CacheInv, TypeOK, Goto, Address, Content
<1> QED
  BY <1>1 DEF CacheInv, TypeOK, Goto, AtMostOneAddress

LEMMA FileStays ==
    ASSUME CacheInv, UNCHANGED disk
    PROVE  disk' = {} \/ \E c \in Content : disk' = {c} /\ c.size >= Length[c.start]
BY DEF CacheInv, TypeOK

LEMMA SpoiledByMishap ==
    ASSUME CacheInv, NEW mishap \in Mishap, NEW happens, SpoiledBy(mishap, happens)
    PROVE  spoiled' \subseteq Mishap
BY DEF CacheInv, TypeOK, SpoiledBy

LEMMA StepCache ==
    ASSUME CacheInv, NEW t \in Task, Step(t)
    PROVE  CacheInv'
<1> USE ManualLength DEF Address
<1>1. mem \subseteq Address /\ ip[t] \subseteq Address /\ spoiled \subseteq Mishap
  BY DEF CacheInv, TypeOK
<1>2. CASE \E override \in Overrides : ResolveForAction(t, override)
  <2>1. PICK override \in Overrides : ResolveForAction(t, override)
    BY <1>2
  <2>2. AtMostOneAddress(override) /\ override \subseteq Host
    BY DEF Overrides, AtMostOneAddress
  <2> QED
    BY <1>1, <2>1, <2>2, BeginCache DEF ResolveForAction
<1>3. CASE t \in Mgmt /\ Discover(t)
  BY <1>3, BeginCache DEF Discover
<1>4. CASE ResolveForPoller(t)
  <2>1. Configured \cap Host # {} =>
          Configured \subseteq Host /\ Configured # {} /\ AtMostOneAddress(Configured)
    BY HostAssumption DEF AtMostOneAddress
  <2> QED
    BY <1>1, <1>4, <2>1, BeginCache DEF ResolveForPoller
<1>5. CASE ProbeAnswers(t)
  <2>1. Manual[place[t]] \in Host
    <3>1. place[t] \in Nat /\ pc[t] # "idle" /\ place[t] <= Len(Manual)
      BY <1>5 DEF ProbeAnswers, CacheInv, TypeOK
    <3>2. place[t] >= 1
      BY <3>1 DEF CacheInv
    <3> QED
      BY <3>1, <3>2, ManualIsHost
  <2>2. AtMostOneAddress({Manual[place[t]]})
    BY <2>1 DEF AtMostOneAddress
  <2> QED
    BY <1>1, <1>5, <2>1, <2>2, GoesOnCache, FileStays DEF ProbeAnswers, fileVars
<1>6. CASE ProbeFails(t)
  <2>1. TypeOK'
    BY <1>6 DEF ProbeFails, CacheInv, TypeOK, fileVars
  <2> QED
    BY <1>6, <2>1 DEF ProbeFails, CacheInv, TypeOK, fileVars, AtMostOneAddress
<1>7. CASE ProbesExhausted(t)
  BY <1>1, <1>7, DoneCache, GoesOnCache, FileStays DEF ProbesExhausted, fileVars
<1>8. CASE Broadcast(t)
  <2>1. PICK found \in FirstResponder :
            \/ found = {} /\ Done(t)
            \/ found # {} /\ Goto(t, "remember", found) /\ UNCHANGED place
    BY <1>8 DEF Broadcast
  <2>2. AtMostOneAddress(found) /\ found \subseteq Host
    BY DEF FirstResponder, AtMostOneAddress, CacheInv, TypeOK
  <2> QED
    BY <1>1, <1>8, <2>1, <2>2, DoneCache, GoesOnCache, FileStays DEF Broadcast, fileVars
<1>9. CASE DiscoverBroadcast(t)
  <2>1. PICK found \in FirstResponder : Goto(t, "sweep", found)
    BY <1>9 DEF DiscoverBroadcast
  <2>2. AtMostOneAddress(found) /\ found \subseteq Host
    BY DEF FirstResponder, AtMostOneAddress, CacheInv, TypeOK
  <2> QED
    BY <1>1, <1>9, <2>1, <2>2, GoesOnCache, FileStays DEF DiscoverBroadcast, fileVars
<1>10. CASE SweepManual(t)
  <2>1. Manual[place[t]] \in Host
    <3>1. place[t] \in Nat /\ pc[t] # "idle" /\ place[t] <= Len(Manual)
      BY <1>10 DEF SweepManual, CacheInv, TypeOK
    <3>2. place[t] >= 1
      BY <3>1 DEF CacheInv
    <3> QED
      BY <3>1, <3>2, ManualIsHost
  <2>2. AtMostOneAddress(ip'[t])
    <3>1. ip'[t] = ip[t] \/ ip'[t] = {Manual[place[t]]} \cap answering
      BY <1>10 DEF SweepManual, CacheInv, TypeOK
    <3>2. {Manual[place[t]]} \cap answering = {}
            \/ {Manual[place[t]]} \cap answering = {Manual[place[t]]}
      OBVIOUS
    <3> QED
      BY <1>10, <2>1, <3>1, <3>2 DEF SweepManual, CacheInv, AtMostOneAddress
  <2>3. \A u \in Task \ {t} : ip'[u] = ip[u]
    BY <1>10 DEF SweepManual, CacheInv, TypeOK
  <2>4. TypeOK'
    BY <1>10, <2>2 DEF SweepManual, CacheInv, TypeOK, fileVars, AtMostOneAddress
  <2>5. /\ UNCHANGED <<pc, disk>> /\ pc[t] = "sweep" /\ place'[t] >= 1
        /\ \A u \in Task \ {t} : place'[u] = place[u]
    BY <1>10 DEF SweepManual, CacheInv, TypeOK, fileVars
  <2>6. ASSUME NEW u \in Task
        PROVE  /\ pc'[u] # "idle" => place'[u] >= 1
               /\ pc'[u] \in {"sweep", "remember", "truncate", "write"} => AtMostOneAddress(ip'[u])
               /\ pc'[u] \in {"remember", "truncate", "write"} => ip'[u] # {}
    <3>1. CASE u = t
      BY <2>2, <2>5, <3>1
    <3>2. CASE u # t
      BY <2>3, <2>5, <3>2 DEF CacheInv
    <3> QED
      BY <3>1, <3>2
  <2> QED
    BY <2>4, <2>5, <2>6 DEF CacheInv, AtMostOneAddress
<1>11. CASE SweepDone(t)
  <2>1. AtMostOneAddress(ip[t])
    BY <1>11 DEF SweepDone, CacheInv
  <2> QED
    BY <1>1, <1>11, <2>1, DoneCache, GoesOnCache, FileStays DEF SweepDone, fileVars
<1>12. CASE Remember(t)
  <2>1. AtMostOneAddress(ip[t]) /\ ip[t] # {} /\ spoiled' \subseteq Mishap
    BY <1>12, SpoiledByMishap DEF Remember, CacheInv, Mishap
  <2> QED
    BY <1>1, <1>12, <2>1, GoesOnCache, FileStays DEF Remember
<1>13. CASE TruncateFile(t)
  <2>1. AtMostOneAddress(ip[t]) /\ ip[t] # {}
    BY <1>13 DEF TruncateFile, CacheInv
  <2> QED
    BY <1>1, <1>13, <2>1, GoesOnCache DEF TruncateFile
<1>14. CASE WriteFile(t)
  <2>1. PICK h \in ip[t] : disk' = WriteOver(disk, h)
    BY <1>14 DEF WriteFile
  <2>2. h \in Host
    BY <1>14 DEF WriteFile, CacheInv, AtMostOneAddress
  <2>3. \E c \in Content : disk' = {c} /\ c.size >= Length[c.start]
    BY <2>1, <2>2, WriteOverContent DEF CacheInv
  <2> QED
    BY <1>1, <1>14, <2>3, GoesOnCache DEF WriteFile
<1>15. CASE WriteFails(t)
  <2>1. pc[t] # "idle" /\ spoiled' \subseteq Mishap
    BY <1>15, SpoiledByMishap DEF WriteFails, Updating, Mishap
  <2> QED
    BY <1>1, <1>15, <2>1, GoesOnCache, FileStays DEF WriteFails
<1>16. CASE Use(t)
  BY <1>16, DoneCache DEF Use
<1> QED
  BY <1>2, <1>3, <1>4, <1>5, <1>6, <1>7, <1>8, <1>9, <1>10, <1>11, <1>12, <1>13, <1>14, <1>15,
     <1>16
     DEF Step, Advance

LEMMA RestartCache == CacheInv /\ Restart => CacheInv'
<1> SUFFICES ASSUME CacheInv, Restart
             PROVE  CacheInv'
  OBVIOUS
<1>1. mem' \subseteq Address /\ disk' = disk
  BY InitialCacheIsAddress DEF CacheInv, Restart
<1>2. TypeOK'
  BY <1>1, ManualLength DEF CacheInv, TypeOK, Restart, Address
<1> QED
  BY <1>1, <1>2 DEF CacheInv, Restart

LEMMA NextCache == CacheInv /\ [Next]_vars => CacheInv'
<1> SUFFICES ASSUME CacheInv, [Next]_vars
             PROVE  CacheInv'
  OBVIOUS
<1>1. CASE UNCHANGED vars
  BY <1>1 DEF vars, fileVars, taskVars, CacheInv, TypeOK, AtMostOneAddress
<1> QED
  BY <1>1, NextCases, StepCache, RestartCache

\* Every variable keeps its type: the cell and the tasks hold addresses or one
\* text read back, the file starts with an address and is not shorter than it.
THEOREM TypeCorrect == Spec => []TypeOK
<1>1. CacheInv => TypeOK
  BY DEF CacheInv
<1> QED
  BY <1>1, InitCache, NextCache, PTL DEF Spec

-----------------------------------------------------------------------------
(* The cell and the file, as long as no update of them has begun inside      *)
(* another.  The one task that writes truncated the file itself, so the file *)
(* holds nothing, or the whole of an address; and it is the address in the   *)
(* cell, unless an update is under way or failed.                            *)

Uncrossed ==
    "crossed" \notin spoiled =>
        /\ mem \subseteq Host
        /\ \A c \in disk : c.size = Length[c.start]
        /\ \A t \in Task : pc[t] = "write" => disk = {}
        /\ \A t \in Task : Updating(t) => mem = ip[t] /\ \A u \in Task \ {t} : ~Updating(u)

FileIsMemory ==
    spoiled = {} /\ Configured = {} /\ (\A t \in Task : ~Updating(t)) => mem = InitialCache(disk)

FileInv == Uncrossed /\ FileIsMemory

LEMMA WholeFileIsAddress ==
    ASSUME NEW content, content = {} \/ \E c \in Content : content = {c},
           \A c \in content : c.size = Length[c.start]
    PROVE  InitialCache(content) \subseteq Host
<1>1. ReadFile(content) \subseteq Host
  BY DEF ReadFile, Content
<1> QED
  BY <1>1, ConfiguredIsAddress DEF InitialCache

\* What was written whole is what the next start reads.
LEMMA WrittenIsRead ==
    ASSUME NEW h \in Host, Configured = {}
    PROVE  InitialCache(WriteOver({}, h)) = {h}
<1>1. WriteOver({}, h) = {[start |-> h, size |-> Length[h]]}
  BY DEF WriteOver
<1>2. ReadFile({[start |-> h, size |-> Length[h]]}) = {h}
  BY DEF ReadFile
<1> QED
  BY <1>1, <1>2, HostAssumption DEF InitialCache

LEMMA InitFile == Init => FileInv
<1> SUFFICES ASSUME Init
             PROVE  FileInv
  OBVIOUS
<1>1. mem \subseteq Host
  BY WholeFileIsAddress DEF Init
<1> QED
  BY <1>1 DEF Init, FileInv, Uncrossed, FileIsMemory, Updating

\* A step of a task that is not updating cell and file.
LEMMA FileUntouched ==
    ASSUME FileInv, NEW t \in Task, UNCHANGED fileVars, ~Updating(t), ~Updating(t)',
           \A u \in Task \ {t} : pc'[u] = pc[u] /\ ip'[u] = ip[u]
    PROVE  FileInv'
<1>1. \A u \in Task : Updating(u)' <=> Updating(u)
  BY DEF Updating
<1>2. Uncrossed'
  <2>1. \A u \in Task \ {t} : pc'[u] = pc[u] /\ ip'[u] = ip[u]
    OBVIOUS
  <2>2. pc'[t] # "write"
    BY DEF Updating
  <2> QED
    BY <1>1, <2>1, <2>2 DEF FileInv, Uncrossed, fileVars
<1>3. FileIsMemory'
  BY <1>1 DEF FileInv, FileIsMemory, fileVars, InitialCache, ReadFile
<1> QED
  BY <1>2, <1>3 DEF FileInv

LEMMA StepFile ==
    ASSUME CacheInv, FileInv, NEW t \in Task, Step(t)
    PROVE  FileInv'
<1> DEFINE Others == \A u \in Task \ {t} : pc'[u] = pc[u] /\ ip'[u] = ip[u]
<1>1. CASE \/ \E override \in Overrides : ResolveForAction(t, override)
           \/ t \in Mgmt /\ Discover(t)
           \/ ResolveForPoller(t)
  <2>1. Others /\ UNCHANGED fileVars /\ ~Updating(t) /\ ~Updating(t)'
    BY <1>1 DEF ResolveForAction, Discover, ResolveForPoller, Begin, Goto, Updating, CacheInv, TypeOK
  <2> QED
    BY <2>1, FileUntouched
<1>2. CASE \/ ProbeAnswers(t) \/ ProbeFails(t) \/ ProbesExhausted(t) \/ Broadcast(t)
           \/ DiscoverBroadcast(t) \/ SweepManual(t) \/ SweepDone(t) \/ Use(t)
  <2>1. Others /\ UNCHANGED fileVars /\ ~Updating(t) /\ ~Updating(t)'
    BY <1>2 DEF ProbeAnswers, ProbeFails, ProbesExhausted, Broadcast, DiscoverBroadcast,
        SweepManual, SweepDone, Use, Done, Goto, Updating, CacheInv, TypeOK
  <2> QED
    BY <2>1, FileUntouched
<1>3. CASE Remember(t)
  <2>1. /\ Others /\ pc'[t] = "truncate" /\ ip'[t] = ip[t]
        /\ mem' = ip[t] /\ disk' = disk
    BY <1>3 DEF Remember, Goto, CacheInv, TypeOK
  <2>2. Updating(t)'
    BY <2>1 DEF Updating
  <2>3. Uncrossed'
    <3> SUFFICES ASSUME "crossed" \notin spoiled'
                 PROVE  Uncrossed'
      BY DEF Uncrossed
    <3>1. "crossed" \notin spoiled /\ \A u \in Task \ {t} : ~Updating(u)
      BY <1>3 DEF Remember, SpoiledBy
    <3>2. mem' \subseteq Host
      BY <1>3, <2>1 DEF Remember, CacheInv, AtMostOneAddress
    <3>3. \A u \in Task \ {t} : ~Updating(u)' /\ pc'[u] # "write"
      BY <2>1, <3>1 DEF Updating
    <3>4. \A c \in disk' : c.size = Length[c.start]
      BY <2>1, <3>1 DEF FileInv, Uncrossed
    <3> QED
      BY <2>1, <3>2, <3>3, <3>4 DEF Uncrossed
  <2> QED
    BY <2>2, <2>3 DEF FileInv, FileIsMemory
<1>4. CASE TruncateFile(t)
  <2>1. /\ Others /\ pc'[t] = "write" /\ ip'[t] = ip[t]
        /\ mem' = mem /\ disk' = {}
    BY <1>4 DEF TruncateFile, Goto, CacheInv, TypeOK
  <2>2. Updating(t) /\ Updating(t)' /\ \A u \in Task \ {t} : Updating(u)' <=> Updating(u)
    BY <1>4, <2>1 DEF TruncateFile, Updating
  <2>3. Uncrossed'
    <3> SUFFICES ASSUME "crossed" \notin spoiled'
                 PROVE  Uncrossed'
      BY DEF Uncrossed
    <3>1. mem = ip[t] /\ \A u \in Task \ {t} : ~Updating(u)
      BY <1>4, <2>2 DEF TruncateFile, FileInv, Uncrossed
    <3>2. mem' \subseteq Host
      BY <1>4, <2>1, <3>1 DEF TruncateFile, CacheInv, AtMostOneAddress
    <3> QED
      BY <2>1, <2>2, <3>1, <3>2 DEF Uncrossed
  <2> QED
    BY <2>2, <2>3 DEF FileInv, FileIsMemory
<1>5. CASE WriteFile(t)
  <2>1. PICK h \in Host : ip[t] = {h}
    BY <1>5 DEF WriteFile, CacheInv, AtMostOneAddress
  <2>2. /\ Others /\ pc'[t] = "use" /\ mem' = mem /\ spoiled' = spoiled
        /\ disk' = WriteOver(disk, h)
    BY <1>5, <2>1 DEF WriteFile, Goto, CacheInv, TypeOK
  <2>3. Updating(t) /\ ~Updating(t)' /\ \A u \in Task \ {t} : Updating(u)' <=> Updating(u)
    BY <1>5, <2>2 DEF WriteFile, Updating
  <2>4. "crossed" \notin spoiled =>
          /\ disk = {} /\ mem = {h} /\ \A u \in Task : ~Updating(u)'
    BY <1>5, <2>1, <2>3 DEF WriteFile, FileInv, Uncrossed
  <2>5. Uncrossed'
    <3> SUFFICES ASSUME "crossed" \notin spoiled'
                 PROVE  Uncrossed'
      BY DEF Uncrossed
    <3>1. PICK c \in Content : disk' = {c} /\ c.size = Length[c.start]
      BY <2>2, <2>4, WriteOverContent
    <3>2. \A u \in Task : pc'[u] # "write"
      BY <2>2, <2>4 DEF Updating
    <3> QED
      BY <2>2, <2>4, <3>1, <3>2 DEF Uncrossed
  <2>6. FileIsMemory'
    <3> SUFFICES ASSUME spoiled' = {}, Configured = {}
                 PROVE  mem' = InitialCache(disk')
      BY DEF FileIsMemory, InitialCache, ReadFile
    <3> QED
      BY <2>2, <2>4, WrittenIsRead
  <2> QED
    BY <2>5, <2>6 DEF FileInv
<1>6. CASE WriteFails(t)
  <2>1. /\ Others /\ pc'[t] = "use" /\ mem' = mem /\ disk' = disk
        /\ spoiled' = spoiled \cup {"failed"}
    BY <1>6 DEF WriteFails, SpoiledBy, Goto, CacheInv, TypeOK
  <2>2. ~Updating(t)' /\ \A u \in Task \ {t} : Updating(u)' <=> Updating(u)
    BY <2>1 DEF Updating
  <2>3. Uncrossed'
    BY <2>1, <2>2 DEF FileInv, Uncrossed
  <2> QED
    BY <2>1, <2>3 DEF FileInv, FileIsMemory
<1> QED
  BY <1>1, <1>2, <1>3, <1>4, <1>5, <1>6 DEF Step, Advance

\* A crash between two steps of a write leaves an empty file or a whole address.
LEMMA RestartFile == CacheInv /\ FileInv /\ Restart => FileInv'
<1> SUFFICES ASSUME CacheInv, FileInv, Restart
             PROVE  FileInv'
  OBVIOUS
<1>1. /\ mem' = InitialCache(disk) /\ disk' = disk /\ spoiled' = spoiled
      /\ \A t \in Task : pc'[t] = "idle"
  BY DEF Restart
<1>2. \A t \in Task : ~Updating(t)' /\ pc'[t] # "write"
  BY <1>1 DEF Updating
<1>3. "crossed" \notin spoiled => mem' \subseteq Host
  BY <1>1, WholeFileIsAddress DEF CacheInv, FileInv, Uncrossed
<1>4. Uncrossed'
  BY <1>1, <1>2, <1>3 DEF FileInv, Uncrossed
<1>5. FileIsMemory'
  BY <1>1 DEF FileIsMemory, InitialCache, ReadFile
<1> QED
  BY <1>4, <1>5 DEF FileInv

LEMMA NextFile == CacheInv /\ FileInv /\ [Next]_vars => FileInv'
<1> SUFFICES ASSUME CacheInv, FileInv, [Next]_vars
             PROVE  FileInv'
  OBVIOUS
<1>1. CASE UNCHANGED vars
  BY <1>1 DEF vars, fileVars, taskVars, FileInv, Uncrossed, FileIsMemory, Updating, InitialCache,
     ReadFile
<1> QED
  BY <1>1, NextCases, StepFile, RestartFile

\* What is remembered is an address of a host unless updates crossed, for any
\* tasks, failing writes and crashes.
THEOREM MemoryIsAHostUnlessCrossedHolds == Spec => []MemoryIsAHostUnlessCrossed
<1>1. FileInv => MemoryIsAHostUnlessCrossed
  BY DEF FileInv, Uncrossed, MemoryIsAHostUnlessCrossed
<1> QED
  BY <1>1, InitCache, NextCache, InitFile, NextFile, PTL DEF Spec

\* "makes the previously-discovered IP survive a plugin restart": true of any
\* tasks and of any past, whatever failed, crossed or crashed in it, once an
\* update has run undisturbed.
THEOREM SurvivesQuietRestartHolds == Spec => SurvivesQuietRestart
<1>1. FileInv =>
        [Restart /\ (\A t \in Task : ~Updating(t)) /\ spoiled = {} /\ Configured = {}
          => mem' = mem]_vars
  BY DEF FileInv, FileIsMemory, Restart
<1> QED
  BY <1>1, InitCache, NextCache, InitFile, NextFile, PTL DEF Spec, SurvivesQuietRestart

=============================================================================
