----------------------------- MODULE DeviceFeed -----------------------------
(* What homeCore may rely on from this plugin, whatever happens inside it:   *)
(* a device exists before anything is declared or reported for it, and no    *)
(* reading carries an attribute its retained schema does not declare.        *)
CONSTANTS Device, Attribute

VARIABLES
    devices,   \* devices homeCore knows
    declared,  \* attribute names in each device's retained schema
    reported   \* attribute names in each device's last reading

vars == <<devices, declared, reported>>

Init ==
    /\ devices = {}
    /\ declared = [d \in Device |-> {}]
    /\ reported = [d \in Device |-> {}]

Appear(d) ==
    /\ devices' = devices \cup {d}
    /\ UNCHANGED <<declared, reported>>

Declare(d, names) ==
    /\ d \in devices
    /\ declared' = [declared EXCEPT ![d] = names]
    /\ UNCHANGED <<devices, reported>>

Report(d, names) ==
    /\ d \in devices
    /\ names \subseteq declared[d]
    /\ reported' = [reported EXCEPT ![d] = names]
    /\ UNCHANGED <<devices, declared>>

Next ==
    \E d \in Device :
        \/ Appear(d)
        \/ \E names \in SUBSET Attribute : Declare(d, names) \/ Report(d, names)

Spec == Init /\ [][Next]_vars

=============================================================================
