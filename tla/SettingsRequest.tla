--------------------------- MODULE SettingsRequest ---------------------------
(* What an operator may rely on when changing the console's upload settings  *)
(* through the plugin: the console takes what was asked for or nothing, and  *)
(* is said to have taken it only if it has.  An error promises nothing: a    *)
(* console may have taken the settings and been unable to say so.            *)
CONSTANTS Request, Factory

VARIABLES
    settings,  \* the console's upload settings
    wanted,    \* the last request (option)
    verdict    \* what the operator was told of it

vars == <<settings, wanted, verdict>>

Init == settings = Factory /\ wanted = {} /\ verdict = "none"

Ask(r) ==
    /\ verdict # "pending"
    /\ wanted' = {r}
    /\ verdict' = "pending"
    /\ UNCHANGED settings

Take ==
    /\ verdict = "pending"
    /\ settings' \in wanted
    /\ UNCHANGED <<wanted, verdict>>

Complete ==
    /\ verdict = "pending" /\ wanted = {settings}
    /\ verdict' = "complete"
    /\ UNCHANGED <<settings, wanted>>

\* What the last attempt did is not known.
Fail ==
    /\ verdict = "pending"
    /\ settings' \in {settings} \cup wanted
    /\ verdict' \in {"error", "aborted"}
    /\ UNCHANGED wanted

Next == (\E r \in Request : Ask(r)) \/ Take \/ Complete \/ Fail

Spec == Init /\ [][Next]_vars

=============================================================================
