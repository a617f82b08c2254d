-------------------------- MODULE MCConsoleSettings --------------------------
(* Instances of ConsoleSettings: one place to upload to from the factory,    *)
(* one an operator asks for.                                                 *)
EXTENDS ConsoleSettings

MCFactory == [protocol |-> "ecowitt", enable |-> TRUE, dest |-> [p \in Protocol |-> "vendor"]]

\* Turn the upload to the plugin off.
OneRequest == {[protocol |-> "wunderground", enable |-> FALSE, dest |-> "plugin"]}

\* Firmware that guards nothing, writes only, or both.
MCGuards == {{}, {"write"}, {"read", "write"}}

=============================================================================
