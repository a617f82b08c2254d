----------------------------- MODULE MCStation ------------------------------
(* Instances of Station for TLC.                                             *)
EXTENDS Station

At(channel, models) == {[model |-> m, channel |-> channel] : m \in models}

\* The sensors a console has once, and channel sensors on one channel.
Unnumbered == At(0, DOMAIN Catalogue \ Numbered)
OnChannel == At(1, Numbered)

\* The last channels of POSTed forms and of the taxonomy's rows, and those beyond
\* a form's: PM2.5 of the other kind, leaks only livedata tells of.
Boundaries ==
    At(4, {"WH55", "WH41"}) \cup At(5, {"WH55", "WH41"})
    \cup At(8, {"WH31", "WN35", "WH41"}) \cup At(16, {"WH51", "WH52"})

\* Every sensor alone, and every two that may share a device side by side.
AloneAndInPairs ==
    {{s, t} : s, t \in Unnumbered} \cup {{s, t} : s, t \in OnChannel} \cup {{s} : s \in Boundaries}

=============================================================================
