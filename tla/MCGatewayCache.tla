--------------------------- MODULE MCGatewayCache ---------------------------
(* Instances of GatewayCache for TLC.                                        *)
EXTENDS GatewayCache, TLC

\* Two addresses of different length, and one of the length of the first.
MCHost == {"192.168.1.10", "10.0.0.5", "192.168.1.11"}
MCLength == [h \in MCHost |-> IF h = "10.0.0.5" THEN 8 ELSE 12]

\* The manual hosts are on another VLAN than the broadcast.
MCManual == <<"192.168.1.10", "10.0.0.5">>
MCLan == {"192.168.1.11"}

\* Two consoles, one of them both listed and on the local network.
TwoHosts == {"192.168.1.10", "10.0.0.5"}
TwoLengths == [h \in TwoHosts |-> IF h = "10.0.0.5" THEN 8 ELSE 12]
OneOnLan == {"10.0.0.5"}

NotConfigured == {}

=============================================================================
