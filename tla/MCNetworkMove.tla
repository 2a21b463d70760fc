---------------------------- MODULE MCNetworkMove ----------------------------
(* NetworkMove with the ports people use: Home Assistant on 8123, the proxy   *)
(* taking it over or on 8080, Home Assistant moved to 8124 or 8125.           *)
EXTENDS NetworkMove

MCProxyPort == {8123}
MCProxyPorts == {8123, 8080}
MCUpstreamPorts == {8124, 8125}
=============================================================================
