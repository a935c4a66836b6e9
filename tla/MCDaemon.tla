------------------------------ MODULE MCDaemon ------------------------------
(* Two instances, configured with the same ports, with none in common, or  *)
(* so that the https port of one is the http port of the other.            *)
EXTENDS Daemon, TLC

CONSTANTS a, b

MCConfigs ==
  a :> {[http |-> 80, https |-> 443], [http |-> 8443, https |-> 80]} @@
  b :> {[http |-> 80, https |-> 443], [http |-> 8080, https |-> 8443]}
=============================================================================
