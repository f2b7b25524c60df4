------------------------------- MODULE MCTunnel -------------------------------
(* Small instances of Tunnel: every kind of relay, or one kind alone.        *)
EXTENDS Tunnel

AllKinds == Relays

ThrottledConnect == {[server |-> "connect", tls |-> FALSE, throttled |-> TRUE]}
=============================================================================
