------------------------------ MODULE MCThrottle ------------------------------
(* A connection with its two copiers; the bucket holds a buffer and a half. *)
EXTENDS Throttle
=============================================================================
