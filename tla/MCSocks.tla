------------------------------- MODULE MCSocks --------------------------------
(* The deadline and the dial's timeout are equally long.                     *)
EXTENDS SocksHandshake
=============================================================================
