----------------------------- MODULE MCSNIServer -----------------------------
(* Small instances of SNIServer: more connections than the semaphore holds.  *)
EXTENDS SNIServer
=============================================================================
