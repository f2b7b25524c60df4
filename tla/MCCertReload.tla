----------------------------- MODULE MCCertReload -----------------------------
(* A small instance of CertReload.                                           *)
EXTENDS CertReload
=============================================================================
