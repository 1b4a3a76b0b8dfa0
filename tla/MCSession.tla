----------------------------- MODULE MCSession -----------------------------
(* Instances of Session for TLC. *)
EXTENDS Session

AllModes == {"tcp", "tls"} \X {"direct", "chain"}
=============================================================================
