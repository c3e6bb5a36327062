----------------------------- MODULE MCClient -----------------------------
(* The client library on small buffers; see Client.cfg.                     *)
EXTENDS Client
===========================================================================
