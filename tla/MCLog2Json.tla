----------------------------- MODULE MCLog2Json -----------------------------
(* Small instances of Log2Json for TLC.                                      *)
EXTENDS Log2Json
=============================================================================
