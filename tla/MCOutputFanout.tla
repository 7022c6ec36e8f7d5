--------------------------- MODULE MCOutputFanout ---------------------------
(* Small instances of OutputFanout for TLC.                                  *)
EXTENDS OutputFanout
=============================================================================
