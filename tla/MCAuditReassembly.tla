------------------------- MODULE MCAuditReassembly -------------------------
(* Small instances of AuditReassembly for TLC.                                 *)
EXTENDS AuditReassembly, TLC

CONSTANTS h1, h2, e1, e2, r1, r2, w1, w2

MCSymmetry ==
  Permutations(Hosts) \cup Permutations(EventIds)
    \cup Permutations(Receivers) \cup Permutations(Workers)
=============================================================================
