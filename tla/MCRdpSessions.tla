--------------------------- MODULE MCRdpSessions ---------------------------
(* Instances of RdpSessions for TLC.                                        *)
EXTENDS RdpSessionsInv, TLC

\* Keys, sessions and threads are interchangeable in every safety property.
Interchangeable ==
  Permutations(Keys) \cup Permutations(Sess) \cup Permutations(Threads)
=============================================================================
