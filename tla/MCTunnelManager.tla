---------------------------- MODULE MCTunnelManager ----------------------------
(* Model values for TunnelManager, and the addresses callers know.           *)
EXTENDS TunnelManager, TLC

CONSTANTS d1, d2, h1, h2

MCServes == h1 :> d1 @@ h2 :> d2

\* d1 is asked for by its identity and, before that is known, by its address.
MCRoutes == {<<d1, h1>>, <<NONE, h1>>, <<d2, h2>>}
=============================================================================
