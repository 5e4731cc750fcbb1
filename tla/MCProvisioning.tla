---------------------------- MODULE MCProvisioning ----------------------------
(* The Jetsons that Provisioning starts from.                               *)
EXTENDS Provisioning

Fresh ==
  [packages |-> "missing", interrupted |-> FALSE, xsession |-> "none", host |-> TRUE,
   service |-> "down"]

\* Somebody's own desktop over RDP, which classify calls ready.
Foreign ==
  [packages |-> "checked", interrupted |-> FALSE, xsession |-> "plain", host |-> TRUE,
   service |-> "up"]

Prepared == [Foreign EXCEPT !.packages = "all", !.xsession = "own"]

\* The other states come about from these: "torn", "deaf" and "keyless" by the
\* script's own steps.
MCJetsons ==
  {Fresh, Foreign, [Foreign EXCEPT !.interrupted = TRUE], Prepared, [Prepared EXCEPT !.host = FALSE]}
=============================================================================
