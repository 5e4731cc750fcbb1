------------------------------ MODULE MCHostTrust ------------------------------
(* Model values for HostTrust: a device with an address and a deviceId.      *)
EXTENDS HostTrust, TLC

CONSTANTS d1, a1, i1, k1, k2

MCAt == a1 :> d1 @@ i1 :> d1

\* Nothing yet, or a key approved for the address by a release that knew no
\* deviceIds.
MCFiles == {Empty, [Empty EXCEPT ![a1] = k1]}
=============================================================================
