-------------------------- MODULE MCRememberedDevices --------------------------
(* Two devices, one with two addresses and two passwords.                    *)
EXTENDS RememberedDevices

CONSTANTS u1, d1, d2, h1, h2, h3, a1, a2, b1

MCAt == h1 :> d1 @@ h2 :> d1 @@ h3 :> d2
MCOwner == a1 :> d1 @@ a2 :> d1 @@ b1 :> d2
MCReports == d1 :> {<<h1>>, <<h2, h1>>} @@ d2 :> {<<h3>>}
MCOldFiles == {{}, {u1} \X {h1, h2}, {u1} \X {h1, h3}}
=============================================================================
