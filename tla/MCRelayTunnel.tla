--------------------------- MODULE MCRelayTunnel ---------------------------
(***************************************************************************)
(* Instances of RelayTunnel for TLC.                                       *)
(***************************************************************************)
EXTENDS RelayTunnel, TLC

CONSTANTS t1, t2, bad, s1, s2

\* t1 and t2 have a subdomain each, the refused token shares that of t1.
MCSubOf == (t1 :> s1) @@ (t2 :> s2) @@ (bad :> s1)
MCSubOf1 == t1 :> s1
MCSubOf2 == (t1 :> s1) @@ (t2 :> s2)
=============================================================================
