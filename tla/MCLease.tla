------------------------------ MODULE MCLease ------------------------------
(***************************************************************************)
(* Instances of Lease for TLC: three operators of three namespaces.        *)
(***************************************************************************)
EXTENDS Lease, TLC

CONSTANTS o1, o2, o3

ThreeNamespaces == (o1 :> "ns1") @@ (o2 :> "ns2") @@ (o3 :> "ns3")
============================================================================
