----------------------------- MODULE MCStorage -----------------------------
(* The two halves of the store, which share no key: samples, with two       *)
(* deliveries, every tier and the retention of raw samples within six       *)
(* instants; or the snapshots of two workloads of one name.                 *)
EXTENDS Storage, Snapshots
VARIABLE part

MCBucket == <<2, 4>>
MCCompactAfter == <<2, 4>>
MCRowTTL == <<4, 6, 9>>
MCSpans == <<3, 6>>
MCHealths == {Unmeasured, 50}
MCRefs == {[ns |-> "a", kind |-> "Deployment", name |-> "x", node |-> ""],
           [ns |-> "a", kind |-> "StatefulSet", name |-> "x", node |-> ""]}

MCInit == part \in {"samples", "snapshots"} /\ StorageInit /\ SnapInit
MCNext ==
    \/ part = "samples" /\ StorageNext /\ UNCHANGED <<part, snapVars>>
    \/ part = "snapshots" /\ SnapNext /\ UNCHANGED <<part, storageVars>>
MCSpec == MCInit /\ [][MCNext]_<<part, storageVars, snapVars>>
=============================================================================
