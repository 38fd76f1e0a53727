----------------------------- MODULE MCDiscovery -----------------------------
(* Two parts that share no state, each checked on its own.                  *)
(*   fleet    a workload of either kind and a host                          *)
(*   process  an engine from its start to its end, one line, two workloads *)
EXTENDS Discovery, Lifecycle

CONSTANTS a, b, d, s, h, l1
VARIABLE part

MCKindOf == [w \in Workloads |-> IF w = a THEN d ELSE s]

MCInit ==
  /\ part \in {"fleet", "process"}
  /\ Init /\ LifecycleInit
  /\ part = "process" => cluster = {}

MCNext ==
  \/ part = "fleet" /\ Next /\ UNCHANGED <<part, processVars>>
  \/ part = "process" /\ LifecycleNext /\ UNCHANGED <<part, vars>>

MCVars == <<part, vars, processVars>>

\* The fairness of FairSpec, and of the process: goroutines that are never
\* starved, and requests that are answered.
MCFleet(A) == part = "fleet" /\ A
MCSpec ==
  /\ MCInit /\ [][MCNext]_MCVars
  /\ \A k \in Kinds :
       /\ WF_vars(MCFleet(List(k))) /\ WF_vars(MCFleet(HandleItem(k)))
       /\ WF_vars(MCFleet(Listed(k))) /\ WF_vars(MCFleet(Call(k)))
       /\ WF_vars(MCFleet(WatchEnds(k)))
  /\ WF_vars(MCFleet(Prune))
  /\ WF_processVars(part = "process" /\ Main)
  /\ WF_processVars(part = "process" /\ Answer)

\* SIGTERM at any moment (runWithContext of main.go, Stop of the receivers,
\* FlushSnapshots): the process exits, no answered request is lost to a
\* closed store, and the snapshots of that moment are on disk.
ShutdownIsClean == []AnsweredIsWritten /\ FlushKeepsWhatWasOwed /\ SignalIsObeyed
==============================================================================
