----------------------------- MODULE CallGraph -----------------------------
(***************************************************************************)
(* Which workloads call which, inferred from what the cluster declares     *)
(* (internal/callgraph): a collector that lists one kind after the other   *)
(* while the cluster changes, the graph it builds, and who a failure can   *)
(* hit (Callers, and the view of internal/api/handlers_callgraph.go).      *)
(***************************************************************************)
EXTENDS Integers, FiniteSets, SequencesExt

CONSTANTS
    Apps,           \* workloads, each of a kind of its own, in the order listed
    Targets,        \* services
    Doors,          \* routes and ingresses
    Declarations, Selections,   \* what apps may name, and selectors match, at the start
    MaxEdits        \* bound: changes of the cluster

ASSUME CallGraphAssumption == MaxEdits \in Nat /\ Apps \in Seq(Range(Apps)) /\ IsInjective(Apps)

VARIABLES
    declared,   \* app -> the services its environment names; absent: no such app
    selected,   \* service -> the apps its selector matches
    doors,      \* door -> the service behind it
    edits,
    refresh,    \* what the collector has listed so far of a refresh, if any
    graph       \* the graph served: edges, and doors kept

graphVars == <<declared, selected, doors, edits, refresh, graph>>

NoGraph == [edges |-> {}, doors |-> {}]
NotRefreshing == [next |-> 0, apps |-> <<>>, services |-> <<>>, doors |-> <<>>, alone |-> TRUE]

\* The engine starts beside a cluster that is there.
GraphInit ==
    /\ declared \in [Range(Apps) -> Declarations] /\ selected \in Selections
    /\ doors = <<>> /\ edits = 0
    /\ refresh = NotRefreshing /\ graph = NoGraph

Over(f, k, v) == [x \in DOMAIN f \cup {k} |-> IF x = k THEN v ELSE f[x]]

-----------------------------------------------------------------------------
(* The cluster.  `alone` is only told: no change since the refresh began.  *)

Edit ==
    /\ edits < MaxEdits /\ edits' = edits + 1
    /\ refresh' = [refresh EXCEPT !.alone = FALSE] /\ UNCHANGED graph

EditApp(a, services) == Edit /\ declared' = Over(declared, a, services) /\ UNCHANGED <<selected, doors>>
EditService(t, apps) == Edit /\ selected' = Over(selected, t, apps) /\ UNCHANGED <<declared, doors>>
EditDoor(d, t) == Edit /\ doors' = Over(doors, d, t) /\ UNCHANGED <<declared, selected>>
RemoveApp(a) ==
    /\ a \in DOMAIN declared /\ declared' = [x \in DOMAIN declared \ {a} |-> declared[x]]
    /\ Edit /\ UNCHANGED <<selected, doors>>

-----------------------------------------------------------------------------
(* Build.                                                                  *)

\* A service without a match has no backend, one that is not listed neither.
Backends(apps, services, t) == IF t \in DOMAIN services THEN services[t] \cap DOMAIN apps ELSE {}

EnvEdges(apps, services) ==
    UNION {{[from |-> a, to |-> b, source |-> "env"] : b \in UNION {Backends(apps, services, t) : t \in apps[a]} \ {a}}
           : a \in DOMAIN apps}
DoorEdges(apps, services, entries) ==
    UNION {{[from |-> d, to |-> b, source |-> "door"] : b \in Backends(apps, services, entries[d])} : d \in DOMAIN entries}

Build(apps, services, entries) ==
    [edges |-> EnvEdges(apps, services) \cup DoorEdges(apps, services, entries),
     doors |-> {d \in DOMAIN entries : Backends(apps, services, entries[d]) # {}}]

-----------------------------------------------------------------------------
(* A refresh: the apps of each kind, the services, then the doors.  The    *)
(* graph is replaced as a whole, at the end.                               *)

Steps == Len(Apps) + 2
Move(changed) == refresh' = [changed EXCEPT !.next = @ + 1] /\ UNCHANGED <<declared, selected, doors, edits, graph>>

RefreshBegin == refresh.next = 0 /\ Move([refresh EXCEPT !.alone = TRUE])

ListApps ==
    /\ refresh.next \in 1..Len(Apps)
    /\ LET a == Apps[refresh.next]
       IN  Move(IF a \in DOMAIN declared THEN [refresh EXCEPT !.apps = Over(@, a, declared[a])] ELSE refresh)

ListServices == refresh.next = Len(Apps) + 1 /\ Move([refresh EXCEPT !.services = selected])

\* A list of the above that fails ends the refresh ...
RefreshFails ==
    /\ refresh.next \in 1..(Len(Apps) + 1) /\ refresh' = NotRefreshing
    /\ UNCHANGED <<declared, selected, doors, edits, graph>>

\* ... one of the doors is ignored, with what its first pages gave.
ListDoors(read) ==
    /\ refresh.next = Steps /\ read \subseteq DOMAIN doors
    /\ graph' = Build(refresh.apps, refresh.services, [d \in read |-> doors[d]])
    /\ refresh' = NotRefreshing
    /\ UNCHANGED <<declared, selected, doors, edits>>

GraphNext ==
    \/ \E i \in DOMAIN Apps : RemoveApp(Apps[i]) \/ \E services \in SUBSET Targets : EditApp(Apps[i], services)
    \/ \E t \in Targets, apps \in {{Apps[i]} : i \in DOMAIN Apps} \cup {Range(Apps)} : EditService(t, apps)
    \/ \E d \in Doors, t \in Targets : EditDoor(d, t)
    \/ RefreshBegin \/ ListApps \/ ListServices \/ RefreshFails
    \/ \E read \in SUBSET Doors : ListDoors(read)

GraphSpec == GraphInit /\ [][GraphNext]_graphVars

-----------------------------------------------------------------------------
(* Readers.                                                                *)

EnvCallers(b) == {e.from : e \in {e \in graph.edges : e.source = "env" /\ e.to = b}}
Sorted(apps) == FoldLeft(LAMBDA kept, a : IF a \in apps THEN Append(kept, a) ELSE kept, <<>>, Apps)

\* Faulty variant: the target of a cycle is not known from the start.
UnseenNorTarget(callers, found, target) == Sorted(callers \ Range(found))
Unseen(callers, found, target) == Sorted(callers \ (Range(found) \cup {target}))

\* Breadth first over the calls, never over the doors: whom it has found, and
\* who waits to be asked for its own callers; the first of them is asked.
Ask(was, target) ==
    LET new == Unseen(EnvCallers(Head(was.waiting)), was.found, target)
    IN  IF was.waiting = <<>> THEN was
        ELSE [found |-> was.found \o new, waiting |-> Tail(was.waiting) \o new]

Callers(target) ==
    LET turn[n \in Nat] ==
            IF n = 0 THEN [found |-> <<>>, waiting |-> <<target>>] ELSE Ask(turn[n - 1], target)
    IN  turn[Len(Apps) + 1].found

\* The view of the API: a node that fails says how many callers that can hit.
Nodes == {e.from : e \in graph.edges} \cup {e.to : e \in graph.edges}
CallGraphView(failing) ==
    [n \in Nodes |-> [entry |-> n \in graph.doors, fails |-> n \in failing,
                      affects |-> IF n \in failing THEN Len(Callers(n)) ELSE 0]]

-----------------------------------------------------------------------------
(* Properties.                                                             *)

\* Whom a failure can hit within n calls.
HitWithin(target, n) ==
    LET hit[i \in Nat] == IF i = 0 THEN {target} ELSE hit[i - 1] \cup UNION {EnvCallers(b) : b \in hit[i - 1]}
    IN  hit[n] \ {target}

\* Callers lists "every workload that reaches target through the graph, nearest
\* first" (graph.go), each once: in whatever cluster, with cycles, and however
\* it changed between the lists of a refresh.  The view counts the same.
CallersAreAllItCanHit ==
    \A a \in Range(Apps) :
        /\ \A n \in 0..Len(Apps) :
            LET hit == HitWithin(a, n)
            IN  /\ Cardinality(hit) <= Len(Callers(a))
                /\ Range(SubSeq(Callers(a), 1, Cardinality(hit))) = hit
        /\ Len(Callers(a)) = Cardinality(HitWithin(a, Len(Apps)))
        /\ a \in Nodes => CallGraphView({a})[a].affects = Cardinality(HitWithin(a, Len(Apps)))
=============================================================================
