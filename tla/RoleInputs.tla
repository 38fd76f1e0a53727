------------------------------ MODULE RoleInputs ------------------------------
(***************************************************************************)
(* The collection of roles from Prometheus (cmd/ruptura/inputs.go,         *)
(* internal/sources, internal/normalize): every poll asks one query per    *)
(* role, publishes what was answered as the frames of the poll, and feeds  *)
(* the tracker from them.  The cluster changes, the endpoint fails and the *)
(* credentials are rotated between any two queries.                        *)
(*                                                                         *)
(* One Deployment with one pod that counts; a frame is a function from the *)
(* roles that were answered to their values.                               *)
(***************************************************************************)
EXTENDS Integers, Sequences, FiniteSets

CONSTANTS
  Roles,          \* the catalog: a sequence of [name, level, profile]
  Profile,        \* RUPTURA_INPUT_PROFILE
  MaxReplicas,
  MaxUpsets,      \* bound: changes of the cluster, outages and rotations
  NoPoll, Unread  \* no poll under way; nothing read

(* RolesFor: a wider profile keeps the roles of the narrower ones; the     *)
(* levels one after the other.                                             *)
Rank(profile) == CASE profile = "minimal" -> 1 [] profile = "standard" -> 2 [] OTHER -> 0
RolesFor(level, profile) ==
  SelectSeq(Roles, LAMBDA role : /\ role.level = level
                                 /\ Rank(role.profile) \in 1..Rank(profile))
Polled == RolesFor("pod", Profile) \o RolesFor("workload", Profile)
Names == {Polled[i].name : i \in DOMAIN Polled}

(* A poll under way. *)
Catalog == {Roles[i] : i \in DOMAIN Roles}
Poll == [left : Seq(Catalog), user : Int \cup {Unread}, got : UNION {[S -> Nat] : S \in SUBSET Names}]

(* The catalog is that of the roles the tracker is fed from.               *)
ASSUME RolesAssumption ==
  /\ MaxReplicas \in Nat /\ MaxUpsets \in Nat
  /\ \A i, j \in DOMAIN Roles : Roles[i].name = Roles[j].name => i = j
  /\ Polled \in Seq(Catalog)
  /\ Names \subseteq {"replicas.desired", "replicas.available", "replicas.unavailable",
                      "rollout.stalled", "container.oom"}
  /\ NoPoll \notin Poll

VARIABLES
  workload,   \* replicas wanted and serving, a pod of a stuck rollout on top,
              \* whether the pod was killed for memory
  endpoint,   \* whether it answers, and the credentials it accepts
  secrets,    \* the user and password files
  upsets,     \* how many so far
  source,     \* whether the client could be built at start
  poll,       \* the poll under way: roles left, the user read, answers
  frames,     \* what the last poll published
  fed,        \* what the tracker was told from it
  witness     \* told: for each role the values it had since the poll began,
              \* and whether the poll met an outage or a rotation

inputsVars == <<workload, endpoint, secrets, upsets, source, poll, frames, fed, witness>>

----------------------------------------------------------------------------
(* The queries of catalog.yaml, as far as the tracker is fed from them.    *)
(* Kubernetes counts unavailable replicas over all pods.                   *)
Short(w) == IF w.wanted > w.serving THEN w.wanted - w.serving ELSE 0
Value(role, w) ==
  CASE role = "replicas.desired" -> w.wanted
    [] role = "replicas.available" -> w.serving
    [] role = "replicas.unavailable" -> Short(w) + w.surge
    [] role = "rollout.stalled" -> w.surge
    [] role = "container.oom" -> w.oom

NoFrames == <<>>
NothingFed == [missing |-> Unread, stalled |-> Unread, oom |-> Unread]
Calm == [had |-> [r \in Names |-> {}], upset |-> TRUE]

----------------------------------------------------------------------------
InputsStart ==
  /\ workload = [wanted |-> 1, serving |-> 1, surge |-> 0, oom |-> 0]
  /\ endpoint = [up |-> TRUE, accepts |-> 0]
  /\ secrets = [user |-> 0, password |-> 0]
  /\ upsets = 0
  /\ source \in BOOLEAN
  /\ poll = NoPoll
  /\ frames = NoFrames
  /\ fed = NothingFed
  /\ witness = Calm

(* startInputs: without a catalog, certificates and credentials there is   *)
(* no collector until the engine starts again.                             *)
StartInputs ==
  /\ source' \in BOOLEAN
  /\ poll' = NoPoll /\ frames' = NoFrames /\ fed' = NothingFed /\ witness' = Calm
  /\ UNCHANGED <<workload, endpoint, secrets, upsets>>

(* collect begins. *)
BeginPoll ==
  /\ source /\ poll = NoPoll
  /\ poll' = [left |-> Polled, user |-> Unread, got |-> <<>>]
  /\ witness' = [had |-> [r \in Names |-> {Value(r, workload)}], upset |-> FALSE]
  /\ UNCHANGED <<workload, endpoint, secrets, upsets, source, frames, fed>>

(* authorizer, with a user and a password: the files are read at each      *)
(* request, one after the other.                                           *)
ReadUser ==
  /\ poll # NoPoll /\ poll.left # <<>> /\ poll.user = Unread
  /\ poll' = [poll EXCEPT !.user = secrets.user]
  /\ UNCHANGED <<workload, endpoint, secrets, upsets, source, frames, fed, witness>>

(* queryBy: an error leaves the role out, and the next role is asked.      *)
Accepted(user, password) == endpoint.up /\ user = endpoint.accepts /\ password = endpoint.accepts
Answered(got, role) ==
  [r \in DOMAIN got \cup {role} |-> IF r = role THEN Value(role, workload) ELSE got[r]]
CollectRole ==
  /\ poll # NoPoll /\ poll.left # <<>> /\ poll.user # Unread
  /\ LET role == Head(poll.left).name
     IN  poll' = [left |-> Tail(poll.left), user |-> Unread,
                  got |-> IF Accepted(poll.user, secrets.password)
                          THEN Answered(poll.got, role) ELSE poll.got]
  /\ UNCHANGED <<workload, endpoint, secrets, upsets, source, frames, fed, witness>>

Reading(frame, role) == IF role \in DOMAIN frame THEN frame[role] ELSE Unread

(* Faulty variant: Kubernetes' own count first.                            *)
UnavailableFirst(frame) ==
  IF "replicas.unavailable" \in DOMAIN frame THEN frame["replicas.unavailable"] ELSE Unread

(* deploymentMissing: desired replicas that are not available, or, without *)
(* both counts, the unavailable ones.                                      *)
DeploymentMissing(frame) ==
  IF {"replicas.desired", "replicas.available"} \subseteq DOMAIN frame
  THEN Short([wanted |-> frame["replicas.desired"], serving |-> frame["replicas.available"]])
  ELSE Reading(frame, "replicas.unavailable")

(* The poll is published by normalize.Build, to which a role with no value *)
(* is missing and not zero, and observeWorkloads feeds the tracker; the    *)
(* owner of the pod may not be known.                                      *)
EndPoll ==
  /\ poll # NoPoll /\ poll.left = <<>>
  /\ frames' = poll.got
  /\ \E known \in BOOLEAN :
       fed' = [missing |-> DeploymentMissing(frames'),
               stalled |-> Reading(frames', "rollout.stalled"),
               oom |-> IF known THEN Reading(frames', "container.oom") ELSE Unread]
  /\ poll' = NoPoll
  /\ UNCHANGED <<workload, endpoint, secrets, upsets, source, witness>>

(* CoverageOf: every role, with those that returned nothing.               *)
Coverage == [r \in Names |-> r \in DOMAIN frames]

----------------------------------------------------------------------------
(* Replicas come and go, a rollout gets stuck on a pod it started on top,  *)
(* the pod is killed for memory.                                           *)
Upset == upsets < MaxUpsets /\ upsets' = upsets + 1
WorkloadChanges ==
  /\ Upset
  /\ workload' \in [wanted : 0..MaxReplicas, serving : 0..MaxReplicas, surge : {0, 1}, oom : {0, 1}]
  /\ workload' # workload
  /\ witness' = [witness EXCEPT !.had = [r \in Names |-> @[r] \cup {Value(r, workload')}]]
  /\ UNCHANGED <<endpoint, secrets, source, poll, frames, fed>>

EndpointChanges ==
  /\ Upset
  /\ endpoint' = [endpoint EXCEPT !.up = ~@]
  /\ witness' = [witness EXCEPT !.upset = TRUE]
  /\ UNCHANGED <<workload, secrets, source, poll, frames, fed>>

(* A rotation reaches the files first, both at once, then the endpoint.    *)
RotateSecrets ==
  /\ Upset /\ secrets.user = endpoint.accepts
  /\ secrets' = [user |-> secrets.user + 1, password |-> secrets.password + 1]
  /\ witness' = [witness EXCEPT !.upset = TRUE]
  /\ UNCHANGED <<workload, endpoint, source, poll, frames, fed>>
EndpointFollows ==
  /\ endpoint.accepts # secrets.user
  /\ endpoint' = [endpoint EXCEPT !.accepts = secrets.user]
  /\ witness' = [witness EXCEPT !.upset = TRUE]
  /\ UNCHANGED <<workload, secrets, upsets, source, poll, frames, fed>>

RolesNext ==
  \/ BeginPoll \/ ReadUser \/ CollectRole \/ EndPoll \/ StartInputs
  \/ WorkloadChanges \/ EndpointChanges \/ RotateSecrets \/ EndpointFollows

RolesSpec == InputsStart /\ [][RolesNext]_inputsVars

----------------------------------------------------------------------------
(* What is published, and what the tracker is told, is of the poll that    *)
(* ended: each value was true at a moment of it; a poll that met neither   *)
(* an outage nor a rotation, in whichever order its requests read the      *)
(* files, misses no role; and if the cluster stood still as well, the      *)
(* replicas told missing are those that are, the pod of a stuck rollout    *)
(* not counted.  (inputs.go: collect, deploymentMissing)                   *)
PollTellsTheCluster ==
  poll = NoPoll /\ frames # NoFrames =>
    /\ \A r \in DOMAIN frames : frames[r] \in witness.had[r]
    /\ ~witness.upset /\ endpoint.up /\ endpoint.accepts = secrets.user =>
         /\ \A r \in Names : Coverage[r]
         /\ (\A r \in Names : Cardinality(witness.had[r]) = 1) => fed.missing = Short(workload)
=============================================================================
