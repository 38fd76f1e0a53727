----------------------------- MODULE Reconcile -----------------------------
(***************************************************************************)
(* The reconcile loop of ruptura-operator for one RupturaInstance          *)
(* (operator/controller.go, main.go), run by several operators under the   *)
(* ownership protocol of Lease.                                            *)
(*                                                                         *)
(* Every operator lists the instances, and later reconciles the copy it    *)
(* listed: a sequence of calls to the API server, each of which may fail   *)
(* and end the reconcile.  todo[o] is what is left of that sequence.       *)
(* Between two calls anything else may happen: the user edits or deletes   *)
(* the instance, another controller changes its finalizers, the other      *)
(* operators act, the process dies.                                        *)
(***************************************************************************)
EXTENDS Lease, Sequences, FiniteSets

CONSTANTS
  Specs,         \* the specs a user may give the instance
  Refused,       \* those validateSpec refuses
  TokenSpecs,    \* those with a channel that sends the account token
  OwnKeySpecs,   \* those that name an API key Secret of the user
  Keys,          \* API keys generateAPIKey may return
  ProbeAnswers,  \* what routeAPIAvailable may answer
  MaxChanges,    \* bound: changes made to the instance by others
  Absent,        \* an object that is not stored
  Applied        \* the content of an object that does not depend on the spec

ASSUME ReconcileAssumption ==
  /\ Refused \subseteq Specs
  /\ TokenSpecs \subseteq Specs
  /\ OwnKeySpecs \subseteq Specs
  /\ ProbeAnswers \subseteq BOOLEAN
  /\ ProbeAnswers # {}
  /\ MaxChanges \in Nat
  /\ Absent # Applied

Ours == "ruptura.io/cleanup"
Other == "foregroundDeletion"

OpenShiftKinds == {"MonitoringBinding", "ServiceCA", "AlertBinding", "Route"}
Kinds == {"ServiceAccount", "PVC", "Secret", "ReaderBinding", "Deployment",
          "Service"} \cup OpenShiftKinds
Phases == {"", "Running", "Pending", "Degraded", "Failed"}

NoCopy == [exists |-> FALSE]

VARIABLES
  inst,     \* the RupturaInstance the API server stores
  status,   \* its status subresource
  store,    \* the other objects of the instance: content or Absent
  copy,     \* the instance as each operator listed it
  todo,     \* the calls left in each operator's reconcile
  ocp,      \* isOCP, probed once per process
  changes   \* changes made by others so far

instVars == <<inst, status, changes>>
bodyVars == <<inst, status, store, copy, todo, ocp, changes>>
vars == <<leaseVars, bodyVars>>

NoStatus == [phase |-> "", observed |-> Absent]

----------------------------------------------------------------------------
(***************************************************************************)
(* The calls of reconcile and cleanup, in the order of the code.           *)
(***************************************************************************)
Apply(k) == <<"apply", k>>
Delete(k) == <<"delete", k>>
Patch(p) == <<"patch", p>>

(* Faulty variant: the Lease is given up only when all else is done. *)
CleanupLeaseLast(isOCP) ==
  (IF isOCP THEN <<Delete("Route"), Delete("MonitoringBinding"),
                   Delete("AlertBinding"), Delete("ServiceCA")>>
            ELSE <<>>)
  \o <<Delete("ReaderBinding"), Delete("Secret"), Delete("Deployment"),
       Delete("Service"), Delete("PVC"), Delete("ServiceAccount"),
       Patch("remove finalizer"), Delete("Lease")>>

CleanupCalls(isOCP) ==
  (IF isOCP THEN <<Delete("Route"), Delete("MonitoringBinding"),
                   Delete("AlertBinding"), Delete("ServiceCA")>>
            ELSE <<>>)
  \o <<Delete("ReaderBinding"), Delete("Secret"), Delete("Deployment"),
       Delete("Service"), Delete("PVC"), Delete("ServiceAccount"),
       Delete("Lease"), Patch("remove finalizer")>>

AlertAccess(spec) ==
  IF spec \in TokenSpecs THEN Apply("AlertBinding") ELSE Delete("AlertBinding")

ApplyCalls(spec, isOCP) ==
  <<Apply("ServiceAccount"), Apply("PVC")>>
  \o (IF spec \in OwnKeySpecs THEN <<>> ELSE <<<<"get", "Secret">>>>)
  \o <<Apply("ReaderBinding")>>
  \o (IF isOCP THEN <<Apply("MonitoringBinding"), Apply("ServiceCA"),
                      AlertAccess(spec)>>
               ELSE <<>>)
  \o <<Apply("Deployment"), Apply("Service")>>
  \o (IF isOCP THEN <<Apply("Route")>> ELSE <<>>)
  \o <<<<"status", "Running">>>>

(* Faulty variants: the finalizer comes last; an instance that carries it is
   taken for reconciled; the spec is validated before the deletion. *)
FinalizerLast(i, isOCP) ==
  IF i.deleting
  THEN IF Ours \in i.fin THEN CleanupCalls(isOCP) ELSE <<>>
  ELSE ApplyCalls(i.spec, isOCP)
       \o (IF Ours \in i.fin THEN <<>> ELSE <<Patch("add finalizer")>>)

FinalizerMeansDone(i, isOCP) ==
  IF i.deleting THEN CleanupCalls(isOCP)
  ELSE IF Ours \in i.fin THEN <<>>
  ELSE <<Patch("add finalizer")>> \o ApplyCalls(i.spec, isOCP)

ValidateFirst(i, isOCP) ==
  IF i.spec \in Refused THEN <<<<"status", "Failed">>>>
  ELSE IF i.deleting
  THEN IF Ours \in i.fin THEN CleanupCalls(isOCP) ELSE <<>>
  ELSE (IF Ours \in i.fin THEN <<>> ELSE <<Patch("add finalizer")>>)
       \o <<<<"get", "Inputs">>>> \o ApplyCalls(i.spec, isOCP)

ReconcileCalls(i, isOCP) ==
  IF i.deleting
  THEN IF Ours \in i.fin THEN CleanupCalls(isOCP) ELSE <<>>
  ELSE (IF Ours \in i.fin THEN <<>> ELSE <<Patch("add finalizer")>>)
       \o (IF i.spec \in Refused
           THEN <<<<"status", "Failed">>>>
           ELSE <<<<"get", "Inputs">>>> \o ApplyCalls(i.spec, isOCP))

----------------------------------------------------------------------------
(***************************************************************************)
(* The loop around the Lease.                                              *)
(***************************************************************************)
Init ==
  /\ LeaseInit
  /\ ~exists
  /\ inst = [exists |-> FALSE, deleting |-> FALSE, fin |-> {},
             spec |-> CHOOSE s \in Specs : TRUE]
  /\ status = NoStatus
  /\ store = [k \in Kinds |-> Absent]
  /\ copy = [o \in Operators |-> NoCopy]
  /\ todo = [o \in Operators |-> <<>>]
  /\ ocp \in [Operators -> ProbeAnswers]
  /\ changes = 0

(* runLoop lists; the copy may be reconciled much later. *)
List(o) ==
  /\ pc[o] = "idle"
  /\ ~copy[o].exists
  /\ inst.exists
  /\ copy' = [copy EXCEPT ![o] = inst]
  /\ UNCHANGED <<leaseVars, inst, status, store, todo, ocp, changes>>

StartReconcile(o) ==
  /\ copy[o].exists
  /\ Begin(o)
  /\ UNCHANGED bodyVars

GetLease(o) ==
  /\ ReadLease(o)
  /\ UNCHANGED bodyVars

(* claim succeeds; the rest of reconcile follows from the copy. *)
Claim(o) ==
  /\ PostLease(o) \/ PutLease(o)
  /\ todo' = [todo EXCEPT ![o] = ReconcileCalls(copy[o], ocp[o])]
  /\ UNCHANGED <<inst, status, store, copy, ocp, changes>>

(* The list that a finalizer patch sends, computed from the copy. *)
Finalizers(o, call) ==
  CASE call = Patch("add finalizer") -> copy[o].fin \cup {Ours}
    [] call = Patch("remove finalizer") -> copy[o].fin \ {Ours}
    [] OTHER -> {}

(* The API server says no: the Lease is held elsewhere or was written by
   another operator meanwhile, the instance is gone, or a finalizer would be
   added to an instance that is being deleted. *)
Denied(o) ==
  \/ pc[o] = "read" /\ exists /\ HeldElsewhere(o)
  \/ pc[o] = "post" /\ exists
  \/ pc[o] = "put" /\ ~(exists /\ fresh[o])
  \/ /\ pc[o] \in Working
     /\ todo[o] # <<>>
     /\ \/ Head(todo[o])[1] \in {"patch", "status"} /\ ~inst.exists
        \/ inst.deleting /\ ~(Finalizers(o, Head(todo[o])) \subseteq inst.fin)

(* reconcile ends: with its last call, or with the first error. *)
Leave(o) ==
  /\ Stop(o)
  /\ todo' = [todo EXCEPT ![o] = <<>>]
  /\ copy' = [copy EXCEPT ![o] = NoCopy]
  /\ UNCHANGED <<inst, status, store, ocp, changes>>

Return(o) ==
  /\ Denied(o) \/ (pc[o] \in Working /\ todo[o] = <<>>)
  /\ Leave(o)

(* A call fails that the API server had no reason to refuse, or its answer
   is lost, or the process dies. *)
Fail(o) ==
  /\ ~Denied(o)
  /\ todo[o] # <<>> \/ pc[o] \in Claiming
  /\ Leave(o)

(* The process is replaced between two reconciles (dying in one is Fail): it
   probes the Route API again and has listed nothing yet. *)
Restart(o) ==
  /\ pc[o] = "idle"
  /\ \E answer \in ProbeAnswers : ocp' = [ocp EXCEPT ![o] = answer]
  /\ copy' = [copy EXCEPT ![o] = NoCopy]
  /\ UNCHANGED <<leaseVars, inst, status, store, todo, changes>>

Time == Tick /\ UNCHANGED bodyVars

----------------------------------------------------------------------------
(***************************************************************************)
(* The calls of a reconcile.                                               *)
(***************************************************************************)
Due(o, call) == pc[o] \in Working /\ todo[o] # <<>> /\ Head(todo[o]) = call

Then(o, more) == todo' = [todo EXCEPT ![o] = more \o Tail(@)]

(* Server-side apply with force: created or overwritten. *)
ApplyObject(o, k) ==
  /\ Due(o, Apply(k))
  /\ \E content \in IF k = "Secret" THEN Keys \ {store[k]}
                    ELSE IF k = "Deployment" THEN {copy[o].spec} ELSE {Applied} :
       store' = [store EXCEPT ![k] = content]
  /\ Then(o, <<>>)
  /\ UNCHANGED <<leaseVars, instVars, copy, ocp>>

DeleteObject(o, k) ==
  /\ Due(o, Delete(k))
  /\ store' = [store EXCEPT ![k] = Absent]
  /\ Then(o, <<>>)
  /\ UNCHANGED <<leaseVars, instVars, copy, ocp>>

DeleteLease(o) ==
  /\ Due(o, Delete("Lease"))
  /\ Release(o)
  /\ Then(o, <<>>)
  /\ UNCHANGED <<instVars, store, copy, ocp>>

(* Faulty variant: the key is generated without looking. *)
RotateSecret(o) ==
  /\ Due(o, <<"get", "Secret">>)
  /\ Then(o, <<Apply("Secret")>>)
  /\ UNCHANGED <<leaseVars, instVars, store, copy, ocp>>

(* ensureAPIKeySecret: a key is generated only when the GET finds none. *)
GetSecret(o) ==
  /\ Due(o, <<"get", "Secret">>)
  /\ Then(o, IF store["Secret"] = Absent THEN <<Apply("Secret")>> ELSE <<>>)
  /\ UNCHANGED <<leaseVars, instVars, store, copy, ocp>>

(* resolveInputs: the Secrets and ConfigMaps an input names are usable. *)
InputsUsable(o) ==
  /\ Due(o, <<"get", "Inputs">>)
  /\ Then(o, <<>>)
  /\ UNCHANGED <<leaseVars, instVars, store, copy, ocp>>

(* They are not: deploymentExists picks the phase, and takes a failed GET
   for an absent Deployment. *)
InputsUnusable(o) ==
  /\ Due(o, <<"get", "Inputs">>)
  /\ \E phase \in IF store["Deployment"] = Absent THEN {"Failed"}
                  ELSE {"Degraded", "Failed"} :
       todo' = [todo EXCEPT ![o] = <<<<"status", phase>>>>]
  /\ UNCHANGED <<leaseVars, instVars, store, copy, ocp>>

(* Faulty variant: the status reports the generation of the moment. *)
WriteStatusOfNow(o, phase) ==
  /\ Due(o, <<"status", phase>>)
  /\ ~Denied(o)
  /\ status' = [phase |-> phase, observed |-> inst.spec]
  /\ Then(o, <<>>)
  /\ UNCHANGED <<leaseVars, inst, store, copy, ocp, changes>>

(* The status is written for the generation of the copy.  A Deployment
   without a ready replica, or one that cannot be read, makes it Pending. *)
WriteStatus(o, phase) ==
  /\ Due(o, <<"status", phase>>)
  /\ ~Denied(o)
  /\ \E p \in IF phase = "Running" THEN {"Running", "Pending"} ELSE {phase} :
       status' = [phase |-> p, observed |-> copy[o].spec]
  /\ Then(o, <<>>)
  /\ UNCHANGED <<leaseVars, inst, store, copy, ocp, changes>>

(* A merge-patch of the whole list.  The API server drops an instance that
   is being deleted with its last finalizer. *)
PatchFinalizers(o, call) ==
  /\ Due(o, call)
  /\ ~Denied(o)
  /\ IF inst.deleting /\ Finalizers(o, call) = {}
     THEN /\ inst' = [inst EXCEPT !.exists = FALSE, !.deleting = FALSE, !.fin = {}]
          /\ status' = NoStatus
     ELSE inst' = [inst EXCEPT !.fin = Finalizers(o, call)] /\ UNCHANGED status
  /\ Then(o, <<>>)
  /\ UNCHANGED <<leaseVars, store, copy, ocp, changes>>

AddFinalizer(o) == PatchFinalizers(o, Patch("add finalizer"))
RemoveFinalizer(o) == PatchFinalizers(o, Patch("remove finalizer"))

Call(o) ==
  \/ \E k \in Kinds : ApplyObject(o, k) \/ DeleteObject(o, k)
  \/ DeleteLease(o)
  \/ GetSecret(o)
  \/ InputsUsable(o)
  \/ \E phase \in Phases : WriteStatus(o, phase)
  \/ AddFinalizer(o)
  \/ RemoveFinalizer(o)

----------------------------------------------------------------------------
(***************************************************************************)
(* What others do to the instance: the user, and another controller that   *)
(* uses a finalizer of its own (the garbage collector, for a foreground    *)
(* deletion).                                                              *)
(***************************************************************************)
Change ==
  /\ changes < MaxChanges
  /\ changes' = changes + 1
  /\ UNCHANGED <<leaseVars, store, copy, todo, ocp>>

Create(s) ==
  /\ Change
  /\ ~inst.exists
  /\ inst' = [inst EXCEPT !.exists = TRUE, !.spec = s]
  /\ UNCHANGED status

Edit(s) ==
  /\ Change
  /\ inst.exists
  /\ inst' = [inst EXCEPT !.spec = s]
  /\ UNCHANGED status

DeleteInstance ==
  /\ Change
  /\ inst.exists /\ ~inst.deleting
  /\ IF inst.fin = {}
     THEN inst' = [inst EXCEPT !.exists = FALSE] /\ status' = NoStatus
     ELSE inst' = [inst EXCEPT !.deleting = TRUE] /\ UNCHANGED status

OtherFinalizerOn ==
  /\ Change
  /\ inst.exists /\ ~inst.deleting
  /\ inst' = [inst EXCEPT !.fin = @ \cup {Other}]
  /\ UNCHANGED status

(* The other controller always finishes: this change has no budget. *)
OtherFinalizerOff ==
  /\ inst.exists /\ Other \in inst.fin
  /\ IF inst.deleting /\ inst.fin = {Other}
     THEN /\ inst' = [inst EXCEPT !.exists = FALSE, !.deleting = FALSE, !.fin = {}]
          /\ status' = NoStatus
     ELSE inst' = [inst EXCEPT !.fin = @ \ {Other}] /\ UNCHANGED status
  /\ UNCHANGED <<leaseVars, store, copy, todo, ocp, changes>>

Environment ==
  \/ \E s \in Specs : Create(s) \/ Edit(s)
  \/ DeleteInstance
  \/ OtherFinalizerOn
  \/ OtherFinalizerOff

Loop(o) ==
  \/ List(o) \/ StartReconcile(o) \/ GetLease(o) \/ Claim(o)
  \/ Return(o)

Next ==
  \/ \E o \in Operators : Loop(o) \/ Call(o) \/ InputsUnusable(o)
                          \/ Fail(o) \/ Restart(o)
  \/ Environment
  \/ Time

Spec == Init /\ [][Next]_vars

(***************************************************************************)
(* The ticker of the operator keeps firing, and the API server answers     *)
(* in the end: the faults cease, each call that is due is made.            *)
(***************************************************************************)
Fault == \E o \in Operators : Fail(o) \/ Restart(o) \/ InputsUnusable(o)

Fairness ==
  /\ <>[][~Fault]_vars
  /\ WF_vars(Time)
  /\ WF_vars(OtherFinalizerOff)
  /\ \A o \in Operators : WF_vars(Loop(o)) /\ WF_vars(Call(o))

FairSpec == Spec /\ Fairness

----------------------------------------------------------------------------
(***************************************************************************)
(* "Ensure our finalizer is registered before touching any resources"      *)
(* (controller.go:133): as long as an object of the instance is stored,    *)
(* the instance is too, and carries the finalizer that will have it        *)
(* deleted.                                                                *)
(***************************************************************************)
Covered == inst.exists /\ Ours \in inst.fin

FinalizerCoversObjects ==
  (\E k \in Kinds : store[k] # Absent) => Covered

(***************************************************************************)
(* "cleanup deletes all resources owned by a RupturaInstance then removes  *)
(* the finalizer" (controller.go:69), the Lease among them: the finalizer  *)
(* comes off only when every object, and the Lease, is gone, whatever      *)
(* calls failed and whatever was edited in the cleanups before.            *)
(***************************************************************************)
NothingLeftBehind ==
  [][Covered /\ ~Covered' => ~exists' /\ \A k \in Kinds : store'[k] = Absent]_vars

(***************************************************************************)
(* "An existing Secret is never overwritten, so the key is stable across   *)
(* reconciles" (controller.go:580), whoever reconciles.                    *)
(***************************************************************************)
KeyIsStable ==
  [][store["Secret"] # Absent /\ store'["Secret"] # Absent
       => store'["Secret"] = store["Secret"]]_vars

(***************************************************************************)
(* The status that reports an engine at work tells the spec that engine    *)
(* runs: no other operator changed the Deployment since it was applied.    *)
(***************************************************************************)
StatusTellsDeployment ==
  [][status' # status /\ status'.phase \in {"Running", "Pending"}
       => store["Deployment"] = status'.observed]_vars

(***************************************************************************)
(* A spec that is valid and no longer edited is deployed and reported.     *)
(***************************************************************************)
Settled(s) == inst.exists /\ ~inst.deleting /\ inst.spec = s

Deployed(s) ==
  /\ store["Deployment"] = s
  /\ status.observed = s
  /\ status.phase \in {"Running", "Pending"}

Converges ==
  \A s \in Specs \ Refused : <>[]Settled(s) => <>[]Deployed(s)

(***************************************************************************)
(* A deleted instance goes away, whatever its spec has become.             *)
(***************************************************************************)
DeletionCompletes == inst.deleting ~> ~inst.exists
============================================================================
