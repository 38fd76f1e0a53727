------------------------------- MODULE Lease -------------------------------
(***************************************************************************)
(* The ownership protocol of ruptura-operator (operator/ownership.go): a   *)
(* coordination.k8s.io Lease per RupturaInstance says which operator may   *)
(* reconcile it.  claim reads the Lease, decides, and writes it back with  *)
(* the resourceVersion it read; the API server refuses the write with a    *)
(* conflict when the Lease changed in between.                             *)
(*                                                                         *)
(* An operator is identified by the namespace it runs in.  A reconcile     *)
(* samples time.Now() once, before the read, and uses that instant both to *)
(* judge expiry and as the renewTime it writes.  Time is kept as ages, so  *)
(* that it stays finite: lag[o] is the time since operator o sampled its   *)
(* clock, age the time since the renewTime of the Lease.                   *)
(***************************************************************************)
EXTENDS Integers

CONSTANTS
  Operators,      \* the operator processes watching the cluster
  Namespace,      \* Namespace[o]: the identity o writes as holder
  Nobody,         \* the empty holderIdentity
  LeaseDuration,  \* ticks an operator keeps an instance without renewing
  ClaimLimit,     \* ticks the two calls of claim may take (client timeouts)
  WorkLimit       \* ticks a whole reconcile may take

Identities == {Namespace[o] : o \in Operators}

ASSUME LeaseAssumption ==
  /\ Nobody \notin Identities
  /\ LeaseDuration \in Nat \ {0}
  /\ ClaimLimit \in Nat
  /\ WorkLimit \in Nat

(***************************************************************************)
(* Ages stop growing at Horizon, where a Lease is expired for every claim  *)
(* in flight.                                                              *)
(***************************************************************************)
Horizon == LeaseDuration + ClaimLimit + 1
Older(n) == IF n < Horizon THEN n + 1 ELSE n

VARIABLES
  exists,   \* the Lease object is stored
  holder,   \* its spec.holderIdentity
  age,      \* time since its spec.renewTime
  pc,       \* where each operator is in the reconcile of the instance
  lag,      \* time since its time.Now()
  fresh,    \* the Lease it read is still the one stored (resourceVersion)
  alive     \* operators that still run

leaseVars == <<exists, holder, age, pc, lag, fresh, alive>>

Claiming == {"read", "post", "put"}
Working == {"held", "released"}
PCs == {"idle"} \cup Claiming \cup Working

LeaseTypeOK ==
  /\ exists \in BOOLEAN
  /\ holder \in Identities \cup {Nobody}
  /\ age \in 0..Horizon
  /\ pc \in [Operators -> PCs]
  /\ lag \in [Operators -> 0..Horizon]
  /\ fresh \in [Operators -> BOOLEAN]
  /\ alive \subseteq Operators

(***************************************************************************)
(* No Lease, or one left by an operator, or written by hand without a      *)
(* holder.                                                                 *)
(***************************************************************************)
LeaseInit ==
  /\ exists \in BOOLEAN
  /\ holder \in IF exists THEN Identities \cup {Nobody} ELSE {Nobody}
  /\ age = 0
  /\ pc = [o \in Operators |-> "idle"]
  /\ lag = [o \in Operators |-> 0]
  /\ fresh = [o \in Operators |-> FALSE]
  /\ alive = Operators

----------------------------------------------------------------------------
(***************************************************************************)
(* One operator, one instance.                                             *)
(***************************************************************************)
(* Faulty variant: taken over one instant too early. *)
ExpiredEarly(o) == age - lag[o] >= LeaseDuration

Expired(o) == age - lag[o] > LeaseDuration

(* Faulty variant: a Lease never expires. *)
HeldForEver(o) == holder # Nobody /\ holder # Namespace[o]

HeldElsewhere(o) ==
  /\ holder # Nobody
  /\ holder # Namespace[o]
  /\ ~Expired(o)

(* reconcile starts: the clock is sampled for the whole claim. *)
Begin(o) ==
  /\ o \in alive
  /\ pc[o] = "idle"
  /\ pc' = [pc EXCEPT ![o] = "read"]
  /\ lag' = [lag EXCEPT ![o] = 0]
  /\ UNCHANGED <<exists, holder, age, fresh, alive>>

(* The reconcile ends: it returned, a call failed, or the process died and
   was restarted.  Nothing of it survives but what was written; a write
   whose answer is lost is the write followed by this step. *)
Stop(o) ==
  /\ pc[o] # "idle"
  /\ pc' = [pc EXCEPT ![o] = "idle"]
  /\ lag' = [lag EXCEPT ![o] = 0]
  /\ fresh' = [fresh EXCEPT ![o] = FALSE]
  /\ UNCHANGED <<exists, holder, age, alive>>

(* The GET of claim: no Lease is created, one held elsewhere is respected,
   any other is taken or renewed. *)
ReadLease(o) ==
  /\ pc[o] = "read"
  /\ exists => ~HeldElsewhere(o)
  /\ pc' = [pc EXCEPT ![o] = IF exists THEN "put" ELSE "post"]
  /\ fresh' = [fresh EXCEPT ![o] = exists]
  /\ UNCHANGED <<exists, holder, age, lag, alive>>

SkipHeld(o) ==
  /\ pc[o] = "read"
  /\ exists
  /\ HeldElsewhere(o)
  /\ Stop(o)

(* A write that the API server accepts: every other reader's version is old. *)
StoreLease(o) ==
  /\ exists' = TRUE
  /\ holder' = Namespace[o]
  /\ age' = lag[o]
  /\ fresh' = [p \in Operators |-> FALSE]

(* POST: created, unless another operator was faster (a conflict: Stop). *)
PostLease(o) ==
  /\ pc[o] = "post"
  /\ ~exists
  /\ StoreLease(o)
  /\ pc' = [pc EXCEPT ![o] = "held"]
  /\ UNCHANGED <<lag, alive>>

(* Faulty variant: a PUT without the resourceVersion. *)
PutUnversioned(o) ==
  /\ pc[o] = "put"
  /\ exists
  /\ StoreLease(o)
  /\ pc' = [pc EXCEPT ![o] = "held"]
  /\ UNCHANGED <<lag, alive>>

(* PUT with the resourceVersion of the GET: a compare-and-swap. *)
PutLease(o) ==
  /\ pc[o] = "put"
  /\ exists
  /\ fresh[o]
  /\ StoreLease(o)
  /\ pc' = [pc EXCEPT ![o] = "held"]
  /\ UNCHANGED <<lag, alive>>

(* cleanup deletes the Lease, whoever it names, and goes on with the
   finalizer. *)
Release(o) ==
  /\ pc[o] = "held"
  /\ exists' = FALSE
  /\ holder' = Nobody
  /\ age' = 0
  /\ fresh' = [p \in Operators |-> FALSE]
  /\ pc' = [pc EXCEPT ![o] = "released"]
  /\ UNCHANGED <<lag, alive>>

(* An operator is removed for good, in the middle of anything. *)
Kill(o) ==
  /\ o \in alive
  /\ alive' = alive \ {o}
  /\ pc' = [pc EXCEPT ![o] = "idle"]
  /\ lag' = [lag EXCEPT ![o] = 0]
  /\ fresh' = [fresh EXCEPT ![o] = FALSE]
  /\ UNCHANGED <<exists, holder, age>>

(* Time passes.  The http client gives up a call after its timeout, so a
   claim takes at most ClaimLimit; WorkLimit bounds the reconcile. *)
Tick ==
  /\ \A o \in Operators :
       /\ pc[o] \in Claiming => lag[o] < ClaimLimit
       /\ pc[o] \in Working => lag[o] < WorkLimit
  /\ lag' = [o \in Operators |-> IF pc[o] = "idle" THEN 0 ELSE Older(lag[o])]
  /\ age' = IF exists THEN Older(age) ELSE 0
  /\ UNCHANGED <<exists, holder, pc, fresh, alive>>

LeaseStep(o) ==
  \/ Begin(o)
  \/ ReadLease(o)
  \/ SkipHeld(o)
  \/ PostLease(o)
  \/ PutLease(o)
  \/ Release(o)
  \/ Stop(o)
  \/ Kill(o)

LeaseNext == Tick \/ \E o \in Operators : LeaseStep(o)

LeaseSpec == LeaseInit /\ [][LeaseNext]_leaseVars

(***************************************************************************)
(* The operator polls on a ticker and the clock runs.  A call to the API   *)
(* server that is retried on every loop succeeds sooner or later.          *)
(***************************************************************************)
LeaseFairness ==
  /\ WF_leaseVars(Tick)
  /\ \A o \in Operators :
       /\ WF_leaseVars(Begin(o))
       /\ WF_leaseVars(pc[o] # "idle" /\ Stop(o))
       /\ SF_leaseVars(ReadLease(o))
       /\ SF_leaseVars(PostLease(o))
       /\ SF_leaseVars(PutLease(o))

LeaseFairSpec == LeaseSpec /\ LeaseFairness

----------------------------------------------------------------------------
(***************************************************************************)
(* "One operator manages an instance at a time" (site/docs/install.md):    *)
(* operators of different namespaces are never both inside the reconcile   *)
(* of an instance.                                                         *)
(***************************************************************************)
OneOperatorAtATime ==
  \A a, b \in Operators :
    pc[a] = "held" /\ pc[b] = "held" => Namespace[a] = Namespace[b]

(***************************************************************************)
(* "takes it over only after the holder stops renewing for two minutes"    *)
(* (site/docs/install.md): a stored Lease changes hands only when it is    *)
(* older than its duration, however the claims interleave.                 *)
(***************************************************************************)
Takeover == exists /\ exists' /\ holder # Nobody /\ holder' # holder

TakeoverOnlyAfterExpiry == [][Takeover => age > LeaseDuration]_leaseVars

(***************************************************************************)
(* An instance is not stranded by the death of its holder: the only        *)
(* operator left comes to hold it, whoever the Lease named, unless it dies *)
(* too.                                                                    *)
(***************************************************************************)
SurvivorTakesOver ==
  \A o \in Operators : (alive = {o}) ~> (pc[o] = "held" \/ alive = {})
============================================================================
