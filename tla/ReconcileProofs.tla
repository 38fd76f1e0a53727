-------------------------- MODULE ReconcileProofs --------------------------
(***************************************************************************)
(* A takeover of a Lease rests on its age, the exclusion of two operators  *)
(* on a reconcile ending within the Lease.                                 *)
(*                                                                         *)
(* The reconcile loop keeps to the ownership protocol: whatever its calls  *)
(* do in between, it changes the Lease only as Lease allows.  What is      *)
(* proved of the protocol then holds of the operators.                     *)
(*                                                                         *)
(* What a reconcile leaves behind rests on the order of its calls: the     *)
(* finalizer first, the Lease and the finalizer last, the status last.     *)
(* Shape says so of every sequence of calls a reconcile may still make.    *)
(*                                                                         *)
(* The last part is about the inputs of an instance: a Secret that changes *)
(* between two reads of a pass is noticed by the next.                     *)
(***************************************************************************)
EXTENDS MCOperators, TLAPS

(***************************************************************************)
(* The protocol alone: what it guarantees for any set of operators, any    *)
(* durations and any interleaving.                                         *)
(*                                                                         *)
(* A takeover rests on a decision taken at the GET and used at the PUT.    *)
(* The decision stays valid because nobody wrote in between (fresh) and    *)
(* because the age of the Lease and the age of the claim grow together.    *)
(***************************************************************************)
ClaimInTime == \A o \in Operators : pc[o] \in Claiming => lag[o] <= ClaimLimit

FreshIsStored == \A o \in Operators : fresh[o] => exists /\ pc[o] = "put"

PutJustified ==
  \A o \in Operators :
    fresh[o] => holder \in {Nobody, Namespace[o]} \/ Expired(o)

ClaimInv == LeaseTypeOK /\ ClaimInTime /\ FreshIsStored /\ PutJustified

(***************************************************************************)
(* An operator at work is the one the stored Lease names, and the Lease is *)
(* no older than its claim.                                                *)
(***************************************************************************)
HolderIsStored ==
  \A o \in Operators :
    pc[o] = "held" => /\ exists
                      /\ holder = Namespace[o]
                      /\ age <= lag[o]

WorkInTime == \A o \in Operators : pc[o] \in Working => lag[o] <= WorkLimit

OwnerInv == HolderIsStored /\ WorkInTime

----------------------------------------------------------------------------
LEMMA ClaimInvInit == LeaseInit => ClaimInv
  BY LeaseAssumption
  DEF LeaseInit, ClaimInv, LeaseTypeOK, ClaimInTime, FreshIsStored,
      PutJustified, PCs, Claiming, Working, Horizon, Identities

LEMMA ClaimInvStep == ClaimInv /\ [LeaseNext]_leaseVars => ClaimInv'
  <1> SUFFICES ASSUME ClaimInv, [LeaseNext]_leaseVars
               PROVE  ClaimInv'
    OBVIOUS
  <1> USE LeaseAssumption
      DEF ClaimInv, LeaseTypeOK, ClaimInTime, FreshIsStored, PutJustified,
          PCs, Claiming, Working, Horizon, Expired
  <1>1. CASE Tick
    BY <1>1 DEF Tick, Older
  <1>2. ASSUME NEW o \in Operators, Begin(o)
        PROVE  ClaimInv'
    BY <1>2 DEF Begin
  <1>3. ASSUME NEW o \in Operators, Stop(o)
        PROVE  ClaimInv'
    BY <1>3 DEF Stop
  <1>4. ASSUME NEW o \in Operators, ReadLease(o)
        PROVE  ClaimInv'
    BY <1>4 DEF ReadLease, HeldElsewhere
  <1>5. ASSUME NEW o \in Operators, PostLease(o) \/ PutLease(o)
        PROVE  ClaimInv'
    <2>1. \A p \in Operators : ~fresh'[p]
      BY <1>5 DEF PostLease, PutLease, StoreLease
    <2>2. ClaimInTime'
      BY <1>5 DEF PostLease, PutLease
    <2>3. LeaseTypeOK'
      <3>1. fresh' \in [Operators -> BOOLEAN]
        BY <1>5, Zenon DEF PostLease, PutLease, StoreLease
      <3>2. pc' \in [Operators -> PCs]
        BY <1>5 DEF PostLease, PutLease
      <3>3. holder' \in Identities \cup {Nobody} /\ exists' \in BOOLEAN
        BY <1>5 DEF PostLease, PutLease, StoreLease, Identities
      <3>4. age' \in 0..Horizon /\ lag' \in [Operators -> 0..Horizon]
        BY <1>5 DEF PostLease, PutLease, StoreLease
      <3>5. alive' \subseteq Operators
        BY <1>5 DEF PostLease, PutLease
      <3> QED
        BY <3>1, <3>2, <3>3, <3>4, <3>5
    <2> QED
      BY <2>1, <2>2, <2>3
  <1>6. ASSUME NEW o \in Operators, Release(o)
        PROVE  ClaimInv'
    <2>1. \A p \in Operators : ~fresh'[p]
      BY <1>6 DEF Release
    <2>2. ClaimInTime'
      BY <1>6 DEF Release
    <2>3. LeaseTypeOK'
      <3>1. fresh' \in [Operators -> BOOLEAN]
        BY <1>6, Zenon DEF Release
      <3>2. pc' \in [Operators -> PCs]
        BY <1>6 DEF Release
      <3>3. holder' \in Identities \cup {Nobody} /\ exists' \in BOOLEAN
        BY <1>6 DEF Release
      <3>4. age' \in 0..Horizon
        BY <1>6 DEF Release
      <3>5. lag' \in [Operators -> 0..Horizon] /\ alive' \subseteq Operators
        BY <1>6 DEF Release
      <3> QED
        BY <3>1, <3>2, <3>3, <3>4, <3>5
    <2> QED
      BY <2>1, <2>2, <2>3
  <1>7. ASSUME NEW o \in Operators, Kill(o)
        PROVE  ClaimInv'
    BY <1>7 DEF Kill
  <1>8. CASE UNCHANGED leaseVars
    BY <1>8 DEF leaseVars
  <1> QED
    BY <1>1, <1>2, <1>3, <1>4, <1>5, <1>6, <1>7, <1>8
    DEF LeaseNext, LeaseStep, SkipHeld

LEMMA ClaimInvariant == LeaseSpec => []ClaimInv
  BY ClaimInvInit, ClaimInvStep, PTL DEF LeaseSpec

(***************************************************************************)
(* Every variable of the protocol keeps its type.                          *)
(***************************************************************************)
THEOREM LeaseTypeCorrect == LeaseSpec => []LeaseTypeOK
  <1>1. ClaimInv => LeaseTypeOK
    BY DEF ClaimInv
  <1> QED
    BY <1>1, ClaimInvariant, PTL

(***************************************************************************)
(* A stored Lease changes hands only after it expired, for any number of   *)
(* operators and even if identities are shared and a reconcile outlasts    *)
(* the Lease (TakeoverOnlyAfterExpiry).                                    *)
(***************************************************************************)
THEOREM TakeoverIsLate == LeaseSpec => TakeoverOnlyAfterExpiry
  <1>1. ClaimInv /\ [LeaseNext]_leaseVars
          => [Takeover => age > LeaseDuration]_leaseVars
    <2> SUFFICES ASSUME ClaimInv, LeaseNext, Takeover
                 PROVE  age > LeaseDuration
      OBVIOUS
    <2>1. PICK o \in Operators : PutLease(o)
      BY DEF LeaseNext, LeaseStep, Takeover, Tick, Begin, ReadLease, SkipHeld,
             Stop, Kill, Release, PostLease
    <2>2. fresh[o] /\ holder' = Namespace[o]
      BY <2>1 DEF PutLease, StoreLease, Takeover
    <2>3. Expired(o)
      BY <2>2 DEF ClaimInv, PutJustified, Takeover
    <2> QED
      BY <2>3, LeaseAssumption DEF Expired, ClaimInv, LeaseTypeOK, Horizon
  <1> QED
    BY <1>1, ClaimInvariant, PTL DEF LeaseSpec, TakeoverOnlyAfterExpiry

(***************************************************************************)
(* One operator reconciles an instance at a time (OneOperatorAtATime),     *)
(* under the two conditions the protocol leaves to the deployment: each    *)
(* operator has an identity of its own, and a reconcile ends within the    *)
(* duration of the Lease.  The run lease_overrun shows what happens when   *)
(* the second fails.                                                       *)
(***************************************************************************)
THEOREM OneOperator ==
  ASSUME \A a, b \in Operators : Namespace[a] = Namespace[b] => a = b,
         ClaimLimit <= WorkLimit,
         WorkLimit <= LeaseDuration
  PROVE  LeaseSpec => []OneOperatorAtATime
  <1>1. LeaseInit => OwnerInv
    BY DEF LeaseInit, OwnerInv, HolderIsStored, WorkInTime, Working
  <1>2. ClaimInv /\ OwnerInv /\ [LeaseNext]_leaseVars => OwnerInv'
    <2> SUFFICES ASSUME ClaimInv, OwnerInv, [LeaseNext]_leaseVars
                 PROVE  OwnerInv'
      OBVIOUS
    <2> USE LeaseAssumption
        DEF ClaimInv, LeaseTypeOK, OwnerInv, HolderIsStored, WorkInTime,
            PCs, Claiming, Working
    <2>1. CASE Tick
      BY <2>1 DEF Tick, Older, Horizon
    <2>2. ASSUME NEW o \in Operators,
                 Begin(o) \/ ReadLease(o) \/ Stop(o) \/ Kill(o)
          PROVE  OwnerInv'
      BY <2>2 DEF Begin, ReadLease, Stop, Kill
    <2>3. ASSUME NEW o \in Operators, PutLease(o) \/ PostLease(o)
          PROVE  OwnerInv'
      <3>1. exists' /\ holder' = Namespace[o] /\ age' = lag[o] /\ lag[o] <= ClaimLimit
        BY <2>3 DEF PutLease, PostLease, StoreLease, ClaimInTime
      <3>2. ASSUME NEW p \in Operators, p # o
            PROVE  pc[p] # "held"
        <4>1. CASE exists
          <5>1. holder \in {Nobody, Namespace[o]} \/ age - lag[o] > LeaseDuration
            BY <2>3, <4>1 DEF PutLease, PostLease, PutJustified, Expired
          <5>2. Namespace[p] # Namespace[o] /\ Namespace[p] # Nobody
            BY <3>2 DEF Identities
          <5> QED
            BY <5>1, <5>2, Zenon, SMT
        <4> QED
          BY <4>1
      <3>3. \A p \in Operators : pc'[p] = "held" => p = o /\ lag'[p] = lag[o]
        BY <2>3, <3>2 DEF PutLease, PostLease
      <3>4. WorkInTime'
        BY <2>3, <3>1 DEF PutLease, PostLease
      <3> QED
        BY <3>1, <3>3, <3>4
    <2>4. ASSUME NEW o \in Operators, Release(o)
          PROVE  OwnerInv'
      BY <2>4 DEF Release
    <2>5. CASE UNCHANGED leaseVars
      BY <2>5 DEF leaseVars
    <2> QED
      BY <2>1, <2>2, <2>3, <2>4, <2>5 DEF LeaseNext, LeaseStep, SkipHeld
  <1>3. OwnerInv => OneOperatorAtATime
    BY DEF OwnerInv, HolderIsStored, OneOperatorAtATime
  <1> QED
    BY <1>1, <1>2, <1>3, ClaimInvariant, PTL DEF LeaseSpec

(***************************************************************************)
(* The reconcile loop.                                                     *)
(***************************************************************************)

LEMMA StepImplementsLease == [Next]_vars => [LeaseNext]_leaseVars
  <1> SUFFICES ASSUME Next
               PROVE  LeaseNext \/ UNCHANGED leaseVars
    BY DEF vars
  <1>1. ASSUME NEW o \in Operators, Loop(o)
        PROVE  LeaseStep(o) \/ UNCHANGED leaseVars
    BY <1>1 DEF Loop, List, StartReconcile, GetLease, Claim, Return, Leave, LeaseStep
  <1>2. ASSUME NEW o \in Operators, Call(o)
        PROVE  LeaseStep(o) \/ UNCHANGED leaseVars
    <2>1. CASE DeleteLease(o)
      BY <2>1 DEF DeleteLease, LeaseStep
    <2>2. CASE ~DeleteLease(o)
      BY <1>2, <2>2 DEF Call, ApplyObject, DeleteObject, GetSecret, InputsUsable,
         WriteStatus, AddFinalizer, RemoveFinalizer, PatchFinalizers
    <2> QED
      BY <2>1, <2>2
  <1>3. ASSUME NEW o \in Operators, InputsUnusable(o) \/ Fail(o) \/ Restart(o)
        PROVE  LeaseStep(o) \/ UNCHANGED leaseVars
    BY <1>3 DEF InputsUnusable, Fail, Leave, Restart, LeaseStep
  <1>4. CASE Environment
    BY <1>4 DEF Environment, Create, Edit, DeleteInstance, OtherFinalizerOn,
       OtherFinalizerOff, Change
  <1>5. CASE Time
    BY <1>5 DEF Time, LeaseNext
  <1> QED
    BY <1>1, <1>2, <1>3, <1>4, <1>5 DEF Next, LeaseNext

(***************************************************************************)
(* The operators with their whole reconcile implement the protocol.        *)
(***************************************************************************)
THEOREM ReconcileImplementsLease == Spec => LeaseSpec
  <1>1. Init => LeaseInit
    BY DEF Init
  <1> QED
    BY <1>1, StepImplementsLease, PTL DEF Spec, LeaseSpec

(***************************************************************************)
(* Hence two operators are never both inside the reconcile of an instance  *)
(* (OneOperatorAtATime), under the same two conditions.                    *)
(***************************************************************************)
THEOREM OneReconcilerAtATime ==
  ASSUME \A a, b \in Operators : Namespace[a] = Namespace[b] => a = b,
         ClaimLimit <= WorkLimit,
         WorkLimit <= LeaseDuration
  PROVE  Spec => []OneOperatorAtATime
  <1>1. LeaseSpec => []OneOperatorAtATime
    BY OneOperator
  <1> QED
    BY <1>1, ReconcileImplementsLease, PTL

----------------------------------------------------------------------------
(***************************************************************************)
(* The calls, and the order they keep.                                     *)
(***************************************************************************)
Add == Patch("add finalizer")
Remove == Patch("remove finalizer")
GetKey == <<"get", "Secret">>
GetInputs == <<"get", "Inputs">>
Status(phase) == <<"status", phase>>

(* The calls of a cleanup but the last two.                                *)
Deletions == {Delete(k) : k \in Kinds}

(* The calls that a reconcile makes between its first and its last.        *)
Plain(isOCP) ==
  {Apply(k) : k \in Kinds \ ({"Secret"} \cup IF isOCP THEN {} ELSE OpenShiftKinds)}
  \cup {GetKey, GetInputs, Delete("AlertBinding")}

Calls ==
  {Apply(k) : k \in Kinds} \cup Deletions \cup {Delete("Lease"), Add, Remove, GetKey, GetInputs}
  \cup {Status(phase) : phase \in Phases}

Occurs(call, s) == \E i \in 1..Len(s) : s[i] = call

(* A finalizer is added, and a key applied, by the next call or not at all; *)
(* after the finalizer is removed, or a status written that reports an     *)
(* engine, nothing is left to do; the Lease is deleted before the removal; *)
(* a cleanup applies and asks nothing; a reconcile that reports an engine  *)
(* does not delete it; the kinds of OpenShift are applied on OpenShift.    *)
InPlace(s, i, isOCP) ==
  /\ s[i] \in {Add, Apply("Secret")} => i = 1
  /\ s[i] \in {Remove, Status("Running")} => i = Len(s)
  /\ s[i] = Delete("Lease") => i + 1 = Len(s) /\ s[i + 1] = Remove
  /\ s[i] \notin {Status("Pending"), Status("")}
  /\ ~isOCP => s[i] \notin {Apply(k) : k \in OpenShiftKinds}

Cleaning(s) == \A i \in 1..Len(s) : s[i] \in Deletions \cup {Delete("Lease"), Remove}

Shape(s, isOCP) ==
  /\ s \in Seq(Calls)
  /\ \A i \in 1..Len(s) : InPlace(s, i, isOCP)
  /\ Occurs(Remove, s) => Cleaning(s)
  /\ Occurs(Status("Running"), s) => ~Occurs(Delete("Deployment"), s)

LEMMA ShapeOfTail ==
  ASSUME NEW s, NEW isOCP, Shape(s, isOCP), s # <<>>
  PROVE  /\ Shape(Tail(s), isOCP)
         /\ \A call : Occurs(call, s) <=> call = Head(s) \/ Occurs(call, Tail(s))
         /\ ~Occurs(Add, Tail(s)) /\ ~Occurs(Apply("Secret"), Tail(s))
         /\ Head(s) \in {Remove, Status("Running")} => Tail(s) = <<>>
         /\ Head(s) = Delete("Lease") => \A i \in 1..Len(Tail(s)) : Tail(s)[i] = Remove
<1> DEFINE t == Tail(s)
<1>0. s \in Seq(Calls)
  BY DEF Shape
<1>1. /\ Len(s) \in Nat \ {0} /\ Head(s) = s[1] /\ t \in Seq(Calls) /\ Len(t) = Len(s) - 1
      /\ \A i \in 1..Len(t) : t[i] = s[i + 1]
  BY <1>0
<1>2. \A i \in 1..Len(t) : t[i] = s[i + 1] /\ i + 1 \in 1..Len(s) /\ i + 1 # 1 /\ i \in Nat
  BY <1>1
<1>3. 1 \in 1..Len(s) /\ \A i \in 1..Len(s) : i = 1 \/ (i - 1 \in 1..Len(t) /\ t[i - 1] = s[i])
  BY <1>1
<1> HIDE DEF t
<1>4. \A call : Occurs(call, s) <=> call = Head(s) \/ Occurs(call, t)
  BY <1>1, <1>2, <1>3 DEF Occurs
<1>5. \A i \in 1..Len(s) : InPlace(s, i, isOCP)
  BY DEF Shape
<1>6. ~Occurs(Add, t) /\ ~Occurs(Apply("Secret"), t)
  BY <1>2, <1>5, ZenonT(40) DEF Occurs, InPlace
<1>7. Head(s) \in {Remove, Status("Running")} => t = <<>>
  <2>1. Head(s) \in {Remove, Status("Running")} => 1 = Len(s)
    BY <1>1, <1>3, <1>5 DEF InPlace
  <2> QED
    BY <1>1, <2>1
<1>8. Head(s) = Delete("Lease") => \A i \in 1..Len(t) : t[i] = Remove
  <2>1. Head(s) = Delete("Lease") => 1 + 1 = Len(s) /\ s[1 + 1] = Remove
    BY <1>1, <1>3, <1>5 DEF InPlace
  <2> QED
    BY <1>1, <2>1
<1>9. ASSUME NEW i \in 1..Len(t) PROVE InPlace(t, i, isOCP)
  <2>1. t[i] = s[i + 1] /\ InPlace(s, i + 1, isOCP) /\ i \in Nat /\ i + 1 # 1
    BY <1>2, <1>5
  <2>2. ASSUME s[i + 1] = Delete("Lease") PROVE i + 1 = Len(t) /\ t[i + 1] = Remove
    <3>1. (i + 1) + 1 = Len(s) /\ s[(i + 1) + 1] = Remove
      BY <2>1, <2>2 DEF InPlace
    <3>2. i + 1 = Len(t) /\ i + 1 \in 1..Len(t)
      BY <1>1, <2>1, <3>1
    <3> QED
      BY <1>2, <3>1, <3>2
  <2>3. ASSUME s[i + 1] \in {Remove, Status("Running")} PROVE i = Len(t)
    <3>1. i + 1 = Len(s)
      BY <2>1, <2>3 DEF InPlace
    <3> QED
      BY <1>1, <2>1, <3>1
  <2> QED
    BY <2>1, <2>2, <2>3 DEF InPlace
<1>10. Occurs(Remove, t) => Cleaning(t)
  <2>1. Occurs(Remove, t) => Cleaning(s)
    BY <1>4 DEF Shape
  <2> QED
    BY <1>2, <2>1 DEF Cleaning
<1>11. Occurs(Status("Running"), t) => ~Occurs(Delete("Deployment"), t)
  BY <1>4 DEF Shape
<1> QED
  BY <1>1, <1>4, <1>6, <1>7, <1>8, <1>9, <1>10, <1>11 DEF Shape, t

(* Calls are told apart by their verb and by what it is about.             *)
LEMMA CallsDiffer ==
  /\ Add # Remove /\ Add # GetKey /\ Add # GetInputs /\ Remove # GetKey /\ Remove # GetInputs
  /\ \A p \in Phases : Status(p) \notin {Add, Remove, GetKey, GetInputs}
  /\ \A k : Apply(k) \notin {Add, Remove, GetKey, GetInputs}
  /\ \A k : Delete(k) \notin {Add, Remove, GetKey, GetInputs}
  /\ \A k, l : Apply(k) # Delete(l) /\ (Apply(k) = Apply(l) => k = l) /\ (Delete(k) = Delete(l) => k = l)
  /\ \A k, p : Apply(k) # Status(p) /\ Delete(k) # Status(p)
  /\ \A p, q : Status(p) = Status(q) => p = q
  /\ GetKey # GetInputs
  BY DEF Add, Remove, Patch, GetKey, GetInputs, Status, Apply, Delete

(* A key that is missing is applied next.                                  *)
LEMMA ShapeOfKey ==
  ASSUME NEW s, NEW isOCP, Shape(s, isOCP), s # <<>>, Head(s) = GetKey
  PROVE  /\ Shape(<<Apply("Secret")>> \o Tail(s), isOCP)
         /\ ~Occurs(Remove, s)
         /\ \A call : Occurs(call, <<Apply("Secret")>> \o Tail(s)) <=>
                        call = Apply("Secret") \/ Occurs(call, Tail(s))
<1> DEFINE t == Tail(s)
           u == <<Apply("Secret")>> \o t
<1>1. Shape(t, isOCP) /\ Occurs(GetKey, s) /\ ~Occurs(Add, t) /\ ~Occurs(Apply("Secret"), t)
  BY ShapeOfTail
<1>2. t \in Seq(Calls) /\ Apply("Secret") \in Calls
  BY <1>1 DEF Shape, Calls, Kinds
<1> HIDE DEF t
<1>3. /\ u \in Seq(Calls) /\ Len(t) \in Nat /\ Len(u) = Len(t) + 1 /\ u[1] = Apply("Secret")
      /\ \A i \in 1..Len(t) : u[i + 1] = t[i]
      /\ \A i \in 1..Len(u) : i = 1 \/ (i - 1 \in 1..Len(t) /\ u[i] = t[i - 1])
  BY <1>2
<1> HIDE DEF u
<1>4. \A call : Occurs(call, u) <=> call = Apply("Secret") \/ Occurs(call, t)
  <2>1. 1 \in 1..Len(u) /\ \A i \in 1..Len(t) : i + 1 \in 1..Len(u)
    BY <1>3
  <2> QED
    BY <1>3, <2>1 DEF Occurs
<1>5. ~Occurs(Remove, s)
  <2> SUFFICES ASSUME Occurs(Remove, s) PROVE FALSE
    OBVIOUS
  <2>1. GetKey \in Deletions \cup {Delete("Lease"), Remove}
    BY <1>1 DEF Shape, Cleaning, Occurs
  <2> QED
    BY <2>1, CallsDiffer DEF Deletions
<1>6. ~Occurs(Remove, t)
  BY <1>5, ShapeOfTail DEF t
<1>7. ASSUME NEW i \in 1..Len(u) PROVE InPlace(u, i, isOCP)
  <2>1. CASE i = 1
    <3>1. Apply("Secret") \notin {Apply(k) : k \in OpenShiftKinds}
      BY CallsDiffer DEF OpenShiftKinds
    <3> QED
      BY <1>3, <2>1, <3>1, CallsDiffer DEF InPlace, Phases
  <2>2. CASE i # 1
    <3>1. i - 1 \in 1..Len(t) /\ u[i] = t[i - 1] /\ InPlace(t, i - 1, isOCP)
      BY <1>1, <1>3, <2>2 DEF Shape
    <3>2. u[i] \notin {Add, Apply("Secret"), Remove}
      BY <1>1, <1>6, <3>1 DEF Occurs
    <3>3. u[i] # Delete("Lease")
      <4> SUFFICES ASSUME t[i - 1] = Delete("Lease") PROVE FALSE
        BY <3>1
      <4>1. (i - 1) + 1 = Len(t) /\ t[(i - 1) + 1] = Remove
        BY <3>1 DEF InPlace
      <4>2. (i - 1) + 1 \in 1..Len(t)
        BY <1>3, <3>1, <4>1
      <4> QED
        BY <1>6, <4>1, <4>2 DEF Occurs
    <3>4. u[i] = Status("Running") => i = Len(u)
      <4>1. u[i] = Status("Running") => i - 1 = Len(t)
        BY <3>1 DEF InPlace
      <4> QED
        BY <1>3, <4>1
    <3> QED
      BY <3>1, <3>2, <3>3, <3>4 DEF InPlace
  <2> QED
    BY <2>1, <2>2
<1>8. Occurs(Status("Running"), u) => ~Occurs(Delete("Deployment"), u)
  BY <1>1, <1>4, CallsDiffer DEF Shape
<1>9. ~Occurs(Remove, u)
  BY <1>4, <1>6, CallsDiffer
<1>10. Shape(u, isOCP)
  BY <1>3, <1>7, <1>8, <1>9 DEF Shape
<1> QED
  BY <1>4, <1>5, <1>10 DEF t, u

(* A status that reports no engine ends a reconcile in any place.          *)
LEMMA ShapeOfStatus ==
  ASSUME NEW isOCP, NEW phase \in {"Failed", "Degraded"}
  PROVE  /\ Shape(<<Status(phase)>>, isOCP)
         /\ \A call : Occurs(call, <<Status(phase)>>) <=> call = Status(phase)
<1> DEFINE u == <<Status(phase)>>
<1>1. Status(phase) \in Calls /\ phase \in Phases
  BY DEF Calls, Phases
<1>2. u \in Seq(Calls) /\ Len(u) = 1 /\ \A i \in 1..Len(u) : i = 1 /\ u[i] = Status(phase)
  BY <1>1
<1> HIDE DEF u
<1>3. \A call : Occurs(call, u) <=> call = Status(phase)
  BY <1>2 DEF Occurs
<1>4. \A i \in 1..Len(u) : InPlace(u, i, isOCP)
  <2>1. Status(phase) # Status("Pending") /\ Status(phase) # Status("") /\ Status(phase) # Status("Running")
    BY CallsDiffer
  <2>2. Status(phase) \notin {Apply(k) : k \in OpenShiftKinds} /\ Status(phase) # Apply("Secret")
        /\ Status(phase) # Delete("Lease") /\ Status(phase) # Add /\ Status(phase) # Remove
    BY <1>1, CallsDiffer
  <2> QED
    BY <1>2, <2>1, <2>2 DEF InPlace
<1> QED
  BY <1>1, <1>2, <1>3, <1>4, CallsDiffer DEF Shape, u

----------------------------------------------------------------------------
(***************************************************************************)
(* The sequence of calls a reconcile starts with has this shape, and       *)
(* deletes or applies what it should.                                      *)
(***************************************************************************)
Ends(s, middle, last) ==
  /\ s \in Seq(middle \cup {last}) /\ Len(s) > 0 /\ s[Len(s)] = last
  /\ \A i \in 1..Len(s) : i # Len(s) => s[i] \in middle

LEMMA Joined ==
  ASSUME NEW S, NEW s \in Seq(S), NEW t \in Seq(S)
  PROVE  /\ s \o t \in Seq(S) /\ Len(s) \in Nat /\ Len(t) \in Nat /\ Len(s \o t) = Len(s) + Len(t)
         /\ \A i \in 1..Len(s) : (s \o t)[i] = s[i]
         /\ \A i \in 1..Len(t) : (s \o t)[i + Len(s)] = t[i]
  OBVIOUS

LEMMA OccursJoined ==
  ASSUME NEW S, NEW s \in Seq(S), NEW t \in Seq(S), NEW call, Occurs(call, s) \/ Occurs(call, t)
  PROVE  Occurs(call, s \o t)
<1> DEFINE u == s \o t
<1>1. /\ Len(u) = Len(s) + Len(t) /\ Len(s) \in Nat /\ Len(t) \in Nat
      /\ \A i \in 1..Len(s) : u[i] = s[i]
      /\ \A i \in 1..Len(t) : u[i + Len(s)] = t[i]
  BY Joined
<1> HIDE DEF u
<1>2. /\ \A i \in 1..Len(s) : i \in 1..Len(u)
      /\ \A i \in 1..Len(t) : i + Len(s) \in 1..Len(u)
  BY <1>1
<1> QED
  BY <1>1, <1>2 DEF Occurs, u

LEMMA EndsAlone == ASSUME NEW middle, NEW last PROVE Ends(<<last>>, middle, last)
  BY DEF Ends

LEMMA EndsAfter ==
  ASSUME NEW middle, NEW last, NEW s \in Seq(middle), NEW t, Ends(t, middle, last)
  PROVE  Ends(s \o t, middle, last)
<1> DEFINE u == s \o t
<1>1. /\ s \in Seq(middle \cup {last}) /\ t \in Seq(middle \cup {last})
      /\ Len(s) \in Nat /\ Len(t) \in Nat \ {0}
  BY DEF Ends
<1>2. /\ u \in Seq(middle \cup {last}) /\ Len(u) = Len(s) + Len(t)
      /\ \A i \in 1..Len(s) : u[i] = s[i] /\ s[i] \in middle
      /\ \A i \in 1..Len(t) : u[i + Len(s)] = t[i]
  BY <1>1
<1> HIDE DEF u
<1>3. u[Len(u)] = last
  <2>1. Len(t) \in 1..Len(t) /\ Len(t) + Len(s) = Len(u)
    BY <1>1, <1>2
  <2> QED
    BY <1>2, <2>1 DEF Ends
<1>4. ASSUME NEW i \in 1..Len(u), i # Len(u) PROVE u[i] \in middle
  <2>1. CASE i \in 1..Len(s)
    BY <1>2, <2>1
  <2>2. CASE i \notin 1..Len(s)
    <3>1. i - Len(s) \in 1..Len(t) /\ (i - Len(s)) + Len(s) = i /\ i - Len(s) # Len(t)
      BY <1>1, <1>2, <1>4, <2>2
    <3>2. u[i] = t[i - Len(s)]
      BY <1>2, <3>1
    <3> QED
      BY <3>1, <3>2 DEF Ends
  <2> QED
    BY <2>1, <2>2
<1> QED
  BY <1>1, <1>2, <1>3, <1>4 DEF Ends, u

(* What the kinds of calls have to do with one another.                    *)
LEMMA PlainCalls ==
  ASSUME NEW isOCP, NEW call \in Plain(isOCP)
  PROVE  /\ call \in Calls
         /\ call \notin {Add, Apply("Secret"), Remove, Delete("Lease"), Delete("Deployment")}
         /\ \A phase : call # Status(phase)
         /\ ~isOCP => call \notin {Apply(k) : k \in OpenShiftKinds}
<1>1. CASE call \in {GetKey, GetInputs, Delete("AlertBinding")}
  <2>1. Delete("AlertBinding") \in Deletions
    BY DEF Deletions, Kinds, OpenShiftKinds
  <2>2. \A phase : GetKey # Status(phase) /\ GetInputs # Status(phase)
    BY DEF GetKey, GetInputs, Status
  <2>3. "AlertBinding" # "Lease" /\ "AlertBinding" # "Deployment"
    OBVIOUS
  <2> QED
    BY <1>1, <2>1, <2>2, <2>3, CallsDiffer DEF Calls
<1>2. ASSUME NEW k \in Kinds, k # "Secret", isOCP \/ k \notin OpenShiftKinds, call = Apply(k)
      PROVE  /\ call \in Calls
             /\ call \notin {Add, Apply("Secret"), Remove, Delete("Lease"), Delete("Deployment")}
             /\ \A phase : call # Status(phase)
             /\ ~isOCP => call \notin {Apply(l) : l \in OpenShiftKinds}
  BY <1>2, CallsDiffer DEF Calls
<1>3. call \in {GetKey, GetInputs, Delete("AlertBinding")}
      \/ \E k \in Kinds : k # "Secret" /\ (isOCP \/ k \notin OpenShiftKinds) /\ call = Apply(k)
  BY DEF Plain
<1> QED
  BY <1>1, <1>2, <1>3

LEMMA ShapeOfPlan ==
  ASSUME NEW isOCP, NEW phase \in {"Running", "Failed"}, NEW t, Ends(t, Plain(isOCP), Status(phase))
  PROVE  /\ Shape(t, isOCP) /\ ~Occurs(Add, t) /\ ~Occurs(Apply("Secret"), t) /\ ~Occurs(Remove, t)
         /\ phase = "Failed" => ~Occurs(Status("Running"), t)
<1>1. Status(phase) \in Calls /\ phase \in Phases
  BY DEF Calls, Phases
<1>2. Plain(isOCP) \subseteq Calls
  BY PlainCalls
<1>3. t \in Seq(Calls) /\ t[Len(t)] = Status(phase)
      /\ \A i \in 1..Len(t) : i # Len(t) => t[i] \in Plain(isOCP)
  BY <1>1, <1>2 DEF Ends
<1>4. /\ Status(phase) \notin {Add, Apply("Secret"), Remove, Delete("Lease"), Delete("Deployment")}
      /\ Status(phase) # Status("Pending") /\ Status(phase) # Status("")
      /\ Status(phase) \notin {Apply(k) : k \in OpenShiftKinds}
  BY <1>1, CallsDiffer
<1>5. \A i \in 1..Len(t) :
        /\ t[i] \notin {Add, Apply("Secret"), Remove, Delete("Lease"), Delete("Deployment")}
        /\ t[i] # Status("Pending") /\ t[i] # Status("")
        /\ t[i] = Status("Running") => i = Len(t) /\ phase = "Running"
        /\ ~isOCP => t[i] \notin {Apply(k) : k \in OpenShiftKinds}
  <2> SUFFICES ASSUME NEW i \in 1..Len(t)
               PROVE  /\ t[i] \notin {Add, Apply("Secret"), Remove, Delete("Lease"), Delete("Deployment")}
                      /\ t[i] # Status("Pending") /\ t[i] # Status("")
                      /\ t[i] = Status("Running") => i = Len(t) /\ phase = "Running"
                      /\ ~isOCP => t[i] \notin {Apply(k) : k \in OpenShiftKinds}
    OBVIOUS
  <2>1. CASE i = Len(t)
    BY <1>3, <1>4, <2>1, CallsDiffer
  <2>2. CASE i # Len(t)
    BY <1>3, <2>2, PlainCalls
  <2> QED
    BY <2>1, <2>2
<1>6. \A i \in 1..Len(t) : InPlace(t, i, isOCP)
  BY <1>5 DEF InPlace
<1>7. ~Occurs(Add, t) /\ ~Occurs(Apply("Secret"), t) /\ ~Occurs(Remove, t) /\ ~Occurs(Delete("Deployment"), t)
  BY <1>5 DEF Occurs
<1> QED
  BY <1>3, <1>5, <1>6, <1>7 DEF Shape, Occurs

(* The finalizer comes before everything else.                             *)
LEMMA ShapeWithAdd ==
  ASSUME NEW isOCP, NEW t, Shape(t, isOCP),
         ~Occurs(Add, t), ~Occurs(Apply("Secret"), t), ~Occurs(Remove, t)
  PROVE  /\ Shape(<<Add>> \o t, isOCP) /\ Head(<<Add>> \o t) = Add
         /\ \A call : Occurs(call, <<Add>> \o t) <=> call = Add \/ Occurs(call, t)
<1> DEFINE u == <<Add>> \o t
<1>1. t \in Seq(Calls) /\ Add \in Calls
  BY DEF Shape, Calls
<1>2. u \in Seq(Calls) /\ Len(t) \in Nat /\ Len(u) = Len(t) + 1 /\ u[1] = Add
  BY <1>1
<1>3. /\ \A i \in 1..Len(t) : u[i + 1] = t[i]
      /\ \A i \in 1..Len(u) : i = 1 \/ (i - 1 \in 1..Len(t) /\ u[i] = t[i - 1])
  BY <1>1
<1> HIDE DEF u
<1>4. Head(u) = Add
  BY <1>2
<1>5. \A call : Occurs(call, u) <=> call = Add \/ Occurs(call, t)
  <2>1. 1 \in 1..Len(u) /\ \A i \in 1..Len(t) : i + 1 \in 1..Len(u) /\ u[i + 1] = t[i]
    BY <1>2, <1>3
  <2>2. ASSUME NEW call, Occurs(call, u) PROVE call = Add \/ Occurs(call, t)
    BY <1>2, <1>3, <2>2, SMTT(30) DEF Occurs
  <2>3. ASSUME NEW call, call = Add \/ Occurs(call, t) PROVE Occurs(call, u)
    BY <1>2, <2>1, <2>3 DEF Occurs
  <2> QED
    BY <2>2, <2>3
<1>6. ASSUME NEW i \in 1..Len(u) PROVE InPlace(u, i, isOCP)
  <2>1. CASE i = 1
    <3>1. \A k : Add # Apply(k) /\ Add # Delete(k)
      BY CallsDiffer
    <3>2. Add # Status("Running") /\ Add # Status("Pending") /\ Add # Status("") /\ Add # Remove
      BY CallsDiffer DEF Phases
    <3> QED
      BY <1>2, <2>1, <3>1, <3>2 DEF InPlace
  <2>2. CASE i # 1
    <3>1. i - 1 \in 1..Len(t) /\ u[i] = t[i - 1] /\ InPlace(t, i - 1, isOCP)
      BY <1>3, <2>2 DEF Shape
    <3>2. u[i] \notin {Add, Apply("Secret"), Remove}
      BY <3>1 DEF Occurs
    <3>3. u[i] # Delete("Lease")
      <4> SUFFICES ASSUME t[i - 1] = Delete("Lease") PROVE FALSE
        BY <3>1
      <4>1. (i - 1) + 1 = Len(t) /\ t[(i - 1) + 1] = Remove
        BY <3>1 DEF InPlace
      <4>2. (i - 1) + 1 \in 1..Len(t)
        BY <1>2, <3>1, <4>1
      <4> QED
        BY <4>1, <4>2 DEF Occurs
    <3>4. u[i] = Status("Running") => i = Len(u)
      <4>1. u[i] = Status("Running") => i - 1 = Len(t)
        BY <3>1 DEF InPlace
      <4> QED
        BY <1>2, <4>1
    <3> QED
      BY <3>1, <3>2, <3>3, <3>4 DEF InPlace
  <2> QED
    BY <2>1, <2>2
<1>7. Occurs(Status("Running"), u) => ~Occurs(Delete("Deployment"), u)
  BY <1>5, CallsDiffer DEF Shape, Phases
<1>8. ~Occurs(Remove, u)
  BY <1>5, CallsDiffer
<1>9. Shape(u, isOCP)
  BY <1>2, <1>6, <1>7, <1>8 DEF Shape
<1> QED
  BY <1>4, <1>5, <1>9 DEF u

(* A cleanup deletes every object, the Lease, and then the finalizer.      *)
LEMMA ShapeOfCleanup ==
  ASSUME NEW isOCP
  PROVE  /\ Shape(CleanupCalls(isOCP), isOCP) /\ CleanupCalls(isOCP) # <<>>
         /\ \A k \in Kinds : isOCP \/ k \notin OpenShiftKinds => Occurs(Delete(k), CleanupCalls(isOCP))
         /\ Cleaning(CleanupCalls(isOCP)) /\ Occurs(Delete("Lease"), CleanupCalls(isOCP))
<1> DEFINE f == IF isOCP THEN <<Delete("Route"), Delete("MonitoringBinding"),
                                Delete("AlertBinding"), Delete("ServiceCA")>> ELSE <<>>
           t == <<Delete("ReaderBinding"), Delete("Secret"), Delete("Deployment"),
                  Delete("Service"), Delete("PVC"), Delete("ServiceAccount"),
                  Delete("Lease"), Remove>>
           u == CleanupCalls(isOCP)
<1>1. /\ Deletions \cup {Delete("Lease"), Remove} \subseteq Calls
      /\ \A k \in Kinds : Delete(k) \in Deletions
  BY DEF Calls, Deletions
<1>2. /\ Delete("Route") \in Deletions /\ Delete("MonitoringBinding") \in Deletions
      /\ Delete("AlertBinding") \in Deletions /\ Delete("ServiceCA") \in Deletions
      /\ Delete("ReaderBinding") \in Deletions /\ Delete("Secret") \in Deletions
      /\ Delete("Deployment") \in Deletions /\ Delete("Service") \in Deletions
      /\ Delete("PVC") \in Deletions /\ Delete("ServiceAccount") \in Deletions
  BY <1>1 DEF Kinds, OpenShiftKinds
<1>3. f \in Seq(Deletions)
  BY <1>2
<1>4. \A k \in OpenShiftKinds : isOCP => Occurs(Delete(k), f)
  BY DEF Occurs, OpenShiftKinds
<1>5. /\ Len(t) = 8 /\ t[7] = Delete("Lease") /\ t[8] = Remove
      /\ \A i \in 1..6 : t[i] \in Deletions
  BY <1>2
<1>6. t \in Seq(Deletions \cup {Delete("Lease"), Remove})
  BY <1>2
<1>7. \A k \in Kinds \ OpenShiftKinds : Occurs(Delete(k), t)
  BY DEF Occurs, Kinds
<1>8. u = f \o t
  BY DEF CleanupCalls, Remove
<1> HIDE DEF f, t, u
<1>9. /\ u \in Seq(Calls) /\ Len(f) \in Nat /\ Len(u) = Len(f) + 8
      /\ \A i \in 1..Len(f) : u[i] = f[i] /\ f[i] \in Deletions
      /\ \A i \in 1..8 : u[i + Len(f)] = t[i]
  <2>1. f \in Seq(Calls) /\ t \in Seq(Calls) /\ Len(f) \in Nat
    BY <1>1, <1>3, <1>6
  <2>2. \A i \in 1..Len(f) : f[i] \in Deletions
    BY <1>3
  <2>3. /\ f \o t \in Seq(Calls) /\ Len(f \o t) = Len(f) + Len(t)
        /\ \A i \in 1..Len(f) : (f \o t)[i] = f[i]
        /\ \A i \in 1..Len(t) : (f \o t)[i + Len(f)] = t[i]
    BY <2>1, Joined
  <2>4. Len(t) = 8
    BY <1>5
  <2> QED
    BY <1>8, <2>1, <2>2, <2>3, <2>4
<1>10. \A i \in 1..Len(u) :
         \/ i + 1 < Len(u) /\ u[i] \in Deletions
         \/ i + 1 = Len(u) /\ u[i] = Delete("Lease") /\ u[i + 1] = Remove
         \/ i = Len(u) /\ u[i] = Remove
  <2> SUFFICES ASSUME NEW i \in 1..Len(u)
               PROVE  \/ i + 1 < Len(u) /\ u[i] \in Deletions
                      \/ i + 1 = Len(u) /\ u[i] = Delete("Lease") /\ u[i + 1] = Remove
                      \/ i = Len(u) /\ u[i] = Remove
    OBVIOUS
  <2>0. Len(f) \in Nat /\ Len(u) = Len(f) + 8 /\ i \in 1..(Len(f) + 8)
    BY <1>9
  <2>1. CASE i \in 1..Len(f)
    <3>1. i + 1 < Len(u)
      BY <2>0, <2>1
    <3> QED
      BY <1>9, <2>1, <3>1
  <2>2. CASE i \notin 1..Len(f)
    <3>1. PICK j \in 1..8 : i = j + Len(f)
      <4>1. i - Len(f) \in 1..8 /\ i = (i - Len(f)) + Len(f)
        BY <2>0, <2>2
      <4> QED
        BY <4>1
    <3>2. u[i] = t[j]
      BY <1>9, <3>1
    <3>3. CASE j \in 1..6
      <4>1. i + 1 < Len(u)
        BY <2>0, <3>1, <3>3
      <4> QED
        BY <1>5, <3>2, <3>3, <4>1
    <3>4. CASE j = 7
      <4>1. i + 1 = 8 + Len(f) /\ i + 1 = Len(u)
        BY <2>0, <3>1, <3>4
      <4>2. u[8 + Len(f)] = t[8]
        BY <1>9
      <4> QED
        BY <1>5, <3>2, <3>4, <4>1, <4>2
    <3>5. CASE j = 8
      <4>1. i = Len(u)
        BY <2>0, <3>1, <3>5
      <4> QED
        BY <1>5, <3>2, <3>5, <4>1
    <3> QED
      BY <3>3, <3>4, <3>5
  <2> QED
    BY <2>1, <2>2
<1>11. \A d \in Deletions : /\ d \notin {Add, Apply("Secret"), Remove, Delete("Lease")}
                            /\ \A phase : d # Status(phase)
                            /\ \A k : d # Apply(k)
  BY CallsDiffer DEF Deletions, Kinds, OpenShiftKinds
<1>12. /\ \A phase : Remove # Status(phase) /\ Delete("Lease") # Status(phase)
       /\ \A k : Remove # Apply(k) /\ Delete("Lease") # Apply(k)
       /\ Remove # Add /\ Remove # Delete("Lease") /\ Delete("Lease") # Add
  BY CallsDiffer DEF Remove, Patch, Status
<1>13. ASSUME NEW i \in 1..Len(u) PROVE InPlace(u, i, isOCP) /\ u[i] # Status("Running")
  BY <1>9, <1>10, <1>11, <1>12, ZenonT(40) DEF InPlace
<1>14. Cleaning(u)
  BY <1>10 DEF Cleaning
<1>15. ASSUME NEW k \in Kinds, isOCP \/ k \notin OpenShiftKinds PROVE Occurs(Delete(k), u)
  <2>1. CASE k \in OpenShiftKinds
    <3>1. PICK i \in 1..Len(f) : f[i] = Delete(k)
      BY <1>4, <1>15, <2>1 DEF Occurs
    <3>2. i \in 1..Len(u)
      BY <1>9
    <3> QED
      BY <1>9, <3>1, <3>2 DEF Occurs
  <2>2. CASE k \notin OpenShiftKinds
    <3>1. PICK i \in 1..8 : t[i] = Delete(k)
      BY <1>5, <1>7, <2>2 DEF Occurs
    <3>2. i + Len(f) \in 1..Len(u)
      BY <1>9
    <3> QED
      BY <1>9, <3>1, <3>2 DEF Occurs
  <2> QED
    BY <2>1, <2>2
<1>16. Shape(u, isOCP) /\ u # <<>>
  BY <1>9, <1>13, <1>14 DEF Shape, Occurs
<1>17. Occurs(Delete("Lease"), u)
  <2>1. u[7 + Len(f)] = t[7] /\ 7 + Len(f) \in 1..Len(u)
    BY <1>9
  <2> QED
    BY <1>5, <2>1 DEF Occurs
<1> QED
  BY <1>14, <1>15, <1>16, <1>17 DEF u

(* The objects are applied, the Deployment among them, before the status.  *)
LEMMA PlanOfApply ==
  ASSUME NEW spec, NEW isOCP
  PROVE  /\ Ends(ApplyCalls(spec, isOCP), Plain(isOCP), Status("Running"))
         /\ Occurs(Apply("Deployment"), ApplyCalls(spec, isOCP))
<1> DEFINE P  == Plain(isOCP)
           a1 == <<Apply("ServiceAccount"), Apply("PVC")>>
           a2 == IF spec \in OwnKeySpecs THEN <<>> ELSE <<GetKey>>
           a3 == <<Apply("ReaderBinding")>>
           a4 == IF isOCP THEN <<Apply("MonitoringBinding"), Apply("ServiceCA"), AlertAccess(spec)>> ELSE <<>>
           a5 == <<Apply("Deployment"), Apply("Service")>>
           a6 == IF isOCP THEN <<Apply("Route")>> ELSE <<>>
           all == ((((a1 \o a2) \o a3) \o a4) \o a5) \o a6
<1>1. \A k \in Kinds \ (OpenShiftKinds \cup {"Secret"}) : Apply(k) \in P
  BY DEF Plain
<1>2. /\ Apply("ServiceAccount") \in P /\ Apply("PVC") \in P /\ Apply("ReaderBinding") \in P
      /\ Apply("Deployment") \in P /\ Apply("Service") \in P /\ GetKey \in P
  BY <1>1 DEF Plain, Kinds, OpenShiftKinds
<1>3. isOCP => \A k \in OpenShiftKinds : Apply(k) \in P
  BY DEF Plain, Kinds, OpenShiftKinds
<1>4. isOCP => /\ Apply("MonitoringBinding") \in P /\ Apply("ServiceCA") \in P
               /\ AlertAccess(spec) \in P /\ Apply("Route") \in P
  BY <1>3 DEF OpenShiftKinds, AlertAccess, Plain
<1> HIDE DEF P
<1>5. /\ a1 \in Seq(P) /\ a2 \in Seq(P) /\ a3 \in Seq(P) /\ a4 \in Seq(P) /\ a5 \in Seq(P)
      /\ a6 \in Seq(P) /\ Occurs(Apply("Deployment"), a5)
  BY <1>2, <1>4 DEF Occurs
<1>6. ApplyCalls(spec, isOCP) = all \o <<Status("Running")>>
  BY DEF ApplyCalls, GetKey, Status
<1> HIDE DEF a1, a2, a3, a4, a5, a6
<1>7. all \in Seq(P)
  BY <1>5
<1>8. Occurs(Apply("Deployment"), all)
  <2>1. ((a1 \o a2) \o a3) \o a4 \in Seq(P)
    BY <1>5
  <2>2. Occurs(Apply("Deployment"), (((a1 \o a2) \o a3) \o a4) \o a5)
    BY <1>5, <2>1, OccursJoined
  <2>3. (((a1 \o a2) \o a3) \o a4) \o a5 \in Seq(P)
    BY <1>5, <2>1
  <2> QED
    BY <1>5, <2>2, <2>3, OccursJoined
<1> HIDE DEF all
<1>9. Ends(ApplyCalls(spec, isOCP), P, Status("Running"))
  BY <1>6, <1>7, EndsAlone, EndsAfter
<1>10. Occurs(Apply("Deployment"), ApplyCalls(spec, isOCP))
  <2>1. all \in Seq(P \cup {Status("Running")}) /\ <<Status("Running")>> \in Seq(P \cup {Status("Running")})
    BY <1>7
  <2> QED
    BY <1>6, <1>8, <2>1, OccursJoined
<1> QED
  BY <1>9, <1>10 DEF P

(* What a reconcile is to do for the copy i: no key is applied before it    *)
(* was looked for; the first call registers the finalizer, unless the copy  *)
(* carries it; a cleanup deletes every object and the Lease; the engine is  *)
(* applied before it is reported.                                           *)
Plan(s, i, isOCP) ==
  /\ Shape(s, isOCP)
  /\ ~Occurs(Apply("Secret"), s)
  /\ s # <<>> => Head(s) = Add \/ Ours \in i.fin
  /\ Ours \in i.fin => s # <<>>
  /\ Occurs(Remove, s) => \A k \in Kinds : isOCP \/ k \notin OpenShiftKinds => Occurs(Delete(k), s)
  /\ Occurs(Remove, s) => Occurs(Delete("Lease"), s)
  /\ Occurs(Status("Running"), s) => Occurs(Apply("Deployment"), s)

LEMMA CallsArePlanned == ASSUME NEW i, NEW isOCP PROVE Plan(ReconcileCalls(i, isOCP), i, isOCP)
<1> DEFINE s == ReconcileCalls(i, isOCP)
           t == IF i.spec \in Refused THEN <<Status("Failed")>>
                ELSE <<GetInputs>> \o ApplyCalls(i.spec, isOCP)
<1>1. CASE i.deleting /\ Ours \in i.fin
  <2>1. s = CleanupCalls(isOCP)
    BY <1>1 DEF ReconcileCalls
  <2>2. \A call : Occurs(call, s) => call \in Deletions \cup {Delete("Lease"), Remove}
    BY <2>1, ShapeOfCleanup DEF Cleaning, Occurs
  <2>3. Apply("Secret") \notin Deletions \cup {Delete("Lease"), Remove}
        /\ Status("Running") \notin Deletions \cup {Delete("Lease"), Remove}
    BY CallsDiffer DEF Deletions, Status, Remove, Patch
  <2> QED
    BY <1>1, <2>1, <2>2, <2>3, ShapeOfCleanup DEF Plan
<1>2. CASE i.deleting /\ Ours \notin i.fin
  <2>1. s = <<>>
    BY <1>2 DEF ReconcileCalls
  <2>2. Shape(s, isOCP) /\ \A call : ~Occurs(call, s)
    BY <2>1 DEF Shape, Occurs
  <2> QED
    BY <1>2, <2>1, <2>2 DEF Plan
<1>3. /\ Shape(t, isOCP) /\ ~Occurs(Add, t) /\ ~Occurs(Apply("Secret"), t) /\ ~Occurs(Remove, t)
      /\ t # <<>>
      /\ Occurs(Status("Running"), t) => Occurs(Apply("Deployment"), t)
  <2>1. CASE i.spec \in Refused
    <3>1. t = <<Status("Failed")>>
      BY <2>1
    <3>2. Ends(t, Plain(isOCP), Status("Failed"))
      BY <3>1, EndsAlone
    <3> HIDE DEF t
    <3>3. t # <<>> /\ \A call : Occurs(call, t) => call = Status("Failed")
      BY <3>1 DEF Occurs
    <3> QED
      BY <3>2, <3>3, ShapeOfPlan
  <2>2. CASE i.spec \notin Refused
    <3>1. t = <<GetInputs>> \o ApplyCalls(i.spec, isOCP)
      BY <2>2
    <3>2. <<GetInputs>> \in Seq(Plain(isOCP))
      BY DEF Plain
    <3> HIDE DEF t
    <3>3. Ends(t, Plain(isOCP), Status("Running"))
      BY <3>1, <3>2, PlanOfApply, EndsAfter
    <3>4. t # <<>>
      BY <3>3 DEF Ends
    <3>5. Occurs(Apply("Deployment"), t)
      <4>1. ApplyCalls(i.spec, isOCP) \in Seq(Plain(isOCP) \cup {Status("Running")})
        BY PlanOfApply DEF Ends
      <4>2. <<GetInputs>> \in Seq(Plain(isOCP) \cup {Status("Running")})
        BY <3>2
      <4> QED
        BY <3>1, <4>1, <4>2, PlanOfApply, OccursJoined
    <3> QED
      BY <3>3, <3>4, <3>5, ShapeOfPlan
  <2> QED
    BY <2>1, <2>2
<1>4. CASE ~i.deleting /\ Ours \in i.fin
  <2>1. s = t
    <3>1. s = <<>> \o t
      BY <1>4 DEF ReconcileCalls, Status, GetInputs
    <3>2. t \in Seq(Calls)
      BY <1>3 DEF Shape
    <3> HIDE DEF t
    <3> QED
      BY <3>1, <3>2
  <2> HIDE DEF t
  <2>2. Plan(t, i, isOCP)
    BY <1>3, <1>4 DEF Plan
  <2> QED
    BY <2>1, <2>2
<1>5. CASE ~i.deleting /\ Ours \notin i.fin
  <2>1. s = <<Add>> \o t
    BY <1>5 DEF ReconcileCalls, Status, GetInputs, Add
  <2> HIDE DEF t
  <2>2. /\ Shape(s, isOCP) /\ Head(s) = Add
        /\ \A call : Occurs(call, s) <=> call = Add \/ Occurs(call, t)
    BY <1>3, <2>1, ShapeWithAdd
  <2>3. Add # Apply("Secret") /\ Add # Remove /\ Add # Status("Running")
    BY CallsDiffer DEF Phases
  <2> HIDE DEF s
  <2>4. Plan(s, i, isOCP)
    BY <1>3, <1>5, <2>2, <2>3 DEF Plan
  <2> QED
    BY <2>4 DEF s
<1> QED
  BY <1>1, <1>2, <1>4, <1>5

----------------------------------------------------------------------------
(***************************************************************************)
(* The state of a reconcile, and the kinds of steps there are.             *)
(***************************************************************************)
TodoInv ==
  /\ pc \in [Operators -> PCs]
  /\ DOMAIN todo = Operators /\ DOMAIN copy = Operators
  /\ DOMAIN ocp = Operators /\ DOMAIN store = Kinds
  /\ inst = [exists |-> inst.exists, deleting |-> inst.deleting, fin |-> inst.fin, spec |-> inst.spec]
  /\ \A o \in Operators :
       /\ Shape(todo[o], ocp[o])
       /\ pc[o] \notin Working => todo[o] = <<>>
       /\ pc[o] = "released" => \A i \in 1..Len(todo[o]) : todo[o][i] = Remove
       /\ pc[o] # "idle" => copy[o].exists

IsInst(i) == i = [exists |-> i.exists, deleting |-> i.deleting, fin |-> i.fin, spec |-> i.spec]

(* Nobody but an operator takes its finalizer off; time and the others     *)
(* leave the operators alone.                                              *)
Outside ==
  /\ UNCHANGED <<store, copy, todo, ocp, pc>>
  /\ IsInst(inst') /\ (Covered => Covered') /\ status' \in {status, NoStatus}

OthersStay(o) ==
  \A p \in Operators \ {o} :
    todo'[p] = todo[p] /\ copy'[p] = copy[p] /\ ocp'[p] = ocp[p] /\ pc'[p] = pc[p]

Keeps == DOMAIN todo' = Operators /\ DOMAIN copy' = Operators /\ DOMAIN ocp' = Operators
         /\ pc' \in [Operators -> PCs] /\ DOMAIN store' = Kinds

(* An operator lists, begins, reads the Lease, returns, fails or restarts.  *)
Turn(o) ==
  /\ OthersStay(o) /\ Keeps /\ UNCHANGED <<inst, status, store>>
  /\ todo'[o] = <<>> /\ pc'[o] \notin Working /\ (pc'[o] # "idle" => copy'[o].exists)
  /\ \/ copy'[o] = NoCopy
     \/ copy'[o] = copy[o] /\ pc[o] \notin Working
     \/ copy'[o] = inst /\ inst.exists
  /\ ocp'[o] = ocp[o] \/ ocp'[o] \in ProbeAnswers

Claims(o) ==
  /\ OthersStay(o) /\ Keeps /\ UNCHANGED <<inst, status, store, copy, ocp>>
  /\ pc[o] \in Claiming /\ pc'[o] = "held"
  /\ todo'[o] = ReconcileCalls(copy[o], ocp[o])

(* The first of the calls that are left, call, is made.                    *)
Makes(o, call) ==
  /\ OthersStay(o) /\ Keeps /\ UNCHANGED <<copy, ocp>>
  /\ pc[o] \in Working /\ todo[o] # <<>> /\ Head(todo[o]) = call

StoreChanges(o) ==
  \E k \in Kinds :
    /\ Makes(o, Apply(k)) \/ Makes(o, Delete(k))
    /\ UNCHANGED <<inst, status, pc>> /\ todo'[o] = Tail(todo[o])
    /\ \A l \in Kinds \ {k} : store'[l] = store[l]
    /\ Makes(o, Delete(k)) => store'[k] = Absent
    /\ Makes(o, Apply("Deployment")) => store'["Deployment"] = copy[o].spec

Asks(o) ==
  /\ UNCHANGED <<inst, status, store, pc>>
  /\ \/ /\ Makes(o, GetKey)
        /\ todo'[o] = IF store["Secret"] = Absent THEN <<Apply("Secret")>> \o Tail(todo[o]) ELSE Tail(todo[o])
     \/ /\ Makes(o, GetInputs)
        /\ todo'[o] = Tail(todo[o]) \/ \E phase \in {"Failed", "Degraded"} : todo'[o] = <<Status(phase)>>

LeaseGoes(o) ==
  /\ Makes(o, Delete("Lease")) /\ pc'[o] = "released" /\ todo'[o] = Tail(todo[o])
  /\ UNCHANGED <<inst, status, store>>

Reports(o) ==
  \E phase \in Phases, p \in Phases :
    /\ Makes(o, Status(phase)) /\ UNCHANGED <<inst, store, pc>> /\ todo'[o] = Tail(todo[o])
    /\ status' = [phase |-> p, observed |-> copy[o].spec]
    /\ p \in {"Running", "Pending"} => phase \in {"Running", "Pending"}

Patches(o) ==
  /\ UNCHANGED <<store, pc>> /\ todo'[o] = Tail(todo[o]) /\ status' \in {status, NoStatus} /\ IsInst(inst')
  /\ Makes(o, Remove) \/ (Makes(o, Add) /\ Covered')

LEMMA OutsideSteps ==
  ASSUME TodoInv, Environment \/ Time \/ UNCHANGED vars PROVE Outside
<1> USE DEF Outside
<1>0. IsInst(inst)
  BY DEF TodoInv, IsInst
<1>1. CASE Time \/ UNCHANGED vars
  BY <1>0, <1>1 DEF Time, Tick, vars, leaseVars, bodyVars, Covered
<1>2. ASSUME NEW s \in Specs, Create(s) PROVE Outside
  BY <1>0, <1>2 DEF Create, Change, leaseVars, Covered, IsInst
<1>3. ASSUME NEW s \in Specs, Edit(s) PROVE Outside
  BY <1>0, <1>3 DEF Edit, Change, leaseVars, Covered, IsInst
<1>4. CASE DeleteInstance
  BY <1>0, <1>4 DEF DeleteInstance, Change, leaseVars, Covered, IsInst
<1>5. CASE OtherFinalizerOn
  BY <1>0, <1>5 DEF OtherFinalizerOn, Change, leaseVars, Covered, IsInst
<1>6. CASE OtherFinalizerOff
  <2>1. Ours # Other
    BY DEF Ours, Other
  <2> QED
    BY <1>0, <1>6, <2>1 DEF OtherFinalizerOff, leaseVars, Covered, IsInst
<1> QED
  BY <1>1, <1>2, <1>3, <1>4, <1>5, <1>6 DEF Environment

LEMMA LoopSteps ==
  ASSUME TodoInv, NEW o \in Operators, Loop(o) \/ Fail(o) \/ Restart(o)
  PROVE  Turn(o) \/ Claims(o)
<1> USE DEF TodoInv, OthersStay, Keeps, PCs, Claiming, Working
<1>1. CASE List(o)
  BY <1>1 DEF List, leaseVars, Turn
<1>2. CASE StartReconcile(o)
  BY <1>2 DEF StartReconcile, Begin, bodyVars, Turn
<1>3. CASE GetLease(o)
  BY <1>3 DEF GetLease, ReadLease, bodyVars, Turn
<1>4. CASE Claim(o)
  BY <1>4 DEF Claim, PostLease, PutLease, Claims
<1>5. CASE Leave(o)
  BY <1>5 DEF Leave, Stop, Turn
<1>6. CASE Restart(o)
  BY <1>6 DEF Restart, leaseVars, Turn
<1> QED
  BY <1>1, <1>2, <1>3, <1>4, <1>5, <1>6 DEF Loop, Return, Fail

(* A call that changes nothing but the rest of the calls.                  *)
LEMMA ThenTail ==
  ASSUME TodoInv, NEW o \in Operators, todo[o] # <<>>, Then(o, <<>>)
  PROVE  /\ todo'[o] = Tail(todo[o]) /\ DOMAIN todo' = Operators
         /\ \A p \in Operators \ {o} : todo'[p] = todo[p]
<1>1. Tail(todo[o]) \in Seq(Calls)
  BY ShapeOfTail DEF TodoInv, Shape
<1>2. <<>> \o Tail(todo[o]) = Tail(todo[o])
  BY <1>1
<1> QED
  BY <1>2 DEF Then, TodoInv

LEMMA CallSteps ==
  ASSUME TodoInv, NEW o \in Operators, Call(o) \/ InputsUnusable(o)
  PROVE  StoreChanges(o) \/ Asks(o) \/ LeaseGoes(o) \/ Reports(o) \/ Patches(o)
<1>0. /\ pc \in [Operators -> PCs] /\ DOMAIN todo = Operators /\ DOMAIN copy = Operators
      /\ DOMAIN ocp = Operators /\ DOMAIN store = Kinds /\ IsInst(inst)
  BY DEF TodoInv, IsInst
<1>1. ASSUME NEW k \in Kinds, ApplyObject(o, k) PROVE StoreChanges(o)
  <2>1. /\ pc[o] \in Working /\ todo[o] # <<>> /\ Head(todo[o]) = Apply(k)
        /\ UNCHANGED <<leaseVars, instVars, copy, ocp>> /\ Then(o, <<>>)
        /\ \E content : store' = [store EXCEPT ![k] = content] /\ (k = "Deployment" => content = copy[o].spec)
    BY <1>1 DEF ApplyObject, Due
  <2>2. Makes(o, Apply(k))
    BY <1>0, <2>1, ThenTail DEF Makes, OthersStay, Keeps, leaseVars
  <2>3. /\ ~Makes(o, Delete(k)) /\ todo'[o] = Tail(todo[o]) /\ (Makes(o, Apply("Deployment")) => k = "Deployment")
    BY <2>1, ThenTail, CallsDiffer DEF Makes
  <2>4. "Deployment" \in Kinds
    BY DEF Kinds
  <2> QED
    BY <1>0, <2>1, <2>2, <2>3, <2>4 DEF StoreChanges, leaseVars, instVars
<1>2. ASSUME NEW k \in Kinds, DeleteObject(o, k) PROVE StoreChanges(o)
  <2>1. /\ pc[o] \in Working /\ todo[o] # <<>> /\ Head(todo[o]) = Delete(k)
        /\ UNCHANGED <<leaseVars, instVars, copy, ocp>> /\ Then(o, <<>>)
        /\ store' = [store EXCEPT ![k] = Absent]
    BY <1>2 DEF DeleteObject, Due
  <2>2. Makes(o, Delete(k))
    BY <1>0, <2>1, ThenTail DEF Makes, OthersStay, Keeps, leaseVars
  <2>3. ~Makes(o, Apply("Deployment")) /\ todo'[o] = Tail(todo[o])
    BY <2>1, ThenTail, CallsDiffer DEF Makes
  <2> QED
    BY <1>0, <2>1, <2>2, <2>3 DEF StoreChanges, leaseVars, instVars
<1>3. CASE DeleteLease(o)
  <2>1. /\ todo[o] # <<>> /\ Head(todo[o]) = Delete("Lease") /\ pc[o] = "held" /\ Then(o, <<>>)
        /\ pc' = [pc EXCEPT ![o] = "released"] /\ UNCHANGED <<instVars, store, copy, ocp>>
    BY <1>3 DEF DeleteLease, Due, Release
  <2> QED
    BY <1>0, <2>1, ThenTail DEF LeaseGoes, Makes, OthersStay, Keeps, instVars, PCs, Working
<1>4. CASE GetSecret(o)
  <2>1. /\ pc[o] \in Working /\ todo[o] # <<>> /\ Head(todo[o]) = GetKey
        /\ UNCHANGED <<leaseVars, instVars, store, copy, ocp>>
        /\ Then(o, IF store["Secret"] = Absent THEN <<Apply("Secret")>> ELSE <<>>)
    BY <1>4 DEF GetSecret, Due, GetKey
  <2>2. CASE store["Secret"] = Absent
    BY <1>0, <2>1, <2>2 DEF Then, Asks, Makes, OthersStay, Keeps, leaseVars, instVars
  <2>3. CASE store["Secret"] # Absent
    BY <1>0, <2>1, <2>3, ThenTail DEF Asks, Makes, OthersStay, Keeps, leaseVars, instVars
  <2> QED
    BY <2>2, <2>3
<1>5. CASE InputsUsable(o)
  <2>1. /\ pc[o] \in Working /\ todo[o] # <<>> /\ Head(todo[o]) = GetInputs
        /\ UNCHANGED <<leaseVars, instVars, store, copy, ocp>> /\ Then(o, <<>>)
    BY <1>5 DEF InputsUsable, Due, GetInputs
  <2> QED
    BY <1>0, <2>1, ThenTail DEF Asks, Makes, OthersStay, Keeps, leaseVars, instVars
<1>6. CASE InputsUnusable(o)
  <2>1. /\ pc[o] \in Working /\ todo[o] # <<>> /\ Head(todo[o]) = GetInputs
        /\ UNCHANGED <<leaseVars, instVars, store, copy, ocp>>
        /\ \E phase \in {"Failed", "Degraded"} : todo' = [todo EXCEPT ![o] = <<Status(phase)>>]
    BY <1>6 DEF InputsUnusable, Due, GetInputs, Status
  <2> QED
    BY <1>0, <2>1 DEF Asks, Makes, OthersStay, Keeps, leaseVars, instVars
<1>7. ASSUME NEW phase \in Phases, WriteStatus(o, phase) PROVE Reports(o)
  <2>1. /\ pc[o] \in Working /\ todo[o] # <<>> /\ Head(todo[o]) = Status(phase)
        /\ UNCHANGED <<leaseVars, inst, store, copy, ocp>> /\ Then(o, <<>>)
        /\ \E p \in IF phase = "Running" THEN {"Running", "Pending"} ELSE {phase} :
             status' = [phase |-> p, observed |-> copy[o].spec]
    BY <1>7 DEF WriteStatus, Due, Status
  <2>2. Makes(o, Status(phase)) /\ todo'[o] = Tail(todo[o])
    BY <1>0, <2>1, ThenTail DEF Makes, OthersStay, Keeps, leaseVars
  <2> QED
    BY <1>0, <2>1, <2>2 DEF Reports, leaseVars, Phases
<1>8. ASSUME NEW call \in {Add, Remove}, PatchFinalizers(o, call) PROVE Patches(o)
  <2>1. /\ pc[o] \in Working /\ todo[o] # <<>> /\ Head(todo[o]) = call
        /\ UNCHANGED <<leaseVars, store, copy, ocp>> /\ Then(o, <<>>) /\ ~Denied(o)
        /\ IF inst.deleting /\ Finalizers(o, call) = {}
           THEN /\ inst' = [inst EXCEPT !.exists = FALSE, !.deleting = FALSE, !.fin = {}]
                /\ status' = NoStatus
           ELSE inst' = [inst EXCEPT !.fin = Finalizers(o, call)] /\ UNCHANGED status
    BY <1>8 DEF PatchFinalizers, Due
  <2>2. Makes(o, call) /\ todo'[o] = Tail(todo[o])
    BY <1>0, <2>1, ThenTail DEF Makes, OthersStay, Keeps, leaseVars
  <2>3. IsInst(inst') /\ status' \in {status, NoStatus}
    BY <1>0, <2>1 DEF IsInst
  <2>4. ASSUME call = Add PROVE Covered'
    <3>1. inst.exists
      <4>1. <<"patch", "add finalizer">>[1] = "patch"
        OBVIOUS
      <4>2. Head(todo[o]) = <<"patch", "add finalizer">>
        BY <2>1, <2>4 DEF Add, Patch
      <4>3. Head(todo[o])[1] = "patch"
        BY <4>1, <4>2
      <4> QED
        BY <2>1, <4>3 DEF Denied
    <3>2. Ours \in Finalizers(o, call)
      <4>1. call = Patch("add finalizer") /\ call # Patch("remove finalizer")
        BY <2>4 DEF Add, Patch
      <4>2. Finalizers(o, call) = copy[o].fin \cup {Ours}
        BY <4>1 DEF Finalizers
      <4> QED
        BY <4>2
    <3> QED
      BY <1>0, <2>1, <3>1, <3>2 DEF Covered, IsInst
  <2> QED
    BY <2>1, <2>2, <2>3, <2>4 DEF Patches, leaseVars
<1> QED
  BY <1>1, <1>2, <1>3, <1>4, <1>5, <1>6, <1>7, <1>8 DEF Call, AddFinalizer, RemoveFinalizer, Add, Remove

LEMMA Steps ==
  ASSUME TodoInv, [Next]_vars
  PROVE  \/ Outside
         \/ \E o \in Operators : \/ Turn(o) \/ Claims(o)
                               \/ StoreChanges(o) \/ Asks(o) \/ LeaseGoes(o) \/ Reports(o) \/ Patches(o)
  BY OutsideSteps, LoopSteps, CallSteps DEF Next

LEMMA NothingLeftToDo == \A isOCP : Shape(<<>>, isOCP) /\ \A call : ~Occurs(call, <<>>)
  BY DEF Shape, Occurs

(* The calls that are left keep their shape, whatever an answer adds.      *)
OneTodo(s, at, isOCP) ==
  /\ Shape(s, isOCP)
  /\ at \notin Working => s = <<>>
  /\ at = "released" => \A i \in 1..Len(s) : s[i] = Remove

LEMMA OneTodoStays ==
  ASSUME TodoInv, NEW o \in Operators,
         \/ Turn(o) \/ Claims(o) \/ StoreChanges(o) \/ Asks(o) \/ LeaseGoes(o) \/ Reports(o) \/ Patches(o)
  PROVE  OneTodo(todo'[o], pc'[o], ocp'[o]) /\ OthersStay(o) /\ Keeps /\ IsInst(inst')
         /\ (pc'[o] # "idle" => copy'[o].exists)
<1>0. /\ Shape(todo[o], ocp[o]) /\ IsInst(inst)
      /\ pc[o] = "released" => \A i \in 1..Len(todo[o]) : todo[o][i] = Remove
      /\ pc[o] # "idle" => copy[o].exists
  BY DEF TodoInv, IsInst
<1>1. CASE Turn(o)
  BY <1>0, <1>1, NothingLeftToDo DEF Turn, OneTodo, IsInst, Working
<1>2. CASE Claims(o)
  <2>1. Shape(todo'[o], ocp'[o])
    BY <1>2, CallsArePlanned DEF Claims, Plan
  <2> QED
    BY <1>0, <1>2, <2>1 DEF Claims, OneTodo, IsInst, Working, Claiming
<1>3. ASSUME NEW call, Makes(o, call), todo'[o] = Tail(todo[o]), pc'[o] = pc[o]
      PROVE  OneTodo(todo'[o], pc'[o], ocp'[o])
  <2>1. /\ Shape(todo'[o], ocp'[o]) /\ pc'[o] \in Working
        /\ Len(Tail(todo[o])) = Len(todo[o]) - 1 /\ Len(todo[o]) \in Nat
        /\ \A i \in 1..Len(Tail(todo[o])) : Tail(todo[o])[i] = todo[o][i + 1]
    <3>1. todo[o] # <<>> /\ ocp'[o] = ocp[o] /\ pc[o] \in Working
      BY <1>3 DEF Makes
    <3>2. Shape(todo'[o], ocp'[o])
      BY <1>0, <1>3, <3>1, ShapeOfTail
    <3>3. todo[o] \in Seq(Calls)
      BY <1>0 DEF Shape
    <3> QED
      BY <1>3, <3>1, <3>2, <3>3
  <2>2. pc[o] = "released" => \A i \in 1..Len(todo'[o]) : todo'[o][i] = Remove
    BY <1>0, <1>3, <2>1
  <2> QED
    BY <1>3, <2>1, <2>2 DEF OneTodo
<1>4. CASE StoreChanges(o)
  BY <1>0, <1>3, <1>4 DEF StoreChanges, Makes, IsInst
<1>5. CASE Asks(o)
  <2>1. CASE todo'[o] = Tail(todo[o])
    BY <1>0, <1>3, <1>5, <2>1 DEF Asks, Makes, IsInst
  <2>2. ASSUME \/ Makes(o, GetKey) /\ todo'[o] = <<Apply("Secret")>> \o Tail(todo[o])
               \/ \E phase \in {"Failed", "Degraded"} : Makes(o, GetInputs) /\ todo'[o] = <<Status(phase)>>
        PROVE  OneTodo(todo'[o], pc'[o], ocp'[o])
    <3>1. pc'[o] \in Working /\ pc'[o] = pc[o] /\ ocp'[o] = ocp[o] /\ todo[o] # <<>>
          /\ Head(todo[o]) \in {GetKey, GetInputs}
      BY <1>5, <2>2 DEF Asks, Makes
    <3>2. Shape(todo'[o], ocp'[o])
      <4>1. CASE Makes(o, GetKey) /\ todo'[o] = <<Apply("Secret")>> \o Tail(todo[o])
        <5>1. Head(todo[o]) = GetKey
          BY <4>1 DEF Makes
        <5> QED
          BY <1>0, <3>1, <4>1, <5>1, ShapeOfKey
      <4>2. CASE \E phase \in {"Failed", "Degraded"} : todo'[o] = <<Status(phase)>>
        BY <3>1, <4>2, ShapeOfStatus
      <4> QED
        BY <2>2, <4>1, <4>2
    <3>3. pc[o] # "released"
      <4>1. todo[o] \in Seq(Calls) /\ Len(todo[o]) > 0 /\ Head(todo[o]) = todo[o][1]
        BY <1>0, <3>1 DEF Shape
      <4>2. Head(todo[o]) # Remove
        BY <3>1, CallsDiffer
      <4>3. Len(todo[o]) \in Nat /\ 1 \in 1..Len(todo[o])
        BY <4>1
      <4> QED
        BY <1>0, <4>1, <4>2, <4>3
    <3> QED
      BY <3>1, <3>2, <3>3 DEF OneTodo
  <2> QED
    BY <1>0, <1>5, <2>1, <2>2 DEF Asks, Makes, IsInst
<1>6. CASE LeaseGoes(o)
  <2>1. \A i \in 1..Len(todo'[o]) : todo'[o][i] = Remove
    BY <1>0, <1>6, ShapeOfTail, ZenonT(40) DEF LeaseGoes, Makes
  <2>2. Shape(todo'[o], ocp'[o])
    BY <1>0, <1>6, ShapeOfTail DEF LeaseGoes, Makes
  <2> QED
    BY <1>0, <1>6, <2>1, <2>2 DEF LeaseGoes, Makes, OneTodo, Working, IsInst
<1>7. CASE Reports(o)
  BY <1>0, <1>3, <1>7 DEF Reports, Makes, IsInst
<1>8. CASE Patches(o)
  BY <1>0, <1>3, <1>8 DEF Patches, Makes
<1> QED
  BY <1>1, <1>2, <1>4, <1>5, <1>6, <1>7, <1>8

LEMMA TodoStarts == Init => TodoInv
<1> SUFFICES ASSUME Init PROVE TodoInv
  OBVIOUS
<1>1. /\ pc = [o \in Operators |-> "idle"] /\ todo = [o \in Operators |-> <<>>]
      /\ DOMAIN copy = Operators /\ DOMAIN ocp = Operators /\ DOMAIN store = Kinds
  BY DEF Init, LeaseInit
<1>2. inst = [exists |-> inst.exists, deleting |-> inst.deleting, fin |-> inst.fin, spec |-> inst.spec]
  BY DEF Init
<1> QED
  BY <1>1, <1>2, NothingLeftToDo DEF TodoInv, PCs, Working

LEMMA TodoStays == TodoInv /\ [Next]_vars => TodoInv'
<1> SUFFICES ASSUME TodoInv, [Next]_vars PROVE TodoInv'
  OBVIOUS
<1>1. CASE Outside
  BY <1>1 DEF Outside, TodoInv, IsInst
<1>2. ASSUME NEW o \in Operators,
             \/ Turn(o) \/ Claims(o) \/ StoreChanges(o) \/ Asks(o) \/ LeaseGoes(o) \/ Reports(o) \/ Patches(o)
      PROVE  TodoInv'
  <2>1. /\ OneTodo(todo'[o], pc'[o], ocp'[o]) /\ OthersStay(o) /\ Keeps /\ IsInst(inst')
        /\ pc'[o] # "idle" => copy'[o].exists
    BY <1>2, OneTodoStays
  <2> QED
    BY <2>1 DEF TodoInv, OneTodo, OthersStay, Keeps, IsInst
<1> QED
  BY <1>1, <1>2, Steps

----------------------------------------------------------------------------
(***************************************************************************)
(* One operator, on a cluster that answers its probe in one way.           *)
(*                                                                         *)
(* Past the registration of the finalizer the instance carries it, and so  *)
(* it does as long as a copy that carries it is not reconciled; a cleanup  *)
(* has still to delete what is stored; without OpenShift no object of an   *)
(* OpenShift kind is.                                                      *)
(***************************************************************************)
CoverInv ==
  /\ FinalizerCoversObjects
  /\ \A o \in Operators :
       /\ ocp[o] \in ProbeAnswers
       /\ todo[o] # <<>> /\ Head(todo[o]) # Add => Covered
       /\ copy[o].exists /\ Ours \in copy[o].fin /\ (pc[o] \in Working => todo[o] # <<>>) => Covered
       /\ Occurs(Remove, todo[o]) => \A k \in Kinds : store[k] = Absent \/ Occurs(Delete(k), todo[o])
       /\ ~ocp[o] => \A k \in OpenShiftKinds : store[k] = Absent

LEMMA CoverStarts == Init => CoverInv
<1> SUFFICES ASSUME Init PROVE CoverInv
  OBVIOUS
<1>1. /\ store = [k \in Kinds |-> Absent] /\ todo = [o \in Operators |-> <<>>]
      /\ copy = [o \in Operators |-> NoCopy] /\ ocp \in [Operators -> ProbeAnswers]
      /\ OpenShiftKinds \subseteq Kinds /\ ~NoCopy.exists
  BY DEF Init, Kinds, NoCopy
<1> QED
  BY <1>1, NothingLeftToDo DEF CoverInv, FinalizerCoversObjects

LEMMA CoverStays ==
  ASSUME \A a, b \in Operators : a = b,
         \A x, y \in ProbeAnswers : x = y,
         TodoInv, CoverInv, [Next]_vars
  PROVE  CoverInv'
<1>1. CASE Outside
  BY <1>1 DEF Outside, CoverInv, FinalizerCoversObjects, Covered
<1>2. ASSUME NEW o \in Operators,
             \/ Turn(o) \/ Claims(o) \/ StoreChanges(o) \/ Asks(o) \/ LeaseGoes(o) \/ Reports(o) \/ Patches(o)
      PROVE  CoverInv'
  <2>0. /\ Operators = {o} /\ Shape(todo[o], ocp[o]) /\ ocp[o] \in ProbeAnswers
        /\ \A k \in Kinds : store[k] # Absent => Covered
        /\ todo[o] # <<>> /\ Head(todo[o]) # Add => Covered
        /\ copy[o].exists /\ Ours \in copy[o].fin /\ (pc[o] \in Working => todo[o] # <<>>) => Covered
        /\ Occurs(Remove, todo[o]) => \A k \in Kinds : store[k] = Absent \/ Occurs(Delete(k), todo[o])
        /\ ~ocp[o] => \A k \in OpenShiftKinds : store[k] = Absent
    BY DEF CoverInv, TodoInv, FinalizerCoversObjects, Covered
  <2>1. SUFFICES ASSUME TRUE
                 PROVE  /\ ocp'[o] \in ProbeAnswers
                        /\ \A k \in Kinds : store'[k] # Absent => Covered'
                        /\ todo'[o] # <<>> /\ Head(todo'[o]) # Add => Covered'
                        /\ copy'[o].exists /\ Ours \in copy'[o].fin /\ (pc'[o] \in Working => todo'[o] # <<>>)
                             => Covered'
                        /\ Occurs(Remove, todo'[o]) =>
                             \A k \in Kinds : store'[k] = Absent \/ Occurs(Delete(k), todo'[o])
                        /\ ~ocp'[o] => \A k \in OpenShiftKinds : store'[k] = Absent
    BY <2>0 DEF CoverInv, FinalizerCoversObjects, Covered
  <2>a. ASSUME todo[o] # <<>>
        PROVE  /\ \A call : Occurs(call, todo[o]) <=> call = Head(todo[o]) \/ Occurs(call, Tail(todo[o]))
               /\ Head(todo[o]) = Remove => Tail(todo[o]) = <<>>
    <3>1. Shape(todo[o], ocp[o])
      BY <2>0
    <3> QED
      BY <2>a, <3>1, ShapeOfTail
  <2>2. CASE Turn(o)
    <3>1. inst' = inst /\ store' = store /\ todo'[o] = <<>> /\ pc'[o] \notin Working
          /\ ocp'[o] = ocp[o]
      BY <2>0, <2>2 DEF Turn
    <3>2. Covered' = Covered
      BY <3>1 DEF Covered
    <3>3. copy'[o].exists /\ Ours \in copy'[o].fin => Covered
      BY <2>0, <2>2 DEF Turn, NoCopy, Covered
    <3> QED
      BY <2>0, <3>1, <3>2, <3>3, NothingLeftToDo
  <2>3. CASE Claims(o)
    <3>1. /\ inst' = inst /\ store' = store /\ copy' = copy /\ ocp' = ocp
          /\ pc[o] \notin Working /\ copy[o].exists /\ Plan(todo'[o], copy[o], ocp[o])
      BY <2>3, CallsArePlanned DEF Claims, TodoInv, Claiming, Working
    <3>2. Covered' = Covered
      BY <3>1 DEF Covered
    <3>3. Ours \in copy[o].fin => Covered
      BY <2>0, <3>1
    <3> QED
      BY <2>0, <3>1, <3>2, <3>3 DEF Plan
  <2>4. ASSUME NEW call, Makes(o, call), call # Add, inst' = inst, todo'[o] = Tail(todo[o]),
               \A k \in Kinds : store'[k] = Absent \/ (store'[k] = store[k] /\ call # Delete(k))
        PROVE  /\ ocp'[o] \in ProbeAnswers
               /\ \A k \in Kinds : store'[k] # Absent => Covered'
               /\ todo'[o] # <<>> /\ Head(todo'[o]) # Add => Covered'
               /\ copy'[o].exists /\ Ours \in copy'[o].fin /\ (pc'[o] \in Working => todo'[o] # <<>>) => Covered'
               /\ Occurs(Remove, todo'[o]) =>
                    \A k \in Kinds : store'[k] = Absent \/ Occurs(Delete(k), todo'[o])
               /\ ~ocp'[o] => \A k \in OpenShiftKinds : store'[k] = Absent
    <3>1. todo[o] # <<>> /\ Head(todo[o]) = call /\ ocp' = ocp /\ copy' = copy
      BY <2>4 DEF Makes
    <3>2. Covered'
      BY <2>0, <2>4, <3>1 DEF Covered
    <3>3. \A k \in Kinds : Occurs(Delete(k), todo[o]) => call = Delete(k) \/ Occurs(Delete(k), todo'[o])
      BY <2>a, <2>4, <3>1
    <3>4. Occurs(Remove, todo'[o]) => Occurs(Remove, todo[o])
      BY <2>a, <2>4, <3>1
    <3>5. OpenShiftKinds \subseteq Kinds
      BY DEF Kinds
    <3> QED
      BY <2>0, <2>4, <3>1, <3>2, <3>3, <3>4, <3>5
  <2>5. CASE StoreChanges(o)
    <3>1. PICK k \in Kinds :
            /\ Makes(o, Apply(k)) \/ Makes(o, Delete(k))
            /\ inst' = inst /\ todo'[o] = Tail(todo[o])
            /\ \A l \in Kinds \ {k} : store'[l] = store[l]
            /\ Makes(o, Delete(k)) => store'[k] = Absent
      BY <2>5 DEF StoreChanges
    <3>2. CASE Makes(o, Delete(k))
      <4>1. \A l \in Kinds : store'[l] = Absent \/ (store'[l] = store[l] /\ Delete(k) # Delete(l))
        BY <3>1, <3>2, CallsDiffer
      <4> QED
        BY <2>4, <3>1, <3>2, <4>1, CallsDiffer
    <3>3. CASE Makes(o, Apply(k))
      <4>1. todo[o] # <<>> /\ Head(todo[o]) = Apply(k) /\ ocp' = ocp /\ copy' = copy
        BY <3>3 DEF Makes
      <4>2. Covered'
        BY <2>0, <3>1, <4>1, CallsDiffer DEF Covered
      <4>3. ~Occurs(Remove, todo'[o])
        <5>1. Occurs(Remove, todo'[o]) => Cleaning(todo[o]) /\ Occurs(Apply(k), todo[o])
          BY <2>0, <2>a, <3>1, <4>1 DEF Shape
        <5>2. Apply(k) \notin Deletions \cup {Delete("Lease"), Remove}
          BY CallsDiffer DEF Deletions
        <5> QED
          BY <5>1, <5>2 DEF Cleaning, Occurs
      <4>4. ~ocp[o] => k \notin OpenShiftKinds
        <5>1. Occurs(Apply(k), todo[o])
          BY <2>a, <4>1
        <5>2. \A i \in 1..Len(todo[o]) : InPlace(todo[o], i, ocp[o])
          BY <2>0 DEF Shape
        <5>3. ~ocp[o] => Apply(k) \notin {Apply(l) : l \in OpenShiftKinds}
          <6>1. PICK i \in 1..Len(todo[o]) : todo[o][i] = Apply(k)
            BY <5>1 DEF Occurs
          <6> QED
            BY <5>2, <6>1 DEF InPlace
        <5> QED
          BY <5>3
      <4>5. OpenShiftKinds \subseteq Kinds
        BY DEF Kinds
      <4> QED
        BY <2>0, <3>1, <4>1, <4>2, <4>3, <4>4, <4>5
    <3> QED
      BY <3>1, <3>2, <3>3
  <2>6. CASE Asks(o)
    <3>1. inst' = inst /\ store' = store /\ ocp' = ocp /\ copy' = copy /\ todo[o] # <<>>
          /\ Head(todo[o]) \in {GetKey, GetInputs}
      BY <2>6 DEF Asks, Makes
    <3>2. Covered'
      BY <2>0, <3>1, CallsDiffer DEF Covered
    <3>3. ~Occurs(Remove, todo[o])
      <4>1. Occurs(Remove, todo[o]) => Cleaning(todo[o]) /\ Occurs(Head(todo[o]), todo[o])
        BY <2>0, <2>a, <3>1 DEF Shape
      <4>2. Head(todo[o]) \notin Deletions \cup {Delete("Lease"), Remove}
        BY <3>1, CallsDiffer DEF Deletions
      <4> QED
        BY <4>1, <4>2 DEF Cleaning, Occurs
    <3>4. ~Occurs(Remove, todo'[o])
      <4>1. CASE todo'[o] = Tail(todo[o])
        BY <2>a, <3>1, <3>3, <4>1
      <4>2. CASE Makes(o, GetKey) /\ todo'[o] = <<Apply("Secret")>> \o Tail(todo[o])
        <5>1. Head(todo[o]) = GetKey
          BY <4>2 DEF Makes
        <5>2. Remove # Apply("Secret") /\ ~Occurs(Remove, Tail(todo[o]))
          BY <2>a, <3>1, <3>3, CallsDiffer
        <5>3. Shape(todo[o], ocp[o])
          BY <2>0
        <5> QED
          BY <3>1, <4>2, <5>1, <5>2, <5>3, ShapeOfKey, ZenonT(40)
      <4>3. CASE \E phase \in {"Failed", "Degraded"} : todo'[o] = <<Status(phase)>>
        <5>1. PICK phase \in {"Failed", "Degraded"} : todo'[o] = <<Status(phase)>>
          BY <4>3
        <5>2. phase \in Phases
          BY DEF Phases
        <5>3. \A call : Occurs(call, todo'[o]) => call = Status(phase)
          BY <5>1, ShapeOfStatus
        <5> QED
          BY <5>2, <5>3, CallsDiffer
      <4> QED
        BY <2>6, <4>1, <4>2, <4>3 DEF Asks
    <3> QED
      BY <2>0, <3>1, <3>2, <3>4
  <2>7. CASE LeaseGoes(o)
    <3>1. "Lease" \notin Kinds
      BY DEF Kinds, OpenShiftKinds
    <3>2. \A k \in Kinds : Delete("Lease") # Delete(k)
      BY <3>1, CallsDiffer
    <3> QED
      BY <2>4, <2>7, <3>2, CallsDiffer DEF LeaseGoes
  <2>8. CASE Reports(o)
    BY <2>4, <2>8, CallsDiffer, SMTT(30) DEF Reports
  <2>9. CASE Patches(o)
    <3>1. /\ store' = store /\ pc' = pc /\ todo'[o] = Tail(todo[o]) /\ todo[o] # <<>>
          /\ ocp' = ocp /\ copy' = copy /\ pc[o] \in Working
          /\ Head(todo[o]) = Remove \/ (Head(todo[o]) = Add /\ Covered')
      BY <2>9 DEF Patches, Makes
    <3>2. CASE Head(todo[o]) = Remove
      <4>1. Tail(todo[o]) = <<>> /\ Occurs(Remove, todo[o])
            /\ \A k \in Kinds : ~Occurs(Delete(k), todo[o])
        <5>1. Tail(todo[o]) = <<>> /\ Occurs(Remove, todo[o])
          BY <2>a, <3>1, <3>2
        <5>2. \A k \in Kinds : Occurs(Delete(k), todo[o]) => Delete(k) = Remove
          BY <2>a, <3>1, <3>2, <5>1, NothingLeftToDo
        <5> QED
          BY <5>1, <5>2, CallsDiffer
      <4>2. \A k \in Kinds : store[k] = Absent
        BY <2>0, <4>1
      <4>3. OpenShiftKinds \subseteq Kinds
        BY DEF Kinds
      <4> QED
        BY <2>0, <3>1, <4>1, <4>2, <4>3, NothingLeftToDo
    <3>3. CASE Head(todo[o]) = Add /\ Covered'
      <4>1. \A k \in Kinds : Occurs(Delete(k), todo[o]) => Occurs(Delete(k), todo'[o])
        BY <2>a, <3>1, <3>3, CallsDiffer
      <4>2. Occurs(Remove, todo'[o]) => Occurs(Remove, todo[o])
        BY <2>a, <3>1
      <4> QED
        BY <2>0, <3>1, <3>3, <4>1, <4>2
    <3> QED
      BY <3>1, <3>2, <3>3
  <2> QED
    BY <1>2, <2>2, <2>3, <2>5, <2>6, <2>7, <2>8, <2>9
<1> QED
  BY <1>1, <1>2, Steps

(***************************************************************************)
(* "Ensure our finalizer is registered before touching any resources"      *)
(* (controller.go:133): whatever fails, restarts and is edited meanwhile,  *)
(* as long as an object of the instance is stored the instance carries the *)
(* finalizer.  With a second operator it need not: that one's cleanup runs *)
(* between the list and the reconcile of the first.                        *)
(***************************************************************************)
THEOREM FinalizerAlwaysCovers ==
  ASSUME \A a, b \in Operators : a = b,
         \A x, y \in ProbeAnswers : x = y
  PROVE  Spec => []FinalizerCoversObjects
<1>1. TodoInv /\ CoverInv /\ [Next]_vars => CoverInv'
  BY CoverStays
<1>2. CoverInv => FinalizerCoversObjects
  BY DEF CoverInv
<1> QED
  BY <1>1, <1>2, TodoStarts, TodoStays, CoverStarts, PTL DEF Spec

(* A cleanup that has not deleted the Lease yet has still to do it.        *)
LeaseInv ==
  \A o \in Operators :
    /\ Occurs(Remove, todo[o]) => pc[o] = "released" \/ Occurs(Delete("Lease"), todo[o])
    /\ pc[o] = "released" => ~exists

LEMMA LeaseInvStarts == Init => LeaseInv
<1>1. Init => /\ \A o \in Operators : todo[o] = <<>>
              /\ \A o \in Operators : pc[o] = "idle"
  BY DEF Init, LeaseInit
<1> QED
  BY <1>1, NothingLeftToDo DEF LeaseInv

(* Nobody else takes the Lease that the only operator gave up.             *)
LEMMA ReleasedStays ==
  ASSUME \A a, b \in Operators : a = b,
         TodoInv, LeaseInv, [Next]_vars,
         NEW o \in Operators, pc'[o] = "released"
  PROVE  ~exists'
<1>1. [LeaseNext]_leaseVars /\ Operators = {o} /\ pc \in [Operators -> PCs]
      /\ (pc[o] = "released" => ~exists)
  BY StepImplementsLease DEF TodoInv, LeaseInv
<1>2. CASE UNCHANGED leaseVars
  BY <1>1, <1>2 DEF leaseVars
<1>3. CASE Tick
  BY <1>1, <1>3 DEF Tick
<1>4. CASE LeaseStep(o)
  BY <1>1, <1>4 DEF LeaseStep, Begin, ReadLease, SkipHeld, PostLease, PutLease, Release, Stop, Kill
<1> QED
  BY <1>1, <1>2, <1>3, <1>4 DEF LeaseNext

LEMMA LeaseInvStays ==
  ASSUME \A a, b \in Operators : a = b,
         TodoInv, LeaseInv, [Next]_vars
  PROVE  LeaseInv'
<1>1. CASE Outside
  <2>1. todo' = todo /\ pc' = pc
    BY <1>1 DEF Outside
  <2> QED
    BY <2>1, ReleasedStays DEF LeaseInv
<1>2. ASSUME NEW o \in Operators,
             \/ Turn(o) \/ Claims(o) \/ StoreChanges(o) \/ Asks(o) \/ LeaseGoes(o) \/ Reports(o) \/ Patches(o)
      PROVE  LeaseInv'
  <2>0. /\ Operators = {o} /\ Shape(todo[o], ocp[o])
        /\ Occurs(Remove, todo[o]) => pc[o] = "released" \/ Occurs(Delete("Lease"), todo[o])
    BY DEF LeaseInv, TodoInv
  <2>1. SUFFICES Occurs(Remove, todo'[o]) => pc'[o] = "released" \/ Occurs(Delete("Lease"), todo'[o])
    BY <2>0, ReleasedStays DEF LeaseInv
  <2>2. CASE Turn(o)
    BY <2>2, NothingLeftToDo DEF Turn
  <2>3. CASE Claims(o)
    BY <2>3, CallsArePlanned DEF Claims, Plan
  <2>a. ASSUME todo[o] # <<>>
        PROVE  \A call : Occurs(call, todo[o]) <=> call = Head(todo[o]) \/ Occurs(call, Tail(todo[o]))
    <3>1. Shape(todo[o], ocp[o])
      BY <2>0
    <3> QED
      BY <2>a, <3>1, ShapeOfTail
  <2>4. ASSUME NEW call, Makes(o, call), call # Delete("Lease"), todo'[o] = Tail(todo[o]), pc' = pc
        PROVE  Occurs(Remove, todo'[o]) => pc'[o] = "released" \/ Occurs(Delete("Lease"), todo'[o])
    BY <2>0, <2>a, <2>4 DEF Makes
  <2>5. CASE StoreChanges(o)
    <3>1. PICK k \in Kinds :
            (Makes(o, Apply(k)) \/ Makes(o, Delete(k))) /\ pc' = pc /\ todo'[o] = Tail(todo[o])
      BY <2>5 DEF StoreChanges
    <3>2. "Lease" \notin Kinds
      BY DEF Kinds, OpenShiftKinds
    <3>3. Apply(k) # Delete("Lease") /\ Delete(k) # Delete("Lease")
      BY <3>2, CallsDiffer
    <3> QED
      BY <2>4, <3>1, <3>3
  <2>6. CASE Asks(o)
    <3>1. /\ pc' = pc /\ todo[o] # <<>> /\ Head(todo[o]) \in {GetKey, GetInputs}
      BY <2>6 DEF Asks, Makes
    <3>2. ~Occurs(Remove, todo[o])
      <4>1. Occurs(Remove, todo[o]) => Cleaning(todo[o]) /\ Occurs(Head(todo[o]), todo[o])
        BY <2>0, <2>a, <3>1 DEF Shape
      <4>2. Head(todo[o]) \notin Deletions \cup {Delete("Lease"), Remove}
        BY <3>1, CallsDiffer DEF Deletions
      <4> QED
        BY <4>1, <4>2 DEF Cleaning, Occurs
    <3>3. ~Occurs(Remove, todo'[o])
      <4>1. CASE todo'[o] = Tail(todo[o])
        BY <2>a, <3>1, <3>2, <4>1
      <4>2. CASE Makes(o, GetKey) /\ todo'[o] = <<Apply("Secret")>> \o Tail(todo[o])
        <5>1. Head(todo[o]) = GetKey
          BY <4>2 DEF Makes
        <5>2. Remove # Apply("Secret") /\ ~Occurs(Remove, Tail(todo[o]))
          BY <2>a, <3>1, <3>2, CallsDiffer
        <5>3. Shape(todo[o], ocp[o])
          BY <2>0
        <5> QED
          BY <3>1, <4>2, <5>1, <5>2, <5>3, ShapeOfKey, ZenonT(40)
      <4>3. CASE \E phase \in {"Failed", "Degraded"} : todo'[o] = <<Status(phase)>>
        <5>1. PICK phase \in {"Failed", "Degraded"} : todo'[o] = <<Status(phase)>>
          BY <4>3
        <5>2. phase \in Phases
          BY DEF Phases
        <5>3. \A call : Occurs(call, todo'[o]) => call = Status(phase)
          BY <5>1, ShapeOfStatus
        <5> QED
          BY <5>2, <5>3, CallsDiffer
      <4> QED
        BY <2>6, <4>1, <4>2, <4>3 DEF Asks
    <3> QED
      BY <3>3
  <2>7. CASE LeaseGoes(o)
    BY <2>7 DEF LeaseGoes
  <2>8. CASE Reports(o)
    <3>1. PICK phase \in Phases : Makes(o, Status(phase)) /\ pc' = pc /\ todo'[o] = Tail(todo[o])
      BY <2>8 DEF Reports
    <3>2. Status(phase) # Delete("Lease")
      BY CallsDiffer
    <3> QED
      BY <2>4, <3>1, <3>2
  <2>9. CASE Patches(o)
    <3>1. PICK call \in {Add, Remove} : Makes(o, call) /\ pc' = pc /\ todo'[o] = Tail(todo[o])
      BY <2>9 DEF Patches
    <3>2. call # Delete("Lease")
      BY <3>1, CallsDiffer
    <3> QED
      BY <2>4, <3>1, <3>2
  <2> QED
    BY <1>2, <2>2, <2>3, <2>5, <2>6, <2>7, <2>8, <2>9
<1> QED
  BY <1>1, <1>2, Steps

(***************************************************************************)
(* "cleanup deletes all resources owned by a RupturaInstance then removes  *)
(* the finalizer" (controller.go:69), the Lease among them, under the same *)
(* two conditions: no step takes the finalizer off an instance of which an *)
(* object or the Lease is left.                                            *)
(***************************************************************************)
THEOREM CleanupLeavesNothing ==
  ASSUME \A a, b \in Operators : a = b,
         \A x, y \in ProbeAnswers : x = y
  PROVE  Spec => NothingLeftBehind
<1>1. ASSUME TodoInv, CoverInv, LeaseInv, [Next]_vars, Covered, ~Covered'
      PROVE  ~exists' /\ \A k \in Kinds : store'[k] = Absent
  <2>1. PICK o \in Operators : Patches(o)
    <3>1. ~Outside
      BY <1>1 DEF Outside
    <3>2. ASSUME NEW o \in Operators,
                 Turn(o) \/ Claims(o) \/ StoreChanges(o) \/ Asks(o) \/ LeaseGoes(o) \/ Reports(o)
          PROVE  FALSE
      <4>1. inst' = inst
        BY <3>2 DEF Turn, Claims, StoreChanges, Asks, LeaseGoes, Reports
      <4> QED
        BY <1>1, <4>1 DEF Covered
    <3> QED
      BY <1>1, <3>1, <3>2, Steps
  <2>2. store' = store /\ pc' = pc /\ todo[o] # <<>> /\ Head(todo[o]) = Remove
    BY <1>1, <2>1 DEF Patches, Makes
  <2>3. Shape(todo[o], ocp[o])
    BY <1>1 DEF TodoInv
  <2>4. Occurs(Remove, todo[o]) /\ \A call : Occurs(call, todo[o]) => call = Remove
    <3>1. \A call : Occurs(call, todo[o]) <=> call = Head(todo[o]) \/ Occurs(call, Tail(todo[o]))
      BY <2>2, <2>3, ShapeOfTail
    <3>2. Tail(todo[o]) = <<>>
      BY <2>2, <2>3, ShapeOfTail
    <3> QED
      BY <2>2, <3>1, <3>2, NothingLeftToDo
  <2>5. \A k : Delete(k) # Remove
    BY DEF Delete, Remove, Patch
  <2>6. \A k \in Kinds : store'[k] = Absent
    BY <1>1, <2>2, <2>4, <2>5 DEF CoverInv
  <2>7. pc'[o] = "released"
    BY <1>1, <2>2, <2>4, <2>5 DEF LeaseInv
  <2> QED
    BY <1>1, <2>6, <2>7, ReleasedStays
<1>2. TodoInv /\ CoverInv /\ LeaseInv /\ [Next]_vars
        => [Covered /\ ~Covered' => ~exists' /\ \A k \in Kinds : store'[k] = Absent]_vars
  BY <1>1
<1>3. TodoInv /\ CoverInv /\ [Next]_vars => CoverInv'
  BY CoverStays
<1>4. TodoInv /\ LeaseInv /\ [Next]_vars => LeaseInv'
  BY LeaseInvStays
<1> QED
  BY <1>2, <1>3, <1>4, TodoStarts, TodoStays, CoverStarts, LeaseInvStarts, PTL
     DEF Spec, NothingLeftBehind

----------------------------------------------------------------------------
(***************************************************************************)
(* Several operators of different namespaces, one at a time.               *)
(*                                                                         *)
(* A key is applied only as long as none is stored, and a reconcile that   *)
(* has still to report an engine has still to apply the Deployment, or     *)
(* finds the one it applied.                                               *)
(***************************************************************************)
RunOK(s, spec, objects) ==
  /\ s # <<>> /\ Head(s) = Apply("Secret") => objects["Secret"] = Absent
  /\ Occurs(Status("Running"), s) => Occurs(Apply("Deployment"), s) \/ objects["Deployment"] = spec

RunInv == \A o \in Operators : RunOK(todo[o], copy[o].spec, store)

LEMMA HeadOccurs ==
  ASSUME NEW s, NEW isOCP, Shape(s, isOCP), s # <<>> PROVE Occurs(Head(s), s)
  BY ShapeOfTail

LEMMA RunNothing == ASSUME NEW spec, NEW objects PROVE RunOK(<<>>, spec, objects)
  BY NothingLeftToDo DEF RunOK

(* A call that applies no Deployment and stores nothing.                   *)
LEMMA RunTail ==
  ASSUME NEW s, NEW isOCP, NEW spec, NEW objects, Shape(s, isOCP), s # <<>>,
         RunOK(s, spec, objects), Head(s) # Apply("Deployment")
  PROVE  RunOK(Tail(s), spec, objects)
<1>1. /\ Shape(Tail(s), isOCP) /\ ~Occurs(Apply("Secret"), Tail(s))
      /\ \A call : Occurs(call, s) <=> call = Head(s) \/ Occurs(call, Tail(s))
  BY ShapeOfTail
<1>2. Tail(s) # <<>> => Head(Tail(s)) # Apply("Secret")
  BY <1>1, HeadOccurs
<1> QED
  BY <1>1, <1>2 DEF RunOK

(* Only the operator at work has anything to apply or to report.           *)
LEMMA OthersAreDone ==
  ASSUME \A a, b \in Operators : Namespace[a] = Namespace[b] => a = b,
         TodoInv, OneOperatorAtATime,
         NEW o \in Operators, pc[o] = "held", NEW p \in Operators, p # o,
         NEW spec, NEW objects
  PROVE  RunOK(todo[p], spec, objects)
<1>1. pc[p] # "held"
  BY DEF OneOperatorAtATime
<1>2. Shape(todo[p], ocp[p]) /\ \A i \in 1..Len(todo[p]) : todo[p][i] = Remove
  <2>1. CASE pc[p] = "released"
    BY <2>1 DEF TodoInv
  <2>2. CASE pc[p] # "released"
    <3>1. todo[p] = <<>>
      BY <1>1, <2>2 DEF TodoInv, Working
    <3> QED
      BY <3>1, NothingLeftToDo
  <2> QED
    BY <2>1, <2>2
<1>3. \A call : Occurs(call, todo[p]) => call = Remove
  BY <1>2 DEF Occurs
<1>4. todo[p] # <<>> => Head(todo[p]) = Remove
  BY <1>2, <1>3, HeadOccurs
<1>5. Remove # Apply("Secret") /\ Remove # Status("Running")
  BY CallsDiffer DEF Phases
<1> QED
  BY <1>3, <1>4, <1>5 DEF RunOK

LEMMA RunStarts == Init => RunInv
<1>1. Init => \A o \in Operators : todo[o] = <<>>
  BY DEF Init
<1>2. \A spec, objects : RunOK(<<>>, spec, objects)
  BY RunNothing
<1> QED
  BY <1>1, <1>2 DEF RunInv

LEMMA RunStays ==
  ASSUME \A a, b \in Operators : Namespace[a] = Namespace[b] => a = b,
         TodoInv, OneOperatorAtATime, RunInv, [Next]_vars
  PROVE  RunInv'
<1>1. CASE Outside
  BY <1>1 DEF Outside, RunInv
<1>2. ASSUME NEW o \in Operators, OthersStay(o), store' = store,
             RunOK(todo'[o], copy'[o].spec, store)
      PROVE  RunInv'
  BY <1>2 DEF RunInv, OthersStay
<1>3. ASSUME NEW o \in Operators PROVE Shape(todo[o], ocp[o]) /\ RunOK(todo[o], copy[o].spec, store)
  BY DEF TodoInv, RunInv
<1>4. ASSUME NEW o \in Operators, NEW call, Makes(o, call), call # Apply("Deployment")
      PROVE  RunOK(Tail(todo[o]), copy'[o].spec, store)
  <2>1. todo[o] # <<>> /\ Head(todo[o]) # Apply("Deployment") /\ copy' = copy
    BY <1>4 DEF Makes
  <2> QED
    BY <1>3, <2>1, RunTail
<1>5. ASSUME NEW o \in Operators, Turn(o) PROVE RunInv'
  BY <1>2, <1>5, RunNothing DEF Turn
<1>6. ASSUME NEW o \in Operators, Claims(o) PROVE RunInv'
  <2>1. Plan(todo'[o], copy'[o], ocp[o])
    BY <1>6, CallsArePlanned DEF Claims
  <2>2. RunOK(todo'[o], copy'[o].spec, store)
    <3>1. Shape(todo'[o], ocp[o]) /\ ~Occurs(Apply("Secret"), todo'[o])
          /\ (Occurs(Status("Running"), todo'[o]) => Occurs(Apply("Deployment"), todo'[o]))
      BY <2>1 DEF Plan
    <3>2. todo'[o] # <<>> => Occurs(Head(todo'[o]), todo'[o])
      BY <3>1, HeadOccurs
    <3> QED
      BY <3>1, <3>2 DEF RunOK
  <2> QED
    BY <1>2, <1>6, <2>2 DEF Claims
<1>7. ASSUME NEW o \in Operators, StoreChanges(o) PROVE RunInv'
  <2>1. PICK k \in Kinds :
          /\ Makes(o, Apply(k)) \/ Makes(o, Delete(k))
          /\ todo'[o] = Tail(todo[o])
          /\ \A l \in Kinds \ {k} : store'[l] = store[l]
          /\ Makes(o, Apply("Deployment")) => store'["Deployment"] = copy[o].spec
    BY <1>7 DEF StoreChanges
  <2>2. /\ todo[o] # <<>> /\ Head(todo[o]) \in {Apply(k), Delete(k)} /\ pc[o] \in Working
        /\ copy' = copy /\ OthersStay(o)
    BY <2>1 DEF Makes
  <2>3. /\ Shape(Tail(todo[o]), ocp[o]) /\ ~Occurs(Apply("Secret"), Tail(todo[o]))
        /\ \A call : Occurs(call, todo[o]) <=> call = Head(todo[o]) \/ Occurs(call, Tail(todo[o]))
    BY <1>3, <2>2, ShapeOfTail
  <2>4. pc[o] = "held"
    <3>1. Occurs(Head(todo[o]), todo[o]) /\ Head(todo[o]) # Remove
      BY <2>2, <2>3, CallsDiffer
    <3>2. pc[o] # "released"
      BY <3>1 DEF TodoInv, Occurs
    <3> QED
      BY <2>2, <3>2 DEF Working
  <2>5. ASSUME NEW p \in Operators, p # o PROVE RunOK(todo'[p], copy'[p].spec, store')
    <3>1. todo'[p] = todo[p]
      BY <2>2, <2>5 DEF OthersStay
    <3> QED
      BY <2>4, <2>5, <3>1, OthersAreDone
  <2>6. RunOK(Tail(todo[o]), copy[o].spec, store')
    <3>1. Tail(todo[o]) # <<>> => Head(Tail(todo[o])) # Apply("Secret")
      BY <2>3, HeadOccurs
    <3>2. ASSUME Occurs(Status("Running"), Tail(todo[o])), ~Occurs(Apply("Deployment"), Tail(todo[o]))
          PROVE  store'["Deployment"] = copy[o].spec
      <4>1. Occurs(Status("Running"), todo[o])
        BY <2>3, <3>2
      <4>2. Head(todo[o]) # Delete("Deployment")
        BY <1>3, <2>3, <4>1 DEF Shape
      <4>3. CASE Head(todo[o]) = Apply("Deployment")
        <5>1. Makes(o, Apply("Deployment"))
          BY <2>1, <4>3 DEF Makes
        <5> QED
          BY <2>1, <5>1
      <4>4. CASE Head(todo[o]) # Apply("Deployment")
        <5>1. k # "Deployment" /\ "Deployment" \in Kinds
          BY <2>2, <4>2, <4>4 DEF Kinds
        <5>2. ~Occurs(Apply("Deployment"), todo[o])
          BY <2>3, <3>2, <4>4
        <5>3. store["Deployment"] = copy[o].spec
          BY <1>3, <4>1, <5>2 DEF RunOK
        <5> QED
          BY <2>1, <5>1, <5>3
      <4> QED
        BY <4>3, <4>4
    <3> QED
      BY <3>1, <3>2 DEF RunOK
  <2> QED
    BY <2>1, <2>2, <2>5, <2>6 DEF RunInv
<1>8. ASSUME NEW o \in Operators, Asks(o) PROVE RunInv'
  <2>1. /\ OthersStay(o) /\ store' = store /\ copy' = copy /\ todo[o] # <<>>
        /\ Makes(o, GetKey) \/ Makes(o, GetInputs)
        /\ Head(todo[o]) \in {GetKey, GetInputs}
    BY <1>8 DEF Asks, Makes
  <2>2. CASE todo'[o] = Tail(todo[o])
    <3>1. RunOK(Tail(todo[o]), copy'[o].spec, store)
      BY <1>4, <2>1, CallsDiffer
    <3> QED
      BY <1>2, <2>1, <2>2, <3>1
  <2>3. CASE Makes(o, GetKey) /\ store["Secret"] = Absent /\ todo'[o] = <<Apply("Secret")>> \o Tail(todo[o])
    <3>1. RunOK(Tail(todo[o]), copy[o].spec, store)
      BY <1>4, <2>1, CallsDiffer
    <3>2. Head(todo[o]) = GetKey
      BY <2>3 DEF Makes
    <3>3. \A call : Occurs(call, todo'[o]) <=> call = Apply("Secret") \/ Occurs(call, Tail(todo[o]))
      <4>1. Shape(todo[o], ocp[o]) /\ todo[o] # <<>>
        BY <1>3, <2>1
      <4>2. todo'[o] = <<Apply("Secret")>> \o Tail(todo[o])
        BY <2>3
      <4>3. \A call : Occurs(call, <<Apply("Secret")>> \o Tail(todo[o])) <=>
                         call = Apply("Secret") \/ Occurs(call, Tail(todo[o]))
        BY <3>2, <4>1, ShapeOfKey
      <4> QED
        BY <4>2, <4>3
    <3>4. Status("Running") # Apply("Secret")
      BY CallsDiffer DEF Phases
    <3>5. RunOK(todo'[o], copy'[o].spec, store)
      BY <2>1, <2>3, <3>1, <3>3, <3>4 DEF RunOK
    <3> QED
      BY <1>2, <2>1, <3>5
  <2>4. CASE \E phase \in {"Failed", "Degraded"} : todo'[o] = <<Status(phase)>>
    <3>1. PICK phase \in {"Failed", "Degraded"} : todo'[o] = <<Status(phase)>>
      BY <2>4
    <3>2. \A call : Occurs(call, todo'[o]) <=> call = Status(phase)
      BY <3>1, ShapeOfStatus
    <3>3. Head(todo'[o]) = Status(phase) /\ phase \in Phases
      <4>1. \A call : Head(<<call>>) = call
        OBVIOUS
      <4>2. phase \in Phases
        BY DEF Phases
      <4> QED
        BY <3>1, <4>1, <4>2
    <3>4. Status(phase) # Apply("Secret") /\ Status(phase) # Status("Running")
      BY <3>3, CallsDiffer
    <3>5. RunOK(todo'[o], copy'[o].spec, store)
      BY <3>2, <3>3, <3>4 DEF RunOK
    <3> QED
      BY <1>2, <2>1, <3>5
  <2> QED
    BY <1>8, <2>2, <2>3, <2>4 DEF Asks
<1>9. ASSUME NEW o \in Operators, NEW call, Makes(o, call), call # Apply("Deployment"),
             todo'[o] = Tail(todo[o]), store' = store
      PROVE  RunInv'
  BY <1>2, <1>4, <1>9 DEF Makes
<1>10. ASSUME NEW o \in Operators, LeaseGoes(o) \/ Reports(o) \/ Patches(o) PROVE RunInv'
  <2>1. CASE LeaseGoes(o)
    BY <1>9, <2>1, CallsDiffer DEF LeaseGoes
  <2>2. CASE Reports(o)
    BY <1>9, <2>2, CallsDiffer DEF Reports
  <2>3. CASE Patches(o)
    BY <1>9, <2>3, CallsDiffer DEF Patches
  <2> QED
    BY <1>10, <2>1, <2>2, <2>3
<1> QED
  BY <1>1, <1>5, <1>6, <1>7, <1>8, <1>10, Steps

(***************************************************************************)
(* "An existing Secret is never overwritten, so the key is stable across   *)
(* reconciles" (controller.go:580), however many operators reconcile and   *)
(* whatever their claims cross: between the GET that finds no key and the  *)
(* apply of a new one no other operator stores one.                        *)
(***************************************************************************)
THEOREM KeyIsNeverOverwritten ==
  ASSUME \A a, b \in Operators : Namespace[a] = Namespace[b] => a = b,
         ClaimLimit <= WorkLimit,
         WorkLimit <= LeaseDuration
  PROVE  Spec => KeyIsStable
<1>1. ASSUME TodoInv, RunInv, [Next]_vars,
             store["Secret"] # Absent, store'["Secret"] # Absent
      PROVE  store'["Secret"] = store["Secret"]
  <2>1. CASE \E o \in Operators : StoreChanges(o)
    <3>1. PICK o \in Operators : StoreChanges(o)
      BY <2>1
    <3>2. PICK k \in Kinds :
            /\ Makes(o, Apply(k)) \/ Makes(o, Delete(k))
            /\ \A l \in Kinds \ {k} : store'[l] = store[l]
            /\ Makes(o, Delete(k)) => store'[k] = Absent
      BY <3>1 DEF StoreChanges
    <3>3. ~(k = "Secret" /\ Makes(o, Apply(k)))
      BY <1>1 DEF Makes, RunInv, RunOK
    <3>4. "Secret" \in Kinds
      BY DEF Kinds
    <3> QED
      BY <1>1, <3>2, <3>3, <3>4
  <2>2. CASE ~\E o \in Operators : StoreChanges(o)
    <3>1. store' = store
      BY <1>1, <2>2, Steps DEF Outside, Turn, Claims, Asks, LeaseGoes, Reports, Patches
    <3> QED
      BY <3>1
  <2> QED
    BY <2>1, <2>2
<1>2. TodoInv /\ OneOperatorAtATime /\ RunInv /\ [Next]_vars => RunInv'
  BY RunStays
<1>3. Spec => []OneOperatorAtATime
  BY OneReconcilerAtATime
<1>4. TodoInv /\ RunInv /\ [Next]_vars =>
        [store["Secret"] # Absent /\ store'["Secret"] # Absent
           => store'["Secret"] = store["Secret"]]_vars
  BY <1>1
<1> QED
  BY <1>2, <1>3, <1>4, TodoStarts, TodoStays, RunStarts, PTL DEF Spec, KeyIsStable

(***************************************************************************)
(* The status that reports an engine at work tells the spec its Deployment *)
(* has: no other operator gets in between the apply and the report.        *)
(***************************************************************************)
THEOREM StatusAlwaysTells ==
  ASSUME \A a, b \in Operators : Namespace[a] = Namespace[b] => a = b,
         ClaimLimit <= WorkLimit,
         WorkLimit <= LeaseDuration
  PROVE  Spec => StatusTellsDeployment
<1>1. ASSUME TodoInv, RunInv, [Next]_vars,
             status' # status, status'.phase \in {"Running", "Pending"}
      PROVE  store["Deployment"] = status'.observed
  <2>1. status' # NoStatus
    <3>1. NoStatus.phase = ""
      BY DEF NoStatus
    <3>2. status'.phase # ""
      BY <1>1
    <3> QED
      BY <3>1, <3>2
  <2>2. PICK o \in Operators : Reports(o)
    BY <1>1, <2>1, Steps DEF Outside, Turn, Claims, StoreChanges, Asks, LeaseGoes, Patches
  <2>3. PICK phase \in {"Running", "Pending"} :
          Makes(o, Status(phase)) /\ status'.observed = copy[o].spec
    BY <1>1, <2>2 DEF Reports
  <2>4. todo[o] # <<>> /\ Head(todo[o]) = Status(phase) /\ Shape(todo[o], ocp[o])
    BY <1>1, <2>3 DEF Makes, TodoInv
  <2>5. phase = "Running"
    <3>1. Occurs(Status(phase), todo[o])
      BY <2>4, HeadOccurs
    <3>2. ~Occurs(Status("Pending"), todo[o])
      BY <2>4 DEF Shape, InPlace, Occurs
    <3> QED
      BY <3>1, <3>2
  <2>6. Occurs(Status("Running"), todo[o]) /\ ~Occurs(Apply("Deployment"), todo[o])
    <3>1. /\ Tail(todo[o]) = <<>>
          /\ \A call : Occurs(call, todo[o]) <=> call = Status("Running") \/ Occurs(call, Tail(todo[o]))
      BY <2>4, <2>5, ShapeOfTail
    <3> QED
      <4>1. \A call : Occurs(call, todo[o]) <=> call = Status("Running")
        BY <3>1, NothingLeftToDo
      <4>2. Apply("Deployment") # Status("Running")
        BY CallsDiffer
      <4> QED
        BY <4>1, <4>2
  <2> QED
    BY <1>1, <2>3, <2>6 DEF RunInv, RunOK
<1>2. TodoInv /\ OneOperatorAtATime /\ RunInv /\ [Next]_vars => RunInv'
  BY RunStays
<1>3. Spec => []OneOperatorAtATime
  BY OneReconcilerAtATime
<1>4. TodoInv /\ RunInv /\ [Next]_vars =>
        [status' # status /\ status'.phase \in {"Running", "Pending"}
           => store["Deployment"] = status'.observed]_vars
  BY <1>1
<1> QED
  BY <1>2, <1>3, <1>4, TodoStarts, TodoStays, RunStarts, PTL DEF Spec, StatusTellsDeployment

----------------------------------------------------------------------------
(***************************************************************************)
(* The inputs of an instance.                                              *)
(*                                                                         *)
(* The digest of the template never holds a value newer than the objects   *)
(* do, and an engine that runs a template started with values no older     *)
(* than its digest.  Generations only grow, so a digest of today's values  *)
(* leaves the engine nothing but those: that is why a rollout that read    *)
(* a later value than its reconcile did no harm.                           *)
(***************************************************************************)
LEMMA RulesJoined ==
  ASSUME NEW S, NEW s \in Seq(S), NEW t \in Seq(S)
  PROVE  s \o t \in Seq(S)
  OBVIOUS

LEMMA NoRules == ASSUME NEW S PROVE <<>> \in Seq(S)
  OBVIOUS

(* Every rule an input block may ask for. *)
RuleOf(volume, file, source, secretOnly) ==
  [volume |-> volume, file |-> file, source |-> source, secretOnly |-> secretOnly]
SourceAt(i, volume, file) ==
  IF volume = "otlp-tls"
  THEN CASE file = "tls.crt" -> i.otlp.cert
         [] file = "tls.key" -> i.otlp.key
         [] OTHER -> i.otlp.clientCA
  ELSE CASE file = "ca.crt" -> i.prometheus.tls.ca
         [] file = "tls.crt" -> i.prometheus.tls.cert
         [] file = "tls.key" -> i.prometheus.tls.key
         [] file = "token" -> i.prometheus.bearer
         [] file = "username" -> i.prometheus.basic.username
         [] OTHER -> i.prometheus.basic.password
OnlySecret(file) == IF file \in {"tls.key", "token", "password"} THEN TRUE ELSE FALSE
RuleAt(i, f) == RuleOf(f[1], f[2], SourceAt(i, f[1], f[2]), OnlySecret(f[2]))
AnyRule(i) == {RuleAt(i, f) : f \in Files}

LEMMA RuleIsSeq ==
  ASSUME NEW S, NEW volume, NEW file, NEW source, NEW secretOnly,
         RuleOf(volume, file, source, secretOnly) \in S
  PROVE  Rule(volume, file, source, secretOnly) \in Seq(S)
<1> DEFINE rule == RuleOf(volume, file, source, secretOnly)
<1>1. Rule(volume, file, source, secretOnly) = IF source = None THEN <<>> ELSE <<rule>>
  BY DEF Rule, RuleOf
<1> HIDE DEF rule
<1>2. <<rule>> \in Seq(S)
  BY DEF rule
<1> QED
  BY <1>1, <1>2, NoRules

LEMMA RulesAre == ASSUME NEW i PROVE RulesOf(i) \in Seq(AnyRule(i))
<1> DEFINE S == AnyRule(i)
           p == i.prometheus
           o == i.otlp
           tls == Rule("prometheus-credentials", "ca.crt", p.tls.ca, FALSE)
                  \o Rule("prometheus-credentials", "tls.crt", p.tls.cert, FALSE)
                  \o Rule("prometheus-credentials", "tls.key", p.tls.key, TRUE)
           bearer == Rule("prometheus-credentials", "token", p.bearer, TRUE)
           basic == Rule("prometheus-credentials", "username", p.basic.username, FALSE)
                    \o Rule("prometheus-credentials", "password", p.basic.password, TRUE)
           otlp == Rule("otlp-tls", "tls.crt", o.cert, FALSE) \o Rule("otlp-tls", "tls.key", o.key, TRUE)
                   \o Rule("otlp-tls", "client-ca.crt", o.clientCA, FALSE)
<1>0. /\ RuleOf("prometheus-credentials", "ca.crt", p.tls.ca, FALSE) \in S
      /\ RuleOf("prometheus-credentials", "tls.crt", p.tls.cert, FALSE) \in S
      /\ RuleOf("prometheus-credentials", "tls.key", p.tls.key, TRUE) \in S
      /\ RuleOf("prometheus-credentials", "token", p.bearer, TRUE) \in S
      /\ RuleOf("prometheus-credentials", "username", p.basic.username, FALSE) \in S
      /\ RuleOf("prometheus-credentials", "password", p.basic.password, TRUE) \in S
      /\ RuleOf("otlp-tls", "tls.crt", o.cert, FALSE) \in S
      /\ RuleOf("otlp-tls", "tls.key", o.key, TRUE) \in S
      /\ RuleOf("otlp-tls", "client-ca.crt", o.clientCA, FALSE) \in S
  <2>1. \A f \in Files : RuleAt(i, f) \in S
    BY DEF AnyRule
  <2>2. /\ RuleAt(i, <<"prometheus-credentials", "ca.crt">>) \in S
        /\ RuleAt(i, <<"prometheus-credentials", "tls.crt">>) \in S
        /\ RuleAt(i, <<"prometheus-credentials", "tls.key">>) \in S
        /\ RuleAt(i, <<"prometheus-credentials", "token">>) \in S
        /\ RuleAt(i, <<"prometheus-credentials", "username">>) \in S
        /\ RuleAt(i, <<"prometheus-credentials", "password">>) \in S
        /\ RuleAt(i, <<"otlp-tls", "tls.crt">>) \in S
        /\ RuleAt(i, <<"otlp-tls", "tls.key">>) \in S
        /\ RuleAt(i, <<"otlp-tls", "client-ca.crt">>) \in S
    BY <2>1 DEF Files
  <2> HIDE DEF S
  <2> QED
    <3>1. /\ SourceAt(i, "prometheus-credentials", "ca.crt") = p.tls.ca
          /\ SourceAt(i, "prometheus-credentials", "tls.crt") = p.tls.cert
          /\ SourceAt(i, "prometheus-credentials", "tls.key") = p.tls.key
          /\ SourceAt(i, "prometheus-credentials", "token") = p.bearer
          /\ SourceAt(i, "prometheus-credentials", "username") = p.basic.username
          /\ SourceAt(i, "prometheus-credentials", "password") = p.basic.password
      BY DEF SourceAt
    <3>2. /\ SourceAt(i, "otlp-tls", "tls.crt") = o.cert
          /\ SourceAt(i, "otlp-tls", "tls.key") = o.key
          /\ SourceAt(i, "otlp-tls", "client-ca.crt") = o.clientCA
      BY DEF SourceAt
    <3>3. /\ OnlySecret("tls.key") = TRUE /\ OnlySecret("token") = TRUE /\ OnlySecret("password") = TRUE
          /\ OnlySecret("ca.crt") = FALSE /\ OnlySecret("tls.crt") = FALSE
          /\ OnlySecret("username") = FALSE /\ OnlySecret("client-ca.crt") = FALSE
      BY DEF OnlySecret
    <3>4. \A volume, file : RuleAt(i, <<volume, file>>) =
                             RuleOf(volume, file, SourceAt(i, volume, file), OnlySecret(file))
      BY DEF RuleAt
    <3> HIDE DEF p, o
    <3> QED
      BY <2>2, <3>1, <3>2, <3>3, <3>4
<1> HIDE DEF S, p, o
<1>1. /\ Rule("prometheus-credentials", "ca.crt", p.tls.ca, FALSE) \in Seq(S)
      /\ Rule("prometheus-credentials", "tls.crt", p.tls.cert, FALSE) \in Seq(S)
      /\ Rule("prometheus-credentials", "tls.key", p.tls.key, TRUE) \in Seq(S)
  BY Zenon, <1>0, RuleIsSeq
<1>2. /\ Rule("prometheus-credentials", "token", p.bearer, TRUE) \in Seq(S)
      /\ Rule("prometheus-credentials", "username", p.basic.username, FALSE) \in Seq(S)
      /\ Rule("prometheus-credentials", "password", p.basic.password, TRUE) \in Seq(S)
  BY Zenon, <1>0, RuleIsSeq
<1>3. /\ Rule("otlp-tls", "tls.crt", o.cert, FALSE) \in Seq(S)
      /\ Rule("otlp-tls", "tls.key", o.key, TRUE) \in Seq(S)
      /\ Rule("otlp-tls", "client-ca.crt", o.clientCA, FALSE) \in Seq(S)
  BY Zenon, <1>0, RuleIsSeq
<1>4. tls \in Seq(S) /\ bearer \in Seq(S) /\ basic \in Seq(S) /\ otlp \in Seq(S)
  BY <1>1, <1>2, <1>3, RulesJoined
<1>5. PrometheusRules(p) = (IF p.tls = None THEN <<>> ELSE tls) \o (IF p.bearer = None THEN <<>> ELSE bearer)
                             \o (IF p.basic = None THEN <<>> ELSE basic)
  BY Zenon DEF PrometheusRules
<1>6. OTLPRules(o) = IF o = None THEN <<>> ELSE otlp
  BY Zenon DEF OTLPRules
<1>7. RulesOf(i) = (IF p = None THEN <<>> ELSE PrometheusRules(p)) \o OTLPRules(o)
  BY Zenon DEF RulesOf, p, o
<1> HIDE DEF tls, bearer, basic, otlp
<1>8. PrometheusRules(p) \in Seq(S)
  BY <1>4, <1>5, NoRules, RulesJoined
<1>9. OTLPRules(o) \in Seq(S)
  BY <1>4, <1>6, NoRules
<1>10. RulesOf(i) \in Seq(S)
  BY <1>7, <1>8, <1>9, NoRules, RulesJoined
<1> QED
  BY <1>10 DEF S

(* Two rules that put a value in the same file of the same volume are one. *)
WellNamed(rules) ==
  \A m, n \in DOMAIN rules :
    (rules[m].volume = rules[n].volume /\ rules[m].file = rules[n].file) => rules[m] = rules[n]

LEMMA AnyRuleIsWellNamed ==
  ASSUME NEW i, NEW r \in AnyRule(i), NEW s \in AnyRule(i), r.volume = s.volume, r.file = s.file
  PROVE  r = s /\ <<r.volume, r.file>> \in Files
<1>1. PICK f \in Files : r = RuleAt(i, f)
  BY DEF AnyRule
<1>2. PICK g \in Files : s = RuleAt(i, g)
  BY DEF AnyRule
<1>3. f = <<f[1], f[2]>> /\ g = <<g[1], g[2]>>
  BY <1>1, <1>2 DEF Files
<1>4. r.volume = f[1] /\ r.file = f[2] /\ s.volume = g[1] /\ s.file = g[2]
  BY <1>1, <1>2 DEF RuleAt, RuleOf
<1>5. f = g
  BY <1>3, <1>4
<1> QED
  BY <1>1, <1>2, <1>3, <1>4, <1>5

LEMMA RulesAreWellNamed ==
  ASSUME NEW i
  PROVE  /\ WellNamed(RulesOf(i))
         /\ \A n \in DOMAIN RulesOf(i) : <<RulesOf(i)[n].volume, RulesOf(i)[n].file>> \in Files
<1>1. \A n \in DOMAIN RulesOf(i) : RulesOf(i)[n] \in AnyRule(i)
  BY RulesAre
<1> QED
  BY <1>1, AnyRuleIsWellNamed DEF WellNamed

InputRules == {RulesOf(i) : i \in Declared}

LEMMA InputRulesAre ==
  ASSUME NEW rules \in InputRules
  PROVE  /\ WellNamed(rules)
         /\ rules \in Seq({rules[n] : n \in DOMAIN rules})
         /\ \A n \in DOMAIN rules : /\ <<rules[n].volume, rules[n].file>> \in Files
                                    /\ rules[n].source.object \in Objects
<1>1. PICK i \in Declared : rules = RulesOf(i)
  BY DEF InputRules
<1>2. rules \in Seq(AnyRule(i))
  BY <1>1, RulesAre
<1>3. rules \in Seq({rules[n] : n \in DOMAIN rules})
  <2>1. PICK n \in Nat : rules \in [1..n -> AnyRule(i)]
    BY <1>2
  <2>2. rules \in [1..n -> {rules[m] : m \in DOMAIN rules}]
    BY <2>1
  <2> QED
    BY <2>2, SMTT(30)
<1> QED
  BY <1>1, <1>3, RulesAreWellNamed, InputsAssumption

(* What the object of a rule holds now, and what a reconcile reads of it.   *)
ValueOf(rule) == stored[rule.source.object].value
ReadOf(rule, value) == [volume |-> rule.volume, file |-> rule.file, value |-> value]

(* A value a reconcile has read is one its object has held; a reconcile     *)
(* that nothing disturbed has read what the objects hold.                   *)
PassReads ==
  pass # None =>
    /\ pass = [rules |-> pass.rules, left |-> pass.left, read |-> pass.read,
               problems |-> pass.problems, late |-> pass.late]
    /\ pass.rules \in InputRules /\ pass.late \in BOOLEAN /\ pass.problems \in BOOLEAN
    /\ pass.left \in Seq({pass.rules[n] : n \in DOMAIN pass.rules})
    /\ \A r \in pass.read : \E n \in DOMAIN pass.rules :
         /\ r = ReadOf(pass.rules[n], r.value)
         /\ r.value \in Nat /\ r.value <= ValueOf(pass.rules[n])
    /\ ~pass.late => pass.rules = RulesOf(input)
    /\ (~pass.late /\ ~pass.problems) =>
         \A n \in DOMAIN pass.rules :
           \/ ReadOf(pass.rules[n], ValueOf(pass.rules[n])) \in pass.read
           \/ \E m \in DOMAIN pass.left : pass.left[m] = pass.rules[n]

FileOf(rule) == <<rule.volume, rule.file>>

(* The digest is never ahead of the objects.                                *)
DigestBehind ==
  template # None =>
    /\ template.rules \in InputRules
    /\ \A x \in template.digest : \E n \in DOMAIN template.rules :
         /\ x.file = FileOf(template.rules[n])
         /\ x.value \in Nat /\ x.value <= ValueOf(template.rules[n])

(* The engine runs with values between its digest and the objects.          *)
EngineBetween ==
  running.template # None =>
    /\ running.template.rules \in InputRules
    /\ \A y \in running.values : \E n \in DOMAIN running.template.rules :
         /\ y = ReadOf(running.template.rules[n], y.value)
         /\ y.value \in Nat /\ y.value <= ValueOf(running.template.rules[n])
         /\ \A x \in running.template.digest :
              x.file = FileOf(running.template.rules[n]) => x.value <= y.value
    /\ \A n \in DOMAIN running.template.rules :
         \E y \in running.values : y = ReadOf(running.template.rules[n], y.value)

CaughtUpDigest ==
  caughtUp =>
    /\ template # None /\ template.rules = RulesOf(input)
    /\ \A n \in DOMAIN template.rules :
         [file |-> FileOf(template.rules[n]), value |-> ValueOf(template.rules[n])] \in template.digest

InputsInv ==
  /\ input \in Declared
  /\ stored \in [Objects -> [value : Nat, there : BOOLEAN]]
  /\ PassReads
  /\ DigestBehind
  /\ EngineBetween
  /\ CaughtUpDigest

(* Generations only grow, and whatever changes them marks the reconcile     *)
(* under way as late.                                                       *)
LEMMA ObjectsGrow ==
  ASSUME InputsInv, [InputsNext]_inputVars
  PROVE  /\ input' \in Declared
         /\ stored' \in [Objects -> [value : Nat, there : BOOLEAN]]
         /\ \A o \in Objects : stored[o].value <= stored'[o].value
         /\ \/ input' = input /\ stored' = stored
            \/ Touch
<1>0. input \in Declared /\ stored \in [Objects -> [value : Nat, there : BOOLEAN]]
  BY DEF InputsInv
<1>1. ASSUME NEW o \in Objects, Rotate(o)
      PROVE  /\ input' = input /\ Touch
             /\ stored' \in [Objects -> [value : Nat, there : BOOLEAN]]
             /\ \A q \in Objects : stored[q].value <= stored'[q].value
  <2>1. PICK n \in {0, 1}, there \in BOOLEAN :
          stored' = [stored EXCEPT ![o] = [value |-> stored[o].value + n, there |-> there]]
    BY <1>1 DEF Rotate
  <2>2. stored[o].value \in Nat
    BY <1>0
  <2>3. [value |-> stored[o].value + n, there |-> there] \in [value : Nat, there : BOOLEAN]
    BY <2>1, <2>2
  <2>4. stored' \in [Objects -> [value : Nat, there : BOOLEAN]]
    BY <1>0, <2>1, <2>3
  <2>5. ASSUME NEW q \in Objects PROVE stored[q].value <= stored'[q].value
    <3>1. stored[q].value \in Nat
      BY <1>0
    <3>2. CASE q = o
      BY <1>0, <2>1, <2>2, <3>2
    <3>3. CASE q # o
      BY <1>0, <2>1, <3>1, <3>3
    <3> QED
      BY <3>2, <3>3
  <2> QED
    BY <1>1, <2>4, <2>5 DEF Rotate
<1>2. \A q \in Objects : stored[q].value <= stored[q].value
  <2>1. \A q \in Objects : stored[q].value \in Nat
    BY <1>0
  <2> QED
    BY <2>1
<1>3. CASE EditInput
  BY <1>0, <1>2, <1>3 DEF EditInput
<1>4. CASE UNCHANGED <<input, stored>>
  BY <1>0, <1>2, <1>4
<1>5. \/ \E o \in Objects : Rotate(o)
      \/ EditInput
      \/ UNCHANGED <<input, stored>>
  BY DEF InputsNext, inputVars, BeginPass, ReadValue, RefuseInputs, ApplyDeployment, PassFails, EngineStarts
<1> QED
  BY <1>0, <1>1, <1>3, <1>4, <1>5

LEMMA ValuesGrow ==
  ASSUME InputsInv, [InputsNext]_inputVars, NEW rules \in InputRules, NEW n \in DOMAIN rules
  PROVE  /\ ValueOf(rules[n]) \in Nat /\ ValueOf(rules[n])' \in Nat
         /\ ValueOf(rules[n]) <= ValueOf(rules[n])'
<1>1. rules[n].source.object \in Objects
  BY InputRulesAre
<1>2. stored \in [Objects -> [value : Nat, there : BOOLEAN]]
  BY DEF InputsInv
<1> QED
  BY <1>1, <1>2, ObjectsGrow DEF ValueOf

LEMMA PassStaysRead ==
  ASSUME InputsInv, [InputsNext]_inputVars, UNCHANGED pass \/ (Touch /\ pass # None)
  PROVE  PassReads'
<1> SUFFICES ASSUME pass' # None PROVE PassReads'
  BY DEF PassReads
<1>0. pass # None
  BY DEF Touch
<1> DEFINE rules == pass.rules
<1>1. /\ pass = [rules |-> pass.rules, left |-> pass.left, read |-> pass.read,
                 problems |-> pass.problems, late |-> pass.late]
      /\ rules \in InputRules /\ pass.late \in BOOLEAN /\ pass.problems \in BOOLEAN
      /\ pass.left \in Seq({rules[n] : n \in DOMAIN rules})
  BY <1>0 DEF InputsInv, PassReads
<1>2. \A r \in pass.read : \E n \in DOMAIN rules :
         /\ r = ReadOf(rules[n], r.value)
         /\ r.value \in Nat /\ r.value <= ValueOf(rules[n])
  BY <1>0 DEF InputsInv, PassReads
<1>3. /\ ~pass.late => rules = RulesOf(input)
      /\ (~pass.late /\ ~pass.problems) =>
           \A n \in DOMAIN rules :
             \/ ReadOf(rules[n], ValueOf(rules[n])) \in pass.read
             \/ \E m \in DOMAIN pass.left : pass.left[m] = rules[n]
  BY <1>0 DEF InputsInv, PassReads
<1>4. /\ pass'.rules = rules /\ pass'.left = pass.left /\ pass'.read = pass.read
      /\ pass'.problems = pass.problems
      /\ pass' = [rules |-> pass'.rules, left |-> pass'.left, read |-> pass'.read,
                  problems |-> pass'.problems, late |-> pass'.late]
      /\ pass'.late \in BOOLEAN
      /\ ~pass'.late => (~pass.late /\ UNCHANGED <<input, stored>>)
  <2>1. CASE Touch
    <3>1. pass' = [pass EXCEPT !.late = TRUE]
      BY <1>0, <2>1 DEF Touch
    <3> QED
      BY <1>1, <3>1
  <2>2. CASE ~Touch
    <3>1. pass' = pass /\ UNCHANGED <<input, stored>>
      BY <2>2, ObjectsGrow
    <3> QED
      BY <1>1, <3>1
  <2> QED
    BY <2>1, <2>2
<1> HIDE DEF rules
<1>5. ASSUME NEW r \in pass.read
      PROVE  \E n \in DOMAIN rules :
               /\ r = ReadOf(rules[n], r.value)
               /\ r.value \in Nat /\ r.value <= stored'[rules[n].source.object].value
  <2>1. PICK n \in DOMAIN rules : /\ r = ReadOf(rules[n], r.value)
                                  /\ r.value \in Nat /\ r.value <= ValueOf(rules[n])
    BY <1>2
  <2>2. /\ ValueOf(rules[n]) \in Nat /\ stored'[rules[n].source.object].value \in Nat
        /\ ValueOf(rules[n]) <= stored'[rules[n].source.object].value
    <3>1. rules[n].source.object \in Objects
      BY <1>1, InputRulesAre
    <3>2. stored \in [Objects -> [value : Nat, there : BOOLEAN]]
      BY DEF InputsInv
    <3> QED
      BY <3>1, <3>2, ObjectsGrow DEF ValueOf
  <2>3. r.value <= stored'[rules[n].source.object].value
    BY <2>1, <2>2
  <2> QED
    BY <2>1, <2>3
<1>6. ~pass'.late => rules = RulesOf(input')
  BY <1>3, <1>4
<1>7. (~pass'.late /\ ~pass'.problems) =>
        \A n \in DOMAIN rules :
          \/ ReadOf(rules[n], stored'[rules[n].source.object].value) \in pass'.read
          \/ \E m \in DOMAIN pass'.left : pass'.left[m] = rules[n]
  BY <1>3, <1>4 DEF ValueOf
<1>8. /\ pass'.rules \in InputRules /\ pass'.problems \in BOOLEAN
      /\ pass'.left \in Seq({pass'.rules[n] : n \in DOMAIN pass'.rules})
  BY <1>1, <1>4 DEF rules
<1> QED
  BY <1>4, <1>5, <1>6, <1>7, <1>8 DEF PassReads, ValueOf

LEMMA BeginReads ==
  ASSUME InputsInv, BeginPass
  PROVE  PassReads'
<1> DEFINE rules == RulesOf(input)
<1>1. /\ pass' = [rules |-> rules, left |-> rules, read |-> {}, problems |-> FALSE, late |-> FALSE]
      /\ UNCHANGED <<input, stored>>
  BY DEF BeginPass
<1>2. rules \in InputRules
  BY DEF InputsInv, InputRules
<1> HIDE DEF rules
<1>3. rules \in Seq({rules[n] : n \in DOMAIN rules})
  BY <1>2, InputRulesAre
<1>4. rules = RulesOf(input')
  BY <1>1 DEF rules
<1>5. /\ pass'.rules = rules /\ pass'.left = rules /\ pass'.read = {}
      /\ pass'.problems = FALSE /\ pass'.late = FALSE
  BY <1>1
<1> HIDE DEF InputRules
<1> QED
  BY <1>1, <1>2, <1>3, <1>4, <1>5 DEF PassReads

LEMMA ReadReads ==
  ASSUME InputsInv, ReadValue
  PROVE  PassReads'
<1> DEFINE rules == pass.rules
           S == {rules[n] : n \in DOMAIN rules}
           rule == Head(pass.left)
           object == stored[rule.source.object]
           read == IF ~object.there THEN pass.read
                   ELSE pass.read \cup {[volume |-> rule.volume, file |-> rule.file, value |-> object.value]}
<1>0. pass # None /\ pass.left # <<>> /\ UNCHANGED <<input, stored>>
  BY DEF ReadValue
<1>1. /\ pass = [rules |-> pass.rules, left |-> pass.left, read |-> pass.read,
                 problems |-> pass.problems, late |-> pass.late]
      /\ rules \in InputRules /\ pass.late \in BOOLEAN /\ pass.problems \in BOOLEAN
      /\ pass.left \in Seq(S)
      /\ \A r \in pass.read : \E n \in DOMAIN rules :
           /\ r = ReadOf(rules[n], r.value)
           /\ r.value \in Nat /\ r.value <= ValueOf(rules[n])
      /\ ~pass.late => rules = RulesOf(input)
  BY <1>0 DEF InputsInv, PassReads
<1>2. (~pass.late /\ ~pass.problems) =>
         \A n \in DOMAIN rules :
           \/ ReadOf(rules[n], ValueOf(rules[n])) \in pass.read
           \/ \E m \in DOMAIN pass.left : pass.left[m] = rules[n]
  BY <1>0 DEF InputsInv, PassReads
<1>3. pass' = [pass EXCEPT !.left = Tail(pass.left), !.read = read,
                           !.problems = pass.problems \/ ~object.there]
  BY Zenon DEF ReadValue
<1>4. PICK k \in DOMAIN rules : rule = rules[k]
  <2>1. rule \in S
    BY <1>0, <1>1
  <2> QED
    BY <2>1
<1>5. object \in [value : Nat, there : BOOLEAN]
  <2>1. rule.source.object \in Objects
    BY <1>1, <1>4, InputRulesAre
  <2> QED
    BY <2>1 DEF InputsInv
<1> HIDE DEF rules, S, rule, object, InputRules
<1>6. Tail(pass.left) \in Seq(S)
  BY <1>0, <1>1
<1>7. \A m \in DOMAIN pass.left : pass.left[m] = rule \/ \E j \in DOMAIN Tail(pass.left) : Tail(pass.left)[j] = pass.left[m]
  <2> SUFFICES ASSUME NEW m \in DOMAIN pass.left, m # 1
               PROVE  \E j \in DOMAIN Tail(pass.left) : Tail(pass.left)[j] = pass.left[m]
    BY <1>1 DEF rule
  <2>1. Len(pass.left) \in Nat /\ m \in 1..Len(pass.left)
    BY <1>1
  <2>2. m - 1 \in 1..(Len(pass.left) - 1)
    BY <2>1
  <2>3. m - 1 \in DOMAIN Tail(pass.left) /\ Tail(pass.left)[m - 1] = pass.left[m]
    BY <1>0, <1>1, <2>1, <2>2
  <2> QED
    BY <2>3
<1> DEFINE problems == pass.problems \/ ~object.there
<1>8. problems \in BOOLEAN
  BY <1>1, <1>5
<1> HIDE DEF read, problems
<1>9. /\ pass'.rules = rules /\ pass'.left = Tail(pass.left) /\ pass'.read = read
      /\ pass'.problems = problems /\ pass'.late = pass.late
      /\ pass' = [rules |-> pass'.rules, left |-> pass'.left, read |-> pass'.read,
                  problems |-> pass'.problems, late |-> pass'.late]
  BY <1>1, <1>3 DEF rules, problems
<1>10. object.value = ValueOf(rules[k])
  BY <1>4 DEF object, ValueOf
<1>11. ASSUME NEW r \in read
       PROVE  \E n \in DOMAIN rules : /\ r = ReadOf(rules[n], r.value)
                                      /\ r.value \in Nat /\ r.value <= ValueOf(rules[n])
  <2>1. CASE r \in pass.read
    BY <1>1, <2>1
  <2>2. CASE r = [volume |-> rule.volume, file |-> rule.file, value |-> object.value]
    <3>1. r.value = object.value /\ r = ReadOf(rules[k], r.value)
      BY <2>2, <1>4 DEF ReadOf
    <3>2. r.value \in Nat /\ r.value <= ValueOf(rules[k])
      BY <3>1, <1>5, <1>10
    <3> QED
      BY <3>1, <3>2
  <2> QED
    BY <2>1, <2>2 DEF read
<1>12. ASSUME ~pass.late, ~problems, NEW n \in DOMAIN rules
       PROVE  \/ ReadOf(rules[n], ValueOf(rules[n])) \in read
              \/ \E m \in DOMAIN Tail(pass.left) : Tail(pass.left)[m] = rules[n]
  <2>1. object.there /\ ~pass.problems
    BY <1>12 DEF problems
  <2>2. read = pass.read \cup {[volume |-> rule.volume, file |-> rule.file, value |-> object.value]}
    BY <2>1 DEF read
  <2>3. CASE ReadOf(rules[n], ValueOf(rules[n])) \in pass.read
    BY <2>2, <2>3
  <2>4. CASE \E m \in DOMAIN pass.left : pass.left[m] = rules[n]
    <3>1. CASE rules[n] = rule
      <4>1. ReadOf(rules[n], ValueOf(rules[n])) = [volume |-> rule.volume, file |-> rule.file, value |-> object.value]
        BY <3>1 DEF ReadOf, ValueOf, object
      <4> QED
        BY <2>2, <4>1
    <3>2. CASE rules[n] # rule
      BY <2>4, <3>2, <1>7
    <3> QED
      BY <3>1, <3>2
  <2> QED
    BY <1>2, <1>12, <2>1, <2>3, <2>4
<1>13. \A n : ValueOf(rules[n]) = stored'[rules[n].source.object].value
  BY <1>0 DEF ValueOf
<1>14. \A r \in pass'.read : \E n \in DOMAIN pass'.rules :
         /\ r = ReadOf(pass'.rules[n], r.value)
         /\ r.value \in Nat /\ r.value <= stored'[pass'.rules[n].source.object].value
  BY <1>9, <1>11, <1>13
<1>15. (~pass'.late /\ ~pass'.problems) =>
         \A n \in DOMAIN pass'.rules :
           \/ ReadOf(pass'.rules[n], stored'[pass'.rules[n].source.object].value) \in pass'.read
           \/ \E m \in DOMAIN pass'.left : pass'.left[m] = pass'.rules[n]
  BY <1>9, <1>12, <1>13
<1>16. /\ pass'.rules \in InputRules /\ pass'.late \in BOOLEAN /\ pass'.problems \in BOOLEAN
       /\ pass'.left \in Seq({pass'.rules[n] : n \in DOMAIN pass'.rules})
       /\ ~pass'.late => pass'.rules = RulesOf(input')
  BY <1>0, <1>1, <1>6, <1>8, <1>9 DEF S
<1> QED
  BY <1>9, <1>14, <1>15, <1>16 DEF PassReads, ValueOf

LEMMA ApplyWritesDigest ==
  ASSUME InputsInv, ApplyDeployment
  PROVE  DigestBehind' /\ CaughtUpDigest'
<1> DEFINE rules == pass.rules
           digest == Digest(pass.read)
<1>0. /\ pass # None /\ pass.left = <<>> /\ ~pass.problems
      /\ template' = [rules |-> rules, digest |-> digest] /\ caughtUp' = ~pass.late
      /\ UNCHANGED <<input, stored>>
  BY DEF ApplyDeployment
<1>1. /\ rules \in InputRules
      /\ \A r \in pass.read : \E n \in DOMAIN rules :
           /\ r = ReadOf(rules[n], r.value)
           /\ r.value \in Nat /\ r.value <= ValueOf(rules[n])
      /\ ~pass.late => rules = RulesOf(input)
      /\ ~pass.late =>
           \A n \in DOMAIN rules :
             \/ ReadOf(rules[n], ValueOf(rules[n])) \in pass.read
             \/ \E m \in DOMAIN pass.left : pass.left[m] = rules[n]
  BY <1>0 DEF InputsInv, PassReads
<1>2. \A x \in digest : \E r \in pass.read : x = [file |-> <<r.volume, r.file>>, value |-> r.value]
  BY DEF Digest
<1>3. \A r \in pass.read : [file |-> <<r.volume, r.file>>, value |-> r.value] \in digest
  BY DEF Digest
<1> HIDE DEF rules, digest, InputRules
<1>4. ASSUME NEW x \in digest
      PROVE  \E n \in DOMAIN rules :
               /\ x.file = FileOf(rules[n]) /\ x.value \in Nat /\ x.value <= ValueOf(rules[n])
               /\ x = [file |-> FileOf(rules[n]), value |-> x.value]
  <2>1. PICK r \in pass.read : x = [file |-> <<r.volume, r.file>>, value |-> r.value]
    BY <1>2
  <2>2. PICK n \in DOMAIN rules : /\ r = ReadOf(rules[n], r.value)
                                  /\ r.value \in Nat /\ r.value <= ValueOf(rules[n])
    BY <1>1
  <2>3. r.volume = rules[n].volume /\ r.file = rules[n].file
    BY <2>2 DEF ReadOf
  <2>4. x.file = FileOf(rules[n]) /\ x.value = r.value
    BY <2>1, <2>3 DEF FileOf
  <2>5. x = [file |-> FileOf(rules[n]), value |-> x.value]
    BY <2>1, <2>3 DEF FileOf
  <2> QED
    BY <2>2, <2>4, <2>5
<1>5. template'.rules = rules /\ template'.digest = digest
  BY <1>0
<1>6. \A n : ValueOf(rules[n]) = stored'[rules[n].source.object].value
  BY <1>0 DEF ValueOf
<1>7. DigestBehind'
  BY <1>1, <1>4, <1>5, <1>6 DEF DigestBehind, ValueOf, FileOf
<1>8. template' # None
  <2>1. digest \subseteq [file : Files, value : Nat]
    <3> SUFFICES ASSUME NEW x \in digest PROVE x \in [file : Files, value : Nat]
      OBVIOUS
    <3>1. PICK n \in DOMAIN rules : x.value \in Nat /\ x = [file |-> FileOf(rules[n]), value |-> x.value]
      BY <1>4
    <3>2. FileOf(rules[n]) \in Files
      BY <1>1, InputRulesAre DEF FileOf
    <3> QED
      BY <3>1, <3>2
  <2>2. template' \in Template
    BY <1>0, <1>1, <2>1 DEF Template, InputRules
  <2> QED
    BY <2>2, InputsAssumption
<1>9. ASSUME ~pass.late, NEW n \in DOMAIN rules
      PROVE  [file |-> FileOf(rules[n]), value |-> ValueOf(rules[n])] \in digest
  <2>1. ReadOf(rules[n], ValueOf(rules[n])) \in pass.read
    <3>1. \A m \in DOMAIN pass.left : FALSE
      BY <1>0
    <3> QED
      BY <1>1, <1>9, <3>1
  <2> DEFINE r == ReadOf(rules[n], ValueOf(rules[n]))
  <2>2. r.volume = rules[n].volume /\ r.file = rules[n].file /\ r.value = ValueOf(rules[n])
    BY DEF ReadOf
  <2> HIDE DEF r
  <2>3. [file |-> <<r.volume, r.file>>, value |-> r.value] \in digest
    BY <2>1, <1>3 DEF r
  <2> QED
    BY <2>2, <2>3 DEF FileOf
<1>10. CaughtUpDigest'
  <2> SUFFICES ASSUME caughtUp' PROVE CaughtUpDigest'
    BY DEF CaughtUpDigest
  <2>1. ~pass.late
    BY <1>0
  <2>2. template'.rules = RulesOf(input')
    BY <1>0, <1>1, <1>5, <2>1
  <2>3. \A n \in DOMAIN template'.rules :
          [file |-> FileOf(template'.rules[n]), value |-> stored'[template'.rules[n].source.object].value]
             \in template'.digest
    BY <1>5, <1>6, <1>9, <2>1
  <2> QED
    BY <1>8, <2>2, <2>3 DEF CaughtUpDigest, FileOf, ValueOf
<1> QED
  BY <1>7, <1>10

LEMMA DigestStaysBehind ==
  ASSUME InputsInv, [InputsNext]_inputVars, UNCHANGED template
  PROVE  DigestBehind'
<1> SUFFICES ASSUME template # None PROVE DigestBehind'
  BY DEF DigestBehind
<1> DEFINE rules == template.rules
<1>1. /\ rules \in InputRules
      /\ \A x \in template.digest : \E n \in DOMAIN rules :
           /\ x.file = FileOf(rules[n]) /\ x.value \in Nat /\ x.value <= ValueOf(rules[n])
  BY DEF InputsInv, DigestBehind
<1> HIDE DEF rules, InputRules
<1>2. ASSUME NEW x \in template.digest
      PROVE  \E n \in DOMAIN rules : /\ x.file = FileOf(rules[n]) /\ x.value \in Nat
                                     /\ x.value <= stored'[rules[n].source.object].value
  <2>1. PICK n \in DOMAIN rules : x.file = FileOf(rules[n]) /\ x.value \in Nat /\ x.value <= ValueOf(rules[n])
    BY <1>1
  <2>2. /\ ValueOf(rules[n]) \in Nat /\ stored'[rules[n].source.object].value \in Nat
        /\ ValueOf(rules[n]) <= stored'[rules[n].source.object].value
    <3>1. rules[n].source.object \in Objects
      BY <1>1, InputRulesAre
    <3>2. stored \in [Objects -> [value : Nat, there : BOOLEAN]]
      BY DEF InputsInv
    <3> QED
      BY <3>1, <3>2, ObjectsGrow DEF ValueOf
  <2>3. x.value <= stored'[rules[n].source.object].value
    BY <2>1, <2>2
  <2> QED
    BY <2>1, <2>3
<1> QED
  BY <1>1, <1>2 DEF DigestBehind, ValueOf, FileOf, rules

LEMMA EngineStaysBetween ==
  ASSUME InputsInv, [InputsNext]_inputVars, UNCHANGED running
  PROVE  EngineBetween'
<1> SUFFICES ASSUME running.template # None PROVE EngineBetween'
  BY DEF EngineBetween
<1> DEFINE rules == running.template.rules
           digest == running.template.digest
           values == running.values
<1>1. /\ rules \in InputRules
      /\ \A y \in values : \E n \in DOMAIN rules :
           /\ y = ReadOf(rules[n], y.value)
           /\ y.value \in Nat /\ y.value <= ValueOf(rules[n])
           /\ \A x \in digest : x.file = FileOf(rules[n]) => x.value <= y.value
      /\ \A n \in DOMAIN rules : \E y \in values : y = ReadOf(rules[n], y.value)
  BY DEF InputsInv, EngineBetween
<1> HIDE DEF rules, digest, values, InputRules
<1>2. ASSUME NEW y \in values
      PROVE  \E n \in DOMAIN rules :
               /\ y = ReadOf(rules[n], y.value)
               /\ y.value \in Nat /\ y.value <= stored'[rules[n].source.object].value
               /\ \A x \in digest : x.file = FileOf(rules[n]) => x.value <= y.value
  <2>1. PICK n \in DOMAIN rules : /\ y = ReadOf(rules[n], y.value)
                                  /\ y.value \in Nat /\ y.value <= ValueOf(rules[n])
                                  /\ \A x \in digest : x.file = FileOf(rules[n]) => x.value <= y.value
    BY <1>1
  <2>2. /\ ValueOf(rules[n]) \in Nat /\ stored'[rules[n].source.object].value \in Nat
        /\ ValueOf(rules[n]) <= stored'[rules[n].source.object].value
    <3>1. rules[n].source.object \in Objects
      BY <1>1, InputRulesAre
    <3>2. stored \in [Objects -> [value : Nat, there : BOOLEAN]]
      BY DEF InputsInv
    <3> QED
      BY <3>1, <3>2, ObjectsGrow DEF ValueOf
  <2>3. y.value <= stored'[rules[n].source.object].value
    BY <2>1, <2>2
  <2> QED
    BY <2>1, <2>3
<1>3. /\ running'.template.rules = rules /\ running'.template.digest = digest
      /\ running'.values = values
  BY DEF rules, digest, values
<1>4. /\ running'.template.rules \in InputRules
      /\ \A n \in DOMAIN running'.template.rules :
           \E y \in running'.values : y = ReadOf(running'.template.rules[n], y.value)
  BY <1>1, <1>3
<1>5. \A y \in running'.values : \E n \in DOMAIN running'.template.rules :
        /\ y = ReadOf(running'.template.rules[n], y.value)
        /\ y.value \in Nat /\ y.value <= stored'[running'.template.rules[n].source.object].value
        /\ \A x \in running'.template.digest :
             x.file = FileOf(running'.template.rules[n]) => x.value <= y.value
  BY <1>2, <1>3
<1> QED
  BY Zenon, <1>4, <1>5 DEF EngineBetween, ValueOf, FileOf, ReadOf

LEMMA EngineStartsBetween ==
  ASSUME InputsInv, EngineStarts
  PROVE  EngineBetween'
<1> DEFINE rules == template.rules
           digest == template.digest
           values == Mounted(rules)
<1>0. /\ template # None /\ running' = [template |-> template, values |-> values]
      /\ UNCHANGED stored
  BY DEF EngineStarts, OutOfDate
<1>1. /\ rules \in InputRules
      /\ \A x \in digest : \E n \in DOMAIN rules :
           /\ x.file = FileOf(rules[n]) /\ x.value \in Nat /\ x.value <= ValueOf(rules[n])
  BY <1>0 DEF InputsInv, DigestBehind
<1>2. /\ \A y \in values : \E n \in DOMAIN rules : y = ReadOf(rules[n], ValueOf(rules[n]))
      /\ \A n \in DOMAIN rules : ReadOf(rules[n], ValueOf(rules[n])) \in values
  BY DEF Mounted, ReadOf, ValueOf
<1> HIDE DEF rules, digest, values, InputRules
<1>3. \A rule, value : ReadOf(rule, value).value = value
  BY DEF ReadOf
<1>4. \A n \in DOMAIN rules : ValueOf(rules[n]) \in Nat
  <2>1. \A n \in DOMAIN rules : rules[n].source.object \in Objects
    BY <1>1, InputRulesAre
  <2> QED
    BY <2>1 DEF InputsInv, ValueOf
<1>5. ASSUME NEW n \in DOMAIN rules, NEW x \in digest, x.file = FileOf(rules[n])
      PROVE  x.value <= ValueOf(rules[n])
  <2>1. PICK m \in DOMAIN rules : x.file = FileOf(rules[m]) /\ x.value <= ValueOf(rules[m])
    BY <1>1
  <2>2. rules[m].volume = rules[n].volume /\ rules[m].file = rules[n].file
    BY <1>5, <2>1 DEF FileOf
  <2>3. rules[m] = rules[n]
    BY <1>1, <2>2, InputRulesAre DEF WellNamed
  <2> QED
    BY <2>1, <2>3
<1>6. ASSUME NEW y \in values
      PROVE  \E n \in DOMAIN rules :
               /\ y = ReadOf(rules[n], y.value)
               /\ y.value \in Nat /\ y.value <= ValueOf(rules[n])
               /\ \A x \in digest : x.file = FileOf(rules[n]) => x.value <= y.value
  <2>1. PICK n \in DOMAIN rules : y = ReadOf(rules[n], ValueOf(rules[n]))
    BY <1>2
  <2>2. y.value = ValueOf(rules[n])
    BY <2>1, <1>3
  <2>3. y.value \in Nat /\ y.value <= ValueOf(rules[n])
    BY <2>2, <1>4
  <2> QED
    BY <2>1, <2>2, <2>3, <1>5
<1>7. \A n \in DOMAIN rules : \E y \in values : y = ReadOf(rules[n], y.value)
  BY <1>2, <1>3
<1>8. running'.template.rules = rules /\ running'.template.digest = digest /\ running'.values = values
  BY <1>0 DEF rules, digest
<1>9. \A n : ValueOf(rules[n]) = stored'[rules[n].source.object].value
  BY <1>0 DEF ValueOf
<1>10. /\ running'.template.rules \in InputRules
       /\ \A n \in DOMAIN running'.template.rules :
            \E y \in running'.values : y = ReadOf(running'.template.rules[n], y.value)
  BY <1>1, <1>7, <1>8
<1>11. \A y \in running'.values : \E n \in DOMAIN running'.template.rules :
         /\ y = ReadOf(running'.template.rules[n], y.value)
         /\ y.value \in Nat /\ y.value <= stored'[running'.template.rules[n].source.object].value
         /\ \A x \in running'.template.digest :
              x.file = FileOf(running'.template.rules[n]) => x.value <= y.value
  BY <1>6, <1>8, <1>9
<1> QED
  BY Zenon, <1>10, <1>11 DEF EngineBetween, ValueOf, FileOf, ReadOf

LEMMA CaughtUpStays ==
  ASSUME InputsInv, [InputsNext]_inputVars, ~ApplyDeployment
  PROVE  CaughtUpDigest'
<1>1. CASE Touch \/ RefuseInputs
  BY <1>1 DEF Touch, RefuseInputs, CaughtUpDigest
<1>2. CASE ~Touch /\ ~RefuseInputs
  <2>1. UNCHANGED <<input, stored>>
    BY <1>2, ObjectsGrow
  <2>2. UNCHANGED <<template, caughtUp>>
    BY <1>2 DEF InputsNext, inputVars, Rotate, EditInput, BeginPass, ReadValue, PassFails, EngineStarts
  <2>3. CaughtUpDigest
    BY DEF InputsInv
  <2> QED
    BY <2>1, <2>2, <2>3 DEF CaughtUpDigest, FileOf, ValueOf
<1> QED
  BY <1>1, <1>2

LEMMA InputsInvInductive ==
  InputsInv /\ [InputsNext]_inputVars => InputsInv'
<1> SUFFICES ASSUME InputsInv, [InputsNext]_inputVars PROVE InputsInv'
  OBVIOUS
<1>1. PassReads'
  <2>1. CASE BeginPass
    BY <2>1, BeginReads
  <2>2. CASE ReadValue
    BY <2>2, ReadReads
  <2>3. CASE RefuseInputs \/ ApplyDeployment \/ PassFails
    BY <2>3 DEF RefuseInputs, ApplyDeployment, PassFails, PassReads
  <2>4. CASE Touch
    <3>1. CASE pass = None
      BY <2>4, <3>1 DEF Touch, PassReads
    <3>2. CASE pass # None
      BY <2>4, <3>2, PassStaysRead
    <3> QED
      BY <3>1, <3>2
  <2>5. CASE UNCHANGED pass
    BY <2>5, PassStaysRead
  <2> QED
    BY <2>1, <2>2, <2>3, <2>4, <2>5 DEF InputsNext, inputVars, Rotate, EditInput, EngineStarts
<1>2. DigestBehind' /\ CaughtUpDigest'
  <2>1. CASE ApplyDeployment
    BY <2>1, ApplyWritesDigest
  <2>2. CASE ~ApplyDeployment
    <3>1. UNCHANGED template
      BY <2>2 DEF InputsNext, inputVars, Rotate, EditInput, Touch, BeginPass, ReadValue,
                  RefuseInputs, PassFails, EngineStarts
    <3> QED
      BY <2>2, <3>1, DigestStaysBehind, CaughtUpStays
  <2> QED
    BY <2>1, <2>2
<1>3. EngineBetween'
  <2>1. CASE EngineStarts
    BY <2>1, EngineStartsBetween
  <2>2. CASE ~EngineStarts
    <3>1. UNCHANGED running
      BY <2>2 DEF InputsNext, inputVars, Rotate, EditInput, Touch, BeginPass, ReadValue,
                  RefuseInputs, PassFails, ApplyDeployment
    <3> QED
      BY <3>1, EngineStaysBetween
  <2> QED
    BY <2>1, <2>2
<1> QED
  BY <1>1, <1>2, <1>3, ObjectsGrow DEF InputsInv

LEMMA EngineRunsWhatItHolds == InputsInv => RotationReachesEngine
<1> SUFFICES ASSUME InputsInv, caughtUp, ~OutOfDate
             PROVE  running.values = Mounted(RulesOf(input))
  BY DEF RotationReachesEngine
<1> DEFINE rules == RulesOf(input)
           values == running.values
           digest == template.digest
<1>1. /\ template # None /\ template.rules = rules /\ running.template = template
      /\ \A n \in DOMAIN rules : [file |-> FileOf(rules[n]), value |-> ValueOf(rules[n])] \in digest
  BY DEF InputsInv, CaughtUpDigest, OutOfDate
<1>2. /\ rules \in InputRules
      /\ \A y \in values : \E n \in DOMAIN rules :
           /\ y = ReadOf(rules[n], y.value)
           /\ y.value \in Nat /\ y.value <= ValueOf(rules[n])
           /\ \A x \in digest : x.file = FileOf(rules[n]) => x.value <= y.value
      /\ \A n \in DOMAIN rules : \E y \in values : y = ReadOf(rules[n], y.value)
  BY <1>1 DEF InputsInv, EngineBetween
<1>3. /\ \A y \in Mounted(rules) : \E n \in DOMAIN rules : y = ReadOf(rules[n], ValueOf(rules[n]))
      /\ \A n \in DOMAIN rules : ReadOf(rules[n], ValueOf(rules[n])) \in Mounted(rules)
  BY DEF Mounted, ReadOf, ValueOf
<1> HIDE DEF rules, values, digest, InputRules
<1>4. \A n \in DOMAIN rules : ValueOf(rules[n]) \in Nat
  <2>1. \A n \in DOMAIN rules : rules[n].source.object \in Objects
    BY <1>2, InputRulesAre
  <2> QED
    BY <2>1 DEF InputsInv, ValueOf
<1>5. ASSUME NEW y \in values, NEW n \in DOMAIN rules, y = ReadOf(rules[n], y.value)
      PROVE  y.value = ValueOf(rules[n])
  <2>1. PICK m \in DOMAIN rules :
          /\ y = ReadOf(rules[m], y.value)
          /\ y.value \in Nat /\ y.value <= ValueOf(rules[m])
          /\ \A x \in digest : x.file = FileOf(rules[m]) => x.value <= y.value
    BY <1>2
  <2>2. rules[m].volume = rules[n].volume /\ rules[m].file = rules[n].file
    <3>1. /\ y.volume = rules[n].volume /\ y.file = rules[n].file
      BY <1>5 DEF ReadOf
    <3>2. /\ y.volume = rules[m].volume /\ y.file = rules[m].file
      BY <2>1 DEF ReadOf
    <3> QED
      BY <3>1, <3>2
  <2>3. rules[m] = rules[n]
    BY <1>2, <2>2, InputRulesAre DEF WellNamed
  <2> DEFINE x == [file |-> FileOf(rules[n]), value |-> ValueOf(rules[n])]
  <2>4. x \in digest
    BY <1>1
  <2>5. x.file = FileOf(rules[m]) /\ x.value = ValueOf(rules[n])
    BY <2>3
  <2>6. ValueOf(rules[n]) <= y.value
    BY <2>1, <2>4, <2>5
  <2> QED
    BY <1>4, <2>1, <2>3, <2>6
<1>6. ASSUME NEW y \in values PROVE y \in Mounted(rules)
  <2>1. PICK n \in DOMAIN rules : y = ReadOf(rules[n], y.value)
    BY <1>2
  <2>2. y = ReadOf(rules[n], ValueOf(rules[n]))
    BY <2>1, <1>5
  <2> QED
    BY <2>2, <1>3
<1>7. ASSUME NEW y \in Mounted(rules) PROVE y \in values
  <2>1. PICK n \in DOMAIN rules : y = ReadOf(rules[n], ValueOf(rules[n]))
    BY <1>3
  <2>2. PICK z \in values : z = ReadOf(rules[n], z.value)
    BY <1>2
  <2>3. z = y
    BY <2>1, <2>2, <1>5
  <2> QED
    BY <2>3
<1>8. values = Mounted(rules)
  BY <1>6, <1>7
<1> QED
  BY <1>8 DEF values, rules

(* Once a reconcile that began after the last rotation or edit has ended    *)
(* well, and the rollout it may have caused is over, the engine runs with   *)
(* the values the objects hold, whatever was rotated between any two reads  *)
(* or during a rollout: for every input block, any objects and any number   *)
(* of rotations.  (resolveInputs and inputsHashAnnotation in                *)
(* operator/inputs.go)                                                      *)
THEOREM RotationsReachEngine == MCSpec => []RotationAlwaysReachesEngine
<1>1. MCInit => InputsInv
  BY DEF MCInit, InputsInit, InputsInv, PassReads, DigestBehind, EngineBetween, CaughtUpDigest
<1>2. InputsInv /\ [MCNext]_<<part, vars, inputVars>> => InputsInv'
  <2> SUFFICES ASSUME InputsInv, [MCNext]_<<part, vars, inputVars>> PROVE InputsInv'
    OBVIOUS
  <2>1. InputsNext \/ UNCHANGED inputVars
    BY DEF MCNext
  <2> QED
    BY <2>1, InputsInvInductive
<1>3. InputsInv => RotationAlwaysReachesEngine
  BY EngineRunsWhatItHolds DEF RotationAlwaysReachesEngine
<1> QED
  BY <1>1, <1>2, <1>3, PTL DEF MCSpec
=============================================================================
