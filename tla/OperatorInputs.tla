---------------------------- MODULE OperatorInputs ----------------------------
(***************************************************************************)
(* The values an instance reads from Secrets and ConfigMaps                *)
(* (operator/inputs.go, and reconcileDeployment in operator/controller.go):*)
(* a reconcile reads them one by one, checks them, and puts their digest   *)
(* in the pod template, so that the engine restarts when one changes.      *)
(* Others rotate the values at any moment; a Recreate rollout starts the   *)
(* engine with what the objects hold by then.                              *)
(*                                                                         *)
(* A value is the generation of its object: a certificate and a key match  *)
(* if they are of one generation.                                          *)
(***************************************************************************)
EXTENDS Integers, FiniteSets, Sequences

CONSTANTS
  Declared,      \* the input blocks a spec may have
  Objects,       \* the Secrets and ConfigMaps of the namespace
  MaxTouches,    \* bound: rotations and edits; a value is never put back
  None

VARIABLES
  input,     \* the input block of the spec
  stored,    \* the generation each object holds, and whether it is there
  touches,   \* rotations and edits so far
  pass,      \* the reconcile under way: its rules, those left to read, the
             \* values read, whether there are problems
  template,  \* the pod template: what it mounts, and the digest
  running,   \* the values the engine started with, and for which digest
  caughtUp   \* the last reconcile to end began after the last rotation or
             \* edit, and found its inputs usable

inputVars == <<input, stored, touches, pass, template, running, caughtUp>>

----------------------------------------------------------------------------
(***************************************************************************)
(* The shape of the input block.  A source names an object, and which of   *)
(* the two kinds of reference is set.  A rule whose source is not set is   *)
(* passed over wherever rules are checked or read.                         *)
(***************************************************************************)
Rule(volume, file, source, secretOnly) ==
  IF source = None THEN <<>>
  ELSE <<[volume |-> volume, file |-> file, source |-> source, secretOnly |-> secretOnly]>>
(* prometheusRules and otlpRules, in the order they are read. *)
PrometheusRules(p) ==
  (IF p.tls = None THEN <<>>
   ELSE Rule("prometheus-credentials", "ca.crt", p.tls.ca, FALSE)
        \o Rule("prometheus-credentials", "tls.crt", p.tls.cert, FALSE)
        \o Rule("prometheus-credentials", "tls.key", p.tls.key, TRUE))
  \o (IF p.bearer = None THEN <<>>
      ELSE Rule("prometheus-credentials", "token", p.bearer, TRUE))
  \o (IF p.basic = None THEN <<>>
      ELSE Rule("prometheus-credentials", "username", p.basic.username, FALSE)
           \o Rule("prometheus-credentials", "password", p.basic.password, TRUE))
OTLPRules(o) ==
  IF o = None THEN <<>>
  ELSE Rule("otlp-tls", "tls.crt", o.cert, FALSE) \o Rule("otlp-tls", "tls.key", o.key, TRUE)
       \o Rule("otlp-tls", "client-ca.crt", o.clientCA, FALSE)

RulesOf(i) ==
  (IF i.prometheus = None THEN <<>> ELSE PrometheusRules(i.prometheus)) \o OTLPRules(i.otlp)

(* What a pod template keeps of the inputs; None is none of these.         *)
Files == ({"prometheus-credentials"} \X {"ca.crt", "tls.crt", "tls.key", "token", "username", "password"})
           \cup ({"otlp-tls"} \X {"tls.crt", "tls.key", "client-ca.crt"})
Template == [rules : {RulesOf(i) : i \in Declared}, digest : SUBSET [file : Files, value : Nat]]

ASSUME InputsAssumption ==
  /\ \A i \in Declared : \A n \in DOMAIN RulesOf(i) : RulesOf(i)[n].source.object \in Objects
  /\ None \notin Template

(* checkValueSource: exactly one reference, and a key only from a Secret.  *)
SourceAccepted(rule) ==
  /\ Cardinality(rule.source.refs) = 1
  /\ rule.secretOnly => rule.source.refs = {"secret"}

(* checkInputs, called by validateSpec before any object is read. *)
Accepted(i) ==
  /\ \A n \in DOMAIN RulesOf(i) : SourceAccepted(RulesOf(i)[n])
  /\ i.prometheus # None =>
       /\ i.prometheus.tls # None =>
            /\ (i.prometheus.tls.cert = None) = (i.prometheus.tls.key = None)
            /\ i.prometheus.https
       /\ i.prometheus.bearer # None => i.prometheus.basic = None
       /\ i.prometheus.serviceAccount => i.prometheus.bearer = None /\ i.prometheus.basic = None
       /\ i.prometheus.basic # None =>
            i.prometheus.basic.username # None /\ i.prometheus.basic.password # None
  /\ i.otlp # None => i.otlp.cert # None /\ i.otlp.key # None

----------------------------------------------------------------------------
InputsInit ==
  /\ input \in {i \in Declared : Accepted(i)}
  /\ stored = [o \in Objects |-> [value |-> 0, there |-> TRUE]]
  /\ touches = 0
  /\ pass = None
  /\ template = None
  /\ running = [template |-> None, values |-> {}]
  /\ caughtUp = FALSE

Touch ==
  /\ touches < MaxTouches
  /\ touches' = touches + 1
  /\ caughtUp' = FALSE
  /\ pass' = IF pass = None THEN None ELSE [pass EXCEPT !.late = TRUE]
  /\ UNCHANGED <<template, running>>

(* Someone rotates the values of an object, deletes it or puts it back. *)
Rotate(o) ==
  /\ Touch
  /\ \E n \in {0, 1}, there \in BOOLEAN :
       stored' = [stored EXCEPT ![o] = [value |-> @.value + n, there |-> there]]
  /\ UNCHANGED input

EditInput ==
  /\ Touch
  /\ input' \in {i \in Declared : Accepted(i)} \ {input}
  /\ UNCHANGED stored

(* resolveInputs begins. *)
BeginPass ==
  /\ pass = None
  /\ pass' = [rules |-> RulesOf(input), left |-> RulesOf(input), read |-> {},
              problems |-> FALSE, late |-> FALSE]
  /\ UNCHANGED <<input, stored, touches, template, running, caughtUp>>

(* resolveGroup: one value is read, or is found missing; the next rules    *)
(* are read all the same.                                                  *)
ReadValue ==
  /\ pass # None /\ pass.left # <<>>
  /\ LET rule == Head(pass.left)
         object == stored[rule.source.object]
     IN  pass' = [pass EXCEPT
                    !.left = Tail(@),
                    !.read = IF ~object.there THEN @
                             ELSE @ \cup {[volume |-> rule.volume, file |-> rule.file,
                                          value |-> object.value]},
                    !.problems = @ \/ ~object.there]
  /\ UNCHANGED <<input, stored, touches, template, running, caughtUp>>

(* A certificate and a key under one path form a pair. *)
Paired(read) ==
  \A c \in read, k \in read :
    c.volume = k.volume /\ c.file = "tls.crt" /\ k.file = "tls.key" => c.value = k.value

(* Faulty variant: files of one name under two paths share a place in the  *)
(* digest, and the last one read keeps it.                                 *)
DigestOfFiles(read) ==
  {[file |-> r.file, value |-> r.value] :
     r \in {s \in read : s.volume = "otlp-tls" \/ \A t \in read : t.file = s.file => t.volume # "otlp-tls"}}

(* The digest of the values, each under its volume and file. *)
Digest(read) == {[file |-> <<r.volume, r.file>>, value |-> r.value] : r \in read}

(* The inputs are not usable: the Deployment stays as it is. *)
RefuseInputs ==
  /\ pass # None /\ pass.left = <<>>
  /\ pass.problems \/ ~Paired(pass.read)
  /\ pass' = None
  /\ caughtUp' = FALSE
  /\ UNCHANGED <<input, stored, touches, template, running>>

(* reconcileDeployment *)
ApplyDeployment ==
  /\ pass # None /\ pass.left = <<>>
  /\ ~pass.problems /\ Paired(pass.read)
  /\ template' = [rules |-> pass.rules, digest |-> Digest(pass.read)]
  /\ caughtUp' = ~pass.late
  /\ pass' = None
  /\ UNCHANGED <<input, stored, touches, running>>

(* A failed call of the reconcile: it starts over at the next pass. *)
PassFails ==
  /\ pass # None
  /\ pass' = None
  /\ UNCHANGED <<input, stored, touches, template, running, caughtUp>>

(* Recreate: a template that changed starts the engine anew, as soon as    *)
(* every object it mounts is there.                                        *)
Mounted(rules) ==
  {[volume |-> rules[n].volume, file |-> rules[n].file,
    value |-> stored[rules[n].source.object].value] : n \in DOMAIN rules}
Mountable(rules) == \A n \in DOMAIN rules : stored[rules[n].source.object].there
OutOfDate == template # None /\ running.template # template

EngineStarts ==
  /\ OutOfDate /\ Mountable(template.rules)
  /\ running' = [template |-> template, values |-> Mounted(template.rules)]
  /\ UNCHANGED <<input, stored, touches, pass, template, caughtUp>>

InputsNext ==
  \/ \E o \in Objects : Rotate(o)
  \/ EditInput
  \/ BeginPass
  \/ ReadValue
  \/ RefuseInputs
  \/ ApplyDeployment
  \/ PassFails
  \/ EngineStarts

InputsSpec == InputsInit /\ [][InputsNext]_inputVars

----------------------------------------------------------------------------
(* Once a reconcile that began after the last change has ended well, and   *)
(* the rollout it may have caused is over, the engine runs with the values *)
(* the objects hold: no rotation is missed, however many reconciles read   *)
(* half of one.  (inputs.go on inputsHashAnnotation)                       *)
RotationReachesEngine == caughtUp /\ ~OutOfDate => running.values = Mounted(RulesOf(input))
=============================================================================
