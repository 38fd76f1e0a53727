---------------------------- MODULE MCOperators ----------------------------
(* Two operators of two namespaces, and the inputs of one instance: parts   *)
(* that share no state, each checked on its own.                            *)
(*   reconcile  the two operators, alike but for their names                *)
(*   inputs     a certificate with its key, and a token, in two objects     *)
EXTENDS MCReconcile, OperatorInputs
VARIABLE part

From(refs, object) == [refs |-> refs, object |-> object]
Token == From({"secret"}, "a")
Certificate(refs) == [ca |-> None, cert |-> From(refs, "a"), key |-> From({"secret"}, "a")]
Prometheus(tls, https, bearer, basic, serviceAccount) ==
    [tls |-> tls, https |-> https, bearer |-> bearer, basic |-> basic, serviceAccount |-> serviceAccount]
User(password) == [username |-> From({"configMap"}, "b"), password |-> password]
Receiver(key) == [cert |-> From({"configMap"}, "b"), key |-> key, clientCA |-> None]

\* Refused are two ways to authenticate, a password that is no Secret, a
\* certificate named twice, and a receiver without a key.
MCDeclared ==
    [prometheus : {None,
                   Prometheus(Certificate({"secret"}), TRUE, None, None, TRUE),
                   Prometheus(None, FALSE, Token, None, FALSE),
                   Prometheus(None, FALSE, None, User(From({"secret"}, "a")), FALSE),
                   Prometheus(None, FALSE, None, User(From({"configMap"}, "a")), FALSE),
                   Prometheus(None, FALSE, Token, None, TRUE),
                   Prometheus(Certificate({"secret", "configMap"}), TRUE, None, None, FALSE)},
     otlp : {None, Receiver(None), Receiver(From({"secret"}, "b")), Receiver(From({"secret"}, "a"))}]

MCInit ==
    /\ part \in {"reconcile", "inputs"}
    /\ Init /\ InputsInit
    \* The inputs that are not checked start in one way.
    /\ part # "inputs" => input = [prometheus |-> None, otlp |-> None]
MCNext ==
    \/ part = "reconcile" /\ Next /\ UNCHANGED <<part, inputVars>>
    \/ part = "inputs" /\ InputsNext /\ UNCHANGED <<part, vars>>
MCSpec == MCInit /\ [][MCNext]_<<part, vars, inputVars>>

\* RotationReachesEngine (operator/inputs.go), looked at in its own states.
RotationAlwaysReachesEngine == part = "inputs" => RotationReachesEngine
=============================================================================
