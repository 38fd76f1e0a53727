---------------------------- MODULE MCReconcile ----------------------------
(***************************************************************************)
(* Instances of Reconcile for TLC: two operators of two namespaces.        *)
(***************************************************************************)
EXTENDS Reconcile, TLC

CONSTANTS o1, o2

(* Two operators are told apart only by their identity. *)
OwnNamespace == (o1 :> o1) @@ (o2 :> o2)
Interchangeable == Permutations({o1, o2})
Never == {FALSE}
Always == {TRUE}
============================================================================
