----------------------------- MODULE MutationLog -----------------------------
(***************************************************************************)
(* What the catalog promises a client that sends a mutation, perhaps again *)
(* and again under one Idempotency-Key: the mutation takes effect at most  *)
(* once, on the state the client had in view where it named one, and every *)
(* success it is told of is that effect.                                   *)
(***************************************************************************)
EXTENDS Naturals, Sequences, FiniteSets

CONSTANTS Request, Resource,
          Initial      \* the revision each resource begins with

VARIABLES log, answers
vars == <<log, answers>>

(* The revision a resource has after the first entries of the log. *)
Revision(x) == Initial[x] + Cardinality({i \in DOMAIN log : log[i].resource = x})

TypeOK ==
  /\ log \in Seq([request : Request, resource : Resource, base : Nat, revision : Nat])
  /\ answers \in [Request -> SUBSET Nat]

Init == log = <<>> /\ answers = [r \in Request |-> {}]

Apply(r, x) ==
  /\ \A i \in DOMAIN log : log[i].request # r
  /\ log' = Append(log, [request |-> r, resource |-> x,
                         base |-> Revision(x), revision |-> Revision(x) + 1])
  /\ UNCHANGED answers

Tell(r) ==
  /\ \E i \in DOMAIN log :
       log[i].request = r /\ answers' = [answers EXCEPT ![r] = @ \cup {log[i].revision}]
  /\ UNCHANGED log

Next == \E r \in Request : Tell(r) \/ \E x \in Resource : Apply(r, x)

Spec == Init /\ [][Next]_vars
=============================================================================
