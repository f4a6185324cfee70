-------------------------- MODULE ContainerResources --------------------------
(***************************************************************************)
(* ContainerResources: an immutable collection of started resources.       *)
(* A collection is a function from container names to resources, each with *)
(* a kind.  An operation that throws has a predicate that says when it     *)
(* does not, and an operator for what it then returns.                     *)
(***************************************************************************)
EXTENDS FiniteSets

\* fromNamed(entries): later tests never see two entries of one name, since
\* every caller has checked its names.
FromNamed(resources) ==
  [name \in {r.name : r \in resources} |-> CHOOSE r \in resources : r.name = name]

\* merge(): rejects a name that two collections have.
Mergeable(left, right) == DOMAIN left \cap DOMAIN right = {}

Merge(left, right) ==
  [name \in DOMAIN left \cup DOMAIN right |->
     IF name \in DOMAIN left THEN left[name] ELSE right[name]]

\* getNamed(name, kind)
HasNamed(collection, name, kind) ==
  /\ name \in DOMAIN collection
  /\ collection[name].kind = kind

\* select(instances): every instance, of the kind it is declared with.
Selectable(collection, instances) ==
  \A i \in instances : HasNamed(collection, i.name, i.kind)

Select(collection, instances) ==
  [name \in {i.name : i \in instances} |-> collection[name]]

=============================================================================
