--------------------------- MODULE MCScopeEvents ---------------------------
(***************************************************************************)
(* ScopeEvents on a root, a child and a scope still to be created, with two *)
(* listeners of one event on the child and one still to be registered.      *)
(***************************************************************************)
EXTENDS ScopeEvents, TLC

CONSTANTS rootScope, childScope, newScope, f1, f2, f3

MCInitKids == <<childScope>>
MCInitHeap == <<<<f1, f2>>>>
MCInitRegistry ==
  [s \in Scopes |-> [n \in Names |-> IF s = childScope /\ n = "e" THEN 1 ELSE 0]]

\* Listeners of an emitted event do everything; those of a broadcast destroy no
\* scope that the broadcast has already reached.
MCOps ==
  [turn      |-> {"on", "off", "new", "emit", "broadcast", "destroy"},
   emit      |-> {"on", "off", "emit", "destroy", "stop"},
   broadcast |-> {"on", "off", "new", "destroyInner"}]

\* A deregistration function is called between two events.
OffThenEmit == [turn |-> {"off", "emit"}, emit |-> {}, broadcast |-> {}]

\* A listener of a broadcast destroys its own scope.
DestroysItself == [turn |-> {"broadcast"}, emit |-> {}, broadcast |-> {"destroy"}]

TwoKids == <<childScope, newScope>>

=============================================================================
