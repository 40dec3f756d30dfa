--------------------------- MODULE MCScopeDigest ---------------------------
(***************************************************************************)
(* ScopeDigest on a root, a child and a scope still to be created, with a   *)
(* plain, a one-time and a constant watcher.                                *)
(***************************************************************************)
EXTENDS ScopeDigest, TLC

CONSTANTS r, a, b, p, o, c, x, y, v

MCCellOf    == (p :> x) @@ (o :> y) @@ (c :> x)
MCCellVals  == (x :> {Undef, v}) @@ (y :> {Undef, v, Bad})
MCKind      == (p :> "plain") @@ (o :> "oneTime") @@ (c :> "constant")
MCInitKids  == <<a>>
MCInitWatch == (r :> <<p>>) @@ (a :> <<o>>) @@ (b :> <<>>)

\* Turns and listeners change the model at will, and tasks queue themselves
\* again at will: the TTL counts the passes, not the tasks a queue is drained of.
MCFree == {<<"turn", "set">>, <<"listener", "set">>,
           <<"async", "evalAsync">>, <<"task", "applyAsync">>, <<"post", "postDigest">>}

\* Listeners, tasks and turns do what keeps the digest's promises.
MCOps ==
  [turn     |-> {"set", "watch", "unwatch", "new", "destroy", "evalAsync",
                 "applyAsync", "postDigest", "digest", "apply"},
   apply    |-> {"evalAsync", "digest", "throw"},
   listener |-> {"set", "watch", "unwatch", "applyAsync", "throw"},
   async    |-> {"set", "destroy", "evalAsync"},
   task     |-> {"set", "applyAsync", "throw"},
   post     |-> {"evalAsync", "postDigest", "digest", "throw"}]

NoOps == [at \in Contexts |-> {}]

\* A listener defers with $evalAsync a change that another watcher sees.
ListenerDefers ==
  [NoOps EXCEPT !.turn = {"digest", "set"}, !.listener = {"evalAsync"}, !.async = {"set"}]

\* An $applyAsync task calls $evalAsync.
TaskDefers == [NoOps EXCEPT !.turn = {"applyAsync", "digest"}, !.task = {"evalAsync"}]

\* However long listeners keep changing what watchers read, the TTL ends the
\* loop over the tree, so a turn comes to its end and what $evalAsync has queued
\* is run, unless tasks queue themselves for ever: $$asyncQueue, the queue of
\* $applyAsync and $$postDigestQueue are each drained by a loop nothing bounds.
WorkEnds == <>[][~Requeues]_vars => TurnsEnd /\ AsyncDrains
=============================================================================
