----------------------------- MODULE DomEvents -----------------------------
(***************************************************************************)
(* The event directives (ng-click, ng-blur, ...): a listener on an element   *)
(* runs its expression in an $apply of the element's scope, or by $evalAsync *)
(* when it finds that scope in a phase.  Events also come from code that an  *)
(* $apply or a digest calls, which is what the second way is for.            *)
(***************************************************************************)
EXTENDS Naturals, Sequences, FiniteSets, SequencesExt

CONSTANTS
  Scopes, Root,
  Chain,         \* each scope and then those whose $$phase it inherits
  LocalDigests,  \* application code calls $digest on scopes below the root
  MaxEvents,     \* bound: events fired
  MaxCalls,      \* bound: calls of $apply and $digest from the event loop
  MaxDepth       \* bound: frames of the call stack

VARIABLES
  phase,         \* own $$phase of each scope, "absent" if only inherited
  stack,         \* frames [kind, scope, event, errand]
  queue,         \* $$asyncQueue: the event and scope of each deferred handler
  timer,         \* a timeout of $evalAsync is pending
  fired, calls,  \* counters
  ran,           \* the events whose handler has run, in order
  listening,     \* scopes whose elements still have their listener
  unseen,        \* history: a handler ran and no pass of the root began since
  failed         \* history: "already in progress" was reported

eventVars == <<phase, stack, queue, timer, fired, calls, ran, listening, unseen, failed>>

Frame(kind, s, e) == [kind |-> kind, scope |-> s, event |-> e, dirty |-> TRUE]
Idle == stack = <<>>
Caller == Last(stack)
Pop == Front(stack)

Init ==
  /\ phase = [s \in Scopes |-> IF s = Root THEN "null" ELSE "absent"]
  /\ stack = <<>> /\ queue = <<>> /\ timer = FALSE /\ fired = 0 /\ calls = 0 /\ ran = <<>>
  /\ listening = Scopes /\ unseen = FALSE /\ failed = FALSE

\* this.$$phase !== null: the first own value up the prototype chain.
InPhase(s) ==
  \E k \in DOMAIN Chain[s] :
    /\ phase[Chain[s][k]] \notin {"absent", "null"}
    /\ \A l \in 1 .. k - 1 : phase[Chain[s][l]] = "absent"

-----------------------------------------------------------------------------
(* $apply and $digest                                                       *)

\* Code may run: from the event loop, in a handler or as a watch listener.
Callbacks == {"code", "handler", "listener"}
UserCode == ~Idle => Caller.kind \in Callbacks

BeginApply(s, frame) ==
  /\ phase' = [phase EXCEPT ![s] = "$apply"]
  /\ stack' = stack \o <<Frame("apply", s, 0), frame>>

\* Application code calls $apply, or $digest on a scope.
CallApply(s) ==
  /\ Idle /\ calls < MaxCalls
  /\ BeginApply(s, Frame("code", s, 0)) /\ calls' = calls + 1
  /\ UNCHANGED <<queue, timer, fired, ran, listening, unseen, failed>>

BeginDigest(s, base) ==
  /\ phase' = [phase EXCEPT ![s] = "$digest"]
  /\ stack' = Append(base, Frame("digest", s, 0))

CallDigest(s) ==
  /\ Idle /\ calls < MaxCalls /\ (s = Root \/ LocalDigests)
  /\ BeginDigest(s, <<>>) /\ calls' = calls + 1
  /\ UNCHANGED <<queue, timer, fired, ran, listening, unseen, failed>>

\* A mistake the properties rule out: $apply digests its own scope, not the root.
ApplyEndsLocally ==
  /\ ~Idle /\ Caller.kind = "apply"
  /\ BeginDigest(Caller.scope, Pop)
  /\ UNCHANGED <<queue, timer, fired, calls, ran, listening, unseen, failed>>

\* The finally of $apply: the phase is cleared and the root digested, which
\* throws if that is already going on.  The listener's catch reports the throw;
\* from the event loop it is reported by the browser.
ApplyEnds ==
  /\ ~Idle /\ Caller.kind = "apply"
  /\ LET cleared == [phase EXCEPT ![Caller.scope] = "null"]
     IN  IF cleared[Root] # "null"
         THEN stack' = Pop /\ phase' = cleared /\ failed' = TRUE
         ELSE /\ stack' = Append(Pop, Frame("digest", Root, 0))
              /\ phase' = [cleared EXCEPT ![Root] = "$digest"]
              /\ UNCHANGED failed
  /\ UNCHANGED <<queue, timer, fired, calls, ran, listening, unseen>>

\* The digest loop: tasks first, then a pass, which calls a listener or finds
\* everything clean; only a pass of the root sees everything.
Drain ==
  /\ ~Idle /\ Caller.kind = "digest" /\ queue # <<>>
  /\ stack' = Append(stack, Frame("handler", Head(queue).scope, Head(queue).event))
  /\ queue' = Tail(queue)
  /\ UNCHANGED <<phase, timer, fired, calls, ran, listening, unseen, failed>>

Pass ==
  /\ ~Idle /\ Caller.kind = "digest" /\ queue = <<>> /\ Caller.dirty
  /\ unseen' = (unseen /\ Caller.scope # Root)
  /\ \/ /\ Len(stack) < MaxDepth
        /\ stack' = Append(stack, Frame("listener", Caller.scope, 0))
     \/ stack' = Append(Pop, [Caller EXCEPT !.dirty = FALSE])
  /\ UNCHANGED <<phase, queue, timer, fired, calls, ran, listening, failed>>

DigestEnds ==
  /\ ~Idle /\ Caller.kind = "digest" /\ queue = <<>> /\ ~Caller.dirty
  /\ stack' = Pop /\ phase' = [phase EXCEPT ![Caller.scope] = "null"]
  /\ UNCHANGED <<queue, timer, fired, calls, ran, listening, unseen, failed>>

\* A handler, listener or function returns; a throw of it is reported and comes
\* to the same.  What a handler changed makes the digest around it go on.
Returns ==
  /\ ~Idle /\ Caller.kind \in Callbacks
  /\ stack' = Pop
  /\ IF Caller.kind = "handler"
     THEN ran' = Append(ran, Caller.event) /\ unseen' = TRUE
     ELSE UNCHANGED <<ran, unseen>>
  /\ UNCHANGED <<phase, queue, timer, fired, calls, listening, failed>>

Timeout ==
  /\ Idle /\ timer
  /\ timer' = FALSE
  /\ IF queue = <<>> THEN UNCHANGED <<phase, stack>> ELSE BeginDigest(Root, <<>>)
  /\ UNCHANGED <<queue, fired, calls, ran, listening, unseen, failed>>

-----------------------------------------------------------------------------
(* The directive                                                           *)

Fire(s) ==
  /\ UserCode /\ s \in listening /\ fired < MaxEvents /\ Len(stack) + 2 <= MaxDepth
  /\ fired' = fired + 1
  /\ IF InPhase(s)
     THEN /\ queue' = Append(queue, [event |-> fired + 1, scope |-> s])
          /\ timer' = (timer \/ (~InPhase(Root) /\ queue = <<>>))
          /\ UNCHANGED <<phase, stack>>
     ELSE /\ BeginApply(s, Frame("handler", s, fired + 1))
          /\ UNCHANGED <<queue, timer>>
  /\ UNCHANGED <<calls, ran, listening, unseen, failed>>

\* $destroy takes the listeners of the scope and of those below it away.
Destroy(s) ==
  /\ UserCode /\ s # Root /\ s \in listening
  /\ listening' = {t \in listening : s \notin Range(Chain[t])}
  /\ UNCHANGED <<phase, stack, queue, timer, fired, calls, ran, unseen, failed>>

Next ==
  \/ \E s \in Scopes : CallApply(s) \/ CallDigest(s) \/ Fire(s) \/ Destroy(s)
  \/ ApplyEnds \/ Drain \/ Pass \/ DigestEnds \/ Returns \/ Timeout

\* The event loop gets to the timeout, and code returns.
Progress == ApplyEnds \/ Drain \/ DigestEnds \/ Returns \/ Timeout
              \/ (Pass /\ Len(stack') <= Len(stack))
Fairness == WF_eventVars(Progress) /\ SF_eventVars(Pass /\ Len(stack') <= Len(stack))

-----------------------------------------------------------------------------
(* Properties                                                              *)

\* Every event's handler runs, and runs once, whichever way it took.
EventsHandled == []<>(1 .. fired \subseteq Range(ran))
RunOnce == IsInjective(ran) /\ Range(ran) \subseteq 1 .. fired

\* "trigger a digest, so other parts of the application that watch related state
\* see the update": nothing is left of a handler's changes that no pass of the
\* root has begun after.
ChangesSeen == Idle /\ ~timer => queue = <<>> /\ ~unseen

\* The test of the phase avoids the "already in progress" throw.
NeverInProgress == ~failed

\* No handler runs against a scope that was destroyed before its turn.
NeverAfterDestroy ==
  [][Drain => Head(queue).scope \in listening]_eventVars
=============================================================================
