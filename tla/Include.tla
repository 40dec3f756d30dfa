------------------------------ MODULE Include ------------------------------
(***************************************************************************)
(* $templateRequest and ngInclude: a source expression that changes, the    *)
(* template requests it starts, their answers in any order, and the content *)
(* that is mounted and torn down, with application code called back by the  *)
(* events, by the content's scope and by the content's own directives.      *)
(*                                                                         *)
(* $templateRequest answers by native promises: jobs is the microtask       *)
(* queue, which is empty before another turn of the event loop begins, and  *)
(* no digest is in progress while a job runs.                               *)
(***************************************************************************)
EXTENDS Naturals, Sequences, FiniteSets, SequencesExt

CONSTANTS
  Includes,      \* the elements with ngInclude, whose scopes are siblings
  URLs,
  Empty,         \* a source that is empty, nullish or not a string
  Unseen,        \* what a watch has seen before its first call
  Untrusted,     \* URLs that $sce does not trust
  TurnOps,       \* the operations application code performs in a turn of its own,
  RequestedOps,  \* in a listener of $includeContentRequested,
  LoadedOps,     \* of $includeContentLoaded or onload,
  FailedOps,     \* of $includeContentError,
  DestroyedOps,  \* of $destroy on the scope of the content,
  LinkedOps,     \* and in directives of the content
  Budget         \* bound: sources assigned and templates evicted

Places == {"turn", "requested", "destroyed", "linked", "loaded", "failed"}

Ops == [turn |-> TurnOps, requested |-> RequestedOps, loaded |-> LoadedOps,
        failed |-> FailedOps, destroyed |-> DestroyedOps, linked |-> LinkedOps]

ASSUME IncludeAssumption ==
  /\ Empty \notin URLs /\ Unseen \notin URLs \cup {Empty}
  /\ Untrusted \subseteq URLs /\ Budget \in Nat
  /\ Ops \in [Places -> SUBSET {"assign", "digest", "destroy", "evict"}]

VARIABLES
  src,           \* the value of each source expression
  seen,          \* the value its watch has last seen
  alive,         \* the includes whose scope is not destroyed
  loads,         \* the loads started, each with its include and URL
  token,         \* currentLoadToken: a load, or 0
  clone,         \* the load whose content is mounted, or 0
  scopes,        \* the scopes of loads that are live
  dom,           \* the loads whose content is in the document
  cached,        \* the URLs in the template cache
  inFlight,      \* per URL, whether it is fetched and which loads wait for it
  jobs,
  stack,         \* the calls in progress, the running one first
  budget

model == <<src, budget>>
slot  == <<token, clone, scopes, dom>>
net   == <<cached, inFlight, jobs>>
vars  == <<model, seen, alive, loads, slot, net, stack>>

NoFetch == [state |-> "none", waiters |-> <<>>]

\* A call in progress: application code at a place, a digest, clearCurrentClone
\* of an include, or the rest of a handler for a load.
Frame(at, i, l) == [at |-> at, i |-> i, l |-> l, place |-> "turn"]
UserFrame(place) == [at |-> "user", i |-> 0, l |-> 0, place |-> place]

Job(kind, l, u, o) == [kind |-> kind, l |-> l, u |-> u, o |-> o]

Init ==
  /\ src \in [Includes -> URLs \cup {Empty}] /\ budget = Budget
  /\ seen = [i \in Includes |-> Unseen]
  /\ alive = Includes
  /\ loads = <<>>
  /\ token = [i \in Includes |-> 0] /\ clone = [i \in Includes |-> 0]
  /\ scopes = {} /\ dom = {}
  /\ cached = {} /\ inFlight = [u \in URLs |-> NoFetch] /\ jobs = <<>>
  /\ stack = <<>>

Top == stack[1]
At(at) == stack # <<>> /\ Top.at = at
Popped == Tail(stack)
Calls(frames) == stack' = frames \o stack
Continues(frames) == stack' = frames \o Popped

-----------------------------------------------------------------------------
(* Application code                                                        *)

\* A turn of the event loop that calls application code.
BeginTurn ==
  /\ stack = <<>> /\ jobs = <<>>
  /\ Calls(<<UserFrame("turn")>>)
  /\ UNCHANGED <<model, seen, alive, loads, slot, net>>

UserReturns ==
  /\ At("user") /\ Continues(<<>>)
  /\ UNCHANGED <<model, seen, alive, loads, slot, net>>

May(op) == At("user") /\ op \in Ops[Top.place]

Assign(i, v) ==
  /\ May("assign") /\ budget > 0 /\ src[i] # v
  /\ src' = [src EXCEPT ![i] = v] /\ budget' = budget - 1
  /\ UNCHANGED <<seen, alive, loads, slot, net, stack>>

\* $templateCache.remove
Evict(u) ==
  /\ May("evict") /\ budget > 0 /\ u \in cached
  /\ cached' = cached \ {u} /\ budget' = budget - 1
  /\ UNCHANGED <<src, seen, alive, loads, slot, inFlight, jobs, stack>>

\* The surrounding scope is destroyed, which its $destroy listener hears.
Destroy(i) ==
  /\ May("destroy") /\ i \in alive
  /\ alive' = alive \ {i}
  /\ Calls(<<Frame("clear", i, 0)>>)
  /\ UNCHANGED <<model, seen, loads, slot, net>>

Due(i) == i \in alive /\ src[i] # seen[i]

\* $apply or $digest; inside another digest it is refused.
Digest ==
  /\ May("digest")
  /\ \A k \in DOMAIN stack : stack[k].at # "digest"
  /\ \E i \in Includes : Due(i)
  /\ Calls(<<Frame("digest", 0, 0)>>)
  /\ UNCHANGED <<model, seen, alive, loads, slot, net>>

-----------------------------------------------------------------------------
(* clearCurrentClone                                                       *)

ClearNothing ==
  /\ At("clear") /\ clone[Top.i] = 0
  /\ token' = [token EXCEPT ![Top.i] = 0]
  /\ Continues(<<>>)
  /\ UNCHANGED <<model, seen, alive, loads, clone, scopes, dom, net>>

\* The content's scope is destroyed first, and its listeners are told.
ClearScope ==
  /\ At("clear") /\ clone[Top.i] # 0
  /\ scopes' = scopes \ {clone[Top.i]}
  /\ Continues(<<UserFrame("destroyed"), Frame("cleared", Top.i, 0)>>)
  /\ UNCHANGED <<model, seen, alive, loads, token, clone, dom, net>>

ClearDone ==
  /\ At("cleared")
  /\ dom' = dom \ {clone[Top.i]}
  /\ clone' = [clone EXCEPT ![Top.i] = 0]
  /\ token' = [token EXCEPT ![Top.i] = 0]
  /\ Continues(<<>>)
  /\ UNCHANGED <<model, seen, alive, loads, scopes, net>>

-----------------------------------------------------------------------------
(* The digest calls the watch listener of an include whose source changed    *)

SourceCleared(i) ==
  /\ At("digest") /\ Due(i) /\ src[i] = Empty
  /\ seen' = [seen EXCEPT ![i] = src[i]]
  /\ Calls(<<Frame("clear", i, 0)>>)
  /\ UNCHANGED <<model, alive, loads, slot, net>>

\* A load starts: its token is stamped and $includeContentRequested emitted.
SourceChanged(i) ==
  LET l == Len(loads) + 1 IN
  /\ At("digest") /\ Due(i) /\ src[i] # Empty
  /\ seen' = [seen EXCEPT ![i] = src[i]]
  /\ loads' = Append(loads, [i |-> i, url |-> src[i]])
  /\ token' = [token EXCEPT ![i] = l]
  /\ Calls(<<UserFrame("requested"), Frame("request", i, l)>>)
  /\ UNCHANGED <<model, alive, clone, scopes, dom, net>>

DigestEnds ==
  /\ At("digest") /\ \A i \in Includes : ~Due(i)
  /\ Continues(<<>>)
  /\ UNCHANGED <<model, seen, alive, loads, slot, net>>

\* $includeContentError is emitted, and then the slot is cleared.
Fails(i) == <<UserFrame("failed"), Frame("clear", i, 0)>>

RequestRefused ==
  /\ At("request") /\ loads[Top.l].url \in Untrusted
  /\ Continues(Fails(Top.i))
  /\ UNCHANGED <<model, seen, alive, loads, slot, net>>

\* $templateRequest: from the cache, from the fetch under way, or a new one.
Request ==
  LET u == loads[Top.l].url IN
  /\ At("request") /\ u \notin Untrusted
  /\ jobs' = IF u \in cached THEN Append(jobs, Job("deliver", Top.l, u, "ok")) ELSE jobs
  /\ inFlight' = IF u \in cached THEN inFlight
                 ELSE [inFlight EXCEPT ![u].waiters = Append(@, Top.l),
                                       ![u].state = IF @ = "none" THEN "out" ELSE @]
  /\ Continues(<<>>)
  /\ UNCHANGED <<model, seen, alive, loads, slot, cached>>

-----------------------------------------------------------------------------
(* The network, and the microtasks it causes                                *)

FetchSettles(u, o) ==
  /\ stack = <<>> /\ jobs = <<>>
  /\ inFlight[u].state = "out"
  /\ inFlight' = [inFlight EXCEPT ![u].state = "settled"]
  /\ jobs' = Append(jobs, Job("fetched", 0, u, o))
  /\ UNCHANGED <<model, seen, alive, loads, slot, cached, stack>>

Running(kind) == stack = <<>> /\ jobs # <<>> /\ jobs[1].kind = kind

\* A mistake the properties rule out: a fetch that failed stays the one that newcomers wait for.
FetchedOnSuccess ==
  LET u == jobs[1].u
      o == jobs[1].o
      w == inFlight[u].waiters
  IN  /\ Running("fetched")
      /\ cached' = IF o = "ok" THEN cached \cup {u} ELSE cached
      /\ inFlight' = [inFlight EXCEPT ![u] =
                        IF o = "ok" THEN NoFetch ELSE [@ EXCEPT !.waiters = <<>>]]
      /\ jobs' = Tail(jobs) \o [k \in DOMAIN w |-> Job("deliver", w[k], u, o)]
      /\ UNCHANGED <<model, seen, alive, loads, slot, stack>>

\* The text is cached, the entry of the fetch dropped; then its waiters hear.
Fetched ==
  LET u == jobs[1].u
      o == jobs[1].o
      w == inFlight[u].waiters
  IN  /\ Running("fetched")
      /\ cached' = IF o = "ok" THEN cached \cup {u} ELSE cached
      /\ inFlight' = [inFlight EXCEPT ![u] = NoFetch]
      /\ jobs' = Tail(jobs) \o [k \in DOMAIN w |-> Job("deliver", w[k], u, o)]
      /\ UNCHANGED <<model, seen, alive, loads, slot, stack>>

Delivering(l) ==
  /\ Running("deliver") /\ l = jobs[1].l
  /\ jobs' = Tail(jobs)
  /\ UNCHANGED <<model, seen, alive, loads, slot, cached, inFlight>>

\* A mistake the properties rule out: the sentinel is forgotten.
CurrentAlways(l) == l \in DOMAIN loads

\* No later load has started, and the slot has not been cleared.
Current(l) == token[loads[l].i] = l

DeliverStale ==
  \E l \in DOMAIN loads : Delivering(l) /\ ~Current(l) /\ UNCHANGED stack

DeliverFailure ==
  \E l \in DOMAIN loads :
    /\ Delivering(l) /\ Current(l) /\ jobs[1].o = "fail"
    /\ Calls(Fails(loads[l].i))

\* The old content goes before the new one comes.
DeliverContent ==
  \E l \in DOMAIN loads :
    /\ Delivering(l) /\ Current(l) /\ jobs[1].o = "ok"
    /\ Calls(<<Frame("clear", loads[l].i, 0), Frame("install", loads[l].i, l)>>)

\* The token is stamped again; the content gets its scope, and is linked.
Install ==
  /\ At("install")
  /\ token' = [token EXCEPT ![Top.i] = Top.l]
  /\ scopes' = scopes \cup {Top.l}
  /\ Continues(<<UserFrame("linked"), Frame("mount", Top.i, Top.l)>>)
  /\ UNCHANGED <<model, seen, alive, loads, clone, dom, net>>

\* $includeContentLoaded and onload find the content in its place.
Mount ==
  /\ At("mount")
  /\ dom' = dom \cup {Top.l}
  /\ clone' = [clone EXCEPT ![Top.i] = Top.l]
  /\ Continues(<<UserFrame("loaded")>>)
  /\ UNCHANGED <<model, seen, alive, loads, token, scopes, net>>

CompileThrows ==
  /\ At("mount")
  /\ scopes' = scopes \ {Top.l}
  /\ Continues(Fails(Top.i))
  /\ UNCHANGED <<model, seen, alive, loads, token, clone, dom, net>>

-----------------------------------------------------------------------------

UserOp ==
  \/ \E i \in Includes : Destroy(i) \/ \E v \in URLs \cup {Empty} : Assign(i, v)
  \/ \E u \in URLs : Evict(u)
  \/ Digest

Engine ==
  \/ UserReturns \/ ClearNothing \/ ClearScope \/ ClearDone
  \/ \E i \in Includes : SourceCleared(i) \/ SourceChanged(i)
  \/ DigestEnds \/ RequestRefused \/ Request
  \/ Fetched \/ DeliverStale \/ DeliverFailure \/ DeliverContent
  \/ Install \/ Mount \/ CompileThrows

Network == \E u \in URLs, o \in {"ok", "fail"} : FetchSettles(u, o)

Next == BeginTurn \/ UserOp \/ Engine \/ Network

Spec == Init /\ [][Next]_vars

\* Calls run to completion, jobs are run, and each fetch is answered.
FairSpec ==
  /\ Spec
  /\ WF_vars(Engine)
  /\ \A u \in URLs : SF_vars(\E o \in {"ok", "fail"} : FetchSettles(u, o))

-----------------------------------------------------------------------------
(* Properties                                                              *)

\* Every variable of the includes and of $templateRequest keeps its type.
TypeOK ==
  /\ src \in [Includes -> URLs \cup {Empty}] /\ budget \in 0 .. Budget
  /\ seen \in [Includes -> URLs \cup {Empty, Unseen}]
  /\ alive \subseteq Includes
  /\ loads \in Seq([i : Includes, url : URLs])
  /\ token \in [Includes -> 0 .. Len(loads)] /\ clone \in [Includes -> 0 .. Len(loads)]
  /\ scopes \subseteq DOMAIN loads /\ dom \subseteq DOMAIN loads
  /\ cached \subseteq URLs \ Untrusted
  /\ inFlight \in [URLs -> [state : {"none", "out", "settled"}, waiters : Seq(DOMAIN loads)]]
  /\ jobs \in Seq([kind : {"fetched", "deliver"}, l : 0 .. Len(loads), u : URLs,
                   o : {"ok", "fail"}])
  /\ stack \in Seq([at : {"user", "digest", "clear", "cleared", "request", "install", "mount"},
                    i : Includes \cup {0}, l : 0 .. Len(loads), place : Places])

AtRest == stack = <<>> /\ jobs = <<>>

\* Between turns an include that lives shows, or is fetching, what its watch has
\* last seen; or it shows nothing, because that was empty or could not be
\* loaded.  An older answer never wins (ng-include.ts 322, 374, 402, 486).
ShowsLatest ==
  AtRest =>
    \A i \in alive \ {j \in Includes : seen[j] = Unseen} :
      \/ token[i] = 0 /\ clone[i] = 0
      \/ /\ token[i] # 0 /\ loads[token[i]] = [i |-> i, url |-> seen[i]]
         /\ \/ clone[i] = token[i]
            \/ token[i] \in ToSet(inFlight[seen[i]].waiters)

\* A token that is cleared was cleared for a reason: the source is empty, or the
\* last load has failed; so a load whose template is being fetched is current,
\* or a later one is, or its include has an empty source or is gone.
LoadNotLost ==
  AtRest =>
    \A u \in URLs : \A l \in ToSet(inFlight[u].waiters) :
      LET i == loads[l].i IN
      \/ token[i] = l \/ i \notin alive \/ seen[i] = Empty
      \/ \E k \in DOMAIN loads : k > l /\ loads[k].i = i

\* Between turns the live content scopes and the content in the document are
\* those of the mounted clones, and of a destroyed include there is none.
OneContent ==
  AtRest =>
    /\ scopes = {clone[i] : i \in Includes} \ {0}
    /\ dom = scopes
    /\ \A i \in Includes \ alive : clone[i] = 0

\* An include shows one content, that of the source its watch saw last, and a
\* load still wanted keeps the token that lets its answer in.
ShowsWhatIsWanted == TypeOK /\ ShowsLatest /\ LoadNotLost /\ OneContent

\* A load comes to an end: it is mounted, fails, or is given up.
LoadsEnd ==
  \A i \in Includes : (token[i] # clone[i]) ~> (token[i] = clone[i])
=============================================================================
