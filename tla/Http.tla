-------------------------------- MODULE Http --------------------------------
(***************************************************************************)
(* $http and $httpBackend: the interceptor chain, the server stage with its *)
(* response cache and the sharing of a request in flight, the fetch and     *)
(* JSONP transports, time limits and cancellation.                          *)
(*                                                                         *)
(* Follow-ups of $q promises run from the $evalAsync queue, first in, first *)
(* out (modules Q and ScopeDigest): tasks is that queue, with one entry for *)
(* each follow-up.  Timers, the network and user code act between tasks.    *)
(***************************************************************************)
EXTENDS Naturals, Sequences, FiniteSets, SequencesExt

CONSTANTS
  Requests,      \* calls of $http
  URLs,          \* serialized URLs
  Caches,        \* cache objects, the default one among them
  NoCache,       \* a request that does not opt in
  Configs,       \* the configurations callers and interceptors use
  Calls,         \* per list of interceptors $http may have, a bound on the calls
  Nobody         \* no request

Stacks == DOMAIN Calls

ASSUME HttpAssumption ==
  /\ NoCache \notin Caches \cup URLs /\ Nobody \notin Requests /\ IsFiniteSet(Requests)
  /\ Configs \subseteq [url : URLs, method : {"GET", "JSONP"},
                        cache : Caches \cup {NoCache},
                        limit : {"none", "number", "promise"}]
  /\ \A s \in Stacks : Calls[s] \in 0 .. Cardinality(Requests)
  /\ Stacks \subseteq Seq([request : BOOLEAN, requestError : BOOLEAN,
                           response : BOOLEAN, responseError : BOOLEAN])

VARIABLES
  interceptors,  \* what the provider resolved, in registration order
  config,        \* the configuration of each call, {} before it
  final,         \* outcome of the interceptor chain's promise
  awaiting,      \* the link whose handler returned a promise, or 0
  promise,       \* the server stage's deferred: none, pending, ok or fail
  followers,     \* its follow-ups while it is pending
  riding,        \* the request whose promise a request shares
  inFlight,      \* per URL, the request whose promise newcomers share
  cache,         \* per cache and URL, the request whose response is stored
  lost,          \* history: requests whose copy of a response threw
  pendingRequests,
  flight,        \* the transport: none, sent, half or done
  aborted,       \* the request's AbortController has fired
  timer,         \* off, armed or fired
  cancelled,     \* the promise given as limit has settled
  tasks

chain   == <<interceptors, final, awaiting>>
shared  == <<riding, inFlight, cache, lost>>
backend == <<flight, aborted, timer>>
vars    == <<chain, config, promise, followers, shared, pendingRequests,
             backend, cancelled, tasks>>

Unissued == [limit |-> "unissued"]

\* kind is link (a handler of the chain runs), adopt (the promise a handler
\* returned has settled), raw (the transport's follow-up), clear, ride and
\* abort (follow-ups of a leader, of the shared promise, of the limit).
Task(kind, r, n, o) == [kind |-> kind, r |-> r, n |-> n, o |-> o]

Init ==
  /\ interceptors \in Stacks
  /\ config = [r \in Requests |-> Unissued]
  /\ final = [r \in Requests |-> "none"]
  /\ awaiting = [r \in Requests |-> 0]
  /\ promise = [r \in Requests |-> "none"]
  /\ followers = [r \in Requests |-> <<>>]
  /\ riding = [r \in Requests |-> Nobody]
  /\ inFlight = [u \in URLs |-> Nobody]
  /\ cache = [c \in Caches |-> [u \in URLs |-> Nobody]]
  /\ lost = {}
  /\ pendingRequests = <<>>
  /\ flight = [r \in Requests |-> "none"]
  /\ aborted = [r \in Requests |-> FALSE]
  /\ timer = [r \in Requests |-> "off"]
  /\ cancelled = [r \in Requests |-> FALSE]
  /\ tasks = <<>>

-----------------------------------------------------------------------------
(* The chain: the handlers of a phase, last registered first, in both phases *)

SendLink == Len(interceptors) + 1
LastLink == 2 * Len(interceptors) + 1

\* Link n of a chain, with the outcomes it has a handler for.
Link(n) ==
  IF n = SendLink THEN [kind |-> "send", ok |-> TRUE, fail |-> FALSE]
  ELSE IF n < SendLink
       THEN LET i == interceptors[SendLink - n]
            IN  [kind |-> "request", ok |-> i.request, fail |-> i.requestError]
       ELSE LET i == interceptors[LastLink + 1 - n]
            IN  [kind |-> "response", ok |-> i.response, fail |-> i.responseError]

\* The links behind n: an interceptor with no handler in a phase adds none to it.
Following(n) == {m \in n + 1 .. LastLink : Link(m).ok \/ Link(m).fail}

\* Link n of r's chain ends with outcome o: the next one is due.
Advance(q, r, n, o) ==
  \/ /\ Following(n) = {}
     /\ tasks' = q /\ final' = [final EXCEPT ![r] = o]
  \/ /\ \E m \in Following(n) :
          /\ \A k \in Following(n) : m <= k
          /\ tasks' = Append(q, Task("link", r, m, o))
     /\ UNCHANGED final

\* What hangs on the server stage's promise when it is one link of a chain.
Adopter(r) ==
  IF interceptors = <<>> THEN <<>> ELSE <<Task("adopt", r, SendLink, "none")>>

-----------------------------------------------------------------------------
(* The server stage, entered with configuration c and the queue q            *)

Cacheable(c) == c.method = "GET" /\ c.cache # NoCache

\* A deferred that is settled before it is returned.
Immediate(r, q, st) ==
  /\ promise' = [promise EXCEPT ![r] = st]
  /\ tasks' = q \o Adopter(r)
  /\ UNCHANGED <<followers, shared, pendingRequests, backend>>

\* A JSONP URL is not trusted, or a request transform throws.
Refuse(r, q) == Immediate(r, q, "fail")

Stored(c) == IF Cacheable(c) THEN cache[c.cache][c.url] ELSE Nobody
Leader(c) == IF Cacheable(c) /\ Stored(c) = Nobody THEN inFlight[c.url] ELSE Nobody

Hit(r, c, q) == Stored(c) # Nobody /\ Immediate(r, q, "ok")

\* A mistake the properties rule out: the rider's follow-up is lost when the shared promise has settled.
RideUnsettledOnly(r, c, q) ==
  LET l == Leader(c) IN
  /\ l # Nobody
  /\ promise' = [promise EXCEPT ![r] = "pending"]
  /\ riding' = [riding EXCEPT ![r] = l]
  /\ followers' = [followers EXCEPT ![r] = Adopter(r),
                                    ![l] = Append(@, Task("ride", r, 0, "none"))]
  /\ tasks' = q
  /\ UNCHANGED <<inFlight, cache, lost, pendingRequests, backend>>

\* The promise in flight for this URL is shared; its follow-up is scheduled
\* at once if that promise has settled already.
Ride(r, c, q) ==
  LET l     == Leader(c)
      rider == Task("ride", r, 0, "none")
      late  == promise[l] # "pending"
  IN  /\ l # Nobody
      /\ promise' = [promise EXCEPT ![r] = "pending"]
      /\ riding' = [riding EXCEPT ![r] = l]
      /\ followers' = [followers EXCEPT ![r] = Adopter(r),
                                        ![l] = IF late THEN @ ELSE Append(@, rider)]
      /\ tasks' = IF late THEN Append(q, rider) ELSE q
      /\ UNCHANGED <<inFlight, cache, lost, pendingRequests, backend>>

\* A mistake the properties rule out: a concurrent request for the URL is not looked for.
SendUnshared(r, c, q) ==
  /\ Stored(c) = Nobody
  /\ promise' = [promise EXCEPT ![r] = "pending"]
  /\ inFlight' = IF Cacheable(c) THEN [inFlight EXCEPT ![c.url] = r] ELSE inFlight
  /\ followers' = [followers EXCEPT ![r] =
       (IF Cacheable(c) THEN <<Task("clear", r, 0, "none")>> ELSE <<>>) \o Adopter(r)]
  /\ pendingRequests' = Append(pendingRequests, r)
  /\ timer' = [timer EXCEPT ![r] = IF c.limit = "number" THEN "armed" ELSE "off"]
  /\ flight' = [flight EXCEPT ![r] = "sent"]
  /\ tasks' = IF c.limit = "promise" /\ cancelled[r]
              THEN Append(q, Task("abort", r, 0, "none")) ELSE q
  /\ UNCHANGED <<riding, cache, lost, aborted>>

\* The request goes out: it leads for its URL if it is cacheable, is counted
\* as pending, and its limit is armed.
Send(r, c, q) ==
  /\ Stored(c) = Nobody /\ Leader(c) = Nobody
  /\ promise' = [promise EXCEPT ![r] = "pending"]
  /\ inFlight' = IF Cacheable(c) THEN [inFlight EXCEPT ![c.url] = r] ELSE inFlight
  /\ followers' = [followers EXCEPT ![r] =
       (IF Cacheable(c) THEN <<Task("clear", r, 0, "none")>> ELSE <<>>) \o Adopter(r)]
  /\ pendingRequests' = Append(pendingRequests, r)
  /\ timer' = [timer EXCEPT ![r] = IF c.limit = "number" THEN "armed" ELSE "off"]
  /\ flight' = [flight EXCEPT ![r] = "sent"]
  /\ tasks' = IF c.limit = "promise" /\ cancelled[r]
              THEN Append(q, Task("abort", r, 0, "none")) ELSE q
  /\ UNCHANGED <<riding, cache, lost, aborted>>

ServerRequest(r, c, q) ==
  Refuse(r, q) \/ Hit(r, c, q) \/ Ride(r, c, q) \/ Send(r, c, q)

-----------------------------------------------------------------------------
(* The caller                                                              *)

NextRequest == CHOOSE r \in Requests : config[r] = Unissued

\* $http(c).  The promise given as limit may have settled long ago.
Issues(c, spent) ==
  /\ Cardinality({r \in Requests : config[r] # Unissued}) < Calls[interceptors]
  /\ spent => c.limit = "promise"
  /\ config' = [config EXCEPT ![NextRequest] = c]
  /\ cancelled' = [cancelled EXCEPT ![NextRequest] = spent]

\* Without interceptors the server stage runs in the call itself.
IssueDirect(c, spent) ==
  /\ interceptors = <<>>
  /\ Issues(c, spent)
  /\ ServerRequest(NextRequest, c, tasks)
  /\ UNCHANGED chain

IssueChained(c, spent) ==
  /\ interceptors # <<>>
  /\ Issues(c, spent)
  /\ Advance(tasks, NextRequest, 0, "ok")
  /\ UNCHANGED <<interceptors, awaiting, promise, followers, shared, pendingRequests, backend>>

\* The caller settles the promise it gave as limit: the request that was sent
\* hangs on it.
Cancel(r) ==
  /\ config[r].limit = "promise" /\ ~cancelled[r]
  /\ cancelled' = [cancelled EXCEPT ![r] = TRUE]
  /\ tasks' = IF flight[r] # "none"
              THEN Append(tasks, Task("abort", r, 0, "none")) ELSE tasks
  /\ UNCHANGED <<chain, config, promise, followers, shared, pendingRequests, backend>>

-----------------------------------------------------------------------------
(* The transport                                                           *)

\* fetch has its response, or the JSONP script called the callback.
Half(r) ==
  /\ flight[r] = "sent"
  /\ flight' = [flight EXCEPT ![r] = "half"]
  /\ UNCHANGED <<chain, config, promise, followers, shared, pendingRequests,
                 aborted, timer, cancelled, tasks>>

\* The transport's deferred settles; what it gives is handled from the queue.
Gives(r, o) ==
  /\ flight' = [flight EXCEPT ![r] = "done"]
  /\ tasks' = Append(tasks, Task("raw", r, 0, o))
  /\ UNCHANGED <<chain, config, promise, followers, shared, pendingRequests,
                 aborted, timer, cancelled>>

\* The body is read, with a status that is a success or not; the script is
\* loaded and called back, which counts as 200.
Whole(r, o) ==
  /\ flight[r] = "half"
  /\ config[r].method = "JSONP" => o = "ok"
  /\ Gives(r, o)

\* The network or the body fails, the script fails or never called back.
Breaks(r) ==
  /\ flight[r] \in {"sent", "half"}
  /\ Gives(r, "failed")

\* abort(): a JSONP request ends on the spot, a fetch rejects in its own time.
Abort(r, q) ==
  LET ends == config[r].method = "JSONP" /\ flight[r] \in {"sent", "half"} IN
  /\ aborted' = [aborted EXCEPT ![r] = TRUE]
  /\ flight' = [flight EXCEPT ![r] = IF ends THEN "done" ELSE @]
  /\ tasks' = IF ends THEN Append(q, Task("raw", r, 0, "failed")) ELSE q
  /\ UNCHANGED <<chain, config, promise, followers, shared, pendingRequests, cancelled>>

TimerFires(r) ==
  /\ timer[r] = "armed"
  /\ timer' = [timer EXCEPT ![r] = "fired"]
  /\ Abort(r, tasks)

-----------------------------------------------------------------------------
(* The digest runs the queued follow-ups                                    *)

Head1 == tasks[1]
Runs(kind) == tasks # <<>> /\ Head1.kind = kind

\* The deferred of r settles: its follow-ups are scheduled.
Settle(r, st) ==
  /\ promise' = [promise EXCEPT ![r] = st]
  /\ tasks' = Tail(tasks) \o followers[r]
  /\ followers' = [followers EXCEPT ![r] = <<>>]

\* A mistake the properties rule out: the bookkeeping is done for a response only.
FinishAnswersOnly(r) ==
  IF Head1.o = "failed" THEN UNCHANGED <<pendingRequests, timer>>
  ELSE /\ pendingRequests' = RemoveFirst(pendingRequests, r)
       /\ timer' = [timer EXCEPT ![r] = "off"]

\* onSettled: no longer pending, no timer.
OnSettled(r) ==
  /\ pendingRequests' = RemoveFirst(pendingRequests, r)
  /\ timer' = [timer EXCEPT ![r] = "off"]

\* A success whose response transforms went well: a copy is stored, then it is
\* reported.
RunSuccess ==
  /\ Runs("raw") /\ Head1.o = "ok"
  /\ LET r == Head1.r
         c == config[r]
     IN  /\ OnSettled(r) /\ Settle(r, "ok")
         /\ cache' = IF Cacheable(c) THEN [cache EXCEPT ![c.cache][c.url] = r] ELSE cache
  /\ UNCHANGED <<chain, config, riding, inFlight, lost, flight, aborted, cancelled>>

\* The copy for the cache throws, as it does for data that hold one object twice,
\* or the cache's put does.  The bookkeeping is done by then; the error ends in
\* the promise of the transport, and nothing settles the deferred any more.
RunStoreFails ==
  /\ Runs("raw") /\ Head1.o = "ok" /\ Cacheable(config[Head1.r])
  /\ OnSettled(Head1.r)
  /\ lost' = lost \cup {Head1.r} /\ tasks' = Tail(tasks)
  /\ UNCHANGED <<chain, config, promise, followers, riding, inFlight, cache, flight, aborted,
                 cancelled>>

\* Any other end: transport failure, error status, transform that throws.
RunFailure ==
  /\ Runs("raw")
  /\ OnSettled(Head1.r) /\ Settle(Head1.r, "fail")
  /\ UNCHANGED <<chain, config, shared, flight, aborted, cancelled>>

RunClear ==
  /\ Runs("clear")
  /\ inFlight' = [inFlight EXCEPT ![config[Head1.r].url] = Nobody]
  /\ tasks' = Tail(tasks)
  /\ UNCHANGED <<chain, config, promise, followers, riding, cache, lost, pendingRequests,
                 backend, cancelled>>

\* The rider reports what the shared promise reported, of a response a copy.
RunRide ==
  /\ Runs("ride")
  /\ Settle(Head1.r, promise[riding[Head1.r]])
  /\ UNCHANGED <<chain, config, shared, pendingRequests, backend, cancelled>>

\* That copy throws: the rider's own deferred is left as it is.
RunRideFails ==
  /\ Runs("ride") /\ promise[riding[Head1.r]] = "ok"
  /\ lost' = lost \cup {Head1.r} /\ tasks' = Tail(tasks)
  /\ UNCHANGED <<chain, config, promise, followers, riding, inFlight, cache, pendingRequests,
                 backend, cancelled>>

RunAbort ==
  /\ Runs("abort") /\ Abort(Head1.r, Tail(tasks)) /\ UNCHANGED timer

-----------------------------------------------------------------------------
(* The digest runs the links of a chain                                     *)

Here == Link(Head1.n)
Handled == IF Head1.o = "ok" THEN Here.ok ELSE Here.fail

Links ==
  UNCHANGED <<interceptors, promise, followers, shared, pendingRequests, backend, cancelled>>

\* No handler for this outcome: it passes on.
PassLink ==
  /\ Runs("link") /\ ~Handled
  /\ Advance(Tail(tasks), Head1.r, Head1.n, Head1.o)
  /\ Links /\ UNCHANGED <<config, awaiting>>

\* A request handler that succeeds gives the configuration that is sent.
Gave(r, n, o, c) ==
  config' = IF o = "ok" /\ Link(n).kind = "request" THEN [config EXCEPT ![r] = c]
            ELSE config

Rewrites(r) == {c \in Configs : c.limit = config[r].limit}

\* A handler returns or throws.
LinkReturns(o, c) ==
  /\ Runs("link") /\ Handled /\ Here.kind # "send"
  /\ c \in Rewrites(Head1.r)
  /\ Advance(Tail(tasks), Head1.r, Head1.n, o)
  /\ Gave(Head1.r, Head1.n, o, c)
  /\ Links /\ UNCHANGED awaiting

\* A handler returns a promise, which is awaited.
LinkDefers ==
  /\ Runs("link") /\ Handled /\ Here.kind # "send"
  /\ awaiting' = [awaiting EXCEPT ![Head1.r] = Head1.n]
  /\ tasks' = Tail(tasks)
  /\ Links /\ UNCHANGED <<config, final>>

\* User code settles that promise.
HandlerSettles(r, o, c) ==
  /\ awaiting[r] # 0
  /\ c \in Rewrites(r)
  /\ awaiting' = [awaiting EXCEPT ![r] = 0]
  /\ tasks' = Append(tasks, Task("adopt", r, awaiting[r], o))
  /\ Gave(r, awaiting[r], o, c)
  /\ Links /\ UNCHANGED final

\* The server stage, and its promise, which is awaited in turn.
RunSend ==
  /\ Runs("link") /\ Here.kind = "send" /\ Head1.o = "ok"
  /\ ServerRequest(Head1.r, config[Head1.r], Tail(tasks))
  /\ UNCHANGED <<chain, config, cancelled>>

\* The awaited promise has settled, and with it the link.
RunAdopt ==
  /\ Runs("adopt")
  /\ Advance(Tail(tasks), Head1.r, Head1.n,
             IF Here.kind = "send" THEN promise[Head1.r] ELSE Head1.o)
  /\ Links /\ UNCHANGED <<config, awaiting>>

RunTask ==
  \/ RunSuccess \/ RunStoreFails \/ RunFailure \/ RunClear \/ RunRide \/ RunRideFails \/ RunAbort
  \/ PassLink \/ LinkDefers \/ RunSend \/ RunAdopt
  \/ \E o \in {"ok", "fail"}, c \in Configs : LinkReturns(o, c)

Next ==
  \/ \E c \in Configs, spent \in BOOLEAN : IssueDirect(c, spent) \/ IssueChained(c, spent)
  \/ \E r \in Requests :
       \/ Cancel(r) \/ Half(r) \/ Breaks(r) \/ TimerFires(r)
       \/ \E o \in {"ok", "error"} : Whole(r, o)
       \/ \E o \in {"ok", "fail"}, c \in Configs : HandlerSettles(r, o, c)
  \/ RunTask

Spec == Init /\ [][Next]_vars

\* A fetch that was aborted ends, one way or the other.
AbortedEnds(r) ==
  aborted[r] /\ (Breaks(r) \/ Whole(r, "ok") \/ Whole(r, "error"))

\* The digest runs what is queued and a timer that is armed fires; nothing is
\* assumed of a server, or of user code.
FairSpec ==
  /\ Spec
  /\ WF_vars(RunTask)
  /\ \A r \in Requests : WF_vars(TimerFires(r)) /\ WF_vars(AbortedEnds(r))

-----------------------------------------------------------------------------
(* Properties                                                              *)

TypeOK ==
  LET outcomes == {"none", "pending", "ok", "fail"}
      Tasks    == [kind : {"link", "adopt", "raw", "clear", "ride", "abort"},
                   r : Requests, n : 0 .. LastLink,
                   o : outcomes \cup {"error", "failed"}]
  IN  /\ interceptors \in Stacks
      /\ config \in [Requests -> Configs \cup {Unissued}]
      /\ final \in [Requests -> {"none", "ok", "fail"}]
      /\ awaiting \in [Requests -> 0 .. LastLink]
      /\ promise \in [Requests -> outcomes]
      /\ followers \in [Requests -> Seq(Tasks)]
      /\ riding \in [Requests -> Requests \cup {Nobody}]
      /\ inFlight \in [URLs -> Requests \cup {Nobody}]
      /\ cache \in [Caches -> [URLs -> Requests \cup {Nobody}]]
      /\ lost \subseteq Requests
      /\ pendingRequests \in Seq(Requests)
      /\ flight \in [Requests -> {"none", "sent", "half", "done"}]
      /\ aborted \in [Requests -> BOOLEAN]
      /\ timer \in [Requests -> {"off", "armed", "fired"}]
      /\ cancelled \in [Requests -> BOOLEAN]
      /\ tasks \in Seq(Tasks)

Settled(r) == promise[r] \in {"ok", "fail"}

\* TypeOK (above): every variable of $http keeps its type.

\* What a busy indicator reads: pendingRequests holds each request that was
\* sent and has not ended exactly once, and nothing else, whichever way it
\* ends: settled, or with its response lost (http.ts 329-337, 370-373, 406, 413-414).
PendingExact ==
  /\ ToSet(pendingRequests) =
       {r \in Requests \ lost : flight[r] # "none" /\ promise[r] = "pending"}
  /\ IsInjective(pendingRequests)

\* A request that has ended leaves nothing behind: no armed timer, no transport
\* at work, no answer in the queue.  One that has settled leaves no follow-up that
\* waits for it either, and its entry among the requests in flight only until the
\* follow-up that deletes it has run; one whose response was lost leaves both for
\* ever, and only such a one is pending with nothing at work for it.
NothingLeftBehind ==
  \A r \in Requests :
    /\ Settled(r) \/ r \in lost =>
         /\ timer[r] # "armed" /\ flight[r] \in {"none", "done"}
         /\ \A k \in DOMAIN tasks : tasks[k].r = r => tasks[k].kind \notin {"raw", "ride"}
    /\ Settled(r) => followers[r] = <<>>
    /\ r \in lost => ~Settled(r)
    /\ \A u \in URLs : Settled(r) /\ inFlight[u] = r =>
         \E k \in DOMAIN tasks : tasks[k].kind = "clear" /\ tasks[k].r = r
    /\ flight[r] = "done" /\ promise[r] = "pending" =>
         r \in lost \/ \E k \in DOMAIN tasks : tasks[k].kind = "raw" /\ tasks[k].r = r

\* A chain is in one place at a time: a link is due, or a promise one of its
\* handlers returned is awaited, or the server stage is at work, or it is over.
OnePlace ==
  interceptors # <<>> =>
    \A r \in Requests : config[r] # Unissued =>
      LET due  == {k \in DOMAIN tasks : tasks[k].r = r /\ tasks[k].kind \in {"link", "adopt"}}
          held == {k \in DOMAIN followers[r] : followers[r][k].kind = "adopt"}
      IN  \E place \in {"due", "held", "awaited", "over"} :
            /\ IF place = "due" THEN \E k \in due : due = {k} ELSE due = {}
            /\ IF place = "held" THEN \E k \in held : held = {k} ELSE held = {}
            /\ place = "awaited" <=> awaiting[r] # 0
            /\ place = "over" <=> final[r] # "none"

\* What a call holds it gives back: it is pending exactly while its exchange
\* lasts, waits in one place, and leaves no timer, entry or handler behind.  Only a
\* response that could not be copied leaves its call, and the URL's, unsettled.
CallsTidy == TypeOK /\ PendingExact /\ OnePlace /\ NothingLeftBehind

\* Every request reports one outcome, its own exchange's or that of an
\* exchange for the same URL, and a URL has one exchange at a time: $http
\* implements AbstractHttp.
Key(r) == IF promise[r] # "none" /\ Cacheable(config[r]) THEN config[r].url ELSE NoCache

Exchange(r) ==
  IF flight[r] = "none" THEN "none" ELSE IF promise[r] = "pending" THEN "out" ELSE promise[r]

Abstract == INSTANCE AbstractHttp WITH
  Keys <- URLs, NoKey <- NoCache,
  key <- [r \in Requests |-> Key(r)],
  exchange <- [r \in Requests |-> Exchange(r)],
  result <- promise

ImplementsAbstract == Abstract!Spec

\* A request that was sent with a time limit settles, even if the server never
\* answers (http.ts 347-350 with http-backend.ts 325-332), unless its response is
\* lost once the limit's timer is off (http.ts 406).
Ended(r) == Settled(r) \/ r \in lost
LimitedSettles ==
  \A r \in Requests :
    (flight[r] # "none" /\ config[r].limit = "number") ~> Ended(r)

\* A request that shares another's promise settles once that one has, unless its
\* copy of the response throws (http.ts 308).
RidersSettle ==
  \A r \in Requests : (riding[r] # Nobody /\ Settled(riding[r])) ~> Ended(r)

\* A call with a limit settles, and one that rides on another's exchange does
\* when that one has; but for the responses that cannot be copied.
CallsSettle == LimitedSettles /\ RidersSettle

\* The functional specification of $http promises that a request issued with a
\* time limit is abandoned, and fails, when the limit elapses first (2.8).
\* Responses that are lost are left out here: it is not the limit that fails them.
LimitHonoured ==
  \A r \in Requests :
    (promise[r] # "none" /\ config[r].limit = "number") ~> Ended(r)
=============================================================================
