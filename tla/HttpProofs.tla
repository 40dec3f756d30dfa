----------------------------- MODULE HttpProofs -----------------------------
(***************************************************************************)
(* Proofs about Http, for any calls, configurations, URLs, caches and lists  *)
(* of interceptors: what a call holds it gives back (CallsTidy), and $http    *)
(* implements AbstractHttp.                                                 *)
(*                                                                         *)
(* A queue is reasoned about as the set of its follow-ups: no two of one      *)
(* queue are the same (Apart), so that nothing is lost by forgetting order.  *)
(***************************************************************************)
EXTENDS Http, SequenceFacts, FiniteSetTheorems, TLAPS

Outcomes == {"none", "pending", "ok", "fail"}
TaskSet ==
  [kind : {"link", "adopt", "raw", "clear", "ride", "abort"}, r : Requests,
   n : 0 .. LastLink, o : Outcomes \cup {"error", "failed"}]

\* The follow-ups that are due, and those that wait for the promise of r.
Due      == Those(tasks)
Waits(r) == Those(followers[r])

\* Where a chain is while a follow-up of it exists.
OfChain(t) == t.kind \in {"link", "adopt"}

\* Two follow-ups of which a request may have only one.
Same(a, b) ==
  /\ a.r = b.r /\ a.kind # "abort"
  /\ a.kind = b.kind \/ (OfChain(a) /\ OfChain(b))

Apart(q) == \A j, k \in DOMAIN q : Same(q[j], q[k]) => j = k
QueuesApart == Apart(tasks) /\ \A r \in Requests : Apart(followers[r])

-----------------------------------------------------------------------------
(* The inductive invariant                                                 *)

\* The stages of a request: one that was sent does not ride, one that is
\* pending was sent or rides, one that is settled is at rest.
Stages ==
  \A r \in Requests :
    /\ flight[r] # "none" => promise[r] # "none" /\ riding[r] = Nobody
    /\ promise[r] = "pending" => flight[r] # "none" \/ riding[r] # Nobody
    /\ promise[r] = "none" => riding[r] = Nobody
    /\ timer[r] = "armed" => promise[r] = "pending" /\ flight[r] # "none"
    /\ Settled(r) => flight[r] \in {"none", "done"}
    /\ followers[r] # <<>> => promise[r] = "pending"
    /\ config[r] = Unissued => promise[r] = "none"

Leads(r) == Cacheable(config[r]) /\ inFlight[config[r].url] = r /\ flight[r] # "none"

\* What waits for a promise: the deletion of its entry, the rest of its chain
\* and its riders.
WaitsOK ==
  \A r \in Requests : \A t \in Waits(r) :
    \/ t.kind = "clear" /\ t.r = r /\ Leads(r)
    \/ t.kind = "adopt" /\ t.r = r /\ t.n = SendLink
    \/ t.kind = "ride" /\ riding[t.r] = r /\ promise[t.r] = "pending"

\* What is due has not been done: a response is that of a request which is
\* pending, a link before the server stage that of a call which is not there yet.
DueRight(t) ==
  /\ t.kind = "raw" => flight[t.r] = "done" /\ promise[t.r] = "pending"
  /\ t.kind = "clear" => Settled(t.r) /\ Leads(t.r)
  /\ t.kind = "ride" =>
       riding[t.r] # Nobody /\ promise[t.r] = "pending" /\ Settled(riding[t.r])
  /\ t.kind = "link" =>
       t.n # 0 /\ t.o \in {"ok", "fail"} /\ (t.n <= SendLink => promise[t.r] = "none")
  /\ t.kind = "adopt" =>
       /\ t.n < SendLink => promise[t.r] = "none"
       /\ IF t.n = SendLink THEN Settled(t.r) ELSE t.n # 0 /\ t.o \in {"ok", "fail"}

DueOK == \A t \in Due : DueRight(t)

\* The entry of a leader is there until its follow-up has deleted it.
EntryKept ==
  \A u \in URLs : inFlight[u] # Nobody =>
    LET s == inFlight[u] IN
    /\ Leads(s) /\ config[s].url = u
    /\ promise[s] = "pending" => \E t \in Waits(s) : t.kind = "clear"
    /\ Settled(s) => \E t \in Due : t.kind = "clear" /\ t.r = s

\* A cacheable request whose exchange lasts has its entry.
OutLeads ==
  \A r \in Requests : flight[r] # "none" /\ promise[r] = "pending" /\ Cacheable(config[r]) =>
    inFlight[config[r].url] = r

SameKey(r, s) == Cacheable(config[r]) /\ Cacheable(config[s]) /\ config[r].url = config[s].url

\* A rider shares the promise of a request for its URL that was sent.
RidersOK ==
  \A r \in Requests : riding[r] # Nobody =>
    flight[riding[r]] # "none" /\ SameKey(r, riding[r])

\* A cache holds responses to requests for its URLs.
StoredOK ==
  \A c \in Caches, u \in URLs : cache[c][u] # Nobody =>
    LET s == cache[c][u] IN
    /\ Cacheable(config[s]) /\ config[s].url = u
    /\ promise[s] = "ok" /\ flight[s] # "none"

\* A response that was lost is past: its call is pending, with nothing at work for
\* it and nothing due that could settle it, and no other call comes to that.
LostOK ==
  /\ \A r \in lost :
       promise[r] = "pending" /\ timer[r] # "armed" /\ flight[r] \in {"none", "done"}
  /\ \A t \in Due : t.kind \in {"raw", "ride"} => t.r \notin lost
  /\ \A r \in Requests : \A t \in Waits(r) : t.kind = "ride" => t.r \notin lost
  /\ \A r \in Requests : flight[r] = "done" /\ promise[r] = "pending" =>
       r \in lost \/ \E t \in Due : t.kind = "raw" /\ t.r = r

\* A chain is in one place: exactly one of these is true of a call of it.
IsDue(r)     == \E t \in Due : OfChain(t) /\ t.r = r
IsHeld(r)    == \E t \in Waits(r) : OfChain(t)
IsAwaited(r) == awaiting[r] # 0
IsOver(r)    == final[r] # "none"

\* The place of a call in its chain, one of "due", "held", "awaited", "over" and
\* "nowhere" for a call without one.
AtPlace(r, p) ==
  /\ p = "due" <=> IsDue(r)
  /\ p = "held" <=> IsHeld(r)
  /\ p = "awaited" <=> IsAwaited(r)
  /\ p = "over" <=> IsOver(r)

Places == {"due", "held", "awaited", "over"}

PlacesOK ==
  \A r \in Requests :
    /\ config[r] # Unissued /\ interceptors # <<>> => \E p \in Places : AtPlace(r, p)
    /\ config[r] = Unissued \/ interceptors = <<>> => AtPlace(r, "nowhere")
    /\ awaiting[r] # 0 => awaiting[r] # SendLink /\ (awaiting[r] < SendLink => promise[r] = "none")

IInv ==
  /\ TypeOK /\ QueuesApart
  /\ Stages /\ WaitsOK /\ DueOK /\ EntryKept /\ OutLeads /\ RidersOK /\ StoredOK
  /\ PlacesOK /\ PendingExact /\ LostOK

-----------------------------------------------------------------------------
(* Queues                                                                  *)

LEMMA TailApart ==
  ASSUME NEW S, NEW q \in Seq(S), q # <<>>, Apart(q)
  PROVE  /\ Tail(q) \in Seq(S) /\ Apart(Tail(q)) /\ q[1] \in S
         /\ Those(q) = {q[1]} \cup Those(Tail(q))
         /\ \A t \in Those(Tail(q)) : ~Same(t, q[1])
  <1>1. /\ Len(q) \in Nat \ {0} /\ q[1] \in S /\ Tail(q) \in Seq(S)
        /\ Len(Tail(q)) = Len(q) - 1
        /\ \A k \in 1 .. Len(q) - 1 : Tail(q)[k] = q[k + 1]
        /\ Those(q) = {q[1]} \cup Those(Tail(q))
    BY TailFacts
  <1>2. DOMAIN q = 1 .. Len(q) /\ DOMAIN Tail(q) = 1 .. Len(q) - 1
    BY <1>1
  <1>3. Apart(Tail(q))
    <2>1. ASSUME NEW j \in 1 .. Len(q) - 1, NEW k \in 1 .. Len(q) - 1,
                 Same(Tail(q)[j], Tail(q)[k])
          PROVE  j = k
      <3>1. Same(q[j + 1], q[k + 1]) /\ j + 1 \in DOMAIN q /\ k + 1 \in DOMAIN q
        BY <1>1, <1>2, <2>1
      <3>2. j + 1 = k + 1
        BY <3>1 DEF Apart
      <3> QED BY <3>2
    <2> QED BY <1>2, <2>1 DEF Apart
  <1>4. ASSUME NEW t \in Those(Tail(q)), Same(t, q[1]) PROVE FALSE
    <2>1. PICK k \in 1 .. Len(q) - 1 : t = Tail(q)[k]
      BY <1>2 DEF Those
    <2>2. Same(q[k + 1], q[1]) /\ k + 1 \in DOMAIN q /\ 1 \in DOMAIN q
      BY <1>1, <1>2, <1>4, <2>1
    <2>3. k + 1 = 1
      BY <2>2 DEF Apart
    <2> QED BY <2>3
  <1> QED BY <1>1, <1>3, <1>4

LEMMA SameSymmetric ==
  ASSUME NEW a, NEW b, Same(a, b)
  PROVE  Same(b, a)
  BY DEF Same, OfChain

LEMMA ConcatApart ==
  ASSUME NEW S, NEW p \in Seq(S), NEW q \in Seq(S), Apart(p), Apart(q),
         \A a \in Those(p), b \in Those(q) : ~Same(a, b)
  PROVE  /\ p \o q \in Seq(S) /\ Apart(p \o q)
         /\ Those(p \o q) = Those(p) \cup Those(q)
  <1>1. /\ p \o q \in Seq(S) /\ Len(p \o q) = Len(p) + Len(q)
        /\ \A k \in 1 .. Len(p) : (p \o q)[k] = p[k]
        /\ \A k \in 1 .. Len(q) : (p \o q)[Len(p) + k] = q[k]
        /\ Those(p \o q) = Those(p) \cup Those(q)
    BY ConcatFacts
  <1>2. /\ DOMAIN p = 1 .. Len(p) /\ DOMAIN q = 1 .. Len(q)
        /\ DOMAIN (p \o q) = 1 .. Len(p) + Len(q) /\ Len(p) \in Nat /\ Len(q) \in Nat
    BY <1>1
  <1>3. ASSUME NEW k \in 1 .. Len(p) + Len(q), k > Len(p)
        PROVE  k - Len(p) \in DOMAIN q /\ (p \o q)[k] = q[k - Len(p)]
    <2> DEFINE i == k - Len(p)
    <2>1. i \in 1 .. Len(q) /\ k = Len(p) + i
      BY <1>2, <1>3
    <2> HIDE DEF i
    <2>2. (p \o q)[k] = q[i]
      BY <1>1, <2>1
    <2> QED BY <1>2, <2>1, <2>2 DEF i
  <1>4. ASSUME NEW j \in 1 .. Len(p) + Len(q), NEW k \in 1 .. Len(p) + Len(q),
               Same((p \o q)[j], (p \o q)[k])
        PROVE  j = k
    <2>1. CASE j <= Len(p) /\ k <= Len(p)
      <3>1. Same(p[j], p[k]) /\ j \in DOMAIN p /\ k \in DOMAIN p
        BY <1>1, <1>2, <1>4, <2>1
      <3> QED BY <3>1 DEF Apart
    <2>2. CASE j > Len(p) /\ k > Len(p)
      <3>1. j - Len(p) = k - Len(p)
        BY <1>3, <1>4, <2>2 DEF Apart
      <3> QED BY <1>2, <3>1
    <2>3. CASE j <= Len(p) /\ k > Len(p)
      <3>1. k - Len(p) \in DOMAIN q /\ (p \o q)[k] = q[k - Len(p)] /\ (p \o q)[j] = p[j]
        BY <1>1, <1>2, <1>3, <2>3
      <3>2. p[j] \in Those(p) /\ q[k - Len(p)] \in Those(q)
        BY <1>2, <2>3, <3>1 DEF Those
      <3> QED BY <1>4, <3>1, <3>2
    <2>4. CASE j > Len(p) /\ k <= Len(p)
      <3>1. j - Len(p) \in DOMAIN q /\ (p \o q)[j] = q[j - Len(p)] /\ (p \o q)[k] = p[k]
        BY <1>1, <1>2, <1>3, <2>4
      <3>2. p[k] \in Those(p) /\ q[j - Len(p)] \in Those(q)
        BY <1>2, <2>4, <3>1 DEF Those
      <3> QED BY <1>4, <3>1, <3>2, SameSymmetric
    <2> QED BY <1>2, <2>1, <2>2, <2>3, <2>4
  <1>5. Apart(p \o q)
    BY <1>2, <1>4 DEF Apart
  <1> QED BY <1>1, <1>5

LEMMA OneApart ==
  ASSUME NEW S, NEW t \in S
  PROVE  /\ <<t>> \in Seq(S) /\ Apart(<<t>>) /\ Those(<<t>>) = {t}
         /\ <<>> \in Seq(S) /\ Apart(<<>>) /\ Those(<<>>) = {}
  BY DEF Apart, Those

LEMMA AppendApart ==
  ASSUME NEW S, NEW q \in Seq(S), NEW t \in S, Apart(q), \A a \in Those(q) : ~Same(a, t)
  PROVE  /\ Append(q, t) \in Seq(S) /\ Apart(Append(q, t))
         /\ Those(Append(q, t)) = Those(q) \cup {t}
  <1>1. Append(q, t) = q \o <<t>>
    BY AppendIsConcat
  <1>2. <<t>> \in Seq(S) /\ Apart(<<t>>) /\ Those(<<t>>) = {t}
    BY OneApart
  <1>3. \A a \in Those(q), b \in Those(<<t>>) : ~Same(a, b)
    BY <1>2
  <1> QED
    <2>1. /\ q \o <<t>> \in Seq(S) /\ Apart(q \o <<t>>)
          /\ Those(q \o <<t>>) = Those(q) \cup Those(<<t>>)
      BY <1>2, <1>3, ConcatApart
    <2> QED BY <1>1, <1>2, <2>1

\* What indexOf and splice do to a list without duplicates.
LEMMA RemoveFacts ==
  ASSUME NEW S, NEW s \in Seq(S), IsInjective(s), NEW e
  PROVE  /\ RemoveFirst(s, e) \in Seq(S) /\ IsInjective(RemoveFirst(s, e))
         /\ ToSet(RemoveFirst(s, e)) = ToSet(s) \ {e}
  <1>0. DOMAIN s = 1 .. Len(s) /\ Len(s) \in Nat
    OBVIOUS
  <1>1. CASE \A i \in 1 .. Len(s) : s[i] # e
    <2>1. RemoveFirst(s, e) = s
      BY <1>1 DEF RemoveFirst
    <2> QED BY <1>0, <1>1, <2>1 DEF ToSet
  <1>2. ASSUME NEW i \in 1 .. Len(s), s[i] = e
        PROVE  /\ RemoveFirst(s, e) \in Seq(S) /\ IsInjective(RemoveFirst(s, e))
               /\ ToSet(RemoveFirst(s, e)) = ToSet(s) \ {e}
    <2> DEFINE d == SubSeq(s, 1, i - 1) \o SubSeq(s, i + 1, Len(s))
    <2>1. {k \in 1 .. Len(s) : s[k] = e} = {i}
      BY <1>0, <1>2 DEF IsInjective
    <2>2. Min({i}) = i
      BY DEF Min
    <2>3. RemoveFirst(s, e) = RemoveAt(s, SelectInSeq(s, LAMBDA v : v = e))
      BY <1>2 DEF RemoveFirst
    <2>4. SelectInSeq(s, LAMBDA v : v = e) = i
      BY <2>1, <2>2 DEF SelectInSeq
    <2>5. RemoveFirst(s, e) = d
      BY <2>3, <2>4 DEF RemoveAt
    <2>6. /\ d \in Seq(S) /\ Len(d) = Len(s) - 1
          /\ \A k \in 1 .. Len(s) - 1 : d[k] = IF k < i THEN s[k] ELSE s[k + 1]
      BY DropFacts
    <2> HIDE DEF d
    <2>7. DOMAIN d = 1 .. Len(s) - 1
      BY <1>0, <2>6
    <2>8. IsInjective(d)
      <3>1. ASSUME NEW j \in 1 .. Len(s) - 1, NEW k \in 1 .. Len(s) - 1, d[j] = d[k]
            PROVE  j = k
        <4> DEFINE a == IF j < i THEN j ELSE j + 1
                   b == IF k < i THEN k ELSE k + 1
        <4>1. a \in DOMAIN s /\ b \in DOMAIN s /\ s[a] = s[b]
          BY <1>0, <2>6, <3>1
        <4>2. a = b
          BY <4>1 DEF IsInjective
        <4> QED BY <1>0, <4>2
      <3> QED BY <2>7, <3>1 DEF IsInjective
    <2>9. ToSet(d) = ToSet(s) \ {e}
      <3>1. ASSUME NEW x \in ToSet(d) PROVE x \in ToSet(s) \ {e}
        <4>1. PICK k \in 1 .. Len(s) - 1 : x = d[k]
          BY <2>7 DEF ToSet
        <4>2. PICK j \in DOMAIN s : j # i /\ x = s[j]
          BY <1>0, <2>6, <4>1
        <4> QED BY <1>0, <1>2, <4>2 DEF ToSet, IsInjective
      <3>2. ASSUME NEW x \in ToSet(s) \ {e} PROVE x \in ToSet(d)
        <4>1. PICK j \in 1 .. Len(s) : x = s[j] /\ j # i
          BY <1>0, <1>2 DEF ToSet
        <4>2. PICK k \in 1 .. Len(s) - 1 : x = d[k]
          <5>1. CASE j < i
            BY <1>0, <2>6, <4>1, <5>1
          <5>2. CASE j > i
            <6>1. j - 1 \in 1 .. Len(s) - 1 /\ ~(j - 1 < i) /\ (j - 1) + 1 = j
              BY <1>0, <5>2
            <6> QED BY <2>6, <4>1, <6>1
          <5> QED BY <1>0, <4>1, <5>1, <5>2
        <4> QED BY <2>7, <4>2 DEF ToSet
      <3> QED BY <3>1, <3>2
    <2> QED BY <2>5, <2>6, <2>8, <2>9
  <1> QED BY <1>1, <1>2

-----------------------------------------------------------------------------
(* What a step starts from                                                 *)

Statuses == {"none", "sent", "half", "done"}

LEMMA TypeParts ==
  ASSUME TypeOK
  PROVE  /\ interceptors \in Stacks /\ tasks \in Seq(TaskSet)
         /\ followers \in [Requests -> Seq(TaskSet)]
         /\ config \in [Requests -> Configs \cup {Unissued}]
         /\ final \in [Requests -> {"none", "ok", "fail"}]
         /\ awaiting \in [Requests -> 0 .. LastLink]
         /\ promise \in [Requests -> Outcomes]
         /\ riding \in [Requests -> Requests \cup {Nobody}]
         /\ inFlight \in [URLs -> Requests \cup {Nobody}]
         /\ cache \in [Caches -> [URLs -> Requests \cup {Nobody}]]
         /\ lost \subseteq Requests /\ pendingRequests \in Seq(Requests)
         /\ flight \in [Requests -> Statuses]
         /\ aborted \in [Requests -> BOOLEAN]
         /\ timer \in [Requests -> {"off", "armed", "fired"}]
         /\ cancelled \in [Requests -> BOOLEAN]
  BY DEF TypeOK, TaskSet, Outcomes, Statuses

LEMMA TypeFrom ==
  ASSUME UNCHANGED interceptors,
         interceptors \in Stacks /\ tasks' \in Seq(TaskSet),
         followers' \in [Requests -> Seq(TaskSet)],
         config' \in [Requests -> Configs \cup {Unissued}],
         final' \in [Requests -> {"none", "ok", "fail"}],
         awaiting' \in [Requests -> 0 .. LastLink],
         promise' \in [Requests -> Outcomes],
         riding' \in [Requests -> Requests \cup {Nobody}],
         inFlight' \in [URLs -> Requests \cup {Nobody}],
         cache' \in [Caches -> [URLs -> Requests \cup {Nobody}]],
         lost' \subseteq Requests, pendingRequests' \in Seq(Requests),
         flight' \in [Requests -> Statuses],
         aborted' \in [Requests -> BOOLEAN],
         timer' \in [Requests -> {"off", "armed", "fired"}],
         cancelled' \in [Requests -> BOOLEAN]
  PROVE  TypeOK'
  <1>1. LastLink' = LastLink
    BY DEF LastLink
  <1> QED BY <1>1 DEF TypeOK, TaskSet, Outcomes, Statuses

LEMMA TaskTyped ==
  ASSUME TypeOK
  PROVE  /\ \A t \in Due : t \in TaskSet
         /\ \A r \in Requests : \A t \in Waits(r) : t \in TaskSet
         /\ \A t \in TaskSet : /\ t.r \in Requests /\ t.n \in 0 .. LastLink
                               /\ t.kind \in {"link", "adopt", "raw", "clear", "ride", "abort"}
  <1>1. /\ tasks \in Seq(TaskSet) /\ \A r \in Requests : followers[r] \in Seq(TaskSet)
    BY TypeParts
  <1>2. \A q \in Seq(TaskSet) : \A t \in Those(q) : t \in TaskSet
    <2>1. ASSUME NEW q \in Seq(TaskSet), NEW k \in DOMAIN q PROVE q[k] \in TaskSet
      BY ElementOfSeq
    <2> QED BY <2>1 DEF Those
  <1>3. \A t \in TaskSet : /\ t.r \in Requests /\ t.n \in 0 .. LastLink
                           /\ t.kind \in {"link", "adopt", "raw", "clear", "ride", "abort"}
    BY DEF TaskSet
  <1> QED BY <1>1, <1>2, <1>3 DEF Due, Waits

LEMMA LinkNumbers ==
  ASSUME HttpAssumption, interceptors \in Stacks
  PROVE  /\ SendLink \in Nat \ {0} /\ LastLink \in Nat /\ SendLink <= LastLink
         /\ \A n \in 0 .. LastLink : Link(n).kind = "send" <=> n = SendLink
         /\ \A n \in 0 .. LastLink : Link(n).kind = "request" <=> n < SendLink
  <1>1. Len(interceptors) \in Nat
    BY DEF HttpAssumption, Stacks
  <1>2. SendLink \in Nat \ {0} /\ LastLink \in Nat /\ SendLink <= LastLink
    BY <1>1 DEF SendLink, LastLink
  <1> QED BY <1>2 DEF Link

LEMMA TaskParts ==
  ASSUME NEW kind, NEW r, NEW n, NEW o
  PROVE  /\ Task(kind, r, n, o).kind = kind /\ Task(kind, r, n, o).r = r
         /\ Task(kind, r, n, o).n = n /\ Task(kind, r, n, o).o = o
         /\ (kind \in {"link", "adopt", "raw", "clear", "ride", "abort"} /\ r \in Requests
             /\ n \in 0 .. LastLink /\ o \in Outcomes \cup {"error", "failed"}
             => Task(kind, r, n, o) \in TaskSet)
  BY DEF Task, TaskSet

\* The follow-up that runs, and what is left.
LEMMA HeadFacts ==
  ASSUME TypeOK, QueuesApart, tasks # <<>>
  PROVE  /\ Head1 \in TaskSet /\ Head1 \in Due
         /\ Tail(tasks) \in Seq(TaskSet) /\ Apart(Tail(tasks))
         /\ Due = {Head1} \cup Those(Tail(tasks))
         /\ \A t \in Those(Tail(tasks)) : ~Same(t, Head1)
  <1>1. tasks \in Seq(TaskSet) /\ Apart(tasks)
    BY TypeParts DEF QueuesApart
  <1>2. /\ Tail(tasks) \in Seq(TaskSet) /\ Apart(Tail(tasks)) /\ tasks[1] \in TaskSet
        /\ Those(tasks) = {tasks[1]} \cup Those(Tail(tasks))
        /\ \A t \in Those(Tail(tasks)) : ~Same(t, tasks[1])
    BY <1>1, TailApart
  <1> QED BY <1>2 DEF Head1, Due

\* A call of a chain has one place.
LEMMA PlaceOf ==
  ASSUME PlacesOK, NEW r \in Requests, config[r] # Unissued, interceptors # <<>>
  PROVE  /\ IsDue(r) \/ IsHeld(r) \/ IsAwaited(r) \/ IsOver(r)
         /\ IsDue(r) => ~IsHeld(r) /\ ~IsAwaited(r) /\ ~IsOver(r)
         /\ IsHeld(r) => ~IsDue(r) /\ ~IsAwaited(r) /\ ~IsOver(r)
         /\ IsAwaited(r) => ~IsDue(r) /\ ~IsHeld(r) /\ ~IsOver(r)
         /\ IsOver(r) => ~IsDue(r) /\ ~IsHeld(r) /\ ~IsAwaited(r)
  <1>1. PICK p \in Places : AtPlace(r, p)
    BY DEF PlacesOK
  <1> QED BY <1>1 DEF AtPlace, Places

\* And one that is in a place, or was given to the server stage, is a call.
LEMMA PlacedIsIssued ==
  ASSUME PlacesOK, NEW r \in Requests, IsDue(r) \/ IsHeld(r) \/ IsAwaited(r) \/ IsOver(r)
  PROVE  config[r] # Unissued /\ interceptors # <<>>
  BY DEF PlacesOK, AtPlace

-----------------------------------------------------------------------------
(* Steps of a chain                                                        *)

\* What a chain does with its configuration before the server stage, and with
\* its place, leaves everything else right.
LEMMA ChainKeeps ==
  ASSUME HttpAssumption, IInv, NEW r \in Requests,
         UNCHANGED <<interceptors, promise, followers, riding, inFlight, lost, cache,
                     pendingRequests, flight, timer>>,
         \A s \in Requests : s # r => config'[s] = config[s],
         config'[r] = config[r] \/ promise[r] = "none",
         \A t \in Due : t \in Due' \/ OfChain(t),
         \A t \in Due' : t \in Due \/ (OfChain(t) /\ t.r = r /\ DueRight(t))
  PROVE  Stages' /\ WaitsOK' /\ DueOK' /\ EntryKept' /\ OutLeads' /\ RidersOK' /\ StoredOK'
         /\ PendingExact' /\ LostOK'
  <1>1. Stages'
    BY DEF IInv, Stages, Settled
  <1>2. \A s \in Requests : promise[s] # "none" => config'[s] = config[s]
    OBVIOUS
  <1>3. \A s \in Requests : flight[s] # "none" => promise[s] # "none"
    BY DEF IInv, Stages
  <1>4. \A s \in Requests : Leads(s) => Leads(s)'
    BY <1>2, <1>3 DEF Leads, Cacheable
  <1>5. WaitsOK'
    <2>1. \A s \in Requests : Waits(s)' = Waits(s)
      BY DEF Waits
    <2>2. SendLink' = SendLink
      BY DEF SendLink
    <2> QED BY <1>4, <2>1, <2>2 DEF IInv, WaitsOK
  <1>6. DueOK'
    <2>1. ASSUME NEW t \in Due', DueRight(t), t.r \in Requests PROVE DueRight(t)'
      <3>1. SendLink' = SendLink /\ Settled(t.r)' = Settled(t.r)
        BY DEF SendLink, Settled
      <3>2. Settled(riding[t.r])' = Settled(riding[t.r])
        BY DEF Settled
      <3> QED BY <1>4, <2>1, <3>1, <3>2 DEF DueRight
    <2>2. \A t \in Due : t.r \in Requests
      BY TaskTyped DEF IInv
    <2> QED BY <2>1, <2>2 DEF IInv, DueOK
  <1>7. EntryKept'
    <2> SUFFICES ASSUME NEW u \in URLs, inFlight[u] # Nobody
                 PROVE  LET s == inFlight[u] IN
                        /\ Leads(s)' /\ config'[s].url = u
                        /\ promise[s] = "pending" => \E t \in Waits(s)' : t.kind = "clear"
                        /\ Settled(s)' => \E t \in Due' : t.kind = "clear" /\ t.r = s
      BY DEF EntryKept
    <2> DEFINE s == inFlight[u]
    <2>1. /\ Leads(s) /\ config[s].url = u
          /\ promise[s] = "pending" => \E t \in Waits(s) : t.kind = "clear"
          /\ Settled(s) => \E t \in Due : t.kind = "clear" /\ t.r = s
      BY DEF IInv, EntryKept
    <2>2. s \in Requests
      BY TypeParts DEF IInv
    <2>3. promise[s] # "none"
      BY <1>3, <2>1, <2>2 DEF Leads
    <2>4. Waits(s)' = Waits(s) /\ Settled(s)' = Settled(s)
      BY DEF Waits, Settled
    <2>5. Settled(s) => \E t \in Due' : t.kind = "clear" /\ t.r = s
      BY <2>1 DEF OfChain
    <2> QED BY <1>2, <1>4, <2>1, <2>2, <2>3, <2>4, <2>5
  <1>8. OutLeads'
    BY <1>2, <1>3 DEF IInv, OutLeads, Cacheable
  <1>9. RidersOK'
    <2> SUFFICES ASSUME NEW s \in Requests, riding[s] # Nobody
                 PROVE  flight[riding[s]] # "none" /\ SameKey(s, riding[s])'
      BY DEF RidersOK
    <2>1. riding[s] \in Requests /\ flight[riding[s]] # "none" /\ SameKey(s, riding[s])
      BY TypeParts DEF IInv, RidersOK
    <2>2. promise[s] # "none" /\ promise[riding[s]] # "none"
      BY <1>3, <2>1 DEF IInv, Stages
    <2> QED BY <1>2, <2>1, <2>2 DEF SameKey, Cacheable
  <1>10. StoredOK'
    <2> SUFFICES ASSUME NEW c \in Caches, NEW u \in URLs, cache[c][u] # Nobody
                 PROVE  LET s == cache[c][u] IN
                        /\ Cacheable(config'[s]) /\ config'[s].url = u
                        /\ promise[s] = "ok" /\ flight[s] # "none"
      BY DEF StoredOK, Cacheable
    <2>1. cache[c][u] \in Requests
      BY TypeParts DEF IInv
    <2> QED BY <1>2, <2>1 DEF IInv, StoredOK
  <1>11. PendingExact'
    BY DEF IInv, PendingExact, IsInjective, ToSet
  <1>12. LostOK'
    BY DEF IInv, LostOK, Waits, OfChain
  <1> QED BY <1>1, <1>5, <1>6, <1>7, <1>8, <1>9, <1>10, <1>11, <1>12

LEMMA AdvanceFacts ==
  ASSUME HttpAssumption, TypeOK, NEW q \in Seq(TaskSet), Apart(q), NEW r \in Requests,
         NEW n \in 0 .. LastLink, NEW o \in {"ok", "fail"},
         \A t \in Those(q) : ~(OfChain(t) /\ t.r = r), Advance(q, r, n, o)
  PROVE  /\ tasks' \in Seq(TaskSet) /\ Apart(tasks')
         /\ \/ Due' = Those(q) /\ final' = [final EXCEPT ![r] = o]
            \/ /\ final' = final
               /\ \E m \in n + 1 .. LastLink : Due' = Those(q) \cup {Task("link", r, m, o)}
  <1>1. CASE tasks' = q /\ final' = [final EXCEPT ![r] = o]
    BY <1>1 DEF Due
  <1>2. ASSUME NEW m \in n + 1 .. LastLink, tasks' = Append(q, Task("link", r, m, o)),
               final' = final
        PROVE  /\ tasks' \in Seq(TaskSet) /\ Apart(tasks')
               /\ Due' = Those(q) \cup {Task("link", r, m, o)}
    <2> DEFINE t == Task("link", r, m, o)
    <2>1. m \in 0 .. LastLink /\ o \in Outcomes \cup {"error", "failed"}
      BY LinkNumbers, TypeParts DEF Outcomes
    <2>2. t \in TaskSet /\ t.kind = "link" /\ t.r = r
      BY <2>1, TaskParts
    <2>3. \A a \in Those(q) : ~Same(a, t)
      BY <2>2 DEF Same, OfChain
    <2> HIDE DEF t
    <2>4. Append(q, t) \in Seq(TaskSet) /\ Apart(Append(q, t)) /\ Those(Append(q, t)) = Those(q) \cup {t}
      BY <2>2, <2>3, AppendApart
    <2> QED BY <1>2, <2>4 DEF Due, t
  <1> QED BY <1>1, <1>2 DEF Advance, Following

LEMMA ChainAdvances ==
  ASSUME HttpAssumption, IInv, NEW r \in Requests, NEW n \in 0 .. LastLink,
         NEW o \in {"ok", "fail"}, NEW q \in Seq(TaskSet), Apart(q), interceptors # <<>>,
         \A t \in Those(q) : t \in Due /\ ~(OfChain(t) /\ t.r = r),
         \A t \in Due : t \in Those(q) \/ (OfChain(t) /\ t.r = r),
         ~IsHeld(r), ~IsOver(r), awaiting[r] = 0,
         n < SendLink => promise[r] = "none",
         Advance(q, r, n, o),
         UNCHANGED <<interceptors, awaiting, promise, followers, riding, inFlight, lost, cache,
                     pendingRequests, flight, aborted, timer>>,
         config' \in [Requests -> Configs \cup {Unissued}], config'[r] # Unissued,
         \A s \in Requests : s # r => config'[s] = config[s],
         config'[r] = config[r] \/ promise[r] = "none",
         cancelled' \in [Requests -> BOOLEAN]
  PROVE  IInv'
  <1>1. TypeOK
    BY DEF IInv
  <1>2. /\ tasks' \in Seq(TaskSet) /\ Apart(tasks')
        /\ \/ Due' = Those(q) /\ final' = [final EXCEPT ![r] = o]
           \/ /\ final' = final
              /\ \E m \in n + 1 .. LastLink : Due' = Those(q) \cup {Task("link", r, m, o)}
    BY <1>1, AdvanceFacts
  <1>3. SendLink' = SendLink /\ \A s \in Requests : Waits(s)' = Waits(s)
    BY DEF SendLink, Waits
  <1>4. final' \in [Requests -> {"none", "ok", "fail"}]
    BY <1>1, <1>2, TypeParts
  <1>5. TypeOK'
    BY <1>1, <1>2, <1>4, TypeParts, TypeFrom
  <1>6. QueuesApart'
    BY <1>2 DEF IInv, QueuesApart, Apart
  <1>7. \A m \in n + 1 .. LastLink :
          LET t == Task("link", r, m, o)
          IN  t.r = r /\ OfChain(t) /\ DueRight(t)
    <2> TAKE m \in n + 1 .. LastLink
    <2> DEFINE t == Task("link", r, m, o)
    <2>1. t.kind = "link" /\ t.r = r /\ t.n = m /\ t.o = o
      BY TaskParts
    <2> HIDE DEF t
    <2>2. m # 0 /\ (m <= SendLink => n < SendLink)
      BY <1>1, LinkNumbers, TypeParts
    <2> QED BY <2>1, <2>2 DEF OfChain, DueRight, t
  <1>8. Stages' /\ WaitsOK' /\ DueOK' /\ EntryKept' /\ OutLeads' /\ RidersOK' /\ StoredOK'
        /\ PendingExact' /\ LostOK'
    <2>1. \A t \in Due : t \in Due' \/ OfChain(t)
      BY <1>2
    <2>2. \A t \in Due' : t \in Due \/ (OfChain(t) /\ t.r = r /\ DueRight(t))
      BY <1>2, <1>7
    <2> QED BY <2>1, <2>2, ChainKeeps
  <1>9. PlacesOK'
    <2>1. ASSUME NEW s \in Requests, s # r
          PROVE  /\ IsDue(s)' <=> IsDue(s)
                 /\ IsOver(s)' <=> IsOver(s)
      <3>1. IsDue(s)' <=> IsDue(s)
        BY <1>2, <1>7, <2>1 DEF IsDue
      <3>2. final'[s] = final[s]
        BY <1>1, <1>2, <2>1, TypeParts
      <3> QED BY <3>1, <3>2 DEF IsOver
    <2>2. \A s \in Requests : /\ IsHeld(s)' <=> IsHeld(s)
                              /\ IsAwaited(s)' <=> IsAwaited(s)
      BY <1>3 DEF IsHeld, IsAwaited
    <2>3. AtPlace(r, "due")' \/ AtPlace(r, "over")'
      <3>1. ~IsHeld(r)' /\ ~IsAwaited(r)'
        BY <2>2 DEF IsAwaited
      <3>2. CASE Due' = Those(q) /\ final' = [final EXCEPT ![r] = o]
        <4>1. ~IsDue(r)' /\ IsOver(r)'
          BY <1>1, <3>2, TypeParts DEF IsDue, IsOver
        <4> QED BY <3>1, <4>1 DEF AtPlace
      <3>3. ASSUME NEW m \in n + 1 .. LastLink, final' = final,
                   Due' = Those(q) \cup {Task("link", r, m, o)}
            PROVE  AtPlace(r, "due")'
        <4>1. IsDue(r)' /\ ~IsOver(r)'
          BY <1>7, <3>3 DEF IsDue, IsOver
        <4> QED BY <3>1, <4>1 DEF AtPlace
      <3> QED BY <1>2, <3>2, <3>3
    <2>4. ASSUME NEW s \in Requests, s # r
          PROVE  /\ config'[s] # Unissued /\ interceptors # <<>> =>
                      \E p \in Places : AtPlace(s, p)'
                 /\ config'[s] = Unissued \/ interceptors = <<>> => AtPlace(s, "nowhere")'
      <3>1. \A p : AtPlace(s, p)' <=> AtPlace(s, p)
        BY <2>1, <2>2, <2>4 DEF AtPlace
      <3> QED BY <2>4, <3>1 DEF IInv, PlacesOK
    <2>5. \A s \in Requests : awaiting'[s] # 0 =>
            awaiting'[s] # SendLink' /\ (awaiting'[s] < SendLink' => promise'[s] = "none")
      BY <1>3 DEF IInv, PlacesOK
    <2> QED BY <2>3, <2>4, <2>5 DEF PlacesOK, Places
  <1> QED BY <1>5, <1>6, <1>8, <1>9 DEF IInv

\* What the chain of the follow-up that runs is left with.
LEMMA ChainHead ==
  ASSUME HttpAssumption, IInv, tasks # <<>>, OfChain(Head1)
  PROVE  LET q == Tail(tasks)
             r == Head1.r
         IN  /\ r \in Requests /\ Head1 \in Due /\ DueRight(Head1) /\ Head1.n \in 0 .. LastLink
             /\ q \in Seq(TaskSet) /\ Apart(q)
             /\ \A t \in Those(q) : t \in Due /\ ~(OfChain(t) /\ t.r = r)
             /\ \A t \in Due : t \in Those(q) \/ (OfChain(t) /\ t.r = r)
             /\ ~IsHeld(r) /\ ~IsOver(r) /\ awaiting[r] = 0
             /\ config[r] # Unissued /\ interceptors # <<>>
  <1> DEFINE q == Tail(tasks)
             r == Head1.r
  <1>1. /\ Head1 \in TaskSet /\ Head1 \in Due /\ q \in Seq(TaskSet) /\ Apart(q)
        /\ Due = {Head1} \cup Those(q) /\ \A t \in Those(q) : ~Same(t, Head1)
    BY HeadFacts DEF IInv
  <1>2. r \in Requests /\ Head1.n \in 0 .. LastLink
    BY <1>1, TaskTyped DEF IInv
  <1>3. \A t \in Those(q) : ~(OfChain(t) /\ t.r = r)
    BY <1>1 DEF Same, OfChain
  <1>4. IsDue(r)
    BY <1>1 DEF IsDue
  <1>5. config[r] # Unissued /\ interceptors # <<>>
    BY <1>2, <1>4, PlacedIsIssued DEF IInv
  <1>6. ~IsHeld(r) /\ ~IsAwaited(r) /\ ~IsOver(r)
    BY <1>2, <1>4, <1>5, PlaceOf DEF IInv
  <1> QED BY <1>1, <1>2, <1>3, <1>5, <1>6 DEF IInv, DueOK, IsAwaited

LEMMA PassLinkStep ==
  ASSUME HttpAssumption, IInv, PassLink
  PROVE  IInv'
  <1>1. tasks # <<>> /\ OfChain(Head1)
    BY DEF PassLink, Runs, OfChain
  <1>2. Head1.o \in {"ok", "fail"} /\ (Head1.n < SendLink => promise[Head1.r] = "none")
    BY <1>1, ChainHead, LinkNumbers, TypeParts DEF DueRight, PassLink, Runs, IInv
  <1>3. config' = config /\ cancelled' = cancelled
    BY DEF PassLink, Links
  <1>4. Advance(Tail(tasks), Head1.r, Head1.n, Head1.o)
    BY DEF PassLink
  <1>5. UNCHANGED <<interceptors, awaiting, promise, followers, riding, inFlight, lost, cache,
                    pendingRequests, flight, aborted, timer>>
    BY DEF PassLink, Links, shared, backend
  <1>6. /\ config' \in [Requests -> Configs \cup {Unissued}] /\ config'[Head1.r] # Unissued
        /\ cancelled' \in [Requests -> BOOLEAN]
    BY <1>1, <1>3, ChainHead, TypeParts DEF IInv
  <1> QED BY <1>1, <1>2, <1>3, <1>4, <1>5, <1>6, ChainHead, ChainAdvances

LEMMA GaveFacts ==
  ASSUME HttpAssumption, IInv, NEW r \in Requests, NEW n \in 0 .. LastLink, NEW o,
         NEW c \in Configs, Gave(r, n, o, c), config[r] # Unissued,
         n < SendLink => promise[r] = "none"
  PROVE  /\ config' \in [Requests -> Configs \cup {Unissued}] /\ config'[r] # Unissued
         /\ \A s \in Requests : s # r => config'[s] = config[s]
         /\ config'[r] = config[r] \/ promise[r] = "none"
  <1>1. config \in [Requests -> Configs \cup {Unissued}] /\ interceptors \in Stacks
    BY TypeParts DEF IInv
  <1>2. c # Unissued
    BY DEF HttpAssumption, Unissued
  <1>3. Link(n).kind = "request" => n < SendLink
    BY <1>1, LinkNumbers
  <1> QED BY <1>1, <1>2, <1>3 DEF Gave

\* A link that returns changes the configuration before the server stage only.
LEMMA LinkGaveFacts ==
  ASSUME HttpAssumption, IInv, NEW o \in {"ok", "fail"}, NEW c \in Configs, LinkReturns(o, c)
  PROVE  \A s \in Requests : config'[s] = config[s] \/ promise[s] = "none"
  <1>1. tasks # <<>> /\ OfChain(Head1)
    BY DEF LinkReturns, Runs, OfChain
  <1>2. Head1.n < SendLink => promise[Head1.r] = "none"
    BY <1>1, ChainHead, LinkNumbers, TypeParts DEF DueRight, LinkReturns, Runs, IInv
  <1>3. /\ \A s \in Requests : s # Head1.r => config'[s] = config[s]
        /\ config'[Head1.r] = config[Head1.r] \/ promise[Head1.r] = "none"
    BY <1>1, <1>2, ChainHead, GaveFacts DEF LinkReturns
  <1> QED BY <1>3

LEMMA LinkReturnsStep ==
  ASSUME HttpAssumption, IInv, NEW o \in {"ok", "fail"}, NEW c \in Configs, LinkReturns(o, c)
  PROVE  IInv'
  <1>1. tasks # <<>> /\ OfChain(Head1)
    BY DEF LinkReturns, Runs, OfChain
  <1>2. Head1.n < SendLink => promise[Head1.r] = "none"
    BY <1>1, ChainHead, LinkNumbers, TypeParts DEF DueRight, LinkReturns, Runs, IInv
  <1>3. /\ config' \in [Requests -> Configs \cup {Unissued}] /\ config'[Head1.r] # Unissued
        /\ \A s \in Requests : s # Head1.r => config'[s] = config[s]
        /\ config'[Head1.r] = config[Head1.r] \/ promise[Head1.r] = "none"
    BY <1>1, <1>2, ChainHead, GaveFacts DEF LinkReturns
  <1>4. cancelled' \in [Requests -> BOOLEAN]
    BY TypeParts DEF LinkReturns, Links, IInv
  <1> QED BY <1>1, <1>2, <1>3, <1>4, ChainHead, ChainAdvances
          DEF LinkReturns, Links, shared, backend

LEMMA RunAdoptStep ==
  ASSUME HttpAssumption, IInv, RunAdopt
  PROVE  IInv'
  <1> DEFINE o == IF Here.kind = "send" THEN promise[Head1.r] ELSE Head1.o
  <1>1. tasks # <<>> /\ OfChain(Head1) /\ Head1.kind = "adopt"
    BY DEF RunAdopt, Runs, OfChain
  <1>2. Head1.n < SendLink => promise[Head1.r] = "none"
    BY <1>1, ChainHead DEF DueRight
  <1>3. Here.kind = "send" <=> Head1.n = SendLink
    BY <1>1, ChainHead, LinkNumbers, TypeParts DEF Here, IInv
  <1>4. o \in {"ok", "fail"}
    BY <1>1, <1>3, ChainHead DEF DueRight, Settled
  <1>5. config' = config /\ cancelled' = cancelled
    BY DEF RunAdopt, Links
  <1>6. Advance(Tail(tasks), Head1.r, Head1.n, o)
    BY DEF RunAdopt
  <1> HIDE DEF o
  <1>7. UNCHANGED <<interceptors, awaiting, promise, followers, riding, inFlight, lost, cache,
                    pendingRequests, flight, aborted, timer>>
    BY DEF RunAdopt, Links, shared, backend
  <1>8. /\ config' \in [Requests -> Configs \cup {Unissued}] /\ config'[Head1.r] # Unissued
        /\ cancelled' \in [Requests -> BOOLEAN]
    BY <1>1, <1>5, ChainHead, TypeParts DEF IInv
  <1> QED BY <1>1, <1>2, <1>4, <1>5, <1>6, <1>7, <1>8, ChainHead, ChainAdvances

LEMMA LinkDefersStep ==
  ASSUME HttpAssumption, IInv, LinkDefers, NEW r, r = Head1.r
  PROVE  IInv'
  <1> DEFINE q == Tail(tasks)
  <1>1. tasks # <<>> /\ OfChain(Head1) /\ Head1.kind = "link"
    BY DEF LinkDefers, Runs, OfChain
  <1>2. /\ r \in Requests /\ Head1.n \in 0 .. LastLink /\ DueRight(Head1)
        /\ q \in Seq(TaskSet) /\ Apart(q)
        /\ \A t \in Those(q) : t \in Due /\ ~(OfChain(t) /\ t.r = r)
        /\ \A t \in Due : t \in Those(q) \/ (OfChain(t) /\ t.r = r)
        /\ ~IsHeld(r) /\ ~IsOver(r) /\ config[r] # Unissued /\ interceptors # <<>>
    BY <1>1, ChainHead
  <1>3. UNCHANGED <<interceptors, promise, followers, riding, inFlight, lost, cache,
                    pendingRequests, flight, aborted, timer, config, final, cancelled>>
    BY DEF LinkDefers, Links, shared, backend
  <1>4. Due' = Those(q) /\ tasks' = q
    BY DEF LinkDefers, Due
  <1>5. awaiting' = [awaiting EXCEPT ![r] = Head1.n]
    BY DEF LinkDefers
  <1>6. /\ Head1.n # 0 /\ Head1.n # SendLink
        /\ Head1.n < SendLink => promise[r] = "none"
    BY <1>1, <1>2, LinkNumbers, TypeParts DEF LinkDefers, Here, DueRight, IInv
  <1>7. TypeOK'
    BY <1>2, <1>3, <1>4, <1>5, TypeParts, TypeFrom DEF IInv
  <1>8. QueuesApart'
    BY <1>2, <1>3, <1>4 DEF IInv, QueuesApart, Apart
  <1>9. Stages' /\ WaitsOK' /\ DueOK' /\ EntryKept' /\ OutLeads' /\ RidersOK' /\ StoredOK'
        /\ PendingExact' /\ LostOK'
    BY <1>2, <1>3, <1>4, ChainKeeps
  <1>10. PlacesOK'
    <2>1. SendLink' = SendLink /\ awaiting \in [Requests -> 0 .. LastLink]
      BY <1>3, TypeParts DEF SendLink, IInv
    <2>2. \A s \in Requests : /\ IsHeld(s)' <=> IsHeld(s)
                              /\ IsOver(s)' <=> IsOver(s)
      BY <1>3 DEF IsHeld, IsOver, Waits
    <2>3. \A s \in Requests : s # r => /\ IsDue(s)' <=> IsDue(s)
                                       /\ IsAwaited(s)' <=> IsAwaited(s)
      <3>1. \A s \in Requests : s # r => (IsDue(s)' <=> IsDue(s))
        BY <1>2, <1>4 DEF IsDue
      <3> QED BY <1>5, <2>1, <3>1 DEF IsAwaited
    <2>4. ~IsDue(r)' /\ IsAwaited(r)'
      <3>1. ~IsDue(r)'
        BY <1>2, <1>4 DEF IsDue
      <3>2. awaiting'[r] = Head1.n
        BY <1>2, <1>5, <2>1
      <3> QED BY <1>6, <3>1, <3>2 DEF IsAwaited
    <2>5. AtPlace(r, "awaited")'
      BY <1>2, <2>2, <2>4 DEF AtPlace
    <2>6. \A s \in Requests : \A p : s # r => (AtPlace(s, p)' <=> AtPlace(s, p))
      BY <2>2, <2>3 DEF AtPlace
    <2>7. \A s \in Requests : awaiting'[s] # 0 =>
            awaiting'[s] # SendLink' /\ (awaiting'[s] < SendLink' => promise'[s] = "none")
      BY <1>2, <1>3, <1>5, <1>6, <2>1 DEF IInv, PlacesOK
    <2>8. config' = config /\ interceptors' = interceptors
      BY <1>3
    <2>9. ASSUME NEW s \in Requests
          PROVE  /\ config[s] # Unissued /\ interceptors # <<>> => \E p \in Places : AtPlace(s, p)'
                 /\ config[s] = Unissued \/ interceptors = <<>> => AtPlace(s, "nowhere")'
      BY <1>2, <2>5, <2>6 DEF IInv, PlacesOK, Places
    <2> QED BY <2>7, <2>8, <2>9 DEF PlacesOK
  <1> QED BY <1>7, <1>8, <1>9, <1>10 DEF IInv

LEMMA HandlerGaveFacts ==
  ASSUME HttpAssumption, IInv, NEW r \in Requests, NEW o \in {"ok", "fail"}, NEW c \in Configs,
         HandlerSettles(r, o, c), NEW n, n = awaiting[r]
  PROVE  \A s \in Requests : config'[s] = config[s] \/ promise[s] = "none"
  <1>1. awaiting \in [Requests -> 0 .. LastLink]
    BY TypeParts DEF IInv
  <1>2. n # 0 /\ n \in 0 .. LastLink /\ (n < SendLink => promise[r] = "none")
    BY <1>1 DEF HandlerSettles, IInv, PlacesOK
  <1>3. config[r] # Unissued
    BY <1>2, PlacedIsIssued DEF IInv, IsAwaited
  <1>4. Gave(r, n, o, c)
    BY DEF HandlerSettles
  <1> QED BY <1>2, <1>3, <1>4, GaveFacts

LEMMA HandlerSettlesStep ==
  ASSUME HttpAssumption, IInv, NEW r \in Requests, NEW o \in {"ok", "fail"}, NEW c \in Configs,
         HandlerSettles(r, o, c), NEW n, n = awaiting[r]
  PROVE  IInv'
  <1> DEFINE a == Task("adopt", r, n, o)
  <1>1. awaiting \in [Requests -> 0 .. LastLink] /\ tasks \in Seq(TaskSet)
        /\ interceptors \in Stacks
    BY TypeParts DEF IInv
  <1>2. /\ n # 0 /\ n \in 0 .. LastLink /\ n # SendLink
        /\ n < SendLink => promise[r] = "none"
    BY <1>1 DEF HandlerSettles, IInv, PlacesOK
  <1>3. config[r] # Unissued /\ interceptors # <<>> /\ IsAwaited(r)
    BY <1>2, PlacedIsIssued DEF IInv, IsAwaited
  <1>4. ~IsDue(r) /\ ~IsHeld(r) /\ ~IsOver(r)
    BY <1>3, PlaceOf DEF IInv
  <1>5. a.kind = "adopt" /\ a.r = r /\ a.n = n /\ a.o = o /\ a \in TaskSet
    BY <1>2, TaskParts DEF Outcomes
  <1>6. OfChain(a) /\ DueRight(a)
    BY <1>2, <1>5 DEF OfChain, DueRight
  <1>7. UNCHANGED <<interceptors, promise, followers, riding, inFlight, lost, cache,
                    pendingRequests, flight, aborted, timer, final, cancelled>>
    BY DEF HandlerSettles, Links, shared, backend
  <1>8. tasks' = Append(tasks, a) /\ awaiting' = [awaiting EXCEPT ![r] = 0]
    BY DEF HandlerSettles
  <1> HIDE DEF a
  <1>9. tasks' \in Seq(TaskSet) /\ Apart(tasks') /\ Due' = Due \cup {a}
    <2>1. \A t \in Those(tasks) : ~Same(t, a)
      BY <1>4, <1>5 DEF IsDue, Due, Same, OfChain
    <2> QED BY <1>1, <1>5, <1>8, <2>1, AppendApart DEF IInv, QueuesApart, Due
  <1>10. /\ config' \in [Requests -> Configs \cup {Unissued}] /\ config'[r] # Unissued
         /\ \A s \in Requests : s # r => config'[s] = config[s]
         /\ config'[r] = config[r] \/ promise[r] = "none"
    <2>1. Gave(r, n, o, c)
      BY DEF HandlerSettles
    <2> QED BY <1>2, <1>3, <2>1, GaveFacts
  <1>11. TypeOK'
    <2>1. awaiting' \in [Requests -> 0 .. LastLink]
      BY <1>1, <1>8, LinkNumbers
    <2> QED BY <1>1, <1>7, <1>9, <1>10, <2>1, TypeParts, TypeFrom DEF IInv
  <1>12. QueuesApart'
    BY <1>7, <1>9 DEF IInv, QueuesApart, Apart
  <1>13. Stages' /\ WaitsOK' /\ DueOK' /\ EntryKept' /\ OutLeads' /\ RidersOK' /\ StoredOK'
         /\ PendingExact' /\ LostOK'
    BY <1>5, <1>6, <1>7, <1>9, <1>10, ChainKeeps
  <1>14. PlacesOK'
    <2>1. SendLink' = SendLink
      BY <1>7 DEF SendLink
    <2>2. \A s \in Requests : /\ IsHeld(s)' <=> IsHeld(s)
                              /\ IsOver(s)' <=> IsOver(s)
      BY <1>7 DEF IsHeld, IsOver, Waits
    <2>3. \A s \in Requests : s # r => /\ IsDue(s)' <=> IsDue(s)
                                       /\ IsAwaited(s)' <=> IsAwaited(s)
      BY <1>1, <1>5, <1>8, <1>9 DEF IsDue, IsAwaited
    <2>4. IsDue(r)' /\ ~IsAwaited(r)'
      BY <1>1, <1>5, <1>6, <1>8, <1>9 DEF IsDue, IsAwaited
    <2>5. AtPlace(r, "due")'
      BY <1>4, <2>2, <2>4 DEF AtPlace
    <2>6. \A s \in Requests : \A p : s # r => (AtPlace(s, p)' <=> AtPlace(s, p))
      BY <2>2, <2>3 DEF AtPlace
    <2> QED BY <1>1, <1>3, <1>7, <1>8, <1>10, <2>1, <2>5, <2>6 DEF IInv, PlacesOK, Places
  <1> QED BY <1>11, <1>12, <1>13, <1>14 DEF IInv

-----------------------------------------------------------------------------
(* Steps of the transport                                                  *)

\* A transport that moves on, a timer that goes off and a limit that is given up
\* leave everything else right; the response is due once.
LEMMA TransportKeeps ==
  ASSUME HttpAssumption, IInv, NEW r \in Requests, NEW x \in Statuses,
         UNCHANGED <<interceptors, final, awaiting, config, promise, followers, riding,
                     inFlight, lost, cache, pendingRequests>>,
         flight' = [flight EXCEPT ![r] = x],
         x = flight[r] \/ (flight[r] \in {"sent", "half"} /\ x \in {"half", "done"}),
         timer' \in [Requests -> {"off", "armed", "fired"}],
         \A s \in Requests : timer'[s] = "armed" => timer[s] = "armed",
         aborted' \in [Requests -> BOOLEAN], cancelled' \in [Requests -> BOOLEAN],
         tasks' \in Seq(TaskSet), Apart(tasks'),
         \A t \in Due : t \in Due' \/ t.kind = "abort",
         \A t \in Due' : \/ t \in Due \/ t.kind = "abort"
                         \/ t.kind = "raw" /\ t.r = r /\ x = "done" /\ flight[r] \in {"sent", "half"},
         x = "done" /\ x # flight[r] => \E t \in Due' : t.kind = "raw" /\ t.r = r
  PROVE  IInv'
  <1>1. flight \in [Requests -> Statuses] /\ promise \in [Requests -> Outcomes]
    BY TypeParts DEF IInv
  <1>2. TypeOK'
    BY TypeParts, TypeFrom DEF IInv
  <1>3. QueuesApart'
    BY DEF IInv, QueuesApart, Apart
  <1>4. /\ \A s \in Requests : (flight'[s] = "none" <=> flight[s] = "none")
        /\ \A s \in Requests : s # r => flight'[s] = flight[s]
        /\ x # flight[r] => promise[r] = "pending"
    BY <1>1 DEF IInv, Stages, Settled, Outcomes
  <1>5. /\ SendLink' = SendLink
        /\ \A s \in Requests : Waits(s)' = Waits(s) /\ (Settled(s)' <=> Settled(s))
        /\ \A s \in Requests : Leads(s)' <=> Leads(s)
    BY <1>4 DEF SendLink, Waits, Settled, Leads, Cacheable
  <1>6. Stages'
    BY <1>1, <1>4, <1>5 DEF IInv, Stages, Settled
  <1>7. WaitsOK'
    BY <1>5 DEF IInv, WaitsOK
  <1>8. DueOK'
    <2>1. ASSUME NEW t \in Due PROVE DueRight(t)'
      <3>1. t.r \in Requests /\ DueRight(t) /\ riding[t.r] \in Requests \cup {Nobody}
        BY TaskTyped, TypeParts DEF IInv, DueOK
      <3>2. flight[t.r] = "done" => flight'[t.r] = "done"
        BY <1>1, <1>4, <3>1
      <3> QED BY <1>5, <3>1, <3>2 DEF DueRight
    <2>2. ASSUME NEW t \in Due', t.kind = "abort" PROVE DueRight(t)'
      BY <2>2 DEF DueRight
    <2>3. ASSUME NEW t \in Due', t.kind = "raw", t.r = r, x = "done",
                 flight[r] \in {"sent", "half"}
          PROVE  DueRight(t)'
      BY <1>1, <1>4, <2>3 DEF DueRight
    <2> QED BY <2>1, <2>2, <2>3 DEF DueOK
  <1>9. EntryKept'
    <2> SUFFICES ASSUME NEW u \in URLs, inFlight[u] # Nobody
                 PROVE  LET s == inFlight[u] IN
                        /\ Leads(s)' /\ config[s].url = u
                        /\ promise[s] = "pending" => \E t \in Waits(s)' : t.kind = "clear"
                        /\ Settled(s)' => \E t \in Due' : t.kind = "clear" /\ t.r = s
      BY DEF EntryKept
    <2>1. inFlight[u] \in Requests
      BY TypeParts DEF IInv
    <2>2. Settled(inFlight[u]) => \E t \in Due' : t.kind = "clear" /\ t.r = inFlight[u]
      BY DEF IInv, EntryKept
    <2> QED BY <1>5, <2>1, <2>2 DEF IInv, EntryKept
  <1>10. OutLeads'
    BY <1>4 DEF IInv, OutLeads, Cacheable
  <1>11. RidersOK'
    <2>1. riding \in [Requests -> Requests \cup {Nobody}]
      BY TypeParts DEF IInv
    <2> QED BY <1>4, <2>1 DEF IInv, RidersOK, SameKey, Cacheable
  <1>12. StoredOK'
    <2>1. \A c \in Caches, u \in URLs : cache[c][u] \in Requests \cup {Nobody}
      BY TypeParts DEF IInv
    <2> QED BY <1>4, <2>1 DEF IInv, StoredOK, Cacheable
  <1>13. PlacesOK'
    <2>1. \A s \in Requests : IsDue(s)' <=> IsDue(s)
      BY DEF IsDue, OfChain
    <2>2. \A s \in Requests : /\ IsHeld(s)' <=> IsHeld(s)
                              /\ IsAwaited(s)' <=> IsAwaited(s)
                              /\ IsOver(s)' <=> IsOver(s)
      BY <1>5 DEF IsHeld, IsAwaited, IsOver
    <2>3. \A s \in Requests : \A p : AtPlace(s, p)' <=> AtPlace(s, p)
      BY <2>1, <2>2 DEF AtPlace
    <2> QED BY <1>5, <2>3 DEF IInv, PlacesOK
  <1>14. PendingExact'
    BY <1>4 DEF IInv, PendingExact, IsInjective, ToSet
  <1>15. LostOK'
    <2>1. LostOK /\ lost' = lost /\ promise' = promise /\ lost \subseteq Requests
      BY TypeParts DEF IInv
    <2>2. flight[r] \in {"sent", "half"} => r \notin lost
      BY <2>1 DEF LostOK
    <2>3. \A s \in lost : flight'[s] = flight[s]
      BY <1>1, <1>4, <2>2
    <2>4. /\ \A s \in lost : timer'[s] # "armed"
          /\ \A t \in Due' : t.kind \in {"raw", "ride"} => t.r \notin lost
      <3>1. \A s \in lost : timer'[s] # "armed"
        BY <2>1 DEF LostOK
      <3>2. ASSUME NEW t \in Due', t.kind \in {"raw", "ride"} PROVE t.r \notin lost
        <4>1. t \in Due \/ (t.r = r /\ flight[r] \in {"sent", "half"})
          BY <3>2
        <4> QED BY <2>1, <2>2, <3>2, <4>1 DEF LostOK
      <3> QED BY <3>1, <3>2
    <2>5. \A s \in Requests : flight'[s] = "done" /\ promise[s] = "pending" =>
            s \in lost \/ \E t \in Due' : t.kind = "raw" /\ t.r = s
      <3>1. ASSUME NEW s \in Requests, flight'[s] = "done", promise[s] = "pending",
                   flight[s] = "done"
            PROVE  s \in lost \/ \E t \in Due' : t.kind = "raw" /\ t.r = s
        BY <2>1, <3>1 DEF LostOK
      <3>2. \A s \in Requests : flight'[s] = "done" /\ flight[s] # "done" =>
              s = r /\ x = "done" /\ x # flight[r]
        BY <1>1, <1>4
      <3> QED BY <3>1, <3>2
    <2> QED BY <1>5, <2>1, <2>3, <2>4, <2>5 DEF LostOK
  <1> QED BY <1>2, <1>3, <1>6, <1>7, <1>8, <1>9, <1>10, <1>11, <1>12, <1>13, <1>14, <1>15 DEF IInv

\* A follow-up put at the end of the queue.
LEMMA DueAppend ==
  ASSUME HttpAssumption, TypeOK, NEW q \in Seq(TaskSet), Apart(q), NEW kind \in {"raw", "abort"},
         NEW r \in Requests, NEW o \in Outcomes \cup {"error", "failed"},
         kind = "raw" => \A t \in Those(q) : t.kind = "raw" => t.r # r
  PROVE  LET p == Append(q, Task(kind, r, 0, o))
         IN  p \in Seq(TaskSet) /\ Apart(p) /\ Those(p) = Those(q) \cup {Task(kind, r, 0, o)}
  <1> DEFINE t == Task(kind, r, 0, o)
  <1>1. t.kind = kind /\ t.r = r
    BY TaskParts
  <1>2. t \in TaskSet
    BY LinkNumbers, TypeParts DEF Task, TaskSet
  <1>3. \A a \in Those(q) : ~Same(a, t)
    BY <1>1 DEF Same, OfChain
  <1> HIDE DEF t
  <1>4. Append(q, t) \in Seq(TaskSet) /\ Apart(Append(q, t)) /\ Those(Append(q, t)) = Those(q) \cup {t}
    BY <1>2, <1>3, AppendApart
  <1> QED BY <1>4 DEF t

LEMMA HalfStep ==
  ASSUME HttpAssumption, IInv, NEW r \in Requests, Half(r)
  PROVE  IInv'
  <1>1. /\ tasks' \in Seq(TaskSet) /\ Apart(tasks') /\ Due' = Due
        /\ timer' = timer /\ timer' \in [Requests -> {"off", "armed", "fired"}]
        /\ aborted' \in [Requests -> BOOLEAN] /\ cancelled' \in [Requests -> BOOLEAN]
    BY TypeParts DEF Half, IInv, QueuesApart, Due, backend
  <1>2. /\ UNCHANGED <<interceptors, final, awaiting, config, promise, followers, riding,
                       inFlight, lost, cache, pendingRequests>>
        /\ flight' = [flight EXCEPT ![r] = "half"] /\ flight[r] = "sent"
    BY DEF Half, chain, shared
  <1> QED BY <1>1, <1>2, TransportKeeps DEF Statuses

LEMMA GivesStep ==
  ASSUME HttpAssumption, IInv, NEW r \in Requests, NEW o \in {"ok", "error", "failed"},
         flight[r] \in {"sent", "half"}, Gives(r, o)
  PROVE  IInv'
  <1>1. \A t \in Due : t.kind = "raw" => t.r # r
    BY DEF IInv, DueOK, DueRight
  <1>2. /\ tasks' \in Seq(TaskSet) /\ Apart(tasks')
        /\ Due' = Due \cup {Task("raw", r, 0, o)}
    BY <1>1, DueAppend, TypeParts DEF Gives, IInv, QueuesApart, Due, Outcomes
  <1>3. /\ timer' = timer /\ timer' \in [Requests -> {"off", "armed", "fired"}]
        /\ aborted' \in [Requests -> BOOLEAN] /\ cancelled' \in [Requests -> BOOLEAN]
    BY TypeParts DEF Gives, IInv
  <1>4. /\ UNCHANGED <<interceptors, final, awaiting, config, promise, followers, riding,
                       inFlight, lost, cache, pendingRequests>>
        /\ flight' = [flight EXCEPT ![r] = "done"]
    BY DEF Gives, chain, shared
  <1>5. Task("raw", r, 0, o).kind = "raw" /\ Task("raw", r, 0, o).r = r
    BY TaskParts
  <1> QED BY <1>2, <1>3, <1>4, <1>5, TransportKeeps DEF Statuses

\* q is the queue without the follow-up, if one runs, that aborts.
LEMMA AbortStep ==
  ASSUME HttpAssumption, IInv, NEW r \in Requests, NEW q \in Seq(TaskSet), Apart(q),
         \A t \in Those(q) : t \in Due,
         \A t \in Due : t \in Those(q) \/ t.kind = "abort",
         Abort(r, q),
         timer' \in [Requests -> {"off", "armed", "fired"}],
         \A s \in Requests : timer'[s] = "armed" => timer[s] = "armed"
  PROVE  IInv'
  <1>1. /\ UNCHANGED <<interceptors, final, awaiting, config, promise, followers, riding,
                       inFlight, lost, cache, pendingRequests>>
        /\ aborted' \in [Requests -> BOOLEAN] /\ cancelled' \in [Requests -> BOOLEAN]
    BY TypeParts DEF Abort, chain, shared, IInv
  <1>2. CASE config[r].method = "JSONP" /\ flight[r] \in {"sent", "half"}
    <2>1. \A t \in Those(q) : t.kind = "raw" => t.r # r
      BY <1>2 DEF IInv, DueOK, DueRight
    <2>2. tasks' = Append(q, Task("raw", r, 0, "failed"))
          /\ flight' = [flight EXCEPT ![r] = "done"]
      BY <1>2 DEF Abort
    <2>3. /\ tasks' \in Seq(TaskSet) /\ Apart(tasks')
          /\ Due' = Those(q) \cup {Task("raw", r, 0, "failed")}
      BY <2>1, <2>2, DueAppend DEF Due, Outcomes, IInv
    <2>4. Task("raw", r, 0, "failed").kind = "raw" /\ Task("raw", r, 0, "failed").r = r
      BY TaskParts
    <2> QED BY <1>1, <1>2, <2>2, <2>3, <2>4, TransportKeeps DEF Statuses
  <1>3. CASE ~(config[r].method = "JSONP" /\ flight[r] \in {"sent", "half"})
    <2>1. tasks' = q /\ flight' = [flight EXCEPT ![r] = flight[r]] /\ flight[r] \in Statuses
      BY <1>3, TypeParts DEF Abort, IInv
    <2>2. Due' = Those(q)
      BY <2>1 DEF Due
    <2> QED BY <1>1, <2>1, <2>2, TransportKeeps
  <1> QED BY <1>2, <1>3

LEMMA TimerFiresStep ==
  ASSUME HttpAssumption, IInv, NEW r \in Requests, TimerFires(r)
  PROVE  IInv'
  <1>1. /\ timer' \in [Requests -> {"off", "armed", "fired"}]
        /\ \A s \in Requests : timer'[s] = "armed" => timer[s] = "armed"
    BY TypeParts DEF TimerFires, IInv
  <1>2. tasks \in Seq(TaskSet) /\ Apart(tasks) /\ Due = Those(tasks) /\ Abort(r, tasks)
    BY TypeParts DEF TimerFires, IInv, QueuesApart, Due
  <1> QED BY <1>1, <1>2, AbortStep

LEMMA RunAbortStep ==
  ASSUME HttpAssumption, IInv, RunAbort
  PROVE  IInv'
  <1>1. tasks # <<>> /\ Head1.kind = "abort"
    BY DEF RunAbort, Runs
  <1>2. /\ Head1.r \in Requests /\ Tail(tasks) \in Seq(TaskSet) /\ Apart(Tail(tasks))
        /\ Due = {Head1} \cup Those(Tail(tasks))
    BY <1>1, HeadFacts, TaskTyped DEF IInv
  <1>3. timer' = timer /\ timer \in [Requests -> {"off", "armed", "fired"}]
        /\ Abort(Head1.r, Tail(tasks))
    BY TypeParts DEF RunAbort, IInv
  <1> QED BY <1>1, <1>2, <1>3, AbortStep

LEMMA CancelStep ==
  ASSUME HttpAssumption, IInv, NEW r \in Requests, Cancel(r)
  PROVE  IInv'
  <1> DEFINE a == Task("abort", r, 0, "none")
  <1>1. /\ UNCHANGED <<interceptors, final, awaiting, config, promise, followers, riding,
                       inFlight, lost, cache, pendingRequests, flight, timer, aborted>>
        /\ cancelled' \in [Requests -> BOOLEAN]
    BY TypeParts DEF Cancel, chain, shared, backend, IInv
  <1>2. /\ tasks' \in Seq(TaskSet) /\ Apart(tasks')
        /\ Due' = Due \/ Due' = Due \cup {a}
    <2>1. tasks \in Seq(TaskSet) /\ Apart(tasks)
      BY TypeParts DEF IInv, QueuesApart
    <2>2. tasks' = tasks \/ tasks' = Append(tasks, a)
      BY DEF Cancel
    <2>3. /\ Append(tasks, a) \in Seq(TaskSet) /\ Apart(Append(tasks, a))
          /\ Those(Append(tasks, a)) = Those(tasks) \cup {a}
      BY <2>1, DueAppend DEF Outcomes, IInv
    <2> QED BY <2>1, <2>2, <2>3 DEF Due
  <1>3. a.kind = "abort"
    BY TaskParts
  <1>4. /\ flight' = [flight EXCEPT ![r] = flight[r]] /\ flight[r] \in Statuses
        /\ timer' \in [Requests -> {"off", "armed", "fired"}]
        /\ aborted' \in [Requests -> BOOLEAN]
    BY <1>1, TypeParts DEF IInv
  <1> HIDE DEF a
  <1> QED BY <1>1, <1>2, <1>3, <1>4, TransportKeeps

-----------------------------------------------------------------------------
(* The server stage                                                        *)

\* A call enters the server stage with configuration c and the rest q of the
\* queue: directly, or from the link of its chain that ran.
Enters(r, c, q) ==
  /\ promise[r] = "none" /\ awaiting[r] = 0 /\ final[r] = "none"
  /\ q \in Seq(TaskSet) /\ Apart(q)
  /\ \A t \in Those(q) : t \in Due /\ ~(OfChain(t) /\ t.r = r)
  /\ \A t \in Due : t \in Those(q) \/ (OfChain(t) /\ t.r = r)
  /\ UNCHANGED chain
  /\ config' \in [Requests -> Configs \cup {Unissued}]
  /\ c \in Configs /\ config'[r] = c /\ \A s \in Requests : s # r => config'[s] = config[s]
  /\ cancelled' \in [Requests -> BOOLEAN]

\* Nothing is known of it there yet.
LEMMA Unknown ==
  ASSUME HttpAssumption, IInv, NEW r \in Requests, promise[r] = "none"
  PROVE  /\ flight[r] = "none" /\ riding[r] = Nobody /\ timer[r] # "armed"
         /\ followers[r] = <<>> /\ Waits(r) = {}
         /\ \A u \in URLs : inFlight[u] # r
         /\ \A d \in Caches, u \in URLs : cache[d][u] # r
         /\ \A s \in Requests : riding[s] # r
         /\ \A s \in Requests : \A t \in Waits(s) : t.r # r
         /\ \A t \in Due : t.r = r => OfChain(t) \/ t.kind = "abort"
  <1>1. /\ flight[r] = "none" /\ riding[r] = Nobody /\ timer[r] # "armed"
        /\ followers[r] = <<>>
    BY DEF IInv, Stages
  <1>2. Waits(r) = {}
    BY <1>1 DEF Waits, Those
  <1>3. r # Nobody
    BY DEF HttpAssumption
  <1>4. \A u \in URLs : inFlight[u] # r
    BY <1>1, <1>3 DEF IInv, EntryKept, Leads
  <1>5. \A d \in Caches, u \in URLs : cache[d][u] # r
    BY <1>1, <1>3 DEF IInv, StoredOK
  <1>6. \A s \in Requests : riding[s] # r
    BY <1>1, <1>3 DEF IInv, RidersOK
  <1>7. \A s \in Requests : \A t \in Waits(s) : t.r # r
    BY <1>2 DEF IInv, WaitsOK
  <1>8. \A t \in Due : t.r = r => OfChain(t) \/ t.kind = "abort"
    <2>1. \A t \in Due : t.kind \in {"link", "adopt", "raw", "clear", "ride", "abort"}
      BY TaskTyped DEF IInv
    <2> QED BY <2>1 DEF IInv, DueOK, DueRight, Settled, OfChain
  <1> QED BY <1>1, <1>2, <1>4, <1>5, <1>6, <1>7, <1>8

\* What a request that enters does to the others.
LEMMA OthersKeep ==
  ASSUME HttpAssumption, IInv, NEW r \in Requests, NEW c, NEW q, Enters(r, c, q),
         NEW x \in {"pending", "ok", "fail"}, promise' = [promise EXCEPT ![r] = x],
         \/ inFlight' = inFlight
         \/ /\ Cacheable(c) /\ inFlight[c.url] = Nobody
            /\ inFlight' = [inFlight EXCEPT ![c.url] = r],
         \A s \in Requests : s # r =>
           flight'[s] = flight[s] /\ timer'[s] = timer[s] /\ riding'[s] = riding[s],
         cache' = cache,
         \A t \in Those(q) : t \in Due',
         \A t \in Due' : t \in Those(q) \/ t.r = r
  PROVE  /\ \A s \in Requests : s # r =>
              /\ promise'[s] = promise[s] /\ (Settled(s)' <=> Settled(s))
              /\ Leads(s) => Leads(s)'
              /\ riding'[s] # Nobody =>
                   flight'[riding[s]] # "none" /\ SameKey(s, riding[s])' /\ riding[s] # r
              /\ flight'[s] # "none" /\ promise'[s] = "pending" /\ Cacheable(config'[s]) =>
                   inFlight'[config'[s].url] = s
              /\ \A t \in Waits(s) :
                   \/ t.kind = "clear" /\ t.r = s /\ Leads(s)'
                   \/ t.kind = "adopt" /\ t.r = s /\ t.n = SendLink'
                   \/ t.kind = "ride" /\ riding'[t.r] = s /\ promise'[t.r] = "pending"
              /\ IsDue(s)' <=> IsDue(s)
         /\ \A t \in Those(q) : DueRight(t)'
         /\ StoredOK'
  <1>1. /\ promise \in [Requests -> Outcomes] /\ riding \in [Requests -> Requests \cup {Nobody}]
        /\ inFlight \in [URLs -> Requests \cup {Nobody}] /\ r # Nobody
        /\ \A d \in Caches, u \in URLs : cache[d][u] \in Requests \cup {Nobody}
    BY TypeParts DEF IInv, HttpAssumption
  <1>2. promise[r] = "none" /\ SendLink' = SendLink /\ \A s \in Requests : s # r => config'[s] = config[s]
    BY DEF Enters, SendLink, chain
  <1>3. \A s \in Requests : s # r => promise'[s] = promise[s] /\ (Settled(s)' <=> Settled(s))
    BY <1>1 DEF Settled
  <1>4. \A s \in Requests : s # r /\ Leads(s) => Leads(s)'
    <2> SUFFICES ASSUME NEW s \in Requests, s # r, Leads(s) PROVE Leads(s)'
      OBVIOUS
    <2>1. config'[s] = config[s] /\ flight'[s] = flight[s] /\ s # Nobody
      BY <1>2 DEF HttpAssumption
    <2>2. config[s].url \in URLs
      <3>1. config[s] \in Configs
        BY TypeParts DEF IInv, Stages, Leads
      <3> QED BY <3>1 DEF HttpAssumption
    <2>3. inFlight'[config[s].url] = s
      BY <1>1, <2>1, <2>2 DEF Leads
    <2> QED BY <2>1, <2>3 DEF Leads, Cacheable
  <1>5. \A s \in Requests : s # r /\ riding'[s] # Nobody =>
          flight'[riding[s]] # "none" /\ SameKey(s, riding[s])' /\ riding[s] # r
    BY <1>1, <1>2, Unknown DEF IInv, RidersOK, SameKey, Cacheable
  <1>6. \A s \in Requests : s # r =>
          (flight'[s] # "none" /\ promise'[s] = "pending" /\ Cacheable(config'[s]) =>
             inFlight'[config'[s].url] = s)
    <2> SUFFICES ASSUME NEW s \in Requests, s # r, flight'[s] # "none", promise'[s] = "pending",
                        Cacheable(config'[s])
                 PROVE  inFlight'[config'[s].url] = s
      OBVIOUS
    <2>1. Leads(s)
      BY <1>2, <1>3 DEF IInv, OutLeads, Leads, Cacheable
    <2> QED BY <1>4, <2>1 DEF Leads
  <1>7. \A s \in Requests : s # r => \A t \in Waits(s) :
          \/ t.kind = "clear" /\ t.r = s /\ Leads(s)'
          \/ t.kind = "adopt" /\ t.r = s /\ t.n = SendLink'
          \/ t.kind = "ride" /\ riding'[t.r] = s /\ promise'[t.r] = "pending"
    <2> SUFFICES ASSUME NEW s \in Requests, s # r, NEW t \in Waits(s)
                 PROVE  \/ t.kind = "clear" /\ t.r = s /\ Leads(s)'
                        \/ t.kind = "adopt" /\ t.r = s /\ t.n = SendLink'
                        \/ t.kind = "ride" /\ riding'[t.r] = s /\ promise'[t.r] = "pending"
      OBVIOUS
    <2>1. t.r \in Requests /\ t.r # r
      BY <1>2, TaskTyped, Unknown DEF IInv
    <2> QED BY <1>2, <1>3, <1>4, <2>1 DEF IInv, WaitsOK
  <1>8. \A s \in Requests : s # r => (IsDue(s)' <=> IsDue(s))
    BY DEF IsDue, Enters
  <1>9. \A t \in Those(q) : DueRight(t)'
    <2> SUFFICES ASSUME NEW t \in Those(q) PROVE DueRight(t)'
      OBVIOUS
    <2>1. t \in Due /\ t.r \in Requests /\ DueRight(t) /\ ~(OfChain(t) /\ t.r = r)
      BY TaskTyped DEF Enters, IInv, DueOK
    <2>2. CASE t.r = r
      <3>1. t.kind = "abort"
        BY <1>2, <2>1, <2>2, Unknown
      <3> QED BY <3>1 DEF DueRight
    <2>3. CASE t.r # r
      <3>1. riding[t.r] # Nobody => riding[t.r] \in Requests /\ riding[t.r] # r
        BY <1>1, <1>2, <2>1, Unknown
      <3> QED BY <1>2, <1>3, <1>4, <2>1, <2>3, <3>1 DEF DueRight
    <2> QED BY <2>2, <2>3
  <1>10. StoredOK'
    <2> SUFFICES ASSUME NEW d \in Caches, NEW u \in URLs, cache[d][u] # Nobody
                 PROVE  LET s == cache[d][u] IN
                        /\ Cacheable(config'[s]) /\ config'[s].url = u
                        /\ promise'[s] = "ok" /\ flight'[s] # "none"
      BY DEF StoredOK, Cacheable
    <2>1. cache[d][u] \in Requests /\ cache[d][u] # r
      BY <1>1, <1>2, Unknown
    <2> QED BY <1>2, <1>3, <2>1 DEF IInv, StoredOK
  <1> QED BY <1>3, <1>4, <1>5, <1>6, <1>7, <1>8, <1>9, <1>10

\* The step of a request that enters, with state x of its promise: it adds
\* itself to what others have, and its own state is right.
Entered(r, c, q, x) ==
  /\ promise' = [promise EXCEPT ![r] = x]
  /\ \/ inFlight' = inFlight
     \/ /\ Cacheable(c) /\ inFlight[c.url] = Nobody
        /\ inFlight' = [inFlight EXCEPT ![c.url] = r]
        /\ x = "pending" /\ flight'[r] # "none"
        /\ \E t \in Waits(r)' : t.kind = "clear"
  /\ \A s \in Requests : s # r =>
       /\ flight'[s] = flight[s] /\ timer'[s] = timer[s] /\ riding'[s] = riding[s]
       /\ followers'[s] = followers[s] \/ promise[s] = "pending"
       /\ Waits(s) \subseteq Waits(s)'
       /\ \A t \in Waits(s)' :
            t \in Waits(s) \/ (t.kind = "ride" /\ t.r = r /\ riding'[r] = s)
  /\ cache' = cache /\ aborted' = aborted /\ lost' = lost
  /\ flight'[r] \in {"none", "sent"}
  /\ tasks' \in Seq(TaskSet) /\ Apart(tasks')
  /\ \A t \in Those(q) : t \in Due'
  /\ \A t \in Due' : t \in Those(q) \/ (t.r = r /\ DueRight(t)')
  /\ followers' \in [Requests -> Seq(TaskSet)] /\ \A s \in Requests : Apart(followers'[s])
  /\ riding' \in [Requests -> Requests \cup {Nobody}]
  /\ flight' \in [Requests -> Statuses]
  /\ timer' \in [Requests -> {"off", "armed", "fired"}]
  /\ pendingRequests' \in Seq(Requests) /\ PendingExact'
  /\ flight'[r] # "none" => riding'[r] = Nobody
  /\ x = "pending" <=> flight'[r] # "none" \/ riding'[r] # Nobody
  /\ timer'[r] = "armed" => flight'[r] # "none"
  /\ followers'[r] # <<>> => x = "pending"
  /\ riding'[r] # Nobody =>
       riding'[r] # r /\ flight'[riding'[r]] # "none" /\ SameKey(r, riding[r])'
  /\ flight'[r] # "none" /\ Cacheable(c) => inFlight'[c.url] = r
  /\ \A t \in Waits(r)' : t.r = r /\ (\/ t.kind = "clear" /\ Cacheable(c) /\ flight'[r] # "none"
                                      \/ t.kind = "adopt" /\ t.n = SendLink)
  /\ IF interceptors = <<>> THEN ~IsDue(r)' /\ ~IsHeld(r)' ELSE (IsDue(r)' <=> ~IsHeld(r)')

LEMMA EntersKeeps ==
  ASSUME HttpAssumption, IInv, NEW r \in Requests, NEW c, NEW q, Enters(r, c, q),
         NEW x \in {"pending", "ok", "fail"}, Entered(r, c, q, x)
  PROVE  IInv'
  <1> USE DEF Entered
  <1>1. /\ promise \in [Requests -> Outcomes] /\ riding \in [Requests -> Requests \cup {Nobody}]
        /\ inFlight \in [URLs -> Requests \cup {Nobody}] /\ r # Nobody
        /\ cache \in [Caches -> [URLs -> Requests \cup {Nobody}]]
    BY TypeParts DEF IInv, HttpAssumption
  <1>2. /\ promise[r] = "none" /\ SendLink' = SendLink /\ config'[r] = c /\ c \in Configs
        /\ c # Unissued
        /\ \A s \in Requests : s # r => config'[s] = config[s] /\ promise'[s] = promise[s]
        /\ promise'[r] = x /\ interceptors' = interceptors
        /\ c.url \in URLs
    <2>1. \A d \in Configs : d # Unissued /\ d.url \in URLs
      BY DEF HttpAssumption, Unissued
    <2> QED BY <1>1, <2>1 DEF Enters, SendLink, chain
  <1>3. /\ flight[r] = "none" /\ riding[r] = Nobody /\ followers[r] = <<>> /\ Waits(r) = {}
        /\ \A u \in URLs : inFlight[u] # r
        /\ \A s \in Requests : riding[s] # r
    BY <1>2, Unknown
  <1>4. /\ \A s \in Requests : s # r =>
              /\ promise'[s] = promise[s] /\ (Settled(s)' <=> Settled(s))
              /\ Leads(s) => Leads(s)'
              /\ riding'[s] # Nobody =>
                   flight'[riding[s]] # "none" /\ SameKey(s, riding[s])' /\ riding[s] # r
              /\ flight'[s] # "none" /\ promise'[s] = "pending" /\ Cacheable(config'[s]) =>
                   inFlight'[config'[s].url] = s
              /\ \A t \in Waits(s) :
                   \/ t.kind = "clear" /\ t.r = s /\ Leads(s)'
                   \/ t.kind = "adopt" /\ t.r = s /\ t.n = SendLink'
                   \/ t.kind = "ride" /\ riding'[t.r] = s /\ promise'[t.r] = "pending"
              /\ IsDue(s)' <=> IsDue(s)
        /\ \A t \in Those(q) : DueRight(t)'
        /\ StoredOK'
    <2>1. \/ inFlight' = inFlight
          \/ /\ Cacheable(c) /\ inFlight[c.url] = Nobody
             /\ inFlight' = [inFlight EXCEPT ![c.url] = r]
      OBVIOUS
    <2>2. \A s \in Requests : s # r =>
            flight'[s] = flight[s] /\ timer'[s] = timer[s] /\ riding'[s] = riding[s]
      OBVIOUS
    <2>3. \A t \in Due' : t \in Those(q) \/ t.r = r
      OBVIOUS
    <2>4. r \in Requests /\ x \in {"pending", "ok", "fail"} /\ promise' = [promise EXCEPT ![r] = x]
          /\ cache' = cache /\ Enters(r, c, q) /\ \A t \in Those(q) : t \in Due'
      OBVIOUS
    <2> QED BY ONLY HttpAssumption, IInv, <2>1, <2>2, <2>3, <2>4, OthersKeep
  <1>5. TypeOK'
    <2>1. promise' \in [Requests -> Outcomes] /\ inFlight' \in [URLs -> Requests \cup {Nobody}]
      BY <1>1 DEF Outcomes
    <2>2. aborted' \in [Requests -> BOOLEAN] /\ cache' \in [Caches -> [URLs -> Requests \cup {Nobody}]]
      BY <1>1, TypeParts DEF IInv
    <2>3. /\ UNCHANGED interceptors /\ interceptors \in Stacks /\ lost' \subseteq Requests
          /\ final' \in [Requests -> {"none", "ok", "fail"}]
          /\ awaiting' \in [Requests -> 0 .. LastLink]
      BY TypeParts DEF IInv, Enters, chain
    <2>4. /\ config' \in [Requests -> Configs \cup {Unissued}]
          /\ cancelled' \in [Requests -> BOOLEAN]
      BY DEF Enters
    <2> QED BY <2>1, <2>2, <2>3, <2>4, TypeFrom
  <1>6. QueuesApart'
    BY DEF QueuesApart, Apart
  <1>7. Stages'
    <2> SUFFICES ASSUME NEW s \in Requests
                 PROVE  /\ flight'[s] # "none" => promise'[s] # "none" /\ riding'[s] = Nobody
                        /\ promise'[s] = "pending" => flight'[s] # "none" \/ riding'[s] # Nobody
                        /\ promise'[s] = "none" => riding'[s] = Nobody
                        /\ timer'[s] = "armed" => promise'[s] = "pending" /\ flight'[s] # "none"
                        /\ Settled(s)' => flight'[s] \in {"none", "done"}
                        /\ followers'[s] # <<>> => promise'[s] = "pending"
                        /\ config'[s] = Unissued => promise'[s] = "none"
      BY DEF Stages
    <2>1. CASE s = r
      BY <1>2, <2>1 DEF Settled
    <2>2. CASE s # r
      <3>1. /\ promise'[s] = promise[s] /\ config'[s] = config[s] /\ flight'[s] = flight[s]
            /\ timer'[s] = timer[s] /\ riding'[s] = riding[s] /\ (Settled(s)' <=> Settled(s))
            /\ followers'[s] = followers[s] \/ promise[s] = "pending"
        BY <1>2, <1>4, <2>2
      <3> QED BY <3>1 DEF IInv, Stages
    <2> QED BY <2>1, <2>2
  <1>8. Leads(r)' <=> flight'[r] # "none" /\ Cacheable(c)
    BY <1>2 DEF Leads, Cacheable
  <1>9. WaitsOK'
    <2> SUFFICES ASSUME NEW s \in Requests, NEW t \in Waits(s)'
                 PROVE  \/ t.kind = "clear" /\ t.r = s /\ Leads(s)'
                        \/ t.kind = "adopt" /\ t.r = s /\ t.n = SendLink'
                        \/ t.kind = "ride" /\ riding'[t.r] = s /\ promise'[t.r] = "pending"
      BY DEF WaitsOK
    <2>1. CASE s = r
      BY <1>2, <1>8, <2>1
    <2>2. CASE s # r
      BY <1>2, <1>4, <2>2, <1>1
    <2> QED BY <2>1, <2>2
  <1>10. DueOK'
    BY <1>4 DEF DueOK
  <1>11. EntryKept'
    <2> SUFFICES ASSUME NEW u \in URLs, NEW s \in Requests, inFlight'[u] = s
                 PROVE  /\ Leads(s)' /\ config'[s].url = u
                        /\ promise'[s] = "pending" => \E t \in Waits(s)' : t.kind = "clear"
                        /\ Settled(s)' => \E t \in Due' : t.kind = "clear" /\ t.r = s
      <3>1. \A u \in URLs : inFlight'[u] \in Requests \cup {Nobody}
        <4>1. inFlight' = inFlight \/ inFlight' = [inFlight EXCEPT ![c.url] = r]
          OBVIOUS
        <4> QED BY ONLY <1>1, <4>1, r \in Requests
      <3> QED BY <3>1 DEF EntryKept
    <2>1. CASE inFlight[u] = s
      <3>1. s # r /\ s # Nobody
        BY <1>3, <2>1 DEF HttpAssumption
      <3>2. /\ Leads(s) /\ config[s].url = u
            /\ promise[s] = "pending" => \E t \in Waits(s) : t.kind = "clear"
            /\ Settled(s) => \E t \in Due : t.kind = "clear" /\ t.r = s
        <4>1. EntryKept
          BY DEF IInv
        <4> QED BY ONLY <4>1, <2>1, <3>1, u \in URLs DEF EntryKept
      <3>3. Settled(s) => \E t \in Due' : t.kind = "clear" /\ t.r = s
        BY <3>2 DEF Enters, OfChain
      <3>4. Leads(s)' /\ config'[s].url = u /\ promise'[s] = promise[s]
            /\ (Settled(s)' <=> Settled(s)) /\ Waits(s) \subseteq Waits(s)'
        BY <1>2, <1>4, <3>1, <3>2
      <3> QED BY <3>2, <3>3, <3>4
    <2>2. CASE inFlight[u] # s
      <3>1. s = r /\ u = c.url /\ Cacheable(c) /\ x = "pending" /\ flight'[r] # "none"
            /\ \E t \in Waits(r)' : t.kind = "clear"
        BY <1>1, <2>2
      <3>2. Leads(r)'
        BY <1>8, <3>1
      <3>3. ~Settled(r)'
        BY <1>2, <3>1 DEF Settled
      <3> QED BY <1>2, <3>1, <3>2, <3>3
    <2> QED BY <2>1, <2>2
  <1>12. OutLeads'
    <2>1. \A s \in Requests : s = r \/ s # r
      OBVIOUS
    <2> QED BY <1>2, <1>4 DEF OutLeads, Cacheable
  <1>13. RidersOK'
    <2>1. riding'[r] # Nobody => flight'[riding'[r]] # "none" /\ SameKey(r, riding[r])'
      OBVIOUS
    <2>2. ASSUME NEW s \in Requests, s # r, riding'[s] # Nobody
          PROVE  flight'[riding'[s]] # "none" /\ SameKey(s, riding[s])'
      <3>1. riding'[s] = riding[s]
        BY <2>2
      <3> QED BY <1>4, <2>2, <3>1
    <2> QED BY <2>1, <2>2 DEF RidersOK
  <1>14. PlacesOK'
    <2>1. ASSUME NEW s \in Requests, s # r
          PROVE  IsDue(s)' <=> IsDue(s)
      BY <1>4, <2>1
    <2>2. ASSUME NEW s \in Requests, s # r
          PROVE  IsHeld(s)' <=> IsHeld(s)
      BY <2>2 DEF IsHeld, OfChain
    <2>3. \A s \in Requests : /\ IsAwaited(s)' <=> IsAwaited(s)
                              /\ IsOver(s)' <=> IsOver(s)
      BY DEF IsAwaited, IsOver, Enters, chain
    <2>4. \A s \in Requests : \A p : s # r => (AtPlace(s, p)' <=> AtPlace(s, p))
      BY <2>1, <2>2, <2>3, <1>4 DEF AtPlace
    <2>5. ~IsAwaited(r)' /\ ~IsOver(r)'
      BY <2>3 DEF Enters, IsAwaited, IsOver
    <2>6. IF interceptors = <<>> THEN AtPlace(r, "nowhere")' ELSE AtPlace(r, "due")' \/ AtPlace(r, "held")'
      BY <2>5 DEF AtPlace
    <2>7. awaiting' = awaiting /\ awaiting[r] = 0
      BY DEF Enters, chain
    <2> QED
      <3> SUFFICES ASSUME NEW s \in Requests
                   PROVE  /\ config'[s] # Unissued /\ interceptors' # <<>> => \E p \in Places : AtPlace(s, p)'
                          /\ config'[s] = Unissued \/ interceptors' = <<>> => AtPlace(s, "nowhere")'
                          /\ awaiting'[s] # 0 => /\ awaiting'[s] # SendLink'
                                                 /\ (awaiting'[s] < SendLink' => promise'[s] = "none")
        BY DEF PlacesOK
      <3>1. CASE s = r
        <4>1. config'[s] # Unissued /\ interceptors' = interceptors /\ awaiting'[s] = 0
          BY <1>2, <2>7, <3>1
        <4>2. interceptors = <<>> => AtPlace(s, "nowhere")'
          BY <2>6, <3>1
        <4>3. interceptors # <<>> => \E p \in Places : AtPlace(s, p)'
          BY <2>6, <3>1 DEF Places
        <4> QED BY <4>1, <4>2, <4>3
      <3>2. CASE s # r
        <4>1. /\ config'[s] = config[s] /\ promise'[s] = promise[s] /\ SendLink' = SendLink
              /\ interceptors' = interceptors /\ awaiting' = awaiting
          BY <1>2, <2>7, <3>2
        <4>2. \A p : AtPlace(s, p)' <=> AtPlace(s, p)
          BY <2>4, <3>2
        <4>3. PlacesOK
          BY DEF IInv
        <4> QED BY ONLY <4>1, <4>2, <4>3, s \in Requests DEF PlacesOK
      <3> QED BY <3>1, <3>2
  <1>15. LostOK'
    <2>1. LostOK /\ lost' = lost
      BY DEF IInv
    <2>2. r \notin lost
      BY <1>2, <2>1 DEF LostOK
    <2>3. \A s \in lost :
            promise'[s] = "pending" /\ timer'[s] # "armed" /\ flight'[s] \in {"none", "done"}
      <3>1. \A s \in lost : /\ s \in Requests /\ s # r /\ promise[s] = "pending"
                             /\ timer[s] # "armed" /\ flight[s] \in {"none", "done"}
        BY <2>1, <2>2, TypeParts DEF LostOK, IInv
      <3>2. \A s \in Requests : s # r => flight'[s] = flight[s] /\ timer'[s] = timer[s]
        OBVIOUS
      <3>3. \A s \in Requests : s # r => promise'[s] = promise[s]
        BY <1>4
      <3> QED BY ONLY <3>1, <3>2, <3>3
    <2>4. \A t \in Due' : t.kind \in {"raw", "ride"} => t.r \notin lost
      <3>1. \A t \in Those(q) : t.kind \in {"raw", "ride"} => t.r \notin lost
        BY <2>1 DEF LostOK, Enters
      <3> QED BY <2>2, <3>1
    <2>5. ASSUME NEW s \in Requests, NEW t \in Waits(s)', t.kind = "ride"
          PROVE  t.r \notin lost
      <3>1. CASE s = r
        BY <2>5, <3>1
      <3>2. CASE s # r
        <4>1. t \in Waits(s) \/ t.r = r
          BY <2>5, <3>2
        <4> QED BY <2>1, <2>2, <2>5, <4>1 DEF LostOK
      <3> QED BY <3>1, <3>2
    <2>6. ASSUME NEW s \in Requests, flight'[s] = "done", promise'[s] = "pending"
          PROVE  s \in lost \/ \E t \in Due' : t.kind = "raw" /\ t.r = s
      <3>1. s # r
        BY <2>6
      <3>2. flight[s] = "done" /\ promise[s] = "pending"
        BY <1>4, <2>6, <3>1
      <3>3. s \in lost \/ \E t \in Due : t.kind = "raw" /\ t.r = s
        BY <2>1, <3>2 DEF LostOK
      <3> QED BY <3>3 DEF Enters, OfChain
    <2> QED BY <2>1, <2>3, <2>4, <2>5, <2>6 DEF LostOK
  <1> QED BY <1>4, <1>5, <1>6, <1>7, <1>9, <1>10, <1>11, <1>12, <1>13, <1>14, <1>15 DEF IInv

LEMMA AdopterFacts ==
  ASSUME HttpAssumption, TypeOK, NEW r \in Requests
  PROVE  /\ Adopter(r) \in Seq(TaskSet) /\ Apart(Adopter(r))
         /\ \A t \in Those(Adopter(r)) : t.kind = "adopt" /\ t.r = r /\ t.n = SendLink
         /\ IF interceptors = <<>> THEN Those(Adopter(r)) = {} ELSE Those(Adopter(r)) # {}
  <1> DEFINE a == Task("adopt", r, SendLink, "none")
  <1>1. a \in TaskSet /\ a.kind = "adopt" /\ a.r = r /\ a.n = SendLink
    <2>1. SendLink \in 0 .. LastLink
      BY LinkNumbers, TypeParts
    <2> QED BY <2>1, TaskParts DEF Outcomes
  <1>2. Adopter(r) = IF interceptors = <<>> THEN <<>> ELSE <<a>>
    BY DEF Adopter
  <1> HIDE DEF a
  <1>3. /\ <<a>> \in Seq(TaskSet) /\ Apart(<<a>>) /\ Those(<<a>>) = {a}
        /\ <<>> \in Seq(TaskSet) /\ Apart(<<>>) /\ Those(<<>>) = {}
    BY <1>1, OneApart
  <1> QED BY <1>1, <1>2, <1>3

\* Refused, or answered from the cache.
LEMMA ImmediateStep ==
  ASSUME HttpAssumption, IInv, NEW r \in Requests, NEW c, NEW q, Enters(r, c, q),
         NEW x \in {"ok", "fail"}, Immediate(r, q, x)
  PROVE  IInv'
  <1>1. /\ UNCHANGED <<followers, riding, inFlight, lost, cache, pendingRequests, flight, aborted,
                       timer>>
        /\ promise' = [promise EXCEPT ![r] = x] /\ tasks' = q \o Adopter(r)
    BY DEF Immediate, shared, backend
  <1>2. /\ flight[r] = "none" /\ riding[r] = Nobody /\ timer[r] # "armed"
        /\ followers[r] = <<>> /\ Waits(r) = {}
    BY Unknown DEF Enters
  <1>3. /\ Adopter(r) \in Seq(TaskSet) /\ Apart(Adopter(r))
        /\ \A t \in Those(Adopter(r)) : t.kind = "adopt" /\ t.r = r /\ t.n = SendLink
        /\ IF interceptors = <<>> THEN Those(Adopter(r)) = {} ELSE Those(Adopter(r)) # {}
    BY AdopterFacts DEF IInv
  <1>4. \A a \in Those(q), b \in Those(Adopter(r)) : ~Same(a, b)
    BY <1>3 DEF Enters, Same, OfChain
  <1>5. /\ tasks' \in Seq(TaskSet) /\ Apart(tasks') /\ Due' = Those(q) \cup Those(Adopter(r))
    BY <1>1, <1>3, <1>4, ConcatApart DEF Enters, Due
  <1>6. \A s \in Requests : Waits(s)' = Waits(s)
    BY <1>1 DEF Waits
  <1>7. /\ promise \in [Requests -> Outcomes] /\ promise'[r] = x /\ SendLink' = SendLink
        /\ SendLink \in Nat
    BY <1>1, TypeParts, LinkNumbers DEF IInv, SendLink, Enters, chain
  <1>8. \A t \in Those(Adopter(r)) : DueRight(t)'
    BY <1>3, <1>7 DEF DueRight, Settled
  <1>9. IF interceptors = <<>> THEN ~IsDue(r)' /\ ~IsHeld(r)' ELSE (IsDue(r)' <=> ~IsHeld(r)')
    <2>1. ~IsHeld(r)'
      BY <1>2, <1>6 DEF IsHeld
    <2>2. IsDue(r)' <=> interceptors # <<>>
      BY <1>3, <1>5 DEF IsDue, OfChain, Enters
    <2> QED BY <2>1, <2>2
  <1>10. PendingExact'
    <2>1. \A s \in Requests : flight[s] # "none" => promise'[s] = promise[s]
      BY <1>1, <1>2
    <2> QED BY <1>1, <2>1 DEF IInv, PendingExact, IsInjective, ToSet
  <1>11. \A t \in Due' : t \in Those(q) \/ (t.r = r /\ DueRight(t)')
    BY <1>3, <1>5, <1>8
  <1>12. \A s \in Requests : s # r =>
           /\ flight'[s] = flight[s] /\ timer'[s] = timer[s] /\ riding'[s] = riding[s]
           /\ followers'[s] = followers[s] \/ promise[s] = "pending"
           /\ Waits(s) \subseteq Waits(s)'
           /\ \A t \in Waits(s)' :
                t \in Waits(s) \/ (t.kind = "ride" /\ t.r = r /\ riding'[r] = s)
    BY <1>1, <1>6
  <1>13. /\ followers' \in [Requests -> Seq(TaskSet)]
         /\ \A s \in Requests : Apart(followers'[s])
         /\ riding' \in [Requests -> Requests \cup {Nobody}]
         /\ flight' \in [Requests -> Statuses]
         /\ timer' \in [Requests -> {"off", "armed", "fired"}]
         /\ pendingRequests' \in Seq(Requests)
    BY <1>1, TypeParts DEF IInv, QueuesApart
  <1>14. /\ flight'[r] = "none" /\ riding'[r] = Nobody /\ timer'[r] # "armed"
         /\ followers'[r] = <<>> /\ Waits(r)' = {}
    BY <1>1, <1>2, <1>6
  <1>15. x # "pending" /\ x \in {"pending", "ok", "fail"}
    OBVIOUS
  <1>16. Entered(r, c, q, x)
    BY ONLY <1>1, <1>5, <1>9, <1>10, <1>11, <1>12, <1>13, <1>14, <1>15, r \in Requests DEF Entered
  <1> QED BY <1>16, EntersKeeps

\* A rider hangs on its leader, or finds it settled.
LEMMA RideStep ==
  ASSUME HttpAssumption, IInv, NEW r \in Requests, NEW c, NEW q, Enters(r, c, q), Ride(r, c, q),
         NEW l, l = Leader(c)
  PROVE  IInv'
  <1> DEFINE rider == Task("ride", r, 0, "none")
             late == promise[l] # "pending"
  <1>1. /\ l # Nobody
        /\ promise' = [promise EXCEPT ![r] = "pending"]
        /\ riding' = [riding EXCEPT ![r] = l]
        /\ followers' = [followers EXCEPT ![r] = Adopter(r),
                                          ![l] = IF late THEN @ ELSE Append(@, rider)]
        /\ tasks' = IF late THEN Append(q, rider) ELSE q
        /\ UNCHANGED <<inFlight, lost, cache, pendingRequests, flight, aborted, timer>>
    BY DEF Ride, backend
  <1>2. /\ flight[r] = "none" /\ riding[r] = Nobody /\ timer[r] # "armed"
        /\ followers[r] = <<>> /\ Waits(r) = {}
        /\ \A s \in Requests : \A t \in Waits(s) : t.r # r
        /\ \A t \in Due : t.r = r => OfChain(t) \/ t.kind = "abort"
    BY Unknown DEF Enters
  <1>3. Cacheable(c) /\ l = inFlight[c.url] /\ c.url \in URLs
    <2>1. \A d \in Configs : d.url \in URLs
      BY DEF HttpAssumption
    <2> QED BY <1>1, <2>1 DEF Leader, Enters
  <1>4. l \in Requests /\ Leads(l) /\ config[l].url = c.url /\ flight[l] # "none" /\ l # r
    <2>1. inFlight \in [URLs -> Requests \cup {Nobody}]
      BY TypeParts DEF IInv
    <2>2. Leads(l) /\ config[l].url = c.url
      BY <1>1, <1>3 DEF IInv, EntryKept
    <2> QED BY <1>1, <1>2, <1>3, <2>1, <2>2 DEF Leads
  <1>5. /\ promise \in [Requests -> Outcomes] /\ followers \in [Requests -> Seq(TaskSet)]
        /\ riding \in [Requests -> Requests \cup {Nobody}]
        /\ SendLink' = SendLink
    BY TypeParts DEF IInv, SendLink, Enters, chain
  <1>6. late => Settled(l)
    BY <1>4, <1>5 DEF IInv, Stages, Settled, Outcomes
  <1>7. /\ Adopter(r) \in Seq(TaskSet) /\ Apart(Adopter(r))
        /\ \A t \in Those(Adopter(r)) : t.kind = "adopt" /\ t.r = r /\ t.n = SendLink
        /\ IF interceptors = <<>> THEN Those(Adopter(r)) = {} ELSE Those(Adopter(r)) # {}
    BY AdopterFacts DEF IInv
  <1>8. rider \in TaskSet /\ rider.kind = "ride" /\ rider.r = r
    <2>1. 0 \in 0 .. LastLink
      BY LinkNumbers, TypeParts DEF IInv
    <2> QED BY <2>1, TaskParts DEF Outcomes
  <1> HIDE DEF rider
  <1>9. /\ Append(q, rider) \in Seq(TaskSet) /\ Apart(Append(q, rider))
        /\ Those(Append(q, rider)) = Those(q) \cup {rider}
    <2>1. \A a \in Those(q) : ~Same(a, rider)
      BY <1>2, <1>8 DEF Enters, Same, OfChain
    <2> QED BY <1>8, <2>1, AppendApart DEF Enters
  <1>10. /\ tasks' \in Seq(TaskSet) /\ Apart(tasks')
         /\ Due' = IF late THEN Those(q) \cup {rider} ELSE Those(q)
    BY <1>1, <1>9 DEF Due, Enters
  <1>11. followers[l] \in Seq(TaskSet) /\ Apart(followers[l]) /\ Waits(l) = Those(followers[l])
    BY <1>4, <1>5 DEF IInv, QueuesApart, Waits
  <1>12. /\ Append(followers[l], rider) \in Seq(TaskSet) /\ Apart(Append(followers[l], rider))
         /\ Those(Append(followers[l], rider)) = Waits(l) \cup {rider}
    <2>1. \A a \in Those(followers[l]) : ~Same(a, rider)
      BY <1>2, <1>4, <1>8, <1>11 DEF Same
    <2> QED BY <1>8, <1>11, <2>1, AppendApart
  <1>13. /\ followers'[r] = Adopter(r)
         /\ followers'[l] = IF late THEN followers[l] ELSE Append(followers[l], rider)
         /\ \A s \in Requests : s # r /\ s # l => followers'[s] = followers[s]
         /\ followers' \in [Requests -> Seq(TaskSet)]
    BY ONLY <1>1, <1>4, <1>5, <1>7, <1>12, r \in Requests
  <1>14. \A s \in Requests : Apart(followers'[s])
    BY <1>7, <1>11, <1>12, <1>13 DEF IInv, QueuesApart
  <1>15. /\ Waits(r)' = Those(Adopter(r))
         /\ Waits(l)' = IF late THEN Waits(l) ELSE Waits(l) \cup {rider}
         /\ \A s \in Requests : s # r /\ s # l => Waits(s)' = Waits(s)
    BY ONLY <1>12, <1>13, <1>4, r \in Requests DEF Waits
  <1>16. /\ promise'[r] = "pending" /\ promise'[l] = promise[l] /\ riding'[r] = l
         /\ \A s \in Requests : s # r => riding'[s] = riding[s] /\ promise'[s] = promise[s]
         /\ riding' \in [Requests -> Requests \cup {Nobody}]
    BY ONLY <1>1, <1>4, <1>5, r \in Requests
  <1>17. late => DueRight(rider)'
    <2>1. late => Settled(l)'
      BY <1>6, <1>16 DEF Settled
    <2>2. late => promise'[riding'[r]] \in {"ok", "fail"}
      BY <2>1, <1>16 DEF Settled
    <2> QED BY <1>1, <1>8, <1>16, <2>2 DEF DueRight, Settled
  <1>18. \A t \in Due' : t \in Those(q) \/ (t.r = r /\ DueRight(t)')
    BY <1>8, <1>10, <1>17
  <1>19. \A s \in Requests : s # r =>
           /\ flight'[s] = flight[s] /\ timer'[s] = timer[s] /\ riding'[s] = riding[s]
           /\ followers'[s] = followers[s] \/ promise[s] = "pending"
           /\ Waits(s) \subseteq Waits(s)'
           /\ \A t \in Waits(s)' :
                t \in Waits(s) \/ (t.kind = "ride" /\ t.r = r /\ riding'[r] = s)
    BY <1>1, <1>8, <1>13, <1>15, <1>16
  <1>20. IF interceptors = <<>> THEN ~IsDue(r)' /\ ~IsHeld(r)' ELSE (IsDue(r)' <=> ~IsHeld(r)')
    <2>1. ~IsDue(r)'
      BY <1>8, <1>10 DEF IsDue, OfChain, Enters
    <2>2. IsHeld(r)' <=> interceptors # <<>>
      BY <1>7, <1>15 DEF IsHeld, OfChain
    <2> QED BY <2>1, <2>2
  <1>21. PendingExact'
    <2>1. \A s \in Requests : flight[s] # "none" => promise'[s] = promise[s]
      BY <1>2, <1>16
    <2> QED BY <1>1, <2>1 DEF IInv, PendingExact, IsInjective, ToSet
  <1>22. SameKey(r, riding[r])' /\ flight'[riding'[r]] # "none" /\ riding'[r] # r
    <2>1. config'[r] = c /\ config'[l] = config[l]
      BY <1>4 DEF Enters
    <2> QED BY <1>1, <1>3, <1>4, <1>16, <2>1 DEF SameKey, Leads, Cacheable
  <1>23. /\ flight' \in [Requests -> Statuses] /\ timer' \in [Requests -> {"off", "armed", "fired"}]
         /\ pendingRequests' \in Seq(Requests)
         /\ flight'[r] = "none" /\ timer'[r] # "armed" /\ riding'[r] # Nobody
    BY <1>1, <1>2, <1>16, TypeParts DEF IInv
  <1>24. \A t \in Waits(r)' : t.r = r /\ t.kind = "adopt" /\ t.n = SendLink
    BY <1>7, <1>15
  <1>25. \A t \in Those(q) : t \in Due'
    BY <1>10
  <1>26. /\ promise' = [promise EXCEPT ![r] = "pending"] /\ inFlight' = inFlight
         /\ cache' = cache /\ aborted' = aborted /\ lost' = lost
    BY <1>1
  <1>27. Entered(r, c, q, "pending")
    BY ONLY <1>10, <1>13, <1>14, <1>16, <1>18, <1>19, <1>20, <1>21, <1>22, <1>23, <1>24, <1>25,
            <1>26, r \in Requests DEF Entered
  <1> QED BY <1>27, EntersKeeps

LEMMA AppendedOnce ==
  ASSUME NEW S, NEW s \in Seq(S), IsInjective(s), NEW e \in S, e \notin ToSet(s)
  PROVE  /\ Append(s, e) \in Seq(S) /\ IsInjective(Append(s, e))
         /\ ToSet(Append(s, e)) = ToSet(s) \cup {e}
  <1>1. /\ Append(s, e) \in Seq(S) /\ Len(Append(s, e)) = Len(s) + 1
        /\ \A k \in 1 .. Len(s) : Append(s, e)[k] = s[k]
        /\ Append(s, e)[Len(s) + 1] = e
        /\ Those(Append(s, e)) = Those(s) \cup {e}
    BY AppendFacts
  <1>2. DOMAIN s = 1 .. Len(s) /\ Len(s) \in Nat /\ DOMAIN Append(s, e) = 1 .. Len(s) + 1
    BY <1>1
  <1>3. ToSet(s) = Those(s) /\ ToSet(Append(s, e)) = Those(Append(s, e))
    BY DEF ToSet, Those
  <1>4. \A k \in 1 .. Len(s) : s[k] # e
    BY <1>2 DEF ToSet
  <1>5. ASSUME NEW j \in 1 .. Len(s) + 1, NEW k \in 1 .. Len(s) + 1,
               Append(s, e)[j] = Append(s, e)[k]
        PROVE  j = k
    <2>1. CASE j \in 1 .. Len(s) /\ k \in 1 .. Len(s)
      BY <1>1, <1>2, <1>5, <2>1 DEF IsInjective
    <2>2. CASE j = Len(s) + 1 \/ k = Len(s) + 1
      BY <1>1, <1>2, <1>4, <1>5, <2>2
    <2> QED BY <1>2, <2>1, <2>2
  <1>6. IsInjective(Append(s, e))
    BY <1>2, <1>5 DEF IsInjective
  <1> QED BY <1>1, <1>3, <1>6

\* What waits for the promise of a request that is sent.
LEMMA SentWaits ==
  ASSUME HttpAssumption, TypeOK, NEW r \in Requests, NEW b \in BOOLEAN
  PROVE  LET f == (IF b THEN <<Task("clear", r, 0, "none")>> ELSE <<>>) \o Adopter(r)
         IN  /\ f \in Seq(TaskSet) /\ Apart(f)
             /\ \A t \in Those(f) : \/ b /\ t.kind = "clear" /\ t.r = r
                                    \/ t.kind = "adopt" /\ t.r = r /\ t.n = SendLink
             /\ b => \E t \in Those(f) : t.kind = "clear"
             /\ (\E t \in Those(f) : OfChain(t)) <=> interceptors # <<>>
  <1> DEFINE e == Task("clear", r, 0, "none")
             p == IF b THEN <<e>> ELSE <<>>
  <1>1. e \in TaskSet /\ e.kind = "clear" /\ e.r = r
    <2>1. 0 \in 0 .. LastLink
      BY LinkNumbers, TypeParts
    <2> QED BY <2>1, TaskParts DEF Outcomes
  <1> HIDE DEF e
  <1>2. /\ <<e>> \in Seq(TaskSet) /\ Apart(<<e>>) /\ Those(<<e>>) = {e}
        /\ <<>> \in Seq(TaskSet) /\ Apart(<<>>) /\ Those(<<>>) = {}
    BY <1>1, OneApart
  <1>3. p \in Seq(TaskSet) /\ Apart(p) /\ Those(p) = IF b THEN {e} ELSE {}
    BY <1>2
  <1>4. /\ Adopter(r) \in Seq(TaskSet) /\ Apart(Adopter(r))
        /\ \A t \in Those(Adopter(r)) : t.kind = "adopt" /\ t.r = r /\ t.n = SendLink
        /\ IF interceptors = <<>> THEN Those(Adopter(r)) = {} ELSE Those(Adopter(r)) # {}
    BY AdopterFacts
  <1>5. \A x \in Those(p), y \in Those(Adopter(r)) : ~Same(x, y)
    BY <1>1, <1>3, <1>4 DEF Same, OfChain
  <1> HIDE DEF p
  <1>6. /\ p \o Adopter(r) \in Seq(TaskSet) /\ Apart(p \o Adopter(r))
        /\ Those(p \o Adopter(r)) = Those(p) \cup Those(Adopter(r))
    BY <1>3, <1>4, <1>5, ConcatApart
  <1>7. \A t \in Those(p \o Adopter(r)) : \/ b /\ t.kind = "clear" /\ t.r = r
                                          \/ t.kind = "adopt" /\ t.r = r /\ t.n = SendLink
    BY <1>1, <1>3, <1>4, <1>6
  <1>8. b => \E t \in Those(p \o Adopter(r)) : t.kind = "clear"
    BY <1>1, <1>3, <1>6
  <1>9. (\E t \in Those(p \o Adopter(r)) : OfChain(t)) <=> interceptors # <<>>
    BY <1>1, <1>3, <1>4, <1>6 DEF OfChain
  <1> QED BY <1>6, <1>7, <1>8, <1>9 DEF p, e

\* A request that goes out leads for its URL, is counted and has its limit armed.
LEMMA SendStep ==
  ASSUME HttpAssumption, IInv, NEW r \in Requests, NEW c, NEW q, Enters(r, c, q), Send(r, c, q)
  PROVE  IInv'
  <1> DEFINE f == (IF Cacheable(c) THEN <<Task("clear", r, 0, "none")>> ELSE <<>>) \o Adopter(r)
             a == Task("abort", r, 0, "none")
  <1>1. /\ Stored(c) = Nobody /\ Leader(c) = Nobody
        /\ promise' = [promise EXCEPT ![r] = "pending"]
        /\ inFlight' = IF Cacheable(c) THEN [inFlight EXCEPT ![c.url] = r] ELSE inFlight
        /\ followers' = [followers EXCEPT ![r] = f]
        /\ pendingRequests' = Append(pendingRequests, r)
        /\ timer' = [timer EXCEPT ![r] = IF c.limit = "number" THEN "armed" ELSE "off"]
        /\ flight' = [flight EXCEPT ![r] = "sent"]
        /\ tasks' = Append(q, a) \/ tasks' = q
        /\ UNCHANGED <<riding, lost, cache, aborted>>
    BY DEF Send
  <1>2. /\ flight[r] = "none" /\ riding[r] = Nobody /\ followers[r] = <<>> /\ Waits(r) = {}
    BY Unknown DEF Enters
  <1>3. /\ promise \in [Requests -> Outcomes] /\ followers \in [Requests -> Seq(TaskSet)]
        /\ inFlight \in [URLs -> Requests \cup {Nobody}]
        /\ flight \in [Requests -> Statuses]
        /\ timer \in [Requests -> {"off", "armed", "fired"}]
        /\ pendingRequests \in Seq(Requests) /\ IsInjective(pendingRequests)
        /\ riding \in [Requests -> Requests \cup {Nobody}]
        /\ SendLink' = SendLink /\ c.url \in URLs
    <2>1. \A d \in Configs : d.url \in URLs
      BY DEF HttpAssumption
    <2> QED BY <2>1, TypeParts DEF IInv, PendingExact, SendLink, Enters, chain
  <1>4. Cacheable(c) \in BOOLEAN
    BY DEF Cacheable
  <1>5. /\ f \in Seq(TaskSet) /\ Apart(f)
        /\ \A t \in Those(f) : \/ Cacheable(c) /\ t.kind = "clear" /\ t.r = r
                               \/ t.kind = "adopt" /\ t.r = r /\ t.n = SendLink
        /\ Cacheable(c) => \E t \in Those(f) : t.kind = "clear"
        /\ (\E t \in Those(f) : OfChain(t)) <=> interceptors # <<>>
    BY <1>4, SentWaits DEF IInv
  <1>6. a.kind = "abort" /\ a.r = r
    BY TaskParts
  <1>7. /\ Append(q, a) \in Seq(TaskSet) /\ Apart(Append(q, a))
        /\ Those(Append(q, a)) = Those(q) \cup {a}
    BY DueAppend DEF Enters, IInv, Outcomes
  <1> HIDE DEF f, a
  <1>8. /\ tasks' \in Seq(TaskSet) /\ Apart(tasks')
        /\ Due' = Those(q) \/ Due' = Those(q) \cup {a}
    BY <1>1, <1>7 DEF Due, Enters
  <1>9. DueRight(a)'
    BY <1>6 DEF DueRight
  <1>10. \A t \in Due' : t \in Those(q) \/ (t.r = r /\ DueRight(t)')
    BY <1>6, <1>8, <1>9
  <1>11. /\ followers' \in [Requests -> Seq(TaskSet)] /\ followers'[r] = f
         /\ \A s \in Requests : s # r => followers'[s] = followers[s]
    BY <1>1, <1>3, <1>5
  <1>12. \A s \in Requests : Apart(followers'[s])
    BY <1>5, <1>11 DEF IInv, QueuesApart
  <1>13. /\ Waits(r)' = Those(f)
         /\ \A s \in Requests : s # r => Waits(s)' = Waits(s)
    BY <1>11 DEF Waits
  <1>14. /\ \A s \in Requests : s # r =>
              flight'[s] = flight[s] /\ timer'[s] = timer[s] /\ riding'[s] = riding[s]
         /\ flight'[r] = "sent" /\ riding'[r] = Nobody /\ promise'[r] = "pending"
         /\ flight' \in [Requests -> Statuses]
         /\ timer' \in [Requests -> {"off", "armed", "fired"}]
         /\ riding' \in [Requests -> Requests \cup {Nobody}]
    BY ONLY <1>1, <1>2, <1>3, r \in Requests DEF Statuses
  <1>15. \A s \in Requests : s # r =>
           /\ followers'[s] = followers[s] \/ promise[s] = "pending"
           /\ Waits(s) \subseteq Waits(s)'
           /\ \A t \in Waits(s)' :
                t \in Waits(s) \/ (t.kind = "ride" /\ t.r = r /\ riding'[r] = s)
    BY <1>11, <1>13
  <1>16. /\ \/ inFlight' = inFlight
            \/ /\ Cacheable(c) /\ inFlight[c.url] = Nobody
               /\ inFlight' = [inFlight EXCEPT ![c.url] = r]
               /\ \E t \in Waits(r)' : t.kind = "clear"
         /\ Cacheable(c) => inFlight'[c.url] = r
    <2>1. Cacheable(c) => inFlight[c.url] = Nobody
      BY <1>1 DEF Leader
    <2> QED BY <1>1, <1>3, <1>5, <1>13, <2>1
  <1>17. pendingRequests' \in Seq(Requests) /\ PendingExact'
    <2>1. r \notin ToSet(pendingRequests) /\ r \notin lost /\ lost' = lost
      BY <1>1, <1>2 DEF IInv, PendingExact, LostOK, Enters
    <2>2. /\ pendingRequests' \in Seq(Requests) /\ IsInjective(pendingRequests')
          /\ ToSet(pendingRequests') = ToSet(pendingRequests) \cup {r}
      BY <1>1, <1>3, <2>1, AppendedOnce
    <2>3. \A s \in Requests : s # r => promise'[s] = promise[s]
      BY <1>1, <1>3
    <2>4. ToSet(pendingRequests)
            = {s \in Requests \ lost : flight[s] # "none" /\ promise[s] = "pending"}
      BY DEF IInv, PendingExact
    <2>5. ToSet(pendingRequests) \cup {r}
            = {s \in Requests \ lost' : flight'[s] # "none" /\ promise'[s] = "pending"}
      BY <1>14, <2>1, <2>3, <2>4
    <2>6. ToSet(pendingRequests)' = ToSet(pendingRequests')
      BY DEF ToSet
    <2> QED BY <2>2, <2>5 DEF PendingExact
  <1>18. IF interceptors = <<>> THEN ~IsDue(r)' /\ ~IsHeld(r)' ELSE (IsDue(r)' <=> ~IsHeld(r)')
    <2>1. ~IsDue(r)'
      BY <1>6, <1>8 DEF IsDue, OfChain, Enters
    <2>2. IsHeld(r)' <=> interceptors # <<>>
      BY <1>5, <1>13 DEF IsHeld
    <2> QED BY <2>1, <2>2
  <1>19. \A t \in Waits(r)' : t.r = r /\ (\/ t.kind = "clear" /\ Cacheable(c) /\ flight'[r] # "none"
                                          \/ t.kind = "adopt" /\ t.n = SendLink)
    BY <1>5, <1>13, <1>14
  <1>20. \A t \in Those(q) : t \in Due'
    BY <1>8
  <1>21. promise' = [promise EXCEPT ![r] = "pending"] /\ UNCHANGED <<cache, aborted, lost>>
    BY <1>1
  <1>22. Entered(r, c, q, "pending")
    BY ONLY <1>8, <1>10, <1>11, <1>12, <1>14, <1>15, <1>16, <1>17, <1>18, <1>19, <1>20, <1>21,
            r \in Requests DEF Entered
  <1> QED BY <1>22, EntersKeeps

LEMMA ServerStep ==
  ASSUME HttpAssumption, IInv, NEW r \in Requests, NEW c, NEW q, Enters(r, c, q),
         ServerRequest(r, c, q)
  PROVE  IInv'
  <1>1. CASE Refuse(r, q)
    BY <1>1, ImmediateStep DEF Refuse
  <1>2. CASE Hit(r, c, q)
    BY <1>2, ImmediateStep DEF Hit
  <1>3. CASE Ride(r, c, q)
    BY <1>3, RideStep
  <1>4. CASE Send(r, c, q)
    BY <1>4, SendStep
  <1> QED BY <1>1, <1>2, <1>3, <1>4 DEF ServerRequest

\* The call that is issued is one that was not, and it is in no place yet.
LEMMA IssuedFacts ==
  ASSUME HttpAssumption, IInv, NEW c \in Configs, NEW spent \in BOOLEAN, Issues(c, spent)
  PROVE  LET r == NextRequest
         IN  /\ r \in Requests /\ config[r] = Unissued /\ promise[r] = "none"
             /\ ~IsDue(r) /\ ~IsHeld(r) /\ ~IsAwaited(r) /\ ~IsOver(r)
             /\ config' \in [Requests -> Configs \cup {Unissued}] /\ config'[r] = c
             /\ c # Unissued
             /\ \A s \in Requests : s # r => config'[s] = config[s]
             /\ cancelled' \in [Requests -> BOOLEAN]
  <1> DEFINE r == NextRequest
  <1>1. \E s \in Requests : config[s] = Unissued
    <2> SUFFICES ASSUME \A s \in Requests : config[s] # Unissued PROVE FALSE
      OBVIOUS
    <2>1. {s \in Requests : config[s] # Unissued} = Requests
      OBVIOUS
    <2>2. Calls[interceptors] \in 0 .. Cardinality(Requests) /\ Cardinality(Requests) \in Nat
      BY TypeParts, FS_CardinalityType DEF HttpAssumption, IInv
    <2>3. Cardinality(Requests) < Calls[interceptors]
      BY <2>1 DEF Issues
    <2> QED BY <2>2, <2>3
  <1>2. r \in Requests /\ config[r] = Unissued
    BY <1>1 DEF NextRequest
  <1>3. /\ config \in [Requests -> Configs \cup {Unissued}] /\ cancelled \in [Requests -> BOOLEAN]
        /\ config' = [config EXCEPT ![r] = c] /\ cancelled' = [cancelled EXCEPT ![r] = spent]
    BY TypeParts DEF IInv, Issues
  <1> HIDE DEF r
  <1>4. promise[r] = "none" /\ AtPlace(r, "nowhere")
    BY <1>2 DEF IInv, Stages, PlacesOK
  <1>5. ~IsDue(r) /\ ~IsHeld(r) /\ ~IsAwaited(r) /\ ~IsOver(r)
    BY <1>4 DEF AtPlace
  <1>6. c # Unissued
    BY DEF HttpAssumption, Unissued
  <1> QED BY <1>2, <1>3, <1>4, <1>5, <1>6 DEF r

LEMMA IssueEnters ==
  ASSUME HttpAssumption, IInv, NEW c \in Configs, NEW spent \in BOOLEAN, IssueDirect(c, spent),
         NEW r, r = NextRequest
  PROVE  r \in Requests /\ Enters(r, c, tasks) /\ ServerRequest(r, c, tasks)
  <1>1. Issues(c, spent) /\ ServerRequest(r, c, tasks) /\ UNCHANGED chain
    BY DEF IssueDirect
  <1>2. /\ r \in Requests /\ config[r] = Unissued /\ promise[r] = "none"
        /\ ~IsDue(r) /\ ~IsHeld(r) /\ ~IsAwaited(r) /\ ~IsOver(r)
        /\ config' \in [Requests -> Configs \cup {Unissued}] /\ config'[r] = c
        /\ \A s \in Requests : s # r => config'[s] = config[s]
        /\ cancelled' \in [Requests -> BOOLEAN]
    BY <1>1, IssuedFacts
  <1>3. tasks \in Seq(TaskSet) /\ Apart(tasks) /\ Those(tasks) = Due
    BY TypeParts DEF IInv, QueuesApart, Due
  <1>4. \A t \in Due : ~(OfChain(t) /\ t.r = r)
    BY <1>2 DEF IsDue
  <1>5. Enters(r, c, tasks)
    BY <1>1, <1>2, <1>3, <1>4 DEF Enters, IsAwaited, IsOver
  <1> QED BY <1>1, <1>2, <1>5

LEMMA IssueDirectStep ==
  ASSUME HttpAssumption, IInv, NEW c \in Configs, NEW spent \in BOOLEAN, IssueDirect(c, spent),
         NEW r, r = NextRequest
  PROVE  IInv'
  BY IssueEnters, ServerStep

LEMMA IssueChainedStep ==
  ASSUME HttpAssumption, IInv, NEW c \in Configs, NEW spent \in BOOLEAN, IssueChained(c, spent),
         NEW r, r = NextRequest
  PROVE  IInv'
  <1>1. Issues(c, spent) /\ Advance(tasks, r, 0, "ok") /\ interceptors # <<>>
        /\ UNCHANGED <<interceptors, awaiting, promise, followers, riding, inFlight, lost, cache,
                       pendingRequests, flight, aborted, timer>>
    BY DEF IssueChained, shared, backend
  <1>2. /\ r \in Requests /\ config[r] = Unissued /\ promise[r] = "none"
        /\ ~IsDue(r) /\ ~IsHeld(r) /\ awaiting[r] = 0 /\ ~IsOver(r)
        /\ config' \in [Requests -> Configs \cup {Unissued}] /\ config'[r] # Unissued
        /\ \A s \in Requests : s # r => config'[s] = config[s]
        /\ cancelled' \in [Requests -> BOOLEAN]
    BY <1>1, IssuedFacts DEF IsAwaited
  <1>3. tasks \in Seq(TaskSet) /\ Apart(tasks) /\ Those(tasks) = Due
    BY TypeParts DEF IInv, QueuesApart, Due
  <1>4. \A t \in Due : ~(OfChain(t) /\ t.r = r)
    BY <1>2 DEF IsDue
  <1>5. 0 \in 0 .. LastLink
    BY LinkNumbers, TypeParts DEF IInv
  <1>6. /\ \A t \in Those(tasks) : t \in Due /\ ~(OfChain(t) /\ t.r = r)
        /\ \A t \in Due : t \in Those(tasks) \/ (OfChain(t) /\ t.r = r)
    BY <1>3, <1>4
  <1> QED BY <1>1, <1>2, <1>3, <1>5, <1>6, ChainAdvances

\* The link of the server stage is due only for a call that did not reach it.
LEMMA SendEnters ==
  ASSUME HttpAssumption, IInv, RunSend, NEW r, r = Head1.r, NEW q, q = Tail(tasks)
  PROVE  r \in Requests /\ Enters(r, config[r], q) /\ ServerRequest(r, config[r], q)
  <1>1. tasks # <<>> /\ OfChain(Head1) /\ Head1.kind = "link"
    BY DEF RunSend, Runs, OfChain
  <1>2. /\ r \in Requests /\ DueRight(Head1) /\ Head1.n \in 0 .. LastLink
        /\ q \in Seq(TaskSet) /\ Apart(q)
        /\ \A t \in Those(q) : t \in Due /\ ~(OfChain(t) /\ t.r = r)
        /\ \A t \in Due : t \in Those(q) \/ (OfChain(t) /\ t.r = r)
        /\ ~IsOver(r) /\ awaiting[r] = 0 /\ config[r] # Unissued
    BY <1>1, ChainHead
  <1>3. Head1.n = SendLink /\ SendLink \in Nat
    BY <1>2, LinkNumbers, TypeParts DEF RunSend, Here, IInv
  <1>4. promise[r] = "none"
    BY <1>1, <1>2, <1>3 DEF DueRight
  <1>5. /\ config' = config /\ config \in [Requests -> Configs \cup {Unissued}]
        /\ cancelled' = cancelled /\ cancelled \in [Requests -> BOOLEAN]
        /\ UNCHANGED chain /\ ServerRequest(r, config[r], q)
    BY TypeParts DEF RunSend, IInv
  <1>6. Enters(r, config[r], q)
    BY <1>2, <1>4, <1>5 DEF Enters, IsOver
  <1> QED BY <1>2, <1>5, <1>6

LEMMA RunSendStep ==
  ASSUME HttpAssumption, IInv, RunSend, NEW r, r = Head1.r, NEW q, q = Tail(tasks)
  PROVE  IInv'
  BY SendEnters, ServerStep

-----------------------------------------------------------------------------
(* Settling                                                                *)

\* Follow-up h, the head of the queue, reports to r what it waits for, and settles
\* its promise with outcome x.
Answers(h, r, q) ==
  tasks # <<>> /\ h = Head1 /\ h.kind \in {"raw", "ride"} /\ h.r = r /\ q = Tail(tasks)

Settles(h, r, q, x) ==
  /\ Answers(h, r, q)
  /\ promise' = [promise EXCEPT ![r] = x] /\ x \in {"ok", "fail"}
  /\ tasks' = q \o followers[r] /\ followers' = [followers EXCEPT ![r] = <<>>]
  /\ UNCHANGED <<interceptors, final, awaiting, config, riding, inFlight, lost, flight, aborted,
                 cancelled>>

\* What holds of r then: nobody else is about to settle it, nothing it waits
\* for is due already, and it waits for nobody.
LEMMA SettlingFacts ==
  ASSUME HttpAssumption, IInv, NEW h, NEW r, NEW q, Answers(h, r, q)
  PROVE  /\ r \in Requests /\ promise[r] = "pending" /\ flight[r] \in {"none", "done"}
         /\ r \notin lost
         /\ q \in Seq(TaskSet) /\ Apart(q) /\ h \in Due /\ Due = {h} \cup Those(q)
         /\ followers[r] \in Seq(TaskSet) /\ Apart(followers[r]) /\ Waits(r) = Those(followers[r])
         /\ \A t \in Those(q) : t.kind \in {"raw", "ride"} => t.r # r
         /\ \A a \in Those(q), b \in Waits(r) : ~Same(a, b)
         /\ \A s \in Requests : \A t \in Waits(s) : t.kind = "ride" => t.r # r
  <1>1. /\ h \in TaskSet /\ h \in Due /\ q \in Seq(TaskSet) /\ Apart(q)
        /\ Due = {h} \cup Those(q) /\ \A t \in Those(q) : ~Same(t, h)
    BY HeadFacts DEF Answers, IInv
  <1>2. r \in Requests /\ DueRight(h) /\ h.kind \in {"raw", "ride"} /\ h.r = r /\ r \notin lost
    BY <1>1, TaskTyped DEF Answers, IInv, DueOK, LostOK
  <1>3. promise[r] = "pending"
    BY <1>2 DEF DueRight
  <1>4. \/ h.kind = "raw" /\ flight[r] = "done" /\ riding[r] = Nobody
        \/ h.kind = "ride" /\ flight[r] = "none" /\ Settled(riding[r]) /\ riding[r] # Nobody
    <2>1. flight[r] # "none" => riding[r] = Nobody
      BY <1>2 DEF IInv, Stages
    <2> QED BY <1>2, <2>1 DEF DueRight
  <1>5. followers[r] \in Seq(TaskSet) /\ Apart(followers[r]) /\ Waits(r) = Those(followers[r])
    BY <1>2, TypeParts DEF IInv, QueuesApart, Waits
  <1>6. \A t \in Those(q) : t.kind \in {"raw", "ride"} => t.r # r
    <2> SUFFICES ASSUME NEW t \in Those(q), t.kind \in {"raw", "ride"}, t.r = r PROVE FALSE
      OBVIOUS
    <2>1. t \in Due /\ DueRight(t) /\ ~Same(t, h)
      BY <1>1 DEF IInv, DueOK
    <2>2. t.kind # h.kind
      BY <1>2, <2>1 DEF Same
    <2> QED BY <1>2, <1>4, <2>1, <2>2 DEF DueRight
  <1>7. ~Settled(r)
    BY <1>3 DEF Settled
  <1>8. \A a \in Those(q), b \in Waits(r) : ~Same(a, b)
    <2> SUFFICES ASSUME NEW a \in Those(q), NEW b \in Waits(r), Same(a, b) PROVE FALSE
      OBVIOUS
    <2>1. a \in Due /\ DueRight(a) /\ a.r = b.r
      BY <1>1 DEF IInv, DueOK, Same
    <2>2. CASE b.kind = "clear" /\ b.r = r
      <3>1. a.kind = "clear"
        BY <2>2 DEF Same, OfChain
      <3> QED BY <1>7, <2>1, <2>2, <3>1 DEF DueRight
    <2>3. CASE b.kind = "adopt" /\ b.r = r
      <3>1. IsHeld(r) /\ IsDue(r)
        BY <2>1, <2>3 DEF IsHeld, IsDue, OfChain, Same
      <3>2. config[r] # Unissued /\ interceptors # <<>>
        BY <1>2, <3>1, PlacedIsIssued DEF IInv
      <3> QED BY <1>2, <3>1, <3>2, PlaceOf DEF IInv
    <2>4. CASE b.kind = "ride" /\ riding[b.r] = r
      <3>1. a.kind = "ride"
        BY <2>4 DEF Same, OfChain
      <3> QED BY <1>7, <2>1, <2>4, <3>1 DEF DueRight
    <2> QED BY <1>2, <2>2, <2>3, <2>4 DEF IInv, WaitsOK
  <1>9. \A s \in Requests : \A t \in Waits(s) : t.kind = "ride" => t.r # r
    <2> SUFFICES ASSUME NEW s \in Requests, NEW t \in Waits(s), t.kind = "ride", t.r = r
                 PROVE  FALSE
      OBVIOUS
    <2>1. riding[r] = s /\ s # Nobody
      BY DEF IInv, WaitsOK, HttpAssumption
    <2>2. followers[s] # <<>>
      BY DEF Waits, Those
    <2>3. promise[s] = "pending"
      BY <2>2 DEF IInv, Stages
    <2> QED BY <1>4, <2>1, <2>3 DEF Settled
  <1> QED BY <1>1, <1>2, <1>3, <1>4, <1>5, <1>6, <1>8, <1>9

LEMMA SettleKeeps ==
  ASSUME HttpAssumption, IInv, NEW h, NEW r, NEW q, NEW x, Settles(h, r, q, x),
         pendingRequests' \in Seq(Requests), IsInjective(pendingRequests'),
         ToSet(pendingRequests') = ToSet(pendingRequests) \ {r},
         timer' \in [Requests -> {"off", "armed", "fired"}], timer'[r] # "armed",
         \A s \in Requests : s # r => timer'[s] = timer[s],
         cache' \in [Caches -> [URLs -> Requests \cup {Nobody}]], StoredOK'
  PROVE  IInv'
  <1>1. /\ r \in Requests /\ promise[r] = "pending" /\ flight[r] \in {"none", "done"}
        /\ q \in Seq(TaskSet) /\ Apart(q) /\ h \in Due /\ Due = {h} \cup Those(q)
        /\ followers[r] \in Seq(TaskSet) /\ Apart(followers[r]) /\ Waits(r) = Those(followers[r])
        /\ \A t \in Those(q) : t.kind \in {"raw", "ride"} => t.r # r
        /\ \A a \in Those(q), b \in Waits(r) : ~Same(a, b)
        /\ \A s \in Requests : \A t \in Waits(s) : t.kind = "ride" => t.r # r
        /\ r \notin lost
    BY SettlingFacts DEF Settles
  <1>2. /\ h.kind \in {"raw", "ride"} /\ h.r = r /\ x \in {"ok", "fail"}
        /\ promise' = [promise EXCEPT ![r] = x]
        /\ tasks' = q \o followers[r] /\ followers' = [followers EXCEPT ![r] = <<>>]
        /\ UNCHANGED <<interceptors, final, awaiting, config, riding, inFlight, lost, flight,
                       aborted, cancelled>>
    BY DEF Settles, Answers
  <1>3. /\ tasks' \in Seq(TaskSet) /\ Apart(tasks') /\ Due' = Those(q) \cup Waits(r)
    BY <1>1, <1>2, ConcatApart DEF Due
  <1>4. /\ promise \in [Requests -> Outcomes] /\ followers \in [Requests -> Seq(TaskSet)]
        /\ riding \in [Requests -> Requests \cup {Nobody}]
        /\ inFlight \in [URLs -> Requests \cup {Nobody}]
    BY TypeParts DEF IInv
  <1>5. /\ promise'[r] = x /\ \A s \in Requests : s # r => promise'[s] = promise[s]
        /\ promise' \in [Requests -> Outcomes]
    BY ONLY <1>1, <1>2, <1>4 DEF Outcomes
  <1>6. /\ followers'[r] = <<>> /\ \A s \in Requests : s # r => followers'[s] = followers[s]
        /\ followers' \in [Requests -> Seq(TaskSet)]
    BY ONLY <1>1, <1>2, <1>4
  <1>7. /\ Waits(r)' = {} /\ \A s \in Requests : s # r => Waits(s)' = Waits(s)
        /\ SendLink' = SendLink /\ \A s \in Requests : (Leads(s)' <=> Leads(s))
    BY <1>2, <1>6 DEF Waits, Those, SendLink, Leads, Cacheable
  <1>8. /\ ~Settled(r) /\ Settled(r)'
        /\ \A s \in Requests : s # r => (Settled(s)' <=> Settled(s))
        /\ \A s \in Requests : Settled(s) => Settled(s)'
    BY <1>1, <1>2, <1>5 DEF Settled
  <1>9. TypeOK'
    <2>1. /\ interceptors \in Stacks /\ config' \in [Requests -> Configs \cup {Unissued}]
          /\ final' \in [Requests -> {"none", "ok", "fail"}]
          /\ awaiting' \in [Requests -> 0 .. LastLink]
          /\ riding' \in [Requests -> Requests \cup {Nobody}]
          /\ inFlight' \in [URLs -> Requests \cup {Nobody}] /\ lost' \subseteq Requests
          /\ flight' \in [Requests -> Statuses]
          /\ aborted' \in [Requests -> BOOLEAN] /\ cancelled' \in [Requests -> BOOLEAN]
      BY <1>2, TypeParts DEF IInv
    <2> QED BY <1>2, <1>3, <1>5, <1>6, <2>1, TypeFrom
  <1>10. QueuesApart'
    <2>1. Apart(<<>>)
      BY DEF Apart
    <2>2. \A s \in Requests : Apart(followers'[s])
      BY <1>6, <2>1 DEF IInv, QueuesApart
    <2> QED BY <1>3, <2>2 DEF QueuesApart, Apart
  <1>11. Stages'
    <2> SUFFICES ASSUME NEW s \in Requests
                 PROVE  /\ flight'[s] # "none" => promise'[s] # "none" /\ riding'[s] = Nobody
                        /\ promise'[s] = "pending" => flight'[s] # "none" \/ riding'[s] # Nobody
                        /\ promise'[s] = "none" => riding'[s] = Nobody
                        /\ timer'[s] = "armed" => promise'[s] = "pending" /\ flight'[s] # "none"
                        /\ Settled(s)' => flight'[s] \in {"none", "done"}
                        /\ followers'[s] # <<>> => promise'[s] = "pending"
                        /\ config'[s] = Unissued => promise'[s] = "none"
      BY DEF Stages
    <2>1. CASE s = r
      BY <1>1, <1>2, <1>5, <1>6, <2>1 DEF IInv, Stages
    <2>2. CASE s # r
      BY <1>2, <1>5, <1>6, <1>8, <2>2 DEF IInv, Stages
    <2> QED BY <2>1, <2>2
  <1>12. WaitsOK'
    <2> SUFFICES ASSUME NEW s \in Requests, NEW t \in Waits(s)'
                 PROVE  \/ t.kind = "clear" /\ t.r = s /\ Leads(s)'
                        \/ t.kind = "adopt" /\ t.r = s /\ t.n = SendLink'
                        \/ t.kind = "ride" /\ riding'[t.r] = s /\ promise'[t.r] = "pending"
      BY DEF WaitsOK
    <2>1. s # r /\ t \in Waits(s)
      BY <1>7
    <2>2. t.r \in Requests
      BY <2>1, TaskTyped DEF IInv
    <2> QED BY <1>1, <1>2, <1>5, <1>7, <2>1, <2>2 DEF IInv, WaitsOK
  <1>13. DueOK'
    <2>1. ASSUME NEW t \in Those(q) PROVE DueRight(t)'
      <3>1. t \in Due /\ t.r \in Requests /\ DueRight(t)
        BY <1>1, TaskTyped DEF IInv, DueOK
      <3>2. riding[t.r] # Nobody => riding[t.r] \in Requests
        BY <1>4, <3>1
      <3>3. t.kind \in {"raw", "ride"} => t.r # r
        BY <1>1
      <3> QED BY <1>1, <1>2, <1>5, <1>7, <1>8, <3>1, <3>2, <3>3 DEF DueRight
    <2>2. ASSUME NEW t \in Waits(r) PROVE DueRight(t)'
      <3>1. t.r \in Requests
        BY <1>1, TaskTyped DEF IInv
      <3>2. SendLink \in Nat /\ r # Nobody
        BY <1>1, LinkNumbers, TypeParts DEF IInv, HttpAssumption
      <3>3. CASE t.kind = "clear" /\ t.r = r /\ Leads(r)
        BY <1>1, <1>2, <1>5, <3>3 DEF DueRight, Settled, Leads, Cacheable
      <3>4. CASE t.kind = "adopt" /\ t.r = r /\ t.n = SendLink
        BY <1>7, <1>8, <3>2, <3>4 DEF DueRight
      <3>5. CASE t.kind = "ride" /\ riding[t.r] = r /\ promise[t.r] = "pending"
        <4>1. t.r # r
          BY <1>1, <3>5
        <4>2. riding'[t.r] = r /\ promise'[t.r] = "pending"
          BY <1>2, <1>5, <3>1, <3>5, <4>1
        <4>3. promise'[riding'[t.r]] \in {"ok", "fail"}
          BY <1>2, <1>5, <4>2
        <4> QED BY <3>2, <3>5, <4>2, <4>3 DEF DueRight, Settled
      <3> QED BY <1>1, <3>3, <3>4, <3>5 DEF IInv, WaitsOK
    <2> QED BY <1>3, <2>1, <2>2 DEF DueOK
  <1>14. EntryKept'
    <2> SUFFICES ASSUME NEW u \in URLs, NEW s \in Requests, inFlight[u] = s
                 PROVE  /\ Leads(s)' /\ config'[s].url = u
                        /\ promise'[s] = "pending" => \E t \in Waits(s)' : t.kind = "clear"
                        /\ Settled(s)' => \E t \in Due' : t.kind = "clear" /\ t.r = s
      BY <1>2, <1>4 DEF EntryKept
    <2>1. s # Nobody
      BY DEF HttpAssumption
    <2>2. /\ Leads(s) /\ config[s].url = u
          /\ promise[s] = "pending" => \E t \in Waits(s) : t.kind = "clear"
          /\ Settled(s) => \E t \in Due : t.kind = "clear" /\ t.r = s
      BY <2>1 DEF IInv, EntryKept
    <2>3. Leads(s)' /\ config'[s].url = u
      BY <1>2, <1>7, <2>2
    <2>4. CASE s = r
      <3>1. PICK t \in Waits(r) : t.kind = "clear"
        BY <1>1, <2>2, <2>4
      <3>2. t.r = r /\ t \in Due'
        BY <1>1, <1>3, <3>1 DEF IInv, WaitsOK
      <3> QED BY <1>2, <1>5, <2>3, <2>4, <3>1, <3>2
    <2>5. CASE s # r
      <3>1. Settled(s) => \E t \in Due' : t.kind = "clear" /\ t.r = s
        BY <1>1, <1>2, <1>3, <2>2
      <3> QED BY <1>5, <1>7, <1>8, <2>2, <2>3, <2>5, <3>1
    <2> QED BY <2>4, <2>5
  <1>15. OutLeads'
    BY <1>1, <1>2, <1>5 DEF IInv, OutLeads, Cacheable
  <1>16. RidersOK'
    BY <1>2 DEF IInv, RidersOK, SameKey, Cacheable
  <1>17. PlacesOK'
    <2>1. \A s \in Requests : s # r => (IsDue(s)' <=> IsDue(s)) /\ (IsHeld(s)' <=> IsHeld(s))
      <3>1. \A t \in Waits(r) : OfChain(t) => t.r = r
        BY <1>1 DEF IInv, WaitsOK, OfChain
      <3>2. ~OfChain(h)
        BY <1>2 DEF OfChain
      <3> QED BY <1>1, <1>3, <1>7, <3>1, <3>2 DEF IsDue, IsHeld
    <2>2. \A s \in Requests : (IsAwaited(s)' <=> IsAwaited(s)) /\ (IsOver(s)' <=> IsOver(s))
      BY <1>2 DEF IsAwaited, IsOver
    <2>3. \A s \in Requests : \A p : s # r => (AtPlace(s, p)' <=> AtPlace(s, p))
      BY <2>1, <2>2 DEF AtPlace
    <2>4. ~IsHeld(r)' /\ (IsDue(r)' <=> IsDue(r) \/ IsHeld(r))
      <3>1. \A t \in Waits(r) : OfChain(t) => t.r = r
        BY <1>1 DEF IInv, WaitsOK, OfChain
      <3>2. ~OfChain(h)
        BY <1>2 DEF OfChain
      <3> QED BY <1>1, <1>3, <1>7, <3>1, <3>2 DEF IsDue, IsHeld
    <2>5. AtPlace(r, "nowhere") => AtPlace(r, "nowhere")'
      BY <1>1, <2>2, <2>4 DEF AtPlace
    <2>6. ASSUME NEW p \in Places, AtPlace(r, p) PROVE \E z \in Places : AtPlace(r, z)'
      <3>1. CASE p \in {"due", "held"}
        <4>1. AtPlace(r, "due")'
          BY <1>1, <2>2, <2>4, <2>6, <3>1 DEF AtPlace
        <4> QED BY <4>1 DEF Places
      <3>2. CASE p \in {"awaited", "over"}
        <4>1. AtPlace(r, p)'
          BY <1>1, <2>2, <2>4, <2>6, <3>2 DEF AtPlace
        <4> QED BY <4>1
      <3> QED BY <3>1, <3>2 DEF Places
    <2>7. \A s \in Requests : promise[s] = "none" => promise'[s] = "none"
      BY <1>1, <1>5
    <2> QED
      <3> SUFFICES ASSUME NEW s \in Requests
                   PROVE  /\ config[s] # Unissued /\ interceptors # <<>> => \E p \in Places : AtPlace(s, p)'
                          /\ config[s] = Unissued \/ interceptors = <<>> => AtPlace(s, "nowhere")'
                          /\ awaiting[s] # 0 => /\ awaiting[s] # SendLink
                                                /\ (awaiting[s] < SendLink => promise'[s] = "none")
        BY <1>2, <1>7 DEF PlacesOK
      <3>1. PlacesOK
        BY DEF IInv
      <3>2. CASE s = r
        BY ONLY <3>1, <2>5, <2>6, <2>7, <1>1, <3>2 DEF PlacesOK
      <3>3. CASE s # r
        BY ONLY <3>1, <2>3, <2>7, s \in Requests, <3>3 DEF PlacesOK
      <3> QED BY <3>2, <3>3
  <1>18. PendingExact'
    <2>1. ToSet(pendingRequests)
            = {s \in Requests \ lost : flight[s] # "none" /\ promise[s] = "pending"}
      BY DEF IInv, PendingExact
    <2>2. ToSet(pendingRequests) \ {r}
            = {s \in Requests \ lost' : flight'[s] # "none" /\ promise'[s] = "pending"}
      BY <1>1, <1>2, <1>5, <2>1
    <2>3. ToSet(pendingRequests)' = ToSet(pendingRequests')
      BY DEF ToSet
    <2> QED BY <2>2, <2>3 DEF PendingExact
  <1>19. LostOK'
    <2>1. LostOK /\ lost' = lost /\ flight' = flight /\ lost \subseteq Requests
      BY <1>2, TypeParts DEF IInv
    <2>2. \A s \in lost : s # r /\ promise'[s] = "pending" /\ timer'[s] # "armed"
      BY <1>1, <1>5, <2>1 DEF LostOK
    <2>3. \A t \in Due' : t.kind \in {"raw", "ride"} => t.r \notin lost
      <3>1. \A t \in Waits(r) : t.kind # "raw"
        BY <1>1 DEF IInv, WaitsOK
      <3> QED BY <1>1, <1>3, <2>1, <3>1 DEF LostOK
    <2>4. \A s \in Requests : \A t \in Waits(s)' : t.kind = "ride" => t.r \notin lost
      BY <1>7, <2>1 DEF LostOK
    <2>5. ASSUME NEW s \in Requests, flight[s] = "done", promise'[s] = "pending"
          PROVE  s \in lost \/ \E t \in Due' : t.kind = "raw" /\ t.r = s
      <3>1. s # r /\ promise[s] = "pending"
        BY <1>2, <1>5, <2>5
      <3>2. s \in lost \/ \E t \in Due : t.kind = "raw" /\ t.r = s
        BY <2>1, <2>5, <3>1 DEF LostOK
      <3> QED BY <1>1, <1>2, <1>3, <3>1, <3>2
    <2> QED BY <2>1, <2>2, <2>3, <2>4, <2>5 DEF LostOK
  <1> QED BY <1>9, <1>10, <1>11, <1>12, <1>13, <1>14, <1>15, <1>16, <1>17, <1>18, <1>19 DEF IInv

\* What it reports cannot be copied: nothing settles r any more.
LEMMA LosesKeeps ==
  ASSUME HttpAssumption, IInv, NEW h, NEW r, NEW q, Answers(h, r, q),
         tasks' = q, lost' = lost \cup {r},
         UNCHANGED <<interceptors, final, awaiting, config, promise, followers, riding, inFlight,
                     cache, flight, aborted, cancelled>>,
         pendingRequests' \in Seq(Requests), IsInjective(pendingRequests'),
         ToSet(pendingRequests') = ToSet(pendingRequests) \ {r},
         timer' \in [Requests -> {"off", "armed", "fired"}], timer'[r] # "armed",
         \A s \in Requests : s # r => timer'[s] = timer[s]
  PROVE  IInv'
  <1>1. /\ r \in Requests /\ promise[r] = "pending" /\ flight[r] \in {"none", "done"}
        /\ q \in Seq(TaskSet) /\ Apart(q) /\ h \in Due /\ Due = {h} \cup Those(q)
        /\ \A t \in Those(q) : t.kind \in {"raw", "ride"} => t.r # r
        /\ \A s \in Requests : \A t \in Waits(s) : t.kind = "ride" => t.r # r
        /\ r \notin lost
    BY SettlingFacts
  <1>2. h.kind \in {"raw", "ride"} /\ h.r = r /\ Due' = Those(q)
    BY DEF Answers, Due
  <1>3. /\ SendLink' = SendLink
        /\ \A s \in Requests : /\ Waits(s)' = Waits(s) /\ (Settled(s)' <=> Settled(s))
                               /\ (Leads(s)' <=> Leads(s))
    BY DEF SendLink, Waits, Settled, Leads, Cacheable
  <1>4. TypeOK'
    <2>1. lost' \subseteq Requests
      BY <1>1, TypeParts DEF IInv
    <2> QED BY <1>1, <2>1, TypeParts, TypeFrom DEF IInv
  <1>5. QueuesApart'
    BY <1>1 DEF IInv, QueuesApart, Apart
  <1>6. Stages'
    <2> SUFFICES ASSUME NEW s \in Requests, timer'[s] = "armed"
                 PROVE  promise[s] = "pending" /\ flight[s] # "none"
      BY DEF IInv, Stages, Settled
    <2>1. s # r /\ timer[s] = "armed"
      OBVIOUS
    <2> QED BY <2>1 DEF IInv, Stages
  <1>7. WaitsOK'
    BY <1>3 DEF IInv, WaitsOK
  <1>8. DueOK'
    <2> SUFFICES ASSUME NEW t \in Those(q) PROVE DueRight(t)'
      BY <1>2 DEF DueOK
    <2>1. t.r \in Requests /\ DueRight(t) /\ riding[t.r] \in Requests \cup {Nobody}
      BY <1>1, TaskTyped, TypeParts DEF IInv, DueOK
    <2> QED BY <1>3, <2>1 DEF DueRight
  <1>9. EntryKept'
    <2> SUFFICES ASSUME NEW u \in URLs, NEW s \in Requests, inFlight[u] = s
                 PROVE  /\ Leads(s)' /\ config[s].url = u
                        /\ promise[s] = "pending" => \E t \in Waits(s)' : t.kind = "clear"
                        /\ Settled(s)' => \E t \in Due' : t.kind = "clear" /\ t.r = s
      BY TypeParts DEF EntryKept, IInv
    <2>1. s # Nobody
      BY DEF HttpAssumption
    <2>2. /\ Leads(s) /\ config[s].url = u
          /\ promise[s] = "pending" => \E t \in Waits(s) : t.kind = "clear"
          /\ Settled(s) => \E t \in Due : t.kind = "clear" /\ t.r = s
      BY <2>1 DEF IInv, EntryKept
    <2>3. Settled(s) => \E t \in Due' : t.kind = "clear" /\ t.r = s
      BY <1>1, <1>2, <2>2
    <2> QED BY <1>3, <2>2, <2>3
  <1>10. OutLeads' /\ RidersOK' /\ StoredOK'
    BY DEF IInv, OutLeads, RidersOK, SameKey, StoredOK, Cacheable
  <1>11. PlacesOK'
    <2>1. \A s \in Requests : IsDue(s)' <=> IsDue(s)
      BY <1>1, <1>2 DEF IsDue, OfChain
    <2>2. \A s \in Requests : /\ IsHeld(s)' <=> IsHeld(s)
                              /\ IsAwaited(s)' <=> IsAwaited(s)
                              /\ IsOver(s)' <=> IsOver(s)
      BY <1>3 DEF IsHeld, IsAwaited, IsOver
    <2>3. \A s \in Requests : \A p : AtPlace(s, p)' <=> AtPlace(s, p)
      BY <2>1, <2>2 DEF AtPlace
    <2> QED BY <1>3, <2>3 DEF IInv, PlacesOK
  <1>12. PendingExact'
    <2>1. ToSet(pendingRequests)
            = {s \in Requests \ lost : flight[s] # "none" /\ promise[s] = "pending"}
      BY DEF IInv, PendingExact
    <2>2. ToSet(pendingRequests) \ {r}
            = {s \in Requests \ lost' : flight'[s] # "none" /\ promise'[s] = "pending"}
      BY <2>1
    <2>3. ToSet(pendingRequests)' = ToSet(pendingRequests')
      BY DEF ToSet
    <2> QED BY <2>2, <2>3 DEF PendingExact
  <1>13. LostOK'
    <2>1. LostOK /\ lost \subseteq Requests
      BY TypeParts DEF IInv
    <2>2. \A s \in lost' : promise[s] = "pending" /\ timer'[s] # "armed"
                           /\ flight[s] \in {"none", "done"}
      BY <1>1, <2>1 DEF LostOK
    <2>3. \A t \in Due' : t.kind \in {"raw", "ride"} => t.r \notin lost'
      BY <1>1, <1>2, <2>1 DEF LostOK
    <2>4. \A s \in Requests : \A t \in Waits(s)' : t.kind = "ride" => t.r \notin lost'
      BY <1>1, <1>3, <2>1 DEF LostOK
    <2>5. ASSUME NEW s \in Requests, flight[s] = "done", promise[s] = "pending"
          PROVE  s \in lost' \/ \E t \in Due' : t.kind = "raw" /\ t.r = s
      <3>1. s \in lost \/ \E t \in Due : t.kind = "raw" /\ t.r = s
        BY <2>1, <2>5 DEF LostOK
      <3> QED BY <1>1, <1>2, <3>1
    <2> QED BY <2>2, <2>3, <2>4, <2>5 DEF LostOK
  <1> QED BY <1>4, <1>5, <1>6, <1>7, <1>8, <1>9, <1>10, <1>11, <1>12, <1>13 DEF IInv


\* The transport's answer, or its failure: no longer pending, no timer.
LEMMA OnSettledFacts ==
  ASSUME HttpAssumption, IInv, NEW r, r = Head1.r, Runs("raw"), OnSettled(r)
  PROVE  /\ Answers(Head1, r, Tail(tasks))
         /\ r \in Requests /\ flight[r] = "done" /\ promise[r] = "pending"
         /\ pendingRequests' \in Seq(Requests) /\ IsInjective(pendingRequests')
         /\ ToSet(pendingRequests') = ToSet(pendingRequests) \ {r}
         /\ timer' \in [Requests -> {"off", "armed", "fired"}] /\ timer'[r] # "armed"
         /\ \A s \in Requests : s # r => timer'[s] = timer[s]
  <1>1. tasks # <<>> /\ Head1.kind = "raw"
    BY DEF Runs
  <1>2. Answers(Head1, r, Tail(tasks))
    BY <1>1 DEF Answers
  <1>3. r \in Requests /\ flight[r] = "done" /\ promise[r] = "pending"
    <2>1. Head1 \in Due /\ Head1.r \in Requests
      BY <1>1, HeadFacts, TaskTyped DEF IInv
    <2> QED BY <1>1, <2>1 DEF IInv, DueOK, DueRight
  <1>4. pendingRequests \in Seq(Requests) /\ IsInjective(pendingRequests)
        /\ timer \in [Requests -> {"off", "armed", "fired"}]
    BY TypeParts DEF IInv, PendingExact
  <1>5. pendingRequests' = RemoveFirst(pendingRequests, r) /\ timer' = [timer EXCEPT ![r] = "off"]
    BY DEF OnSettled
  <1>6. pendingRequests' \in Seq(Requests) /\ IsInjective(pendingRequests')
        /\ ToSet(pendingRequests') = ToSet(pendingRequests) \ {r}
    BY <1>4, <1>5, RemoveFacts
  <1> QED BY <1>2, <1>3, <1>4, <1>5, <1>6

LEMMA AnsweredFacts ==
  ASSUME HttpAssumption, IInv, NEW r, r = Head1.r, Runs("raw"), OnSettled(r),
         NEW x \in {"ok", "fail"}, Settle(r, x),
         UNCHANGED <<chain, config, riding, inFlight, lost, flight, aborted, cancelled>>
  PROVE  /\ Settles(Head1, r, Tail(tasks), x)
         /\ r \in Requests /\ flight[r] = "done" /\ promise[r] = "pending"
         /\ pendingRequests' \in Seq(Requests) /\ IsInjective(pendingRequests')
         /\ ToSet(pendingRequests') = ToSet(pendingRequests) \ {r}
         /\ timer' \in [Requests -> {"off", "armed", "fired"}] /\ timer'[r] # "armed"
         /\ \A s \in Requests : s # r => timer'[s] = timer[s]
  <1>1. Answers(Head1, r, Tail(tasks))
    BY OnSettledFacts
  <1>2. Settles(Head1, r, Tail(tasks), x)
    BY <1>1 DEF Settles, Settle, chain
  <1> QED BY <1>2, OnSettledFacts

\* What a cache stored stays the response of a request for its URL that went well.
LEMMA StoredKeeps ==
  ASSUME HttpAssumption, IInv, NEW r \in Requests, promise[r] = "pending", NEW x,
         promise' = [promise EXCEPT ![r] = x], UNCHANGED <<config, flight>>,
         \/ cache' = cache
         \/ LET c == config[r]
            IN  /\ x = "ok" /\ flight[r] # "none" /\ Cacheable(c)
                /\ cache' = [cache EXCEPT ![c.cache][c.url] = r]
  PROVE  StoredOK' /\ cache' \in [Caches -> [URLs -> Requests \cup {Nobody}]]
  <1>1. cache \in [Caches -> [URLs -> Requests \cup {Nobody}]]
        /\ promise \in [Requests -> Outcomes]
    BY TypeParts DEF IInv
  <1>2. cache' \in [Caches -> [URLs -> Requests \cup {Nobody}]]
    BY <1>1
  <1>3. ASSUME NEW d \in Caches, NEW u \in URLs, NEW s \in Requests, cache'[d][u] = s,
               cache[d][u] = s
        PROVE  Cacheable(config[s]) /\ config[s].url = u /\ promise'[s] = "ok" /\ flight[s] # "none"
    <2>1. s # Nobody
      BY DEF HttpAssumption
    <2>2. Cacheable(config[s]) /\ config[s].url = u /\ promise[s] = "ok" /\ flight[s] # "none"
      BY <1>3, <2>1 DEF IInv, StoredOK
    <2> QED BY <1>1, <2>2
  <1>4. ASSUME NEW d \in Caches, NEW u \in URLs, NEW s \in Requests, cache'[d][u] = s,
               cache[d][u] # s
        PROVE  Cacheable(config[s]) /\ config[s].url = u /\ promise'[s] = "ok" /\ flight[s] # "none"
    <2> DEFINE c == config[r]
    <2>1. x = "ok" /\ flight[r] # "none" /\ Cacheable(c) /\ cache' = [cache EXCEPT ![c.cache][c.url] = r]
      BY <1>4
    <2>2. s = r /\ u = c.url
      BY <1>1, <1>4, <2>1
    <2> QED BY <1>1, <2>1, <2>2
  <1>5. \A d \in Caches, u \in URLs : cache'[d][u] \in Requests \cup {Nobody}
    BY <1>2
  <1> QED BY <1>2, <1>3, <1>4, <1>5 DEF StoredOK, Cacheable

LEMMA RunSuccessStep ==
  ASSUME HttpAssumption, IInv, RunSuccess, NEW r, r = Head1.r
  PROVE  IInv'
  <1>1. /\ Runs("raw") /\ OnSettled(r) /\ Settle(r, "ok")
        /\ UNCHANGED <<chain, config, riding, inFlight, lost, flight, aborted, cancelled>>
        /\ cache' = IF Cacheable(config[r]) THEN [cache EXCEPT ![config[r].cache][config[r].url] = r]
                    ELSE cache
    BY DEF RunSuccess
  <1>2. /\ Settles(Head1, r, Tail(tasks), "ok")
        /\ r \in Requests /\ flight[r] = "done" /\ promise[r] = "pending"
        /\ pendingRequests' \in Seq(Requests) /\ IsInjective(pendingRequests')
        /\ ToSet(pendingRequests') = ToSet(pendingRequests) \ {r}
        /\ timer' \in [Requests -> {"off", "armed", "fired"}] /\ timer'[r] # "armed"
        /\ \A s \in Requests : s # r => timer'[s] = timer[s]
    BY <1>1, AnsweredFacts
  <1>3. StoredOK' /\ cache' \in [Caches -> [URLs -> Requests \cup {Nobody}]]
    BY <1>1, <1>2, StoredKeeps DEF Settles
  <1> QED BY <1>2, <1>3, SettleKeeps

LEMMA RunFailureStep ==
  ASSUME HttpAssumption, IInv, RunFailure, NEW r, r = Head1.r
  PROVE  IInv'
  <1>1. /\ Runs("raw") /\ OnSettled(r) /\ Settle(r, "fail") /\ cache' = cache
        /\ UNCHANGED <<chain, config, riding, inFlight, lost, flight, aborted, cancelled>>
    BY DEF RunFailure, shared
  <1>2. /\ Settles(Head1, r, Tail(tasks), "fail")
        /\ r \in Requests /\ flight[r] = "done" /\ promise[r] = "pending"
        /\ pendingRequests' \in Seq(Requests) /\ IsInjective(pendingRequests')
        /\ ToSet(pendingRequests') = ToSet(pendingRequests) \ {r}
        /\ timer' \in [Requests -> {"off", "armed", "fired"}] /\ timer'[r] # "armed"
        /\ \A s \in Requests : s # r => timer'[s] = timer[s]
    BY <1>1, AnsweredFacts
  <1>3. StoredOK' /\ cache' \in [Caches -> [URLs -> Requests \cup {Nobody}]]
    BY <1>1, <1>2, StoredKeeps DEF Settles
  <1> QED BY <1>2, <1>3, SettleKeeps

\* Its copy throws after the bookkeeping.
LEMMA RunStoreFailsStep ==
  ASSUME HttpAssumption, IInv, RunStoreFails, NEW r, r = Head1.r
  PROVE  IInv'
  <1>1. /\ Runs("raw") /\ OnSettled(r) /\ lost' = lost \cup {r} /\ tasks' = Tail(tasks)
        /\ UNCHANGED <<interceptors, final, awaiting, config, promise, followers, riding, inFlight,
                       cache, flight, aborted, cancelled>>
    BY DEF RunStoreFails, chain
  <1>2. /\ Answers(Head1, r, Tail(tasks))
        /\ pendingRequests' \in Seq(Requests) /\ IsInjective(pendingRequests')
        /\ ToSet(pendingRequests') = ToSet(pendingRequests) \ {r}
        /\ timer' \in [Requests -> {"off", "armed", "fired"}] /\ timer'[r] # "armed"
        /\ \A s \in Requests : s # r => timer'[s] = timer[s]
    BY <1>1, OnSettledFacts
  <1> QED BY <1>1, <1>2, LosesKeeps

\* A rider takes the outcome its leader has by then.
LEMMA RiderFacts ==
  ASSUME HttpAssumption, IInv, Runs("ride"), NEW r, r = Head1.r
  PROVE  /\ r \in Requests /\ riding[r] \in Requests /\ promise[riding[r]] \in {"ok", "fail"}
         /\ promise[r] = "pending" /\ flight[r] = "none" /\ timer[r] # "armed"
         /\ Answers(Head1, r, Tail(tasks))
         /\ pendingRequests \in Seq(Requests) /\ IsInjective(pendingRequests)
         /\ ToSet(pendingRequests) = ToSet(pendingRequests) \ {r}
         /\ timer \in [Requests -> {"off", "armed", "fired"}]
  <1>1. tasks # <<>> /\ Head1.kind = "ride"
    BY DEF Runs
  <1>2. Head1 \in Due /\ r \in Requests
    BY <1>1, HeadFacts, TaskTyped DEF IInv
  <1>3. riding[r] # Nobody /\ promise[r] = "pending" /\ Settled(riding[r])
    BY <1>1, <1>2 DEF IInv, DueOK, DueRight
  <1>4. riding[r] \in Requests /\ promise[riding[r]] \in {"ok", "fail"}
    BY <1>2, <1>3, TypeParts DEF IInv, Settled
  <1>5. flight[r] = "none" /\ timer[r] # "armed"
    BY <1>2, <1>3 DEF IInv, Stages
  <1>6. /\ pendingRequests \in Seq(Requests) /\ IsInjective(pendingRequests)
        /\ ToSet(pendingRequests) = ToSet(pendingRequests) \ {r}
        /\ timer \in [Requests -> {"off", "armed", "fired"}]
    BY <1>5, TypeParts DEF IInv, PendingExact
  <1> QED BY <1>1, <1>2, <1>3, <1>4, <1>5, <1>6 DEF Answers

LEMMA RideFacts ==
  ASSUME HttpAssumption, IInv, RunRide, NEW r, r = Head1.r
  PROVE  Settles(Head1, r, Tail(tasks), promise[riding[r]])
  <1>1. /\ Runs("ride") /\ Settle(r, promise[riding[r]])
        /\ UNCHANGED <<chain, config, shared, pendingRequests, backend, cancelled>>
    BY DEF RunRide
  <1>2. Answers(Head1, r, Tail(tasks)) /\ promise[riding[r]] \in {"ok", "fail"}
    BY <1>1, RiderFacts
  <1> QED BY <1>1, <1>2 DEF Settles, Settle, chain, shared, backend

LEMMA RunRideStep ==
  ASSUME HttpAssumption, IInv, RunRide, NEW r, r = Head1.r
  PROVE  IInv'
  <1>1. Runs("ride") /\ UNCHANGED <<cache, pendingRequests, timer>>
    BY DEF RunRide, shared, backend
  <1>2. /\ r \in Requests /\ promise[r] = "pending" /\ timer[r] # "armed"
        /\ pendingRequests \in Seq(Requests) /\ IsInjective(pendingRequests)
        /\ ToSet(pendingRequests) = ToSet(pendingRequests) \ {r}
        /\ timer \in [Requests -> {"off", "armed", "fired"}]
    BY <1>1, RiderFacts
  <1>3. Settles(Head1, r, Tail(tasks), promise[riding[r]])
    BY RideFacts
  <1>4. StoredOK' /\ cache' \in [Caches -> [URLs -> Requests \cup {Nobody}]]
    BY <1>1, <1>2, <1>3, StoredKeeps DEF Settles
  <1>5. IsInjective(pendingRequests') /\ ToSet(pendingRequests') = ToSet(pendingRequests) \ {r}
    BY <1>1, <1>2
  <1> QED BY <1>1, <1>2, <1>3, <1>4, <1>5, SettleKeeps

LEMMA RunRideFailsStep ==
  ASSUME HttpAssumption, IInv, RunRideFails, NEW r, r = Head1.r
  PROVE  IInv'
  <1>1. /\ Runs("ride") /\ lost' = lost \cup {r} /\ tasks' = Tail(tasks)
        /\ UNCHANGED <<interceptors, final, awaiting, config, promise, followers, riding, inFlight,
                       cache, pendingRequests, flight, aborted, timer, cancelled>>
    BY DEF RunRideFails, chain, backend
  <1>2. /\ Answers(Head1, r, Tail(tasks)) /\ timer[r] # "armed"
        /\ pendingRequests \in Seq(Requests) /\ IsInjective(pendingRequests)
        /\ ToSet(pendingRequests) = ToSet(pendingRequests) \ {r}
        /\ timer \in [Requests -> {"off", "armed", "fired"}]
    BY <1>1, RiderFacts
  <1>3. IsInjective(pendingRequests') /\ ToSet(pendingRequests') = ToSet(pendingRequests) \ {r}
    BY <1>1, <1>2
  <1> QED BY <1>1, <1>2, <1>3, LosesKeeps

\* The entry of a settled leader goes: it is its own.
LEMMA RunClearStep ==
  ASSUME HttpAssumption, IInv, RunClear, NEW h, h = Head1, NEW r, r = h.r, NEW q, q = Tail(tasks)
  PROVE  IInv'
  <1>1. /\ tasks # <<>> /\ h.kind = "clear" /\ tasks' = q
        /\ inFlight' = [inFlight EXCEPT ![config[r].url] = Nobody]
        /\ UNCHANGED <<interceptors, final, awaiting, config, promise, followers, riding, lost, cache,
                       pendingRequests, flight, aborted, timer, cancelled>>
    BY DEF RunClear, Runs, chain, backend
  <1>2. /\ r \in Requests /\ h \in Due /\ q \in Seq(TaskSet) /\ Apart(q)
        /\ Due = {h} \cup Those(q) /\ Due' = Those(q)
        /\ \A t \in Those(q) : ~Same(t, h)
    BY <1>1, HeadFacts, TaskTyped DEF IInv, Due
  <1>3. Settled(r) /\ Leads(r) /\ r # Nobody
    BY <1>1, <1>2 DEF IInv, DueOK, DueRight, HttpAssumption
  <1>4. inFlight \in [URLs -> Requests \cup {Nobody}] /\ config \in [Requests -> Configs \cup {Unissued}]
    BY TypeParts DEF IInv
  <1>5. config[r].url \in URLs /\ inFlight[config[r].url] = r
    <2>1. config[r] \in Configs
      BY <1>2, <1>3, <1>4 DEF IInv, Stages, Settled
    <2> QED BY <1>3, <2>1 DEF HttpAssumption, Leads
  <1>6. /\ inFlight' \in [URLs -> Requests \cup {Nobody}]
        /\ \A u \in URLs : inFlight'[u] = IF u = config[r].url THEN Nobody ELSE inFlight[u]
    BY <1>1, <1>4, <1>5
  <1>7. /\ SendLink' = SendLink
        /\ \A s \in Requests : Waits(s)' = Waits(s) /\ (Settled(s)' <=> Settled(s))
    BY <1>1 DEF SendLink, Waits, Settled
  <1>8. \A s \in Requests : s # r /\ Leads(s) => Leads(s)'
    <2> SUFFICES ASSUME NEW s \in Requests, s # r, Leads(s) PROVE Leads(s)'
      OBVIOUS
    <2>1. config[s].url \in URLs
      <3>1. config[s] \in Configs
        BY <1>4 DEF IInv, Stages, Leads
      <3> QED BY <3>1 DEF HttpAssumption
    <2>2. inFlight[config[s].url] = s
      BY DEF Leads
    <2>3. inFlight'[config[s].url] = s
      BY <1>5, <1>6, <2>1, <2>2
    <2> QED BY <1>1, <2>3 DEF Leads, Cacheable
  <1>9. TypeOK'
    BY <1>1, <1>2, <1>6, TypeParts, TypeFrom DEF IInv
  <1>10. QueuesApart'
    BY <1>1, <1>2 DEF IInv, QueuesApart, Apart
  <1>11. Stages'
    BY <1>1 DEF IInv, Stages, Settled
  <1>12. WaitsOK'
    <2> SUFFICES ASSUME NEW s \in Requests, NEW t \in Waits(s)
                 PROVE  \/ t.kind = "clear" /\ t.r = s /\ Leads(s)'
                        \/ t.kind = "adopt" /\ t.r = s /\ t.n = SendLink
                        \/ t.kind = "ride" /\ riding'[t.r] = s /\ promise'[t.r] = "pending"
      BY <1>7 DEF WaitsOK
    <2>1. promise[s] = "pending"
      BY DEF IInv, Stages, Waits, Those
    <2>2. s # r
      BY <1>3, <2>1 DEF Settled
    <2> QED BY <1>1, <1>8, <2>2 DEF IInv, WaitsOK
  <1>13. DueOK'
    <2> SUFFICES ASSUME NEW t \in Those(q) PROVE DueRight(t)'
      BY <1>2 DEF DueOK
    <2>1. t \in Due /\ t.r \in Requests /\ DueRight(t)
      BY <1>2, TaskTyped DEF IInv, DueOK
    <2>2. t.kind = "clear" => t.r # r
      BY <1>1, <1>2 DEF Same
    <2>3. riding[t.r] # Nobody => riding[t.r] \in Requests
      BY <2>1, TypeParts DEF IInv
    <2> QED BY <1>1, <1>7, <1>8, <2>1, <2>2, <2>3 DEF DueRight
  <1>14. EntryKept'
    <2> SUFFICES ASSUME NEW u \in URLs, NEW s \in Requests, inFlight'[u] = s
                 PROVE  /\ Leads(s)' /\ config'[s].url = u
                        /\ promise'[s] = "pending" => \E t \in Waits(s)' : t.kind = "clear"
                        /\ Settled(s)' => \E t \in Due' : t.kind = "clear" /\ t.r = s
      BY <1>6 DEF EntryKept
    <2>1. s # Nobody /\ inFlight[u] = s /\ u # config[r].url
      BY <1>6 DEF HttpAssumption
    <2>2. /\ Leads(s) /\ config[s].url = u
          /\ promise[s] = "pending" => \E t \in Waits(s) : t.kind = "clear"
          /\ Settled(s) => \E t \in Due : t.kind = "clear" /\ t.r = s
      BY <2>1 DEF IInv, EntryKept
    <2>3. s # r
      BY <2>1, <2>2
    <2>4. Settled(s) => \E t \in Due' : t.kind = "clear" /\ t.r = s
      BY <1>2, <2>2, <2>3
    <2>5. Leads(s)' /\ config'[s].url = u
      BY <1>1, <1>8, <2>2, <2>3
    <2> QED BY <1>1, <1>7, <2>2, <2>4, <2>5
  <1>15. OutLeads'
    <2> SUFFICES ASSUME NEW s \in Requests, flight[s] # "none", promise[s] = "pending",
                        Cacheable(config[s])
                 PROVE  inFlight'[config[s].url] = s
      BY <1>1 DEF OutLeads, Cacheable
    <2>1. s # r
      BY <1>3 DEF Settled
    <2>2. Leads(s)
      BY DEF IInv, OutLeads, Leads
    <2>3. Leads(s)'
      BY <1>8, <2>1, <2>2
    <2> QED BY <1>1, <2>3 DEF Leads
  <1>16. RidersOK'
    BY <1>1 DEF IInv, RidersOK, SameKey, Cacheable
  <1>17. StoredOK'
    BY <1>1 DEF IInv, StoredOK, Cacheable
  <1>18. PlacesOK'
    <2>1. \A s \in Requests : IsDue(s)' <=> IsDue(s)
      BY <1>1, <1>2 DEF IsDue, OfChain
    <2>2. \A s \in Requests : /\ IsHeld(s)' <=> IsHeld(s)
                              /\ IsAwaited(s)' <=> IsAwaited(s)
                              /\ IsOver(s)' <=> IsOver(s)
      BY <1>1, <1>7 DEF IsHeld, IsAwaited, IsOver
    <2>3. \A s \in Requests : \A p : AtPlace(s, p)' <=> AtPlace(s, p)
      BY <2>1, <2>2 DEF AtPlace
    <2> QED BY <1>1, <1>7, <2>3 DEF IInv, PlacesOK
  <1>19. PendingExact' /\ LostOK'
    <2>1. \A t \in Due : t.kind = "raw" => t \in Due'
      BY <1>1, <1>2
    <2> QED BY <1>1, <1>2, <1>7, <2>1 DEF IInv, PendingExact, IsInjective, ToSet, LostOK
  <1> QED BY <1>9, <1>10, <1>11, <1>12, <1>13, <1>14, <1>15, <1>16, <1>17, <1>18, <1>19 DEF IInv

-----------------------------------------------------------------------------
(* The invariant                                                           *)

LEMMA InvariantInit ==
  ASSUME HttpAssumption, Init
  PROVE  IInv
  <1>1. <<>> \in Seq(TaskSet) /\ Apart(<<>>) /\ Those(<<>>) = {}
    BY DEF Apart, Those
  <1>2. Due = {} /\ \A r \in Requests : Waits(r) = {}
    BY <1>1 DEF Init, Due, Waits
  <1>3. SendLink \in Nat /\ LastLink \in Nat
    BY LinkNumbers DEF Init
  <1>4. TypeOK
    <2>1. followers \in [Requests -> Seq(TaskSet)] /\ tasks \in Seq(TaskSet)
      BY <1>1 DEF Init
    <2>2. awaiting \in [Requests -> 0 .. LastLink]
      BY <1>3 DEF Init
    <2> QED BY <2>1, <2>2 DEF Init, TypeOK, TaskSet, Outcomes
  <1>5. QueuesApart
    BY <1>1 DEF Init, QueuesApart
  <1>6. Stages
    BY DEF Init, Stages, Settled
  <1>7. WaitsOK /\ DueOK
    BY <1>2 DEF WaitsOK, DueOK
  <1>8. EntryKept /\ OutLeads /\ RidersOK /\ StoredOK
    BY DEF Init, EntryKept, OutLeads, RidersOK, StoredOK
  <1>9. PlacesOK
    BY <1>2 DEF Init, PlacesOK, AtPlace, IsDue, IsHeld, IsAwaited, IsOver
  <1>10. PendingExact /\ LostOK
    BY <1>2 DEF Init, PendingExact, IsInjective, ToSet, LostOK
  <1> QED BY <1>4, <1>5, <1>6, <1>7, <1>8, <1>9, <1>10 DEF IInv

LEMMA Unmoved ==
  ASSUME HttpAssumption, IInv, UNCHANGED vars
  PROVE  IInv'
  <1>1. UNCHANGED <<interceptors, final, awaiting, config, promise, followers, riding, inFlight, lost,
                    cache, pendingRequests, flight, aborted, timer, cancelled, tasks>>
    BY DEF vars, chain, shared, backend
  <1>2. TypeOK'
    BY <1>1, TypeParts, TypeFrom DEF IInv
  <1>3. /\ SendLink' = SendLink /\ Due' = Due
        /\ \A s \in Requests : /\ Waits(s)' = Waits(s) /\ (Settled(s)' <=> Settled(s))
                               /\ (Leads(s)' <=> Leads(s))
    BY <1>1 DEF SendLink, Due, Waits, Settled, Leads, Cacheable
  <1>4. QueuesApart' /\ PendingExact' /\ LostOK'
    BY <1>1, <1>3 DEF IInv, QueuesApart, Apart, PendingExact, IsInjective, ToSet, LostOK
  <1>5. Stages' /\ OutLeads' /\ RidersOK' /\ StoredOK'
    BY <1>1 DEF IInv, Stages, Settled, OutLeads, RidersOK, SameKey, StoredOK, Cacheable
  <1>6. WaitsOK'
    BY <1>1, <1>3 DEF IInv, WaitsOK
  <1>7. DueOK'
    BY <1>1, <1>3 DEF IInv, DueOK, DueRight, Settled, Leads, Cacheable
  <1>8. EntryKept'
    BY <1>1 DEF IInv, EntryKept, Settled, Leads, Cacheable, Waits, Due, Those
  <1>9. PlacesOK'
    <2>1. \A s \in Requests : \A p : AtPlace(s, p)' <=> AtPlace(s, p)
      BY <1>1, <1>3 DEF AtPlace, IsDue, IsHeld, IsAwaited, IsOver
    <2> QED BY <1>1, <1>3, <2>1 DEF IInv, PlacesOK
  <1> QED BY <1>2, <1>4, <1>5, <1>6, <1>7, <1>8, <1>9 DEF IInv

LEMMA InvariantStep ==
  ASSUME HttpAssumption, IInv, [Next]_vars
  PROVE  IInv'
  <1>1. ASSUME NEW c \in Configs, NEW spent \in BOOLEAN, IssueDirect(c, spent) PROVE IInv'
    BY <1>1, IssueDirectStep
  <1>2. ASSUME NEW c \in Configs, NEW spent \in BOOLEAN, IssueChained(c, spent) PROVE IInv'
    BY <1>2, IssueChainedStep
  <1>3. ASSUME NEW r \in Requests, Cancel(r) PROVE IInv'
    BY <1>3, CancelStep
  <1>4. ASSUME NEW r \in Requests, Half(r) PROVE IInv'
    BY <1>4, HalfStep
  <1>5. ASSUME NEW r \in Requests, Breaks(r) PROVE IInv'
    BY <1>5, GivesStep DEF Breaks
  <1>6. ASSUME NEW r \in Requests, NEW o \in {"ok", "error"}, Whole(r, o) PROVE IInv'
    BY <1>6, GivesStep DEF Whole
  <1>7. ASSUME NEW r \in Requests, TimerFires(r) PROVE IInv'
    BY <1>7, TimerFiresStep
  <1>8. ASSUME NEW r \in Requests, NEW o \in {"ok", "fail"}, NEW c \in Configs,
               HandlerSettles(r, o, c)
        PROVE  IInv'
    BY <1>8, HandlerSettlesStep
  <1>9. ASSUME RunTask PROVE IInv'
    <2>1. CASE RunSuccess
      BY <2>1, RunSuccessStep
    <2>2. CASE RunFailure
      BY <2>2, RunFailureStep
    <2>3. CASE RunClear
      BY <2>3, RunClearStep
    <2>4. CASE RunRide
      BY <2>4, RunRideStep
    <2>5. CASE RunAbort
      BY <2>5, RunAbortStep
    <2>6. CASE PassLink
      BY <2>6, PassLinkStep
    <2>7. CASE LinkDefers
      BY <2>7, LinkDefersStep
    <2>8. CASE RunSend
      BY <2>8, RunSendStep
    <2>9. CASE RunAdopt
      BY <2>9, RunAdoptStep
    <2>10. ASSUME NEW o \in {"ok", "fail"}, NEW c \in Configs, LinkReturns(o, c) PROVE IInv'
      BY <2>10, LinkReturnsStep
    <2>11. CASE RunStoreFails
      BY <2>11, RunStoreFailsStep
    <2>12. CASE RunRideFails
      BY <2>12, RunRideFailsStep
    <2> QED BY <1>9, <2>1, <2>2, <2>3, <2>4, <2>5, <2>6, <2>7, <2>8, <2>9, <2>10, <2>11, <2>12
            DEF RunTask
  <1>10. CASE UNCHANGED vars
    BY <1>10, Unmoved
  <1> QED BY <1>1, <1>2, <1>3, <1>4, <1>5, <1>6, <1>7, <1>8, <1>9, <1>10 DEF Next

THEOREM HttpInvariant == Spec => []IInv
  <1>1. Init => IInv
    BY InvariantInit, HttpAssumption
  <1>2. IInv /\ [Next]_vars => IInv'
    BY InvariantStep, HttpAssumption
  <1> QED BY <1>1, <1>2, PTL DEF Spec

LEMMA InvariantTidy ==
  ASSUME HttpAssumption, IInv
  PROVE  CallsTidy
  <1>1. NothingLeftBehind
    <2> SUFFICES ASSUME NEW r \in Requests
                 PROVE  /\ Settled(r) \/ r \in lost =>
                             /\ timer[r] # "armed" /\ flight[r] \in {"none", "done"}
                             /\ \A k \in DOMAIN tasks :
                                  tasks[k].r = r => tasks[k].kind \notin {"raw", "ride"}
                        /\ Settled(r) => followers[r] = <<>>
                        /\ r \in lost => ~Settled(r)
                        /\ \A u \in URLs : Settled(r) /\ inFlight[u] = r =>
                             \E k \in DOMAIN tasks : tasks[k].kind = "clear" /\ tasks[k].r = r
                        /\ flight[r] = "done" /\ promise[r] = "pending" =>
                             r \in lost \/ \E k \in DOMAIN tasks : /\ tasks[k].kind = "raw"
                                                                  /\ tasks[k].r = r
      BY DEF NothingLeftBehind
    <2>1. \A k \in DOMAIN tasks : tasks[k] \in Due /\ DueRight(tasks[k])
      BY DEF IInv, DueOK, Due, Those
    <2>2. Settled(r) \/ r \in lost => timer[r] # "armed" /\ flight[r] \in {"none", "done"}
      BY DEF IInv, Stages, Settled, LostOK
    <2>3. Settled(r) \/ r \in lost =>
            \A k \in DOMAIN tasks : tasks[k].r = r => tasks[k].kind \notin {"raw", "ride"}
      BY <2>1 DEF DueRight, Settled, IInv, LostOK
    <2>4. (Settled(r) => followers[r] = <<>>) /\ (r \in lost => ~Settled(r))
      BY DEF IInv, Stages, Settled, LostOK
    <2>5. ASSUME NEW u \in URLs, Settled(r), inFlight[u] = r
          PROVE  \E k \in DOMAIN tasks : tasks[k].kind = "clear" /\ tasks[k].r = r
      <3>1. r # Nobody
        BY DEF HttpAssumption
      <3>2. PICK t \in Due : t.kind = "clear" /\ t.r = r
        BY <2>5, <3>1 DEF IInv, EntryKept
      <3> QED BY <3>2 DEF Due, Those
    <2>6. flight[r] = "done" /\ promise[r] = "pending" =>
            r \in lost \/ \E k \in DOMAIN tasks : tasks[k].kind = "raw" /\ tasks[k].r = r
      BY DEF IInv, LostOK, Due, Those
    <2> QED BY <2>2, <2>3, <2>4, <2>5, <2>6
  <1>2. OnePlace
    <2> SUFFICES ASSUME NEW r \in Requests, interceptors # <<>>, config[r] # Unissued
                 PROVE  LET due  == {k \in DOMAIN tasks :
                                       tasks[k].r = r /\ tasks[k].kind \in {"link", "adopt"}}
                            held == {k \in DOMAIN followers[r] : followers[r][k].kind = "adopt"}
                        IN  \E place \in {"due", "held", "awaited", "over"} :
                              /\ IF place = "due" THEN \E k \in due : due = {k} ELSE due = {}
                              /\ IF place = "held" THEN \E k \in held : held = {k} ELSE held = {}
                              /\ place = "awaited" <=> awaiting[r] # 0
                              /\ place = "over" <=> final[r] # "none"
      BY DEF OnePlace
    <2> DEFINE due  == {k \in DOMAIN tasks : tasks[k].r = r /\ tasks[k].kind \in {"link", "adopt"}}
               held == {k \in DOMAIN followers[r] : followers[r][k].kind = "adopt"}
    <2>1. IF IsDue(r) THEN \E k \in due : due = {k} ELSE due = {}
      <3>1. IsDue(r) <=> due # {}
        BY DEF IsDue, Due, Those, OfChain
      <3>2. \A j, k \in due : Same(tasks[j], tasks[k])
        BY DEF Same, OfChain
      <3>3. \A j, k \in due : j = k
        BY <3>2 DEF IInv, QueuesApart, Apart
      <3> HIDE DEF due
      <3> QED BY <3>1, <3>3
    <2>2. IF IsHeld(r) THEN \E k \in held : held = {k} ELSE held = {}
      <3>1. \A k \in DOMAIN followers[r] :
              OfChain(followers[r][k]) => followers[r][k].kind = "adopt" /\ followers[r][k].r = r
        BY DEF IInv, WaitsOK, OfChain, Waits, Those
      <3>2. IsHeld(r) <=> held # {}
        BY <3>1 DEF IsHeld, Waits, Those, OfChain
      <3>3. \A j, k \in held : Same(followers[r][j], followers[r][k])
        BY <3>1 DEF Same, OfChain
      <3>4. \A j, k \in held : j = k
        BY <3>3 DEF IInv, QueuesApart, Apart
      <3> HIDE DEF held
      <3> QED BY <3>2, <3>4
    <2>3. PICK p \in Places : AtPlace(r, p)
      BY DEF IInv, PlacesOK
    <2> HIDE DEF due, held
    <2>4. /\ IF p = "due" THEN \E k \in due : due = {k} ELSE due = {}
          /\ IF p = "held" THEN \E k \in held : held = {k} ELSE held = {}
          /\ p = "awaited" <=> awaiting[r] # 0
          /\ p = "over" <=> final[r] # "none"
      BY <2>1, <2>2, <2>3 DEF AtPlace, IsAwaited, IsOver
    <2> QED BY <2>4 DEF Places, due, held
  <1> QED BY <1>1, <1>2 DEF IInv, CallsTidy

\* A call is pending exactly while its exchange lasts, its chain waits in one
\* place, and a call that ended has left no timer, answer or handler behind, also
\* when its response could not be copied: only then can its promise, and with it
\* its entry and its riders, be left for ever.
THEOREM CallsAreTidy == Spec => []CallsTidy
  <1>1. IInv => CallsTidy
    BY InvariantTidy, HttpAssumption
  <1> QED BY <1>1, HttpInvariant, PTL

-----------------------------------------------------------------------------
(* $http implements AbstractHttp                                           *)

\* A step that settles nothing and changes no configuration the server stage
\* has seen is not seen by the abstract specification.
LEMMA Unseen ==
  ASSUME IInv, promise' = promise,
         \A s \in Requests : flight'[s] = "none" <=> flight[s] = "none",
         \A s \in Requests : config'[s] = config[s] \/ promise[s] = "none"
  PROVE  UNCHANGED Abstract!vars
  <1>1. \A s \in Requests : Key(s)' = Key(s)
    BY DEF Key, Cacheable
  <1>2. \A s \in Requests : Exchange(s)' = Exchange(s)
    BY DEF Exchange
  <1>3. [s \in Requests |-> Key(s)]' = [s \in Requests |-> Key(s)]
    BY <1>1
  <1>4. [s \in Requests |-> Exchange(s)]' = [s \in Requests |-> Exchange(s)]
    BY <1>2
  <1> QED BY <1>3, <1>4 DEF Abstract!vars

LEMMA AbstractInit ==
  ASSUME Init
  PROVE  Abstract!Init
  <1>1. \A s \in Requests : Key(s) = NoCache /\ Exchange(s) = "none"
    BY DEF Init, Key, Exchange
  <1> QED BY <1>1 DEF Init, Abstract!Init

\* The key a configuration gives a request.
KeyOf(c) == IF Cacheable(c) THEN c.url ELSE NoCache

\* A request that enters the server stage asks the abstract one.
LEMMA EntersAsks ==
  ASSUME HttpAssumption, IInv, NEW r \in Requests, NEW c, NEW q, Enters(r, c, q),
         NEW x \in {"pending", "ok", "fail"}, promise' = [promise EXCEPT ![r] = x]
  PROVE  /\ Abstract!Ask(r, KeyOf(c), x)
         /\ KeyOf(c) \in URLs \cup {NoCache} /\ flight[r] = "none"
         /\ KeyOf(c) # NoCache <=> Cacheable(c)
         /\ \A s \in Requests : s # r => promise'[s] = promise[s]
  <1>1. promise \in [Requests -> Outcomes] /\ promise[r] = "none" /\ flight[r] = "none"
    BY TypeParts, Unknown DEF IInv, Enters
  <1>2. c.url \in URLs /\ NoCache \notin URLs
    BY DEF Enters, HttpAssumption
  <1>3. promise'[r] = x /\ \A s \in Requests : s # r => promise'[s] = promise[s]
    BY <1>1
  <1>4. config'[r] = c /\ \A s \in Requests : s # r => config'[s] = config[s]
    BY DEF Enters
  <1>5. \A s \in Requests : Key(s)' = IF s = r THEN KeyOf(c) ELSE Key(s)
    BY <1>3, <1>4 DEF Key, KeyOf, Cacheable
  <1>6. [s \in Requests |-> Key(s)]' = [[s \in Requests |-> Key(s)] EXCEPT ![r] = KeyOf(c)]
    BY <1>5
  <1>7. Abstract!Ask(r, KeyOf(c), x)
    BY <1>1, <1>6 DEF Abstract!Ask
  <1> QED BY <1>1, <1>2, <1>3, <1>7 DEF KeyOf

\* What a request that was sent has there.
LEMMA SentKey ==
  ASSUME HttpAssumption, IInv, NEW s \in Requests, flight[s] # "none"
  PROVE  Key(s) = KeyOf(config[s]) /\ Exchange(s) # "none"
         /\ (Settled(s) => Exchange(s) = promise[s])
         /\ (Exchange(s) = "out" <=> promise[s] = "pending")
  <1>1. promise[s] # "none" /\ promise[s] \in Outcomes
    BY TypeParts DEF IInv, Stages
  <1> QED BY <1>1 DEF Key, KeyOf, Exchange, Settled, Outcomes

LEMMA ServerMaps ==
  ASSUME HttpAssumption, IInv, NEW r \in Requests, NEW c, NEW q, Enters(r, c, q),
         ServerRequest(r, c, q)
  PROVE  Abstract!Next
  <1> DEFINE k == KeyOf(c)
             Asks == \/ Abstract!Open(r, k) \/ Abstract!Refuse(r, k)
                     \/ Abstract!Join(r, k) \/ Abstract!Serve(r, k)
  <1>1. /\ k \in URLs \cup {NoCache} /\ flight[r] = "none" /\ (k # NoCache <=> Cacheable(c))
        /\ c \in Configs /\ promise[r] = "none"
    <2>1. c.url \in URLs /\ NoCache \notin URLs
      BY DEF Enters, HttpAssumption
    <2> QED BY <2>1, Unknown DEF Enters, KeyOf
  <1>2. ASSUME flight' = flight, NEW x \in {"pending", "ok", "fail"},
               promise' = [promise EXCEPT ![r] = x]
        PROVE  Abstract!Ask(r, k, x)
               /\ [s \in Requests |-> Exchange(s)]' = [s \in Requests |-> Exchange(s)]
    <2>1. Abstract!Ask(r, k, x) /\ \A s \in Requests : s # r => promise'[s] = promise[s]
      BY <1>2, EntersAsks
    <2>2. \A s \in Requests : Exchange(s)' = Exchange(s)
      BY <1>1, <1>2, <2>1 DEF Exchange
    <2> QED BY <2>1, <2>2
  <1>3. ASSUME Refuse(r, q) PROVE Asks
    <2>1. flight' = flight /\ promise' = [promise EXCEPT ![r] = "fail"]
      BY <1>3 DEF Refuse, Immediate, backend
    <2>2. Abstract!Refuse(r, k)
      BY <1>2, <2>1 DEF Abstract!Refuse
    <2> QED BY <2>2
  <1>4. ASSUME Hit(r, c, q) PROVE Asks
    <2> DEFINE s == cache[c.cache][c.url]
    <2>1. flight' = flight /\ promise' = [promise EXCEPT ![r] = "ok"]
      BY <1>4 DEF Hit, Immediate, backend
    <2>2. Cacheable(c) /\ s # Nobody /\ c.cache \in Caches /\ c.url \in URLs
      <3>1. c.cache \in Caches \cup {NoCache} /\ c.url \in URLs
        BY <1>1 DEF HttpAssumption
      <3> QED BY <1>4, <3>1 DEF Hit, Stored, Cacheable
    <2>3. s \in Requests
      BY <2>2, TypeParts DEF IInv
    <2>4. Cacheable(config[s]) /\ config[s].url = c.url /\ promise[s] = "ok" /\ flight[s] # "none"
      BY <2>2 DEF IInv, StoredOK
    <2> HIDE DEF s
    <2>5. Key(s) = k /\ k # NoCache /\ Exchange(s) = "ok"
      BY <1>1, <2>2, <2>3, <2>4, SentKey DEF KeyOf, Settled
    <2>6. s \in Abstract!Shareable(k)
      BY <2>3, <2>5 DEF Abstract!Shareable
    <2>7. Abstract!Ask(r, k, "ok")
          /\ [z \in Requests |-> Exchange(z)]' = [z \in Requests |-> Exchange(z)]
      BY <1>2, <2>1
    <2>8. [z \in Requests |-> Exchange(z)][s] = "ok"
      BY <2>3, <2>5
    <2>9. Abstract!Serve(r, k)
      BY <2>6, <2>7, <2>8 DEF Abstract!Serve
    <2> QED BY <2>9
  <1>5. ASSUME Ride(r, c, q) PROVE Asks
    <2> DEFINE l == Leader(c)
    <2>1. flight' = flight /\ promise' = [promise EXCEPT ![r] = "pending"] /\ l # Nobody
      BY <1>5 DEF Ride, backend
    <2>2. Cacheable(c) /\ l = inFlight[c.url] /\ c.url \in URLs
      BY <1>1, <2>1 DEF Leader, HttpAssumption
    <2>3. l \in Requests
      BY <2>1, <2>2, TypeParts DEF IInv
    <2>4. Leads(l) /\ config[l].url = c.url
      BY <2>1, <2>2 DEF IInv, EntryKept
    <2> HIDE DEF l
    <2>5. Key(l) = k /\ k # NoCache /\ Exchange(l) # "none"
      BY <1>1, <2>2, <2>3, <2>4, SentKey DEF KeyOf, Leads
    <2>6. l \in Abstract!Shareable(k)
      BY <2>3, <2>5 DEF Abstract!Shareable
    <2>7. Abstract!Ask(r, k, "pending")
          /\ [z \in Requests |-> Exchange(z)]' = [z \in Requests |-> Exchange(z)]
      BY <1>2, <2>1
    <2>8. Abstract!Join(r, k)
      BY <2>6, <2>7 DEF Abstract!Join
    <2> QED BY <2>8
  <1>6. ASSUME Send(r, c, q) PROVE Asks
    <2>1. /\ flight' = [flight EXCEPT ![r] = "sent"] /\ promise' = [promise EXCEPT ![r] = "pending"]
          /\ Cacheable(c) => inFlight[c.url] = Nobody
      BY <1>6 DEF Send, Leader
    <2>2. Abstract!Ask(r, k, "pending") /\ \A s \in Requests : s # r => promise'[s] = promise[s]
      BY <2>1, EntersAsks
    <2>3. promise'[r] = "pending" /\ flight'[r] = "sent"
          /\ \A s \in Requests : s # r => flight'[s] = flight[s]
      BY <2>1, TypeParts DEF IInv
    <2>4. \A s \in Requests : Exchange(s)' = IF s = r THEN "out" ELSE Exchange(s)
      BY <2>2, <2>3 DEF Exchange
    <2>5. [s \in Requests |-> Exchange(s)]' = [[s \in Requests |-> Exchange(s)] EXCEPT ![r] = "out"]
      BY <2>4
    <2>6. ASSUME k # NoCache, NEW s \in Requests, Key(s) = k, Exchange(s) = "out" PROVE FALSE
      <3>1. flight[s] # "none" /\ promise[s] = "pending"
        BY <2>6, TypeParts DEF Exchange, IInv, Outcomes
      <3>2. Key(s) = KeyOf(config[s])
        BY <3>1, SentKey
      <3>3. Cacheable(config[s]) /\ config[s].url = c.url
        BY <1>1, <2>6, <3>2 DEF KeyOf
      <3>4. inFlight[c.url] = s
        BY <3>1, <3>3 DEF IInv, OutLeads
      <3> QED BY <1>1, <2>1, <2>6, <3>4 DEF HttpAssumption
    <2>7. k # NoCache => \A s \in Requests :
            [z \in Requests |-> Key(z)][s] = k => [z \in Requests |-> Exchange(z)][s] # "out"
      BY <2>6
    <2> HIDE DEF k
    <2>8. Abstract!Open(r, k)
      BY <2>2, <2>5, <2>7 DEF Abstract!Open
    <2> QED BY <2>8
  <1>7. Asks
    BY <1>3, <1>4, <1>5, <1>6 DEF ServerRequest
  <1> HIDE DEF k
  <1> QED BY <1>1, <1>7 DEF Abstract!Next

\* The transport's answer, good or bad.
LEMMA AnswerMaps ==
  ASSUME HttpAssumption, IInv, NEW r \in Requests, flight[r] # "none", promise[r] = "pending",
         NEW x \in {"ok", "fail"}, promise' = [promise EXCEPT ![r] = x],
         UNCHANGED <<config, flight>>
  PROVE  Abstract!Answer(r, x)
  <1>1. promise \in [Requests -> Outcomes]
    BY TypeParts DEF IInv
  <1>2. promise'[r] = x /\ \A s \in Requests : s # r => promise'[s] = promise[s]
    BY <1>1
  <1>3. \A s \in Requests : Key(s)' = Key(s)
    BY <1>2 DEF Key, Cacheable
  <1>4. \A s \in Requests : Exchange(s)' = IF s = r THEN x ELSE Exchange(s)
    BY <1>2 DEF Exchange
  <1>5. [s \in Requests |-> Key(s)]' = [s \in Requests |-> Key(s)]
    BY <1>3
  <1>6. [s \in Requests |-> Exchange(s)]' = [[s \in Requests |-> Exchange(s)] EXCEPT ![r] = x]
    BY <1>4
  <1>7. [s \in Requests |-> Exchange(s)][r] = "out"
    BY DEF Exchange
  <1> QED BY <1>5, <1>6, <1>7 DEF Abstract!Answer

\* A rider reports the outcome of an exchange for its key.
LEMMA RideMaps ==
  ASSUME HttpAssumption, IInv, RunRide, NEW r, r = Head1.r, NEW x, x = promise[riding[r]],
         NEW l, l = riding[r]
  PROVE  r \in Requests /\ x \in {"ok", "fail"} /\ Abstract!Share(r, x)
  <1>1. /\ r \in Requests /\ l \in Requests /\ x \in {"ok", "fail"} /\ x = promise[l]
        /\ promise[r] = "pending" /\ flight[r] = "none"
        /\ promise' = [promise EXCEPT ![r] = x] /\ config' = config /\ flight' = flight
    BY RideFacts, RiderFacts DEF Settles, RunRide
  <1>2. flight[l] # "none" /\ SameKey(r, l)
    BY <1>1 DEF IInv, RidersOK, HttpAssumption
  <1>3. promise \in [Requests -> Outcomes] /\ config[l] \in Configs
    BY <1>1, <1>2, TypeParts DEF IInv, Stages
  <1>4. promise'[r] = x /\ \A s \in Requests : s # r => promise'[s] = promise[s]
    BY <1>1, <1>3
  <1>5. \A s \in Requests : Key(s)' = Key(s)
    BY <1>1, <1>4 DEF Key, Cacheable
  <1>6. \A s \in Requests : Exchange(s)' = Exchange(s)
    BY <1>1, <1>4 DEF Exchange
  <1>7. [s \in Requests |-> Key(s)]' = [s \in Requests |-> Key(s)]
        /\ [s \in Requests |-> Exchange(s)]' = [s \in Requests |-> Exchange(s)]
    BY <1>5, <1>6
  <1>8. Key(r) = Key(l) /\ Key(l) # NoCache /\ Exchange(l) = x /\ Exchange(r) = "none"
    <2>1. config[l].url \in URLs /\ NoCache \notin URLs
      BY <1>3 DEF HttpAssumption
    <2> QED BY <1>1, <1>2, <2>1 DEF Key, Exchange, SameKey
  <1>9. l \in Abstract!Shareable([s \in Requests |-> Key(s)][r])
    BY <1>1, <1>8 DEF Abstract!Shareable
  <1>10. [s \in Requests |-> Exchange(s)][l] = x /\ [s \in Requests |-> Exchange(s)][r] = "none"
    BY <1>1, <1>8
  <1> QED BY <1>1, <1>7, <1>9, <1>10 DEF Abstract!Share

LEMMA SeenAsAbstract ==
  ASSUME HttpAssumption, IInv, [Next]_vars
  PROVE  [Abstract!Next]_(Abstract!vars)
  <1> DEFINE Done == [Abstract!Next]_(Abstract!vars)
  <1>1. ASSUME NEW c \in Configs, NEW spent \in BOOLEAN, IssueDirect(c, spent),
               NEW r, r = NextRequest
        PROVE  Done
    <2>1. Issues(c, spent) /\ ServerRequest(r, c, tasks) /\ UNCHANGED chain
      BY <1>1 DEF IssueDirect
    <2>2. r \in Requests /\ Enters(r, c, tasks)
      BY <1>1, IssueEnters
    <2>3. Abstract!Next
      BY <2>1, <2>2, ServerMaps
    <2> QED BY <2>3
  <1>2. ASSUME NEW c \in Configs, NEW spent \in BOOLEAN, IssueChained(c, spent),
               NEW r, r = NextRequest
        PROVE  Done
    <2>1. Issues(c, spent) /\ promise' = promise /\ flight' = flight
      BY <1>2 DEF IssueChained, backend
    <2>2. \A s \in Requests : config'[s] = config[s] \/ promise[s] = "none"
      BY <1>2, <2>1, IssuedFacts
    <2>3. UNCHANGED Abstract!vars
      BY <2>1, <2>2, Unseen
    <2> QED BY <2>3
  <1>3. ASSUME promise' = promise, config' = config,
               \A s \in Requests : flight'[s] = "none" <=> flight[s] = "none"
        PROVE  Done
    <2>1. UNCHANGED Abstract!vars
      BY <1>3, Unseen
    <2> QED BY <2>1
  <1>4. flight \in [Requests -> Statuses]
    BY TypeParts DEF IInv
  <1>5. ASSUME NEW r \in Requests, Cancel(r) \/ Half(r) \/ Breaks(r) \/ TimerFires(r) PROVE Done
    <2>1. promise' = promise /\ config' = config
      BY <1>5 DEF Cancel, Half, Breaks, Gives, TimerFires, Abort
    <2>2. \A s \in Requests : flight'[s] = "none" <=> flight[s] = "none"
      BY <1>4, <1>5 DEF Cancel, Half, Breaks, Gives, TimerFires, Abort, backend
    <2> QED BY <1>3, <2>1, <2>2
  <1>6. ASSUME NEW r \in Requests, NEW o \in {"ok", "error"}, Whole(r, o) PROVE Done
    <2>1. promise' = promise /\ config' = config
          /\ \A s \in Requests : flight'[s] = "none" <=> flight[s] = "none"
      BY <1>4, <1>6 DEF Whole, Gives
    <2> QED BY <1>3, <2>1
  <1>7. ASSUME NEW r \in Requests, NEW o \in {"ok", "fail"}, NEW c \in Configs,
               HandlerSettles(r, o, c)
        PROVE  Done
    <2>1. promise' = promise /\ flight' = flight
      BY <1>7 DEF HandlerSettles, Links, backend
    <2>2. \A s \in Requests : config'[s] = config[s] \/ promise[s] = "none"
      BY <1>7, HandlerGaveFacts
    <2>3. UNCHANGED Abstract!vars
      BY <2>1, <2>2, Unseen
    <2> QED BY <2>3
  <1>8. ASSUME RunTask PROVE Done
    <2>1. ASSUME RunSuccess \/ RunFailure, NEW r, r = Head1.r PROVE Done
      <3>1. PICK x \in {"ok", "fail"} :
              /\ Runs("raw") /\ OnSettled(r) /\ Settle(r, x)
              /\ UNCHANGED <<chain, config, riding, inFlight, lost, flight, aborted, cancelled>>
        BY <2>1 DEF RunSuccess, RunFailure, shared
      <3>2. r \in Requests /\ flight[r] = "done" /\ promise[r] = "pending"
            /\ promise' = [promise EXCEPT ![r] = x]
        BY <2>1, <3>1, AnsweredFacts DEF Settles
      <3>3. Abstract!Answer(r, x)
        BY <3>1, <3>2, AnswerMaps
      <3> QED BY <3>2, <3>3 DEF Abstract!Next
    <2>2. CASE RunRide
      <3>1. PICK r, x, l : r = Head1.r /\ l = riding[r] /\ x = promise[l]
        OBVIOUS
      <3>2. r \in Requests /\ x \in {"ok", "fail"} /\ Abstract!Share(r, x)
        BY <2>2, <3>1, RideMaps
      <3> QED BY <3>2 DEF Abstract!Next
    <2>3. CASE \/ RunStoreFails \/ RunClear \/ RunRideFails \/ RunAbort
               \/ PassLink \/ LinkDefers \/ RunAdopt
      <3>1. promise' = promise /\ config' = config
        BY <2>3 DEF RunStoreFails, RunClear, RunRideFails, RunAbort, Abort, PassLink, LinkDefers,
                    RunAdopt, Links
      <3>2. \A s \in Requests : flight'[s] = "none" <=> flight[s] = "none"
        BY <1>4, <2>3 DEF RunStoreFails, RunClear, RunRideFails, RunAbort, Abort, PassLink,
                          LinkDefers, RunAdopt, Links, backend
      <3> QED BY <1>3, <3>1, <3>2
    <2>4. ASSUME RunSend, NEW r, r = Head1.r, NEW q, q = Tail(tasks) PROVE Done
      <3>1. r \in Requests /\ Enters(r, config[r], q) /\ ServerRequest(r, config[r], q)
        BY <2>4, SendEnters
      <3>2. Abstract!Next
        BY <3>1, ServerMaps
      <3> QED BY <3>2
    <2>5. ASSUME NEW o \in {"ok", "fail"}, NEW c \in Configs, LinkReturns(o, c) PROVE Done
      <3>1. promise' = promise /\ flight' = flight
        BY <2>5 DEF LinkReturns, Links, backend
      <3>2. \A s \in Requests : config'[s] = config[s] \/ promise[s] = "none"
        BY <2>5, LinkGaveFacts
      <3>3. UNCHANGED Abstract!vars
        BY <3>1, <3>2, Unseen
      <3> QED BY <3>3
    <2> QED BY <1>8, <2>1, <2>2, <2>3, <2>4, <2>5 DEF RunTask
  <1>9. ASSUME UNCHANGED vars PROVE Done
    <2>1. promise' = promise /\ config' = config /\ flight' = flight
      BY <1>9 DEF vars, backend
    <2> QED BY <1>3, <2>1
  <1> HIDE DEF Done
  <1>10. Done
    BY <1>1, <1>2, <1>5, <1>6, <1>7, <1>8, <1>9 DEF Next
  <1> QED BY <1>10 DEF Done

\* $http implements AbstractHttp: every request reports one outcome, its own
\* exchange's or that of an exchange for its URL, of which there is one at a time.
THEOREM HttpImplementsAbstract == Spec => ImplementsAbstract
  <1>1. Init => Abstract!Init
    BY AbstractInit
  <1>2. IInv /\ [Next]_vars => [Abstract!Next]_(Abstract!vars)
    BY SeenAsAbstract, HttpAssumption
  <1> QED BY <1>1, <1>2, HttpInvariant, PTL DEF Spec, ImplementsAbstract, Abstract!Spec
=============================================================================
