--------------------------- MODULE IncludeProofs ---------------------------
(***************************************************************************)
(* Proofs about Include, for any elements, URLs and number of operations of  *)
(* application code: an include shows what its watch saw last, and a load    *)
(* that is still wanted keeps the token that lets its answer in.            *)
(*                                                                         *)
(* The frames are reasoned about as the set of what is on the stack; only    *)
(* what may lie above what (Fitted) needs their order.                      *)
(***************************************************************************)
EXTENDS Include, SequenceFacts, TLAPS

Ats == {"user", "digest", "clear", "cleared", "request", "install", "mount"}
FrameSet == [at : Ats, i : Includes \cup {0}, l : Nat, place : Places]
JobSet == [kind : {"fetched", "deliver"}, l : Nat, u : URLs, o : {"ok", "fail"}]

-----------------------------------------------------------------------------
(* The inductive invariant                                                  *)

Clears == {"clear", "cleared"}

\* A call that the event loop, or nothing that is still in progress, began.
Starts(f) == f.at = "user" /\ f.place \in {"turn", "loaded"}

\* The call f is one that g makes.
Fits(f, g) ==
  \/ Starts(g) /\ f.at \in Clears \cup {"digest"}
  \/ g.at = "user" /\ g.place \in {"requested", "failed"} /\ f.at \in Clears
  \/ g.at = "digest" /\ f.at \in Clears \cup {"request"}
  \/ g.at = "clear" /\ f.at = "user" /\ f.place = "failed"
  \/ g.at = "cleared" /\ f.at = "user" /\ f.place = "destroyed"
  \/ g.at = "request" /\ f.at = "user" /\ f.place = "requested"
  \/ g.at = "install" /\ f.at \in Clears
  \/ g.at = "mount" /\ f.at = "user" /\ f.place = "linked"

Stands(f) == Starts(f) \/ f.at \in Clears \cup {"install", "mount"}

\* Between an answer and the installation of its content only the old content
\* is cleared, and only the listeners of its scope are called.
Clearly(s) ==
  \A k \in 1 .. Len(s) : s[k].at = "install" =>
    k <= 3 /\ (k = 3 => s[1].at = "user" /\ s[1].place = "destroyed")

Fitted(s) ==
  /\ \A k \in 1 .. Len(s) - 1 : Fits(s[k], s[k + 1])
  /\ s # <<>> => Stands(s[Len(s)])
  /\ Clearly(s)

\* What the calls in progress are about to do.
Pending(i)  == \E f \in Those(stack) : f.at \in Clears /\ f.i = i
Clearing(i) == \E f \in Those(stack) : f.at = "cleared" /\ f.i = i
Asked(l)    == \E f \in Those(stack) : f.at = "request" /\ f.l = l
Mounting(l) == \E f \in Those(stack) : f.at = "mount" /\ f.l = l

\* A load waits for a fetch, its answer is queued, or it is past both.
Waited(l) == \E u \in URLs : l \in Those(inFlight[u].waiters)
Queued(l) == \E j \in Those(jobs) : j.kind = "deliver" /\ j.l = l
Taken(l)  == ~Waited(l) /\ ~Asked(l)

ForLoad(f) == f.i \in Includes /\ f.l \in DOMAIN loads /\ loads[f.l].i = f.i
Wanted(f)  == f.i \in alive /\ loads[f.l].url = seen[f.i] /\ Taken(f.l)

\* A slot is cleared for a reason; what is installed is what its watch saw last.
FrameOK(f) ==
  /\ f.at \in Clears =>
       /\ f.i \in Includes
       /\ f.i \notin alive \/ seen[f.i] = Empty \/ token[f.i] = 0 \/ Taken(token[f.i])
  /\ f.at = "cleared" => clone[f.i] \notin scopes
  /\ f.at = "request" =>
       /\ ForLoad(f) /\ loads[f.l].url = seen[f.i] /\ ~Waited(f.l) /\ ~Queued(f.l)
       /\ f.i \notin alive \/ token[f.i] = f.l
  /\ f.at = "install" =>
       ForLoad(f) /\ Wanted(f) /\ (Pending(f.i) \/ (token[f.i] = 0 /\ clone[f.i] = 0))
  /\ f.at = "mount" =>
       ForLoad(f) /\ Wanted(f) /\ token[f.i] = f.l /\ clone[f.i] = 0 /\ f.l \in scopes

Coming(l) == Waited(l) \/ Queued(l) \/ Asked(l) \/ Mounting(l)

\* The token of an include is a load of what its watch saw last, which is mounted
\* or on its way, or the slot is about to be cleared; what is mounted is whole.
IncludeOK(i) ==
  /\ token[i] = 0 => clone[i] = 0
  /\ token[i] # 0 =>
       /\ loads[token[i]].i = i
       /\ \/ Pending(i)
          \/ loads[token[i]].url = seen[i] /\ (clone[i] = token[i] \/ Coming(token[i]))
  /\ i \notin alive => token[i] = 0 \/ Pending(i)
  /\ clone[i] # 0 => /\ loads[clone[i]].i = i /\ clone[i] \in dom
                     /\ clone[i] \in scopes \/ Clearing(i)

Overtaken(l) ==
  \/ loads[l].i \notin alive \/ seen[loads[l].i] = Empty
  \/ \E k \in DOMAIN loads : k > l /\ loads[k].i = loads[l].i

\* A load that waits is wanted or overtaken; a scope or content has its include.
LoadOK(l) ==
  /\ Waited(l) => ~Queued(l) /\ (token[loads[l].i] = l \/ Overtaken(l))
  /\ l \in scopes => clone[loads[l].i] = l \/ Mounting(l)
  /\ l \in dom => clone[loads[l].i] = l

\* A load waits for its URL; what is not trusted is not fetched.
NetOK ==
  /\ \A u \in URLs : /\ inFlight[u].state # "none" => u \notin Untrusted
                     /\ \A l \in Those(inFlight[u].waiters) : loads[l].url = u
  /\ \A j \in Those(jobs) : IF j.kind = "fetched" THEN j.u \notin Untrusted
                                                  ELSE j.l \in DOMAIN loads

FramesOK   == \A f \in Those(stack) : FrameOK(f)
IncludesOK == \A i \in Includes : IncludeOK(i)
LoadsOK    == \A l \in DOMAIN loads : LoadOK(l)

Body == NetOK /\ FramesOK /\ IncludesOK /\ LoadsOK
IInv == TypeOK /\ Fitted(stack) /\ Body

-----------------------------------------------------------------------------
(* The call stack                                                          *)

\* Calls that begin and end leave the others as they are.
LEMMA TailFitted ==
  ASSUME NEW s \in Seq(FrameSet), s # <<>>, Fitted(s)
  PROVE  Fitted(Tail(s))
  <1>1. /\ Len(s) \in Nat \ {0} /\ Tail(s) \in Seq(FrameSet) /\ Len(Tail(s)) = Len(s) - 1
        /\ \A k \in 1 .. Len(s) - 1 : Tail(s)[k] = s[k + 1]
    BY TailFacts
  <1>2. PICK n \in Nat : n = Len(s) - 1
    <2>1. Len(s) - 1 \in Nat
      BY <1>1
    <2> QED BY <2>1
  <1>3. ASSUME NEW k \in 1 .. n - 1 PROVE Fits(Tail(s)[k], Tail(s)[k + 1])
    <2>1. k \in 1 .. n /\ k + 1 \in 1 .. n
      BY <1>2
    <2>2. Tail(s)[k] = s[k + 1] /\ Tail(s)[k + 1] = s[(k + 1) + 1]
      BY <1>1, <1>2, <2>1
    <2>3. k + 1 \in 1 .. Len(s) - 1
      BY <1>2, <2>1
    <2> QED BY <2>2, <2>3 DEF Fitted
  <1>4. ASSUME Tail(s) # <<>> PROVE Stands(Tail(s)[n])
    <2>1. n # 0
      BY <1>1, <1>2, <1>4, EmptySeq
    <2>2. n \in 1 .. Len(s) - 1 /\ n + 1 = Len(s)
      BY <1>1, <1>2, <2>1
    <2>3. Tail(s)[n] = s[Len(s)]
      BY <1>1, <2>2
    <2> QED BY <2>3 DEF Fitted
  <1>5. Clearly(Tail(s))
    <2>1. ASSUME NEW k \in 1 .. n, Tail(s)[k].at = "install" PROVE k <= 3 /\ k # 3
      <3>1. Tail(s)[k] = s[k + 1] /\ k + 1 \in 1 .. Len(s)
        BY <1>1, <1>2
      <3>2. k + 1 <= 3
        BY <2>1, <3>1 DEF Fitted, Clearly
      <3> QED BY <3>2
    <2>2. \A k \in 1 .. n : Tail(s)[k].at = "install" => k <= 3 /\ k # 3
      BY <2>1
    <2> QED BY <1>1, <1>2, <2>2 DEF Clearly
  <1> QED BY <1>1, <1>2, <1>3, <1>4, <1>5 DEF Fitted

\* What call f may be made, above s.
Onto(f, s) ==
  /\ f \in FrameSet
  /\ IF s = <<>> THEN Stands(f) ELSE Fits(f, s[1])
  /\ \A k \in 1 .. Len(s) : s[k].at = "install" =>
       k = 1 \/ (k = 2 /\ f.at = "user" /\ f.place = "destroyed")

LEMMA ConsFitted ==
  ASSUME NEW s \in Seq(FrameSet), Fitted(s), NEW f, Onto(f, s)
  PROVE  Fitted(<<f>> \o s)
  <1> DEFINE t == <<f>> \o s
  <1>1. /\ t \in Seq(FrameSet) /\ Len(t) = Len(s) + 1 /\ t[1] = f
        /\ \A k \in 1 .. Len(s) : t[k + 1] = s[k]
    BY ConsFacts DEF Onto
  <1>2. PICK n \in Nat : n = Len(s)
    OBVIOUS
  <1> HIDE DEF t
  <1>3. \A k \in 1 .. n + 1 : k = 1 \/ (k - 1 \in 1 .. n /\ t[k] = s[k - 1])
    <2>1. ASSUME NEW k \in 1 .. n + 1, k # 1 PROVE k - 1 \in 1 .. n /\ t[k] = s[k - 1]
      <3>1. k - 1 \in 1 .. n /\ (k - 1) + 1 = k
        BY <2>1
      <3> QED BY <1>1, <1>2, <3>1
    <2> QED BY <2>1
  <1>4. s = <<>> <=> n = 0
    BY <1>2
  <1>5. ASSUME NEW k \in 1 .. n PROVE Fits(t[k], t[k + 1])
    <2>1. t[k + 1] = s[k]
      BY <1>1, <1>2
    <2>2. CASE k = 1
      BY <1>1, <1>4, <2>1, <2>2 DEF Onto
    <2>3. CASE k # 1
      <3>1. t[k] = s[k - 1] /\ k - 1 \in 1 .. n - 1 /\ (k - 1) + 1 = k
        BY <1>3, <2>3
      <3>2. Fits(s[k - 1], s[(k - 1) + 1])
        BY <1>2, <3>1 DEF Fitted
      <3> QED BY <2>1, <3>1, <3>2
    <2> QED BY <2>2, <2>3
  <1>6. Stands(t[n + 1])
    <2>1. CASE n = 0
      BY <1>1, <1>4, <2>1 DEF Onto
    <2>2. CASE n # 0
      BY <1>1, <1>2, <1>4, <2>2 DEF Fitted
    <2> QED BY <2>1, <2>2
  <1>7. Clearly(t)
    <2>1. ASSUME NEW k \in 1 .. n + 1, t[k].at = "install"
          PROVE  k <= 3 /\ (k = 3 => t[1].at = "user" /\ t[1].place = "destroyed")
      <3>1. CASE k = 1
        BY <3>1
      <3>2. CASE k # 1
        <4>1. k - 1 \in 1 .. n /\ s[k - 1].at = "install"
          BY <1>3, <2>1, <3>2
        <4>2. k - 1 = 1 \/ (k - 1 = 2 /\ f.at = "user" /\ f.place = "destroyed")
          BY <1>2, <4>1 DEF Onto
        <4> QED BY <1>1, <4>2
      <3> QED BY <3>1, <3>2
    <2> QED BY <1>1, <1>2, <2>1 DEF Clearly
  <1>8. Fitted(t)
    BY <1>1, <1>2, <1>5, <1>6, <1>7 DEF Fitted
  <1> QED BY <1>8 DEF t

\* What the call on top says of those below it.
LEMMA TopShape ==
  ASSUME NEW s \in Seq(FrameSet), s # <<>>, Fitted(s)
  PROVE  /\ s[1].at \in {"install", "mount"} \/ Starts(s[1]) => Len(s) = 1
         /\ s[1].at = "digest" => Len(s) = 2 /\ Starts(s[2])
         /\ s[1].at = "request" => Len(s) = 3 /\ s[2].at = "digest" /\ Starts(s[3])
         /\ s[1].at = "user" /\ s[1].place = "requested" => Len(s) = 4 /\ s[3].at = "digest"
  <1>1. Len(s) \in Nat \ {0}
    BY EmptySeq
  <1>2. ASSUME NEW k \in 1 .. Len(s),  s[k].at \in {"install", "mount"} \/ Starts(s[k])
        PROVE  k = Len(s)
    <2>1. ASSUME k # Len(s) PROVE FALSE
      <3>1. k \in 1 .. Len(s) - 1
        BY <1>1, <2>1
      <3>2. Fits(s[k], s[k + 1])
        BY <3>1 DEF Fitted
      <3> QED BY <1>2, <3>2 DEF Fits, Starts, Clears
    <2> QED BY <2>1
  <1>3. ASSUME NEW k \in 1 .. Len(s), s[k].at = "digest"
        PROVE  k + 1 = Len(s) /\ Starts(s[k + 1])
    <2>1. k # Len(s)
      BY <1>1, <1>3 DEF Fitted, Stands, Starts, Clears
    <2>2. k \in 1 .. Len(s) - 1 /\ k + 1 \in 1 .. Len(s)
      BY <1>1, <2>1
    <2>3. Fits(s[k], s[k + 1])
      BY <2>2 DEF Fitted
    <2>4. Starts(s[k + 1])
      BY <1>3, <2>3 DEF Fits, Starts, Clears
    <2> QED BY <1>2, <2>2, <2>4
  <1>4. ASSUME NEW k \in 1 .. Len(s), s[k].at = "request"
        PROVE  k + 2 = Len(s) /\ s[k + 1].at = "digest" /\ Starts(s[k + 2])
    <2>1. k # Len(s)
      BY <1>1, <1>4 DEF Fitted, Stands, Starts, Clears
    <2>2. k \in 1 .. Len(s) - 1 /\ k + 1 \in 1 .. Len(s)
      BY <1>1, <2>1
    <2>3. Fits(s[k], s[k + 1])
      BY <2>2 DEF Fitted
    <2>4. s[k + 1].at = "digest"
      BY <1>4, <2>3 DEF Fits, Starts, Clears
    <2>5. (k + 1) + 1 = Len(s) /\ Starts(s[(k + 1) + 1])
      BY <1>3, <2>2, <2>4
    <2>6. (k + 1) + 1 = k + 2
      OBVIOUS
    <2> QED BY <2>4, <2>5, <2>6
  <1>5. 1 \in 1 .. Len(s)
    BY <1>1
  <1>6. ASSUME s[1].at = "user", s[1].place = "requested"
        PROVE  Len(s) = 4 /\ s[3].at = "digest"
    <2>1. 1 # Len(s)
      <3>1. ~Stands(s[1])
        BY <1>6 DEF Stands, Starts, Clears
      <3> QED BY <3>1 DEF Fitted
    <2>2. 1 \in 1 .. Len(s) - 1 /\ 2 \in 1 .. Len(s)
      <3>1. PICK n \in Nat \ {0} : n = Len(s)
        BY <1>1
      <3>2. n # 1
        BY <2>1, <3>1
      <3>3. 1 \in 1 .. n - 1 /\ 2 \in 1 .. n
        BY <3>2
      <3> QED BY <3>1, <3>3
    <2>3. Fits(s[1], s[1 + 1])
      BY <2>2 DEF Fitted
    <2>4. s[2].at = "request"
      BY <1>6, <2>3 DEF Fits, Starts, Clears
    <2>5. 2 + 2 = Len(s) /\ s[2 + 1].at = "digest"
      BY <1>4, <2>2, <2>4
    <2> QED BY <2>5
  <1>7. s[1].at = "digest" => 1 + 1 = Len(s) /\ Starts(s[1 + 1])
    BY <1>3, <1>5
  <1>8. s[1].at = "request" => 1 + 2 = Len(s) /\ s[1 + 1].at = "digest" /\ Starts(s[1 + 2])
    BY <1>4, <1>5
  <1>9. s[1].at \in {"install", "mount"} \/ Starts(s[1]) => 1 = Len(s)
    BY <1>2, <1>5
  <1> QED BY <1>6, <1>7, <1>8, <1>9

\* Content is installed and mounted only by the calls it is made by.
LEMMA NoneBelow ==
  ASSUME NEW s \in Seq(FrameSet), s # <<>>, Fitted(s),
         NEW k \in 1 .. Len(s), s[k].at \in {"install", "mount"}
  PROVE  \/ k = 1
         \/ k = 2 /\ s[2].at = "install" /\ s[1].at \in Clears
         \/ k = 3 /\ s[3].at = "install" /\ s[1].at = "user" /\ s[1].place = "destroyed"
         \/ k = 2 /\ s[2].at = "mount" /\ s[1].at = "user" /\ s[1].place = "linked"
  <1>1. Len(s) \in Nat \ {0}
    BY EmptySeq
  <1>2. CASE s[k].at = "install"
    <2>1. k <= 3 /\ (k = 3 => s[1].at = "user" /\ s[1].place = "destroyed")
      BY <1>2 DEF Fitted, Clearly
    <2>2. CASE k = 2
      <3>1. 1 \in 1 .. Len(s) - 1 /\ 1 + 1 = 2
        BY <1>1, <2>2
      <3>2. Fits(s[1], s[2])
        BY <3>1 DEF Fitted
      <3> QED BY <1>2, <2>2, <3>2 DEF Fits, Starts, Clears
    <2>3. k = 1 \/ k = 2 \/ k = 3
      BY <1>1, <2>1
    <2> QED BY <1>2, <2>1, <2>2, <2>3
  <1>3. CASE s[k].at = "mount"
    <2>1. CASE k # 1
      <3>1. PICK j \in 1 .. Len(s) - 1 : j + 1 = k
        <4>1. k - 1 \in 1 .. Len(s) - 1 /\ (k - 1) + 1 = k
          BY <1>1, <2>1
        <4> QED BY <4>1
      <3>2. Fits(s[j], s[j + 1])
        BY <3>1 DEF Fitted
      <3>3. s[j].at = "user" /\ s[j].place = "linked"
        BY <1>3, <3>1, <3>2 DEF Fits, Starts, Clears
      <3>4. CASE j # 1
        <4>1. PICK h \in 1 .. Len(s) - 1 : h + 1 = j
          <5>1. j - 1 \in 1 .. Len(s) - 1 /\ (j - 1) + 1 = j
            BY <1>1, <3>4
          <5> QED BY <5>1
        <4>2. Fits(s[h], s[h + 1])
          BY <4>1 DEF Fitted
        <4> QED BY <3>3, <4>1, <4>2 DEF Fits, Starts
      <3>5. CASE j = 1
        BY <1>3, <3>1, <3>3, <3>5
      <3> QED BY <3>4, <3>5
    <2> QED BY <2>1
  <1> QED BY <1>2, <1>3

\* The types of the variables, with the sets that do not change.
LEMMA TypeFacts ==
  ASSUME TypeOK
  PROVE  /\ stack \in Seq(FrameSet) /\ jobs \in Seq(JobSet)
         /\ loads \in Seq([i : Includes, url : URLs])
         /\ Len(loads) \in Nat /\ DOMAIN loads = 1 .. Len(loads)
         /\ \A l \in DOMAIN loads : l \in Nat \ {0} /\ loads[l].i \in Includes /\ loads[l].url \in URLs
         /\ \A i \in Includes : token[i] \in 0 .. Len(loads) /\ clone[i] \in 0 .. Len(loads)
         /\ \A i \in Includes : token[i] # 0 => token[i] \in DOMAIN loads
         /\ \A i \in Includes : clone[i] # 0 => clone[i] \in DOMAIN loads
         /\ 0 \notin DOMAIN loads
         /\ \A u \in URLs : inFlight[u].waiters \in Seq(DOMAIN loads)
         /\ \A u \in URLs : Those(inFlight[u].waiters) \subseteq DOMAIN loads
         /\ \A l : Waited(l) => l \in DOMAIN loads
  <1>1. loads \in Seq([i : Includes, url : URLs]) /\ Len(loads) \in Nat
        /\ DOMAIN loads = 1 .. Len(loads)
    BY DEF TypeOK
  <1>2. stack \in Seq(FrameSet)
    <2>1. stack \in Seq([at : Ats, i : Includes \cup {0}, l : 0 .. Len(loads), place : Places])
      BY DEF TypeOK, Ats
    <2>2. [at : Ats, i : Includes \cup {0}, l : 0 .. Len(loads), place : Places] \subseteq FrameSet
      BY <1>1 DEF FrameSet
    <2> QED BY <2>1, <2>2, SeqMonotonic
  <1>3. jobs \in Seq(JobSet)
    <2>1. jobs \in Seq([kind : {"fetched", "deliver"}, l : 0 .. Len(loads), u : URLs,
                        o : {"ok", "fail"}])
      BY DEF TypeOK
    <2>2. [kind : {"fetched", "deliver"}, l : 0 .. Len(loads), u : URLs, o : {"ok", "fail"}]
            \subseteq JobSet
      BY <1>1 DEF JobSet
    <2> QED BY <2>1, <2>2, SeqMonotonic
  <1>4. ASSUME NEW l \in DOMAIN loads
        PROVE  l \in Nat \ {0} /\ loads[l].i \in Includes /\ loads[l].url \in URLs
    <2> DEFINE R == [i : Includes, url : URLs]
    <2>1. loads \in Seq(R)
      BY <1>1
    <2> HIDE DEF R
    <2>2. loads[l] \in R
      BY <2>1
    <2> QED BY <1>1, <2>2 DEF R
  <1>5. \A i \in Includes : token[i] \in 0 .. Len(loads) /\ clone[i] \in 0 .. Len(loads)
    BY DEF TypeOK
  <1>6. \A x \in 0 .. Len(loads) : x # 0 => x \in DOMAIN loads
    BY <1>1
  <1>7. \A u \in URLs : inFlight[u].waiters \in Seq(DOMAIN loads)
    BY DEF TypeOK
  <1>8. \A u \in URLs : Those(inFlight[u].waiters) \subseteq DOMAIN loads
    <2>1. ASSUME NEW u \in URLs PROVE Those(inFlight[u].waiters) \subseteq DOMAIN loads
      <3>1. PICK w \in Seq(DOMAIN loads) : w = inFlight[u].waiters
        BY <1>7
      <3>2. \A k \in DOMAIN w : w[k] \in DOMAIN loads
        OBVIOUS
      <3> QED BY <3>1, <3>2 DEF Those
    <2> QED BY <2>1
  <1>9. 0 \notin DOMAIN loads
    BY <1>1
  <1> QED BY <1>1, <1>2, <1>3, <1>4, <1>5, <1>6, <1>7, <1>8, <1>9 DEF Waited

\* The frames on the stack, and those below the top.
LEMMA StackFacts ==
  ASSUME TypeOK, stack # <<>>
  PROVE  /\ stack \in Seq(FrameSet) /\ Popped \in Seq(FrameSet) /\ Top \in FrameSet
         /\ Top \in Those(stack) /\ Those(stack) = {Top} \cup Those(Popped)
         /\ Len(stack) \in Nat \ {0} /\ Len(Popped) = Len(stack) - 1
         /\ \A k \in 1 .. Len(stack) - 1 : Popped[k] = stack[k + 1]
  BY TypeFacts, TailFacts DEF Top, Popped

\* Frames put on top.
LEMMA PushFacts ==
  ASSUME NEW s \in Seq(FrameSet), NEW f \in FrameSet, NEW g \in FrameSet
  PROVE  /\ <<f>> \o s \in Seq(FrameSet) /\ Those(<<f>> \o s) = {f} \cup Those(s)
         /\ <<f, g>> \o s = <<f>> \o (<<g>> \o s)
         /\ <<f, g>> \o s \in Seq(FrameSet) /\ Those(<<f, g>> \o s) = {f, g} \cup Those(s)
         /\ (<<g>> \o s)[1] = g /\ <<g>> \o s # <<>> /\ Len(<<g>> \o s) = Len(s) + 1
         /\ \A k \in 1 .. Len(s) : (<<g>> \o s)[k + 1] = s[k]
  <1>1. /\ <<f>> \o s \in Seq(FrameSet) /\ Those(<<f>> \o s) = {f} \cup Those(s)
    BY ConsFacts
  <1>2. /\ <<g>> \o s \in Seq(FrameSet) /\ Those(<<g>> \o s) = {g} \cup Those(s)
        /\ (<<g>> \o s)[1] = g /\ Len(<<g>> \o s) = Len(s) + 1
        /\ \A k \in 1 .. Len(s) : (<<g>> \o s)[k + 1] = s[k]
    BY ConsFacts
  <1>3. <<f, g>> \o s = <<f>> \o (<<g>> \o s)
    <2>1. <<f, g>> = <<f>> \o <<g>>
      <3>1. PICK t : t = <<f>> \o <<g>>
        OBVIOUS
      <3>2. /\ t \in Seq(FrameSet) /\ Len(t) = 2 /\ t[1] = f /\ t[2] = g
        <4>1. <<f>> \in Seq(FrameSet) /\ <<g>> \in Seq(FrameSet)
          OBVIOUS
        <4> QED BY <3>1, <4>1
      <3>3. <<f, g>> \in Seq(FrameSet) /\ Len(<<f, g>>) = 2
        OBVIOUS
      <3>4. <<f, g>>[1] = f /\ <<f, g>>[2] = g
        OBVIOUS
      <3>5. \A k \in 1 .. 2 : k = 1 \/ k = 2
        OBVIOUS
      <3>6. t = <<f, g>>
        BY <3>2, <3>3, <3>4, <3>5, SeqEqual
      <3> QED BY <3>1, <3>6
    <2>2. <<f>> \in Seq(FrameSet) /\ <<g>> \in Seq(FrameSet)
      OBVIOUS
    <2> QED BY <2>1, <2>2, ConcatAssociative
  <1>4. /\ <<f>> \o (<<g>> \o s) \in Seq(FrameSet)
        /\ Those(<<f>> \o (<<g>> \o s)) = {f} \cup Those(<<g>> \o s)
    BY <1>2, ConsFacts
  <1>5. <<g>> \o s # <<>>
    <2>1. Len(<<g>> \o s) # 0
      BY <1>2
    <2> QED BY <2>1
  <1> QED BY <1>1, <1>2, <1>3, <1>4, <1>5

\* What lies below the frame on top.
LEMMA Below ==
  ASSUME TypeOK, Fitted(stack), stack # <<>>
  PROVE  /\ Top.at \in {"install", "mount"} \/ Starts(Top) => Popped = <<>>
         /\ Top.at = "digest" => \A f \in Those(Popped) : f.at = "user"
         /\ Top.at = "request" => \A f \in Those(Popped) : f.at \in {"user", "digest"}
         /\ Top.at = "user" /\ Top.place = "requested" => \E k \in DOMAIN stack : stack[k].at = "digest"
         /\ (Top.at = "user" /\ Top.place \notin {"destroyed", "linked"}) \/ Top.at = "digest" =>
              \A f \in Those(stack) : f.at \notin {"install", "mount"}
         /\ Top.at \in Clears => \A f \in Those(stack) : f.at # "mount"
         /\ Top.at \in Clears =>
              \A k \in 1 .. Len(Popped) : Popped[k].at = "install" => k = 1
  <1>1. /\ stack \in Seq(FrameSet) /\ Popped \in Seq(FrameSet) /\ Len(stack) \in Nat \ {0}
        /\ Len(Popped) = Len(stack) - 1
        /\ \A k \in 1 .. Len(stack) - 1 : Popped[k] = stack[k + 1]
    BY StackFacts
  <1>2. /\ Top.at \in {"install", "mount"} \/ Starts(Top) => Len(stack) = 1
        /\ Top.at = "digest" => Len(stack) = 2 /\ Starts(stack[2])
        /\ Top.at = "request" => Len(stack) = 3 /\ stack[2].at = "digest" /\ Starts(stack[3])
        /\ Top.at = "user" /\ Top.place = "requested" => Len(stack) = 4 /\ stack[3].at = "digest"
    BY <1>1, TopShape DEF Top
  <1>3. \A f \in Those(Popped) : \E k \in 1 .. Len(stack) - 1 : f = stack[k + 1]
    BY <1>1 DEF Those
  <1>4. \A f \in Those(stack) : \E k \in 1 .. Len(stack) : f = stack[k]
    BY <1>1 DEF Those
  <1>5. ASSUME Len(stack) = 1 PROVE Popped = <<>>
    <2>1. Len(Popped) = 0
      BY <1>1, <1>5
    <2> QED BY <1>1, <2>1, EmptySeq
  <1>6. ASSUME Top.at = "digest", NEW f \in Those(Popped) PROVE f.at = "user"
    <2>1. PICK k \in 1 .. Len(stack) - 1 : f = stack[k + 1]
      BY <1>3
    <2>2. k + 1 = 2
      <3>1. Len(stack) = 2
        BY <1>2, <1>6
      <3> QED BY <3>1
    <2> QED BY <1>2, <1>6, <2>1, <2>2 DEF Starts
  <1>7. ASSUME Top.at = "request", NEW f \in Those(Popped) PROVE f.at \in {"user", "digest"}
    <2>1. PICK k \in 1 .. Len(stack) - 1 : f = stack[k + 1]
      BY <1>3
    <2>2. k + 1 = 2 \/ k + 1 = 3
      <3>1. Len(stack) = 3
        BY <1>2, <1>7
      <3> QED BY <3>1
    <2> QED BY <1>2, <1>7, <2>1, <2>2 DEF Starts
  <1>8. ASSUME Top.at = "user", Top.place = "requested"
        PROVE  \E k \in DOMAIN stack : stack[k].at = "digest"
    <2>1. 3 \in DOMAIN stack
      <3>1. DOMAIN stack = 1 .. Len(stack)
        BY <1>1
      <3>2. Len(stack) = 4
        BY <1>2, <1>8
      <3> QED BY <3>1, <3>2
    <2> QED BY <1>2, <1>8, <2>1
  <1>9. ASSUME NEW k \in 1 .. Len(stack), stack[k].at \in {"install", "mount"}
        PROVE  \/ k = 1
               \/ k = 2 /\ stack[2].at = "install" /\ Top.at \in Clears
               \/ k = 3 /\ stack[3].at = "install" /\ Top.at = "user" /\ Top.place = "destroyed"
               \/ k = 2 /\ stack[2].at = "mount" /\ Top.at = "user" /\ Top.place = "linked"
    BY <1>1, <1>9, NoneBelow DEF Top
  <1>10. ASSUME \/ Top.at = "user" /\ Top.place \notin {"destroyed", "linked"}
                \/ Top.at = "digest",
                NEW f \in Those(stack)
         PROVE  f.at \notin {"install", "mount"}
    <2>1. PICK k \in 1 .. Len(stack) : f = stack[k]
      BY <1>4
    <2> QED BY <1>9, <1>10, <2>1 DEF Clears, Top
  <1>11. ASSUME Top.at \in Clears, NEW f \in Those(stack) PROVE f.at # "mount"
    <2>1. PICK k \in 1 .. Len(stack) : f = stack[k]
      BY <1>4
    <2> QED BY <1>9, <1>11, <2>1 DEF Clears, Top
  <1>12. ASSUME Top.at \in Clears, NEW k \in 1 .. Len(Popped), Popped[k].at = "install"
         PROVE  k = 1
    <2>1. k \in 1 .. Len(stack) - 1 /\ k + 1 \in 1 .. Len(stack) /\ k + 1 # 1
      BY <1>1
    <2>2. stack[k + 1].at = "install"
      BY <1>1, <1>12, <2>1
    <2>3. k + 1 = 2
      BY <1>9, <1>12, <2>1, <2>2 DEF Clears
    <2> QED BY <2>1, <2>3
  <1> QED BY <1>2, <1>5, <1>6, <1>7, <1>8, <1>10, <1>11, <1>12

-----------------------------------------------------------------------------
(* Types                                                                   *)

FramesTo(n) == [at : Ats, i : Includes \cup {0}, l : 0 .. n, place : Places]
JobsTo(n)   == [kind : {"fetched", "deliver"}, l : 0 .. n, u : URLs, o : {"ok", "fail"}]
FetchesTo(n) == [URLs -> [state : {"none", "out", "settled"}, waiters : Seq(1 .. n)]]

\* TypeOK with the length of loads as a number.
LEMMA TypeParts ==
  ASSUME loads \in Seq([i : Includes, url : URLs])
  PROVE  TypeOK <=>
           LET n == Len(loads) IN
           /\ src \in [Includes -> URLs \cup {Empty}] /\ budget \in 0 .. Budget
           /\ seen \in [Includes -> URLs \cup {Empty, Unseen}] /\ alive \subseteq Includes
           /\ token \in [Includes -> 0 .. n] /\ clone \in [Includes -> 0 .. n]
           /\ scopes \subseteq 1 .. n /\ dom \subseteq 1 .. n
           /\ cached \subseteq URLs \ Untrusted
           /\ inFlight \in FetchesTo(n) /\ jobs \in Seq(JobsTo(n)) /\ stack \in Seq(FramesTo(n))
  <1>1. DOMAIN loads = 1 .. Len(loads)
    OBVIOUS
  <1> QED BY <1>1 DEF TypeOK, FramesTo, JobsTo, FetchesTo, Ats

\* Frames put on a stack, or in the place of its top.
LEMMA PushTyped ==
  ASSUME NEW S, NEW s \in Seq(S), NEW f \in S, NEW g \in S
  PROVE  <<f>> \o s \in Seq(S) /\ <<f, g>> \o s \in Seq(S)
  OBVIOUS

LEMMA FrameTyped ==
  ASSUME NEW n \in Nat
  PROVE  /\ \A p \in Places : UserFrame(p) \in FramesTo(n) /\ UserFrame(p) \in FrameSet
         /\ \A at \in Ats, i \in Includes \cup {0}, l \in 0 .. n :
              Frame(at, i, l) \in FramesTo(n) /\ Frame(at, i, l) \in FrameSet
  <1>1. 0 \in 0 .. n /\ 0 .. n \subseteq Nat
    OBVIOUS
  <1> QED BY <1>1 DEF UserFrame, Frame, FramesTo, FrameSet, Ats, Places

LEMMA InitType == Init => TypeOK
  <1> SUFFICES ASSUME Init PROVE TypeOK
    OBVIOUS
  <1>1. loads = <<>> /\ loads \in Seq([i : Includes, url : URLs]) /\ Len(loads) = 0
    BY DEF Init
  <1>2. \A S : <<>> \in Seq(S)
    OBVIOUS
  <1>3. inFlight \in FetchesTo(0)
    <2>1. <<>> \in Seq(1 .. 0)
      BY <1>2
    <2> QED BY <2>1 DEF Init, FetchesTo, NoFetch
  <1>4. budget \in 0 .. Budget
    BY IncludeAssumption DEF Init
  <1>5. jobs \in Seq(JobsTo(0)) /\ stack \in Seq(FramesTo(0))
    BY <1>2 DEF Init
  <1>6. 0 \in 0 .. 0
    OBVIOUS
  <1> QED BY <1>1, <1>3, <1>4, <1>5, <1>6, TypeParts DEF Init

\* Every action keeps the types.
LEMMA NextType ==
  ASSUME TypeOK, FramesOK, NetOK, [Next]_vars
  PROVE  TypeOK'
  <1> DEFINE n == Len(loads)
  <1>1. /\ loads \in Seq([i : Includes, url : URLs]) /\ n \in Nat
        /\ DOMAIN loads = 1 .. n
        /\ \A l \in DOMAIN loads : loads[l].i \in Includes /\ loads[l].url \in URLs
    BY TypeFacts
  <1>2. /\ src \in [Includes -> URLs \cup {Empty}] /\ budget \in 0 .. Budget
        /\ seen \in [Includes -> URLs \cup {Empty, Unseen}] /\ alive \subseteq Includes
        /\ token \in [Includes -> 0 .. n] /\ clone \in [Includes -> 0 .. n]
        /\ scopes \subseteq 1 .. n /\ dom \subseteq 1 .. n
        /\ cached \subseteq URLs \ Untrusted
        /\ inFlight \in FetchesTo(n) /\ jobs \in Seq(JobsTo(n)) /\ stack \in Seq(FramesTo(n))
    BY <1>1, TypeParts
  <1> HIDE DEF n
  <1>3. ASSUME stack # <<>>
        PROVE  Popped \in Seq(FramesTo(n)) /\ Top \in FramesTo(n) /\ FrameOK(Top)
    <2>1. Popped \in Seq(FramesTo(n)) /\ Top \in FramesTo(n)
      BY <1>2, <1>3 DEF Popped, Top
    <2>2. Top \in Those(stack)
      BY <1>3, StackFacts
    <2> QED BY <2>1, <2>2 DEF FramesOK
  <1>4. /\ \A p \in Places : UserFrame(p) \in FramesTo(n)
        /\ \A at \in Ats, i \in Includes \cup {0}, l \in 0 .. n : Frame(at, i, l) \in FramesTo(n)
        /\ \A i : Frame("clear", i, 0).at = "clear"
    BY <1>1, FrameTyped DEF Frame
  <1>5. /\ "clear" \in Ats /\ "cleared" \in Ats /\ "digest" \in Ats /\ "request" \in Ats
        /\ "install" \in Ats /\ "mount" \in Ats /\ 0 \in 0 .. n /\ 0 \in Includes \cup {0}
        /\ Places = {"turn", "requested", "destroyed", "linked", "loaded", "failed"}
        /\ \A l \in 1 .. n : l \in 0 .. n
    BY <1>1 DEF Ats, Places
  <1>6. ASSUME NEW s \in Seq(FramesTo(n)), NEW f \in FramesTo(n), NEW g \in FramesTo(n)
        PROVE  <<f>> \o s \in Seq(FramesTo(n)) /\ <<f, g>> \o s \in Seq(FramesTo(n))
    BY <1>6, PushTyped
  <1>7. ASSUME NEW i \in Includes, NEW s \in Seq(FramesTo(n))
        PROVE  /\ <<Frame("clear", i, 0)>> \o s \in Seq(FramesTo(n))
               /\ Fails(i) \o s \in Seq(FramesTo(n))
               /\ \A p \in Places : <<UserFrame(p)>> \o s \in Seq(FramesTo(n))
               /\ \A p \in Places, at \in Ats, l \in 0 .. n :
                    <<UserFrame(p), Frame(at, i, l)>> \o s \in Seq(FramesTo(n))
               /\ \A at, bt \in Ats, l \in 0 .. n :
                    <<Frame(at, i, 0), Frame(bt, i, l)>> \o s \in Seq(FramesTo(n))
    BY <1>4, <1>5, <1>6 DEF Fails
  <1>8. ASSUME stack # <<>>, Top.at \in Clears \cup {"request", "install", "mount"}
        PROVE  /\ Top.i \in Includes
               /\ Top.at \in {"request", "install", "mount"} => Top.l \in 1 .. n
    BY <1>1, <1>3, <1>8 DEF FrameOK, ForLoad, Clears
  \* It is enough that the variables which change keep their types.
  <1>9. ASSUME loads' = loads, src' \in [Includes -> URLs \cup {Empty}], budget' \in 0 .. Budget,
               seen' \in [Includes -> URLs \cup {Empty, Unseen}], alive' \subseteq Includes,
               token' \in [Includes -> 0 .. n], clone' \in [Includes -> 0 .. n],
               scopes' \subseteq 1 .. n, dom' \subseteq 1 .. n,
               cached' \subseteq URLs \ Untrusted,
               inFlight' \in FetchesTo(n), jobs' \in Seq(JobsTo(n)), stack' \in Seq(FramesTo(n))
        PROVE  TypeOK'
    <2>1. DOMAIN loads' = 1 .. n /\ Len(loads') = n /\ loads' \in Seq([i : Includes, url : URLs])
      BY <1>1, <1>9 DEF n
    <2> QED BY <1>9, <2>1 DEF TypeOK, FramesTo, JobsTo, FetchesTo, Ats
  <1>10. CASE UNCHANGED vars
    BY <1>2, <1>9, <1>10 DEF vars, model, slot, net
  <1>11. CASE BeginTurn
    <2>1. stack' \in Seq(FramesTo(n))
      BY <1>2, <1>4, <1>5, <1>6, <1>11 DEF BeginTurn, Calls
    <2> QED BY <1>2, <1>9, <1>11, <2>1 DEF BeginTurn, model, slot, net
  <1>12. CASE UserReturns
    <2>1. stack' \in Seq(FramesTo(n))
      BY <1>3, <1>12 DEF UserReturns, Continues, At
    <2> QED BY <1>2, <1>9, <1>12, <2>1 DEF UserReturns, model, slot, net
  <1>13. ASSUME NEW i \in Includes, NEW v \in URLs \cup {Empty}, Assign(i, v) PROVE TypeOK'
    <2>1. budget' \in 0 .. Budget
      BY <1>2, <1>13, IncludeAssumption DEF Assign
    <2> QED BY <1>2, <1>9, <1>13, <2>1 DEF Assign, slot, net
  <1>14. ASSUME NEW u \in URLs, Evict(u) PROVE TypeOK'
    <2>1. budget' \in 0 .. Budget
      BY <1>2, <1>14, IncludeAssumption DEF Evict
    <2> QED BY <1>2, <1>9, <1>14, <2>1 DEF Evict, slot
  <1>15. ASSUME NEW i \in Includes, Destroy(i) PROVE TypeOK'
    <2>1. stack' \in Seq(FramesTo(n))
      BY <1>2, <1>7, <1>15 DEF Destroy, Calls
    <2> QED BY <1>2, <1>9, <1>15, <2>1 DEF Destroy, model, slot, net
  <1>16. CASE Digest
    <2>1. stack' \in Seq(FramesTo(n))
      BY <1>2, <1>4, <1>5, <1>6, <1>16 DEF Digest, Calls
    <2> QED BY <1>2, <1>9, <1>16, <2>1 DEF Digest, model, slot, net
  <1>17. CASE ClearNothing
    <2>1. stack' \in Seq(FramesTo(n))
      BY <1>3, <1>17 DEF ClearNothing, Continues, At
    <2>2. token' \in [Includes -> 0 .. n]
      <3>1. token' = [token EXCEPT ![Top.i] = 0]
        BY <1>17 DEF ClearNothing
      <3> QED BY <1>2, <1>5, <3>1
    <2> QED BY <1>2, <1>9, <1>17, <2>1, <2>2 DEF ClearNothing, model, net
  <1>18. CASE ClearScope
    <2>1. Top.i \in Includes /\ Popped \in Seq(FramesTo(n))
      BY <1>3, <1>8, <1>18 DEF ClearScope, At, Clears
    <2>2. stack' \in Seq(FramesTo(n))
      BY <1>5, <1>7, <1>18, <2>1 DEF ClearScope, Continues
    <2> QED BY <1>2, <1>9, <1>18, <2>2 DEF ClearScope, model, net
  <1>19. CASE ClearDone
    <2>1. stack' \in Seq(FramesTo(n))
      BY <1>3, <1>19 DEF ClearDone, Continues, At
    <2>2. token' \in [Includes -> 0 .. n] /\ clone' \in [Includes -> 0 .. n]
      <3>1. token' = [token EXCEPT ![Top.i] = 0] /\ clone' = [clone EXCEPT ![Top.i] = 0]
        BY <1>19 DEF ClearDone
      <3> QED BY <1>2, <1>5, <3>1
    <2>3. dom' \subseteq 1 .. n
      BY <1>2, <1>19 DEF ClearDone
    <2> QED BY <1>2, <1>9, <1>19, <2>1, <2>2, <2>3 DEF ClearDone, model, net
  <1>20. ASSUME NEW i \in Includes, SourceCleared(i) PROVE TypeOK'
    <2>1. stack' \in Seq(FramesTo(n))
      BY <1>2, <1>7, <1>20 DEF SourceCleared, Calls
    <2>2. seen' \in [Includes -> URLs \cup {Empty, Unseen}]
      BY <1>2, <1>20 DEF SourceCleared
    <2> QED BY <1>2, <1>9, <1>20, <2>1, <2>2 DEF SourceCleared, model, slot, net
  <1>21. ASSUME NEW i \in Includes, SourceChanged(i) PROVE TypeOK'
    <2>1. loads' = Append(loads, [i |-> i, url |-> src[i]]) /\ src[i] \in URLs
      BY <1>2, <1>21 DEF SourceChanged
    <2>2. /\ loads' \in Seq([i : Includes, url : URLs]) /\ Len(loads') = n + 1
          /\ DOMAIN loads' = 1 .. n + 1
      <3>1. PICK r \in [i : Includes, url : URLs] : r = [i |-> i, url |-> src[i]]
        BY <2>1
      <3> QED BY <1>1, <2>1, <3>1 DEF n
    <2>3. /\ 0 .. n \subseteq 0 .. n + 1 /\ 1 .. n \subseteq 1 .. n + 1
          /\ n + 1 \in 0 .. n + 1 /\ n + 1 \in Nat
      BY <1>1
    <2>4. stack' \in Seq(FramesTo(n + 1))
      <3>1. FramesTo(n) \subseteq FramesTo(n + 1)
        BY <2>3 DEF FramesTo
      <3>2. stack \in Seq(FramesTo(n + 1))
        BY <1>2, <3>1, SeqMonotonic
      <3>3. /\ UserFrame("requested") \in FramesTo(n + 1)
            /\ Frame("request", i, n + 1) \in FramesTo(n + 1)
        BY <1>5, <2>3, FrameTyped
      <3> QED BY <1>21, <3>2, <3>3, PushTyped DEF SourceChanged, Calls, n
    <2>5. inFlight' \in FetchesTo(n + 1)
      <3>1. inFlight' = inFlight
        BY <1>21 DEF SourceChanged, net
      <3>2. Seq(1 .. n) \subseteq Seq(1 .. n + 1)
        BY <2>3, SeqMonotonic
      <3>3. [state : {"none", "out", "settled"}, waiters : Seq(1 .. n)]
              \subseteq [state : {"none", "out", "settled"}, waiters : Seq(1 .. n + 1)]
        BY <3>2
      <3> QED BY <1>2, <3>1, <3>3 DEF FetchesTo
    <2>6. jobs' \in Seq(JobsTo(n + 1))
      <3>1. jobs' = jobs
        BY <1>21 DEF SourceChanged, net
      <3>2. JobsTo(n) \subseteq JobsTo(n + 1)
        BY <2>3 DEF JobsTo
      <3> QED BY <1>2, <3>1, <3>2, SeqMonotonic
    <2>7. token' \in [Includes -> 0 .. n + 1] /\ clone' \in [Includes -> 0 .. n + 1]
      <3>1. token' = [token EXCEPT ![i] = n + 1] /\ clone' = clone
        BY <1>21 DEF SourceChanged, n
      <3> QED BY <1>2, <2>3, <3>1
    <2>8. seen' \in [Includes -> URLs \cup {Empty, Unseen}]
      BY <1>2, <1>21 DEF SourceChanged
    <2>9. scopes' \subseteq 1 .. n + 1 /\ dom' \subseteq 1 .. n + 1
      BY <1>2, <1>21, <2>3 DEF SourceChanged
    <2>10. /\ src' \in [Includes -> URLs \cup {Empty}] /\ budget' \in 0 .. Budget
           /\ alive' \subseteq Includes /\ cached' \subseteq URLs \ Untrusted
      BY <1>2, <1>21 DEF SourceChanged, model, net
    <2> QED BY <2>2, <2>4, <2>5, <2>6, <2>7, <2>8, <2>9, <2>10
          DEF TypeOK, FramesTo, JobsTo, FetchesTo, Ats
  <1>22. CASE DigestEnds
    <2>1. stack' \in Seq(FramesTo(n))
      BY <1>3, <1>22 DEF DigestEnds, Continues, At
    <2> QED BY <1>2, <1>9, <1>22, <2>1 DEF DigestEnds, model, slot, net
  <1>23. CASE RequestRefused
    <2>1. Top.i \in Includes /\ Popped \in Seq(FramesTo(n))
      BY <1>3, <1>8, <1>23 DEF RequestRefused, At
    <2>2. stack' \in Seq(FramesTo(n))
      BY <1>7, <1>23, <2>1 DEF RequestRefused, Continues
    <2> QED BY <1>2, <1>9, <1>23, <2>2 DEF RequestRefused, model, slot, net
  <1>24. CASE Request
    <2>1. Top.l \in 1 .. n /\ Popped \in Seq(FramesTo(n))
      BY <1>3, <1>8, <1>24 DEF Request, At
    <2>2. PICK u \in URLs : u = loads[Top.l].url
      BY <1>1, <2>1
    <2>3. stack' \in Seq(FramesTo(n))
      BY <1>24, <2>1 DEF Request, Continues
    <2>4. jobs' \in Seq(JobsTo(n))
      <3>1. Job("deliver", Top.l, u, "ok") \in JobsTo(n)
        BY <1>5, <2>1 DEF Job, JobsTo
      <3> QED BY <1>2, <1>24, <2>2, <3>1 DEF Request
    <2>5. inFlight' \in FetchesTo(n)
      <3>1. PICK w \in Seq(1 .. n), st \in {"none", "out", "settled"} :
              inFlight[u] = [state |-> st, waiters |-> w]
        BY <1>2 DEF FetchesTo
      <3>2. PICK g : g = [state |-> IF st = "none" THEN "out" ELSE st, waiters |-> Append(w, Top.l)]
        OBVIOUS
      <3>3. g \in [state : {"none", "out", "settled"}, waiters : Seq(1 .. n)]
        BY <2>1, <3>2
      <3>4. inFlight' = inFlight \/ inFlight' = [inFlight EXCEPT ![u] = g]
        <4>1. \/ inFlight' = inFlight
              \/ inFlight' = [inFlight EXCEPT ![u].waiters = Append(@, Top.l),
                                            ![u].state = IF @ = "none" THEN "out" ELSE @]
          BY <1>24, <2>2 DEF Request
        <4>2. [inFlight EXCEPT ![u].waiters = Append(@, Top.l),
                               ![u].state = IF @ = "none" THEN "out" ELSE @]
                = [inFlight EXCEPT ![u] = [[inFlight[u] EXCEPT !.waiters = Append(@, Top.l)]
                                             EXCEPT !.state = IF @ = "none" THEN "out" ELSE @]]
          BY <1>2 DEF FetchesTo
        <4>3. [[inFlight[u] EXCEPT !.waiters = Append(@, Top.l)]
                 EXCEPT !.state = IF @ = "none" THEN "out" ELSE @] = g
          <5>1. PICK v \in Seq(1 .. n) : v = Append(w, Top.l)
            BY <2>1, AppendFacts
          <5>2. [inFlight[u] EXCEPT !.waiters = Append(@, Top.l)] = [state |-> st, waiters |-> v]
            <6>1. PICK r : r = [state |-> st, waiters |-> w]
              OBVIOUS
            <6>2. \A x : [r EXCEPT !.waiters = x] = [state |-> st, waiters |-> x] /\ r.waiters = w
              BY <6>1
            <6> QED BY <3>1, <5>1, <6>1, <6>2
          <5>3. PICK r : r = [state |-> st, waiters |-> v]
            OBVIOUS
          <5>4. r.state = st /\ [r EXCEPT !.state = IF @ = "none" THEN "out" ELSE @]
                  = [state |-> IF st = "none" THEN "out" ELSE st, waiters |-> v]
            BY <5>3
          <5> QED BY <3>2, <5>1, <5>2, <5>3, <5>4
        <4> QED BY <4>1, <4>2, <4>3
      <3> QED BY <1>2, <3>3, <3>4 DEF FetchesTo
    <2> QED BY <1>2, <1>9, <1>24, <2>3, <2>4, <2>5 DEF Request, model, slot
  <1>25. ASSUME NEW u \in URLs, NEW o \in {"ok", "fail"}, FetchSettles(u, o) PROVE TypeOK'
    <2>1. jobs' \in Seq(JobsTo(n))
      <3>1. Job("fetched", 0, u, o) \in JobsTo(n)
        BY <1>5 DEF Job, JobsTo
      <3> QED BY <1>2, <1>25, <3>1 DEF FetchSettles
    <2>2. inFlight' \in FetchesTo(n)
      BY <1>2, <1>25 DEF FetchSettles, FetchesTo
    <2> QED BY <1>2, <1>9, <1>25, <2>1, <2>2 DEF FetchSettles, model, slot
  <1>26. CASE Fetched
    <2>1. PICK u \in URLs, o \in {"ok", "fail"} : u = jobs[1].u /\ o = jobs[1].o
      <3>1. jobs[1] \in JobsTo(n)
        BY <1>2, <1>26 DEF Fetched, Running
      <3> QED BY <3>1 DEF JobsTo
    <2>2. PICK w \in Seq(1 .. n) : w = inFlight[u].waiters
      BY <1>2 DEF FetchesTo
    <2>3. u \notin Untrusted
      <3>1. jobs[1] \in Those(jobs)
        BY <1>2, <1>26 DEF Fetched, Running, Those
      <3> QED BY <1>26, <2>1, <3>1 DEF Fetched, Running, NetOK
    <2>4. jobs' \in Seq(JobsTo(n))
      <3>1. [k \in DOMAIN w |-> Job("deliver", w[k], u, o)] \in Seq(JobsTo(n))
        <4>1. ASSUME NEW k \in DOMAIN w PROVE Job("deliver", w[k], u, o) \in JobsTo(n)
          <5>1. w[k] \in 0 .. n
            <6>1. w[k] \in 1 .. n
              <7>1. \A S : \A s \in Seq(S) : \A h \in DOMAIN s : s[h] \in S
                OBVIOUS
              <7> QED BY <7>1
            <6> QED BY <1>5, <6>1
          <5> QED BY <5>1 DEF Job, JobsTo
        <4> QED BY <4>1
      <3>2. Tail(jobs) \in Seq(JobsTo(n))
        BY <1>2, <1>26 DEF Fetched, Running
      <3> QED BY <1>26, <2>1, <2>2, <3>1, <3>2 DEF Fetched
    <2>5. inFlight' \in FetchesTo(n)
      <3>1. NoFetch \in [state : {"none", "out", "settled"}, waiters : Seq(1 .. n)]
        <4>1. <<>> \in Seq(1 .. n)
          OBVIOUS
        <4> QED BY <4>1 DEF NoFetch
      <3> QED BY <1>2, <1>26, <2>1, <3>1 DEF Fetched, FetchesTo
    <2>6. cached' \subseteq URLs \ Untrusted
      BY <1>2, <1>26, <2>1, <2>3 DEF Fetched
    <2> QED BY <1>2, <1>9, <1>26, <2>4, <2>5, <2>6 DEF Fetched, model, slot
  <1>27. ASSUME NEW l \in DOMAIN loads, Delivering(l),
                stack' = stack \/ \E i \in Includes : \/ stack' = Fails(i) \o stack
                  \/ stack' = <<Frame("clear", i, 0), Frame("install", i, l)>> \o stack
         PROVE  TypeOK'
    <2>1. jobs' \in Seq(JobsTo(n))
      BY <1>2, <1>27 DEF Delivering, Running
    <2>2. stack' \in Seq(FramesTo(n))
      <3>1. l \in 0 .. n
        BY <1>1, <1>5
      <3>2. CASE stack' = stack
        BY <1>2, <3>2
      <3>3. ASSUME NEW i \in Includes,
                   \/ stack' = Fails(i) \o stack
                   \/ stack' = <<Frame("clear", i, 0), Frame("install", i, l)>> \o stack
            PROVE  stack' \in Seq(FramesTo(n))
        <4>1. Fails(i) \o stack \in Seq(FramesTo(n))
          BY <1>2, <1>7
        <4>2. <<Frame("clear", i, 0), Frame("install", i, l)>> \o stack \in Seq(FramesTo(n))
          BY <1>2, <1>5, <1>7, <3>1
        <4> QED BY <3>3, <4>1, <4>2
      <3> QED BY <1>27, <3>2, <3>3
    <2> QED BY <1>2, <1>9, <1>27, <2>1, <2>2 DEF Delivering, model, slot
  <1>28. CASE DeliverStale \/ DeliverFailure \/ DeliverContent
    BY <1>1, <1>27, <1>28 DEF DeliverStale, DeliverFailure, DeliverContent, Calls
  <1>29. CASE Install
    <2>1. Top.i \in Includes /\ Top.l \in 1 .. n /\ Popped \in Seq(FramesTo(n))
      BY <1>3, <1>8, <1>29 DEF Install, At
    <2>2. stack' \in Seq(FramesTo(n))
      BY <1>5, <1>7, <1>29, <2>1 DEF Install, Continues
    <2>3. token' \in [Includes -> 0 .. n]
      BY <1>2, <1>5, <1>29, <2>1 DEF Install
    <2> QED BY <1>2, <1>9, <1>29, <2>1, <2>2, <2>3 DEF Install, model, net
  <1>30. CASE Mount
    <2>1. Top.i \in Includes /\ Top.l \in 1 .. n /\ Popped \in Seq(FramesTo(n))
      BY <1>3, <1>8, <1>30 DEF Mount, At
    <2>2. stack' \in Seq(FramesTo(n))
      BY <1>5, <1>7, <1>30, <2>1 DEF Mount, Continues
    <2>3. clone' \in [Includes -> 0 .. n]
      BY <1>2, <1>5, <1>30, <2>1 DEF Mount
    <2> QED BY <1>2, <1>9, <1>30, <2>1, <2>2, <2>3 DEF Mount, model, net
  <1>31. CASE CompileThrows
    <2>1. Top.i \in Includes /\ Popped \in Seq(FramesTo(n))
      BY <1>3, <1>8, <1>31 DEF CompileThrows, At
    <2>2. stack' \in Seq(FramesTo(n))
      BY <1>7, <1>31, <2>1 DEF CompileThrows, Continues
    <2> QED BY <1>2, <1>9, <1>31, <2>2 DEF CompileThrows, model, net
  <1> QED BY <1>10, <1>11, <1>12, <1>13, <1>14, <1>15, <1>16, <1>17, <1>18, <1>19, <1>20, <1>21,
           <1>22, <1>23, <1>24, <1>25, <1>26, <1>28, <1>29, <1>30, <1>31
        DEF Next, UserOp, Engine, Network

-----------------------------------------------------------------------------
(* The shape of the stack                                                  *)

\* Where application code starts no digest, and destroys no include: in the middle of a load.
Restrained ==
  /\ "digest" \notin FailedOps \cup DestroyedOps \cup LinkedOps
  /\ "destroy" \notin DestroyedOps \cup LinkedOps

\* Two calls of which one has made the other.
LEMMA TwoFitted ==
  ASSUME NEW s \in Seq(FrameSet), Fitted(s), NEW f \in FrameSet, NEW g, Onto(g, s), Fits(f, g),
         \A k \in 1 .. Len(s) : s[k].at = "install" => k = 1 /\ f.at = "user" /\ f.place = "destroyed"
  PROVE  Fitted(<<f, g>> \o s)
  <1>1. g \in FrameSet
    BY DEF Onto
  <1>2. /\ <<g>> \o s \in Seq(FrameSet) /\ (<<g>> \o s)[1] = g /\ <<g>> \o s # <<>>
        /\ Len(<<g>> \o s) = Len(s) + 1
        /\ \A k \in 1 .. Len(s) : (<<g>> \o s)[k + 1] = s[k]
        /\ <<f, g>> \o s = <<f>> \o (<<g>> \o s)
    BY <1>1, PushFacts
  <1>3. Fitted(<<g>> \o s)
    BY ConsFitted
  <1>4. PICK t \in Seq(FrameSet) : t = <<g>> \o s
    BY <1>2
  <1>5. ASSUME NEW k \in 1 .. Len(t), t[k].at = "install"
        PROVE  k = 1 \/ (k = 2 /\ f.at = "user" /\ f.place = "destroyed")
    <2>1. PICK n \in Nat : n = Len(s)
      OBVIOUS
    <2>2. CASE k # 1
      <3>1. k - 1 \in 1 .. n /\ (k - 1) + 1 = k
        BY <1>2, <1>4, <2>1, <2>2
      <3>2. s[k - 1].at = "install"
        BY <1>2, <1>4, <1>5, <2>1, <3>1
      <3>3. k - 1 = 1 /\ f.at = "user" /\ f.place = "destroyed"
        BY <2>1, <3>1, <3>2
      <3> QED BY <3>1, <3>3
    <2> QED BY <2>2
  <1>6. Onto(f, t)
    BY <1>2, <1>4, <1>5 DEF Onto
  <1>7. Fitted(<<f>> \o t)
    BY <1>3, <1>4, <1>6, ConsFitted
  <1> QED BY <1>2, <1>4, <1>7

LEMMA EmptyFitted == <<>> \in Seq(FrameSet) /\ Len(<<>>) = 0 /\ Fitted(<<>>)
  <1>1. <<>> \in Seq(FrameSet) /\ Len(<<>>) = 0
    OBVIOUS
  <1> QED BY <1>1 DEF Fitted, Clearly

\* Every action keeps the calls in progress those that one has made for another.
LEMMA NextFits ==
  ASSUME Restrained, TypeOK, FramesOK, Fitted(stack), [Next]_vars
  PROVE  Fitted(stack')
  <1>1. stack \in Seq(FrameSet)
    BY TypeFacts
  <1>2. ASSUME stack # <<>>
        PROVE  /\ Popped \in Seq(FrameSet) /\ Fitted(Popped) /\ Top = stack[1]
               /\ Popped # <<>> => Fits(Top, Popped[1])
               /\ <<>> \o Popped = Popped
    <2>1. /\ Popped \in Seq(FrameSet) /\ Len(stack) \in Nat \ {0} /\ Len(Popped) = Len(stack) - 1
          /\ \A k \in 1 .. Len(stack) - 1 : Popped[k] = stack[k + 1]
      BY <1>2, StackFacts
    <2>2. Fitted(Popped)
      BY <1>1, <1>2, TailFitted DEF Popped
    <2>3. ASSUME Popped # <<>> PROVE Fits(Top, Popped[1])
      <3>1. Len(Popped) # 0
        BY <2>1, <2>3, EmptySeq
      <3>2. 1 \in 1 .. Len(stack) - 1
        BY <2>1, <3>1
      <3>3. Popped[1] = stack[1 + 1] /\ Fits(stack[1], stack[1 + 1])
        BY <2>1, <3>2 DEF Fitted
      <3> QED BY <3>3 DEF Top
    <2> QED BY <2>1, <2>2, <2>3 DEF Top
  <1>3. ASSUME stack # <<>>, Top.at \in Clears \cup {"request", "install", "mount"}
        PROVE  Top.i \in Includes /\ (Top.at \in {"request", "install", "mount"} => Top.l \in Nat)
    <2>1. FrameOK(Top) /\ Top \in FrameSet
      BY <1>3, StackFacts DEF FramesOK
    <2> QED BY <1>3, <2>1 DEF FrameOK, ForLoad, Clears, FrameSet
  <1>4. /\ \A p \in Places : UserFrame(p) \in FrameSet
        /\ \A p : UserFrame(p).at = "user" /\ UserFrame(p).place = p
        /\ \A at \in Ats, i \in Includes \cup {0}, l \in Nat : Frame(at, i, l) \in FrameSet
        /\ \A at, i, l : Frame(at, i, l).at = at
        /\ "turn" \in Places /\ "requested" \in Places /\ "destroyed" \in Places
        /\ "linked" \in Places /\ "loaded" \in Places /\ "failed" \in Places
        /\ Ats = {"user", "digest", "clear", "cleared", "request", "install", "mount"}
        /\ 0 \in Nat
    BY DEF UserFrame, Frame, FrameSet, Ats, Places
  <1>6. ASSUME \A f \in Those(stack) : f.at \notin {"install", "mount"}
        PROVE  \A k \in 1 .. Len(stack) : stack[k].at # "install"
    BY <1>1, <1>6 DEF Those
  <1>7. ASSUME At("user") PROVE Top.place \in Places
    BY <1>7, StackFacts DEF At, FrameSet
  <1>8. CASE stack' = stack
    BY <1>8
  <1>9. ASSUME stack # <<>>, Continues(<<>>) PROVE Fitted(stack')
    BY <1>2, <1>9 DEF Continues
  <1>10. CASE BeginTurn
    <2>1. Onto(UserFrame("turn"), stack)
      BY <1>4, <1>10 DEF BeginTurn, Onto, Stands, Starts
    <2> QED BY <1>1, <1>10, <2>1, ConsFitted DEF BeginTurn, Calls
  <1>11. ASSUME NEW i \in Includes, Destroy(i) PROVE Fitted(stack')
    <2>1. At("user") /\ Top.place \in {"turn", "requested", "loaded", "failed"}
      BY <1>7, <1>11 DEF Destroy, May, Ops, Restrained, Places
    <2>2. \A f \in Those(stack) : f.at \notin {"install", "mount"}
      BY <2>1, Below DEF At
    <2>3. Onto(Frame("clear", i, 0), stack)
      BY <1>4, <1>6, <2>1, <2>2 DEF Onto, Fits, Starts, Clears, At, Top
    <2> QED BY <1>1, <1>11, <2>3, ConsFitted DEF Destroy, Calls
  <1>12. CASE Digest
    <2>1. At("user") /\ Top.place \in {"turn", "loaded"}
      <3>1. At("user") /\ Top.place \in {"turn", "requested", "loaded"}
        BY <1>7, <1>12 DEF Digest, May, Ops, Restrained, Places
      <3>2. Top.place # "requested"
        BY <1>12, <3>1, Below DEF Digest, At
      <3> QED BY <3>1, <3>2
    <2>2. \A f \in Those(stack) : f.at \notin {"install", "mount"}
      BY <2>1, Below DEF At
    <2>3. Onto(Frame("digest", 0, 0), stack)
      <3>1. Frame("digest", 0, 0) \in FrameSet /\ Frame("digest", 0, 0).at = "digest"
        BY <1>4
      <3>2. stack # <<>> /\ Starts(stack[1])
        BY <2>1 DEF Starts, At, Top
      <3> QED BY <1>6, <2>2, <3>1, <3>2 DEF Onto, Fits
    <2> QED BY <1>1, <1>12, <2>3, ConsFitted DEF Digest, Calls
  <1>13. CASE ClearScope
    <2>1. stack # <<>> /\ Top.at = "clear" /\ Top.i \in Includes
      BY <1>3, <1>13 DEF ClearScope, At, Clears
    <2>2. \A k \in 1 .. Len(Popped) : Popped[k].at = "install" => k = 1
      BY <2>1, Below DEF Clears
    <2>3. Onto(Frame("cleared", Top.i, 0), Popped)
      BY <1>2, <1>4, <2>1, <2>2 DEF Onto, Fits, Stands, Starts, Clears
    <2>4. Fits(UserFrame("destroyed"), Frame("cleared", Top.i, 0))
      BY <1>4 DEF Fits
    <2>5. Fitted(<<UserFrame("destroyed"), Frame("cleared", Top.i, 0)>> \o Popped)
      BY <1>2, <1>4, <2>1, <2>2, <2>3, <2>4, TwoFitted
    <2> QED BY <1>13, <2>5 DEF ClearScope, Continues
  <1>14. ASSUME NEW i \in Includes, SourceCleared(i) PROVE Fitted(stack')
    <2>1. stack # <<>> /\ Top.at = "digest"
      BY <1>14 DEF SourceCleared, At
    <2>2. Onto(Frame("clear", i, 0), stack)
      BY <1>4, <1>6, <2>1, Below DEF Onto, Fits, Clears, Top
    <2> QED BY <1>1, <1>14, <2>2, ConsFitted DEF SourceCleared, Calls
  <1>15. ASSUME NEW i \in Includes, SourceChanged(i) PROVE Fitted(stack')
    <2>1. stack # <<>> /\ Top.at = "digest"
      BY <1>15 DEF SourceChanged, At
    <2>2. PICK l \in Nat : l = Len(loads) + 1
      BY TypeFacts
    <2>3. \A k \in 1 .. Len(stack) : stack[k].at # "install"
      BY <1>6, <2>1, Below
    <2>4. Onto(Frame("request", i, l), stack)
      BY <1>4, <2>1, <2>3 DEF Onto, Fits, Clears, Top
    <2>5. Fits(UserFrame("requested"), Frame("request", i, l))
      BY <1>4 DEF Fits
    <2>6. Fitted(<<UserFrame("requested"), Frame("request", i, l)>> \o stack)
      BY <1>1, <1>4, <2>3, <2>4, <2>5, TwoFitted
    <2> QED BY <1>15, <2>2, <2>6 DEF SourceChanged, Calls
  \* $includeContentError and the clearing, where nothing is being installed.
  <1>16. ASSUME NEW i \in Includes, NEW s \in Seq(FrameSet), Fitted(s),
                s = <<>> \/ s[1].at = "digest", \A k \in 1 .. Len(s) : s[k].at # "install"
         PROVE  Fitted(Fails(i) \o s)
    <2>1. Onto(Frame("clear", i, 0), s)
      BY <1>4, <1>16 DEF Onto, Fits, Stands, Clears
    <2>2. Fits(UserFrame("failed"), Frame("clear", i, 0))
      BY <1>4 DEF Fits
    <2> QED BY <1>4, <1>16, <2>1, <2>2, TwoFitted DEF Fails
  <1>17. CASE RequestRefused
    <2>1. stack # <<>> /\ Top.at = "request" /\ Top.i \in Includes
      BY <1>3, <1>17 DEF RequestRefused, At
    <2>2. \A f \in Those(Popped) : f.at \in {"user", "digest"}
      BY <2>1, Below
    <2>3. \A k \in 1 .. Len(Popped) : Popped[k].at # "install"
      <3>1. DOMAIN Popped = 1 .. Len(Popped)
        BY <1>2, <2>1
      <3> QED BY <2>2, <3>1 DEF Those
    <2>4. Popped = <<>> \/ Popped[1].at = "digest"
      BY <1>2, <2>1 DEF Fits, Starts, Clears
    <2> QED BY <1>2, <1>16, <1>17, <2>1, <2>3, <2>4 DEF RequestRefused, Continues
  <1>18. CASE DeliverFailure
    <2>1. stack = <<>> /\ \E i \in Includes : stack' = Fails(i) \o stack
      BY <1>18, TypeFacts DEF DeliverFailure, Delivering, Running, Calls
    <2>2. \A k \in 1 .. Len(stack) : FALSE
      BY <2>1, EmptyFitted
    <2> QED BY <1>1, <1>16, <2>1, <2>2, EmptyFitted
  <1>19. CASE DeliverContent
    <2>1. PICK i \in Includes, l \in Nat :
            stack = <<>> /\ stack' = <<Frame("clear", i, 0), Frame("install", i, l)>> \o stack
      BY <1>19, TypeFacts DEF DeliverContent, Delivering, Running, Calls
    <2>2. Onto(Frame("install", i, l), stack)
      BY <1>4, <2>1, EmptyFitted DEF Onto, Stands
    <2>3. Fits(Frame("clear", i, 0), Frame("install", i, l))
      BY <1>4 DEF Fits, Clears
    <2>4. Frame("clear", i, 0) \in FrameSet
      BY <1>4
    <2>5. \A k \in 1 .. Len(stack) : FALSE
      BY <2>1, EmptyFitted
    <2> QED BY <1>1, <2>1, <2>2, <2>3, <2>4, <2>5, TwoFitted
  <1>20. CASE Install
    <2>1. stack # <<>> /\ Popped = <<>> /\ Top.i \in Includes /\ Top.l \in Nat
      BY <1>3, <1>20, Below DEF Install, At
    <2>2. Onto(Frame("mount", Top.i, Top.l), Popped)
      BY <1>4, <2>1, EmptyFitted DEF Onto, Stands
    <2>3. Fits(UserFrame("linked"), Frame("mount", Top.i, Top.l))
      BY <1>4 DEF Fits
    <2>4. \A k \in 1 .. Len(Popped) : FALSE
      BY <2>1, EmptyFitted
    <2>5. Fitted(<<UserFrame("linked"), Frame("mount", Top.i, Top.l)>> \o Popped)
      BY <1>2, <1>4, <2>1, <2>2, <2>3, <2>4, TwoFitted
    <2> QED BY <1>20, <2>5 DEF Install, Continues
  <1>21. CASE Mount
    <2>1. stack # <<>> /\ Popped = <<>>
      BY <1>21, Below DEF Mount, At
    <2>2. Onto(UserFrame("loaded"), Popped)
      BY <1>4, <2>1, EmptyFitted DEF Onto, Stands, Starts
    <2> QED BY <1>2, <1>21, <2>1, <2>2, ConsFitted DEF Mount, Continues
  <1>22. CASE CompileThrows
    <2>1. stack # <<>> /\ Popped = <<>> /\ Top.i \in Includes
      BY <1>3, <1>22, Below DEF CompileThrows, At
    <2>2. \A k \in 1 .. Len(Popped) : FALSE
      BY <2>1, EmptyFitted
    <2> QED BY <1>2, <1>16, <1>22, <2>1, <2>2 DEF CompileThrows, Continues
  <1>23. UserReturns \/ DigestEnds \/ ClearNothing \/ ClearDone \/ Request
           => stack # <<>> /\ Continues(<<>>)
    BY DEF UserReturns, DigestEnds, ClearNothing, ClearDone, Request, At
  <1>24. UNCHANGED vars \/ Fetched \/ DeliverStale \/ Network => stack' = stack
    BY DEF vars, Fetched, DeliverStale, Network, FetchSettles
  <1>25. /\ \A i \in Includes, v \in URLs \cup {Empty} : Assign(i, v) => stack' = stack
         /\ \A u \in URLs : Evict(u) => stack' = stack
    BY DEF Assign, Evict
  <1> QED BY <1>8, <1>9, <1>10, <1>11, <1>12, <1>13, <1>14, <1>15, <1>17, <1>18, <1>19, <1>20, <1>21,
           <1>22, <1>23, <1>24, <1>25 DEF Next, UserOp, Engine

-----------------------------------------------------------------------------
(* Each action keeps the rest of the invariant                              *)

Kernel == <<seen, alive, loads, slot, inFlight, jobs>>

\* Application code and digests that begin and end change nothing the invariant is about.
LEMMA SameKernel ==
  ASSUME Body, UNCHANGED Kernel,
         \A f : f.at \notin {"user", "digest"} => (f \in Those(stack') <=> f \in Those(stack))
  PROVE  Body'
  <1>1. /\ \A i : (Pending(i)' <=> Pending(i)) /\ (Clearing(i)' <=> Clearing(i))
        /\ \A l : (Asked(l)' <=> Asked(l)) /\ (Mounting(l)' <=> Mounting(l))
    BY DEF Pending, Clearing, Asked, Mounting, Clears
  <1>2. \A l : (Waited(l)' <=> Waited(l)) /\ (Queued(l)' <=> Queued(l))
    BY DEF Waited, Queued, Kernel
  <1>3. /\ seen' = seen /\ alive' = alive /\ loads' = loads /\ token' = token /\ clone' = clone
        /\ scopes' = scopes /\ dom' = dom /\ inFlight' = inFlight /\ jobs' = jobs
    BY DEF Kernel, slot
  <1>4. NetOK'
    BY <1>3 DEF Body, NetOK
  <1>5. ASSUME NEW f \in Those(stack') PROVE FrameOK(f)'
    <2>1. CASE f.at \in {"user", "digest"}
      BY <2>1 DEF FrameOK, Clears
    <2>2. CASE f.at \notin {"user", "digest"}
      <3>1. FrameOK(f)
        BY <1>5, <2>2 DEF Body, FramesOK
      <3> QED BY <1>1, <1>2, <1>3, <3>1 DEF FrameOK, ForLoad, Wanted, Taken
    <2> QED BY <2>1, <2>2
  <1>6. ASSUME NEW i \in Includes PROVE IncludeOK(i)'
    <2>1. IncludeOK(i)
      BY DEF Body, IncludesOK
    <2> QED BY <1>1, <1>2, <1>3, <2>1 DEF IncludeOK, Coming
  <1>7. ASSUME NEW l \in DOMAIN loads' PROVE LoadOK(l)'
    <2>1. LoadOK(l)
      BY <1>3 DEF Body, LoadsOK
    <2> QED BY <1>1, <1>2, <1>3, <2>1 DEF LoadOK, Overtaken
  <1> QED BY <1>4, <1>5, <1>6, <1>7 DEF Body, FramesOK, IncludesOK, LoadsOK

\* The calls in progress after calls are put on the stack, or in the place of its top.
LEMMA Stacked ==
  ASSUME TypeOK
  PROVE  /\ \A f \in FrameSet : Calls(<<f>>) => Those(stack') = {f} \cup Those(stack)
         /\ \A f, g \in FrameSet : Calls(<<f, g>>) => Those(stack') = {f, g} \cup Those(stack)
         /\ stack # <<>> =>
              /\ Continues(<<>>) => Those(stack') = Those(Popped)
              /\ \A f \in FrameSet : Continues(<<f>>) => Those(stack') = {f} \cup Those(Popped)
              /\ \A f, g \in FrameSet :
                   Continues(<<f, g>>) => Those(stack') = {f, g} \cup Those(Popped)
  <1>1. stack \in Seq(FrameSet)
    BY TypeFacts
  <1>2. ASSUME stack # <<>> PROVE Popped \in Seq(FrameSet) /\ <<>> \o Popped = Popped
    <2>1. Popped \in Seq(FrameSet)
      BY <1>2, StackFacts
    <2> QED BY <2>1
  <1>3. ASSUME NEW s \in Seq(FrameSet), NEW f \in FrameSet, NEW g \in FrameSet
        PROVE  Those(<<f>> \o s) = {f} \cup Those(s) /\ Those(<<f, g>> \o s) = {f, g} \cup Those(s)
    BY <1>3, PushFacts
  <1>4. \A f \in FrameSet : Calls(<<f>>) => Those(stack') = {f} \cup Those(stack)
    BY <1>1, <1>3 DEF Calls
  <1>5. \A f, g \in FrameSet : Calls(<<f, g>>) => Those(stack') = {f, g} \cup Those(stack)
    <2> TAKE f, g \in FrameSet
    <2>1. Those(<<f, g>> \o stack) = {f, g} \cup Those(stack)
      BY <1>1, <1>3
    <2> QED BY <2>1 DEF Calls
  <1>6. ASSUME stack # <<>>
        PROVE  /\ Continues(<<>>) => Those(stack') = Those(Popped)
               /\ \A f \in FrameSet : Continues(<<f>>) => Those(stack') = {f} \cup Those(Popped)
               /\ \A f, g \in FrameSet :
                    Continues(<<f, g>>) => Those(stack') = {f, g} \cup Those(Popped)
    <2>1. \A f \in FrameSet : Continues(<<f>>) => Those(stack') = {f} \cup Those(Popped)
      BY <1>2, <1>3, <1>6 DEF Continues
    <2>2. \A f, g \in FrameSet :
            Continues(<<f, g>>) => Those(stack') = {f, g} \cup Those(Popped)
      <3> TAKE f, g \in FrameSet
      <3>1. Those(<<f, g>> \o Popped) = {f, g} \cup Those(Popped)
        BY <1>2, <1>3, <1>6
      <3> QED BY <3>1 DEF Continues
    <2>3. Continues(<<>>) => Those(stack') = Those(Popped)
      BY <1>2, <1>6 DEF Continues
    <2> QED BY <2>1, <2>2, <2>3
  <1> QED BY <1>4, <1>5, <1>6

LEMMA FrameFields ==
  /\ \A p \in Places : UserFrame(p) \in FrameSet
  /\ \A p : UserFrame(p).at = "user" /\ UserFrame(p).place = p
  /\ \A at \in Ats, i \in Includes \cup {0}, l \in Nat : Frame(at, i, l) \in FrameSet
  /\ \A at, i, l : Frame(at, i, l).at = at /\ Frame(at, i, l).i = i /\ Frame(at, i, l).l = l
  /\ "turn" \in Places /\ "requested" \in Places /\ "destroyed" \in Places
  /\ "linked" \in Places /\ "loaded" \in Places /\ "failed" \in Places
  /\ Ats = {"user", "digest", "clear", "cleared", "request", "install", "mount"}
  /\ Clears = {"clear", "cleared"} /\ 0 \in Nat
  BY DEF UserFrame, Frame, FrameSet, Ats, Places, Clears

\* What the invariant is made of.
LEMMA BodyParts ==
  /\ Body <=> NetOK /\ (\A f \in Those(stack) : FrameOK(f))
                    /\ (\A i \in Includes : IncludeOK(i)) /\ (\A l \in DOMAIN loads : LoadOK(l))
  /\ Body' <=> NetOK' /\ (\A f \in Those(stack') : FrameOK(f)')
                      /\ (\A i \in Includes : IncludeOK(i)') /\ (\A l \in DOMAIN loads' : LoadOK(l)')
  BY DEF Body, FramesOK, IncludesOK, LoadsOK

\* A scope is destroyed: its include is to be cleared.
LEMMA DestroyBody ==
  ASSUME Restrained, IInv, NEW x \in Includes, Destroy(x)
  PROVE  Body'
  <1> DEFINE c == Frame("clear", x, 0)
  <1>1. /\ alive' = alive \ {x} /\ seen' = seen /\ loads' = loads /\ token' = token
        /\ clone' = clone /\ scopes' = scopes /\ dom' = dom /\ inFlight' = inFlight /\ jobs' = jobs
    BY DEF Destroy, slot, net
  <1>2. TypeOK /\ Fitted(stack) /\ Body
    BY DEF IInv
  <1>3. c \in FrameSet /\ c.at = "clear" /\ c.i = x
    BY FrameFields
  <1> HIDE DEF c
  <1>4. Those(stack') = {c} \cup Those(stack)
    BY <1>2, <1>3, Stacked DEF Destroy, c
  <1>5. \A f \in Those(stack) : f.at \notin {"install", "mount"}
    <2>1. At("user") /\ Top.place \in {"turn", "requested", "loaded", "failed"}
      <3>1. At("user") /\ "destroy" \in Ops[Top.place] /\ Top \in FrameSet
        BY <1>2, StackFacts DEF Destroy, May, At
      <3> QED BY <3>1 DEF Ops, Restrained, Places, FrameSet
    <2> QED BY <1>2, <2>1, Below DEF At
  <1>6. /\ \A i : (Pending(i)' <=> Pending(i) \/ i = x) /\ (Clearing(i)' <=> Clearing(i))
        /\ \A l : (Asked(l)' <=> Asked(l)) /\ (Mounting(l)' <=> Mounting(l))
    BY <1>3, <1>4 DEF Pending, Clearing, Asked, Mounting, Clears
  <1>7. \A l : (Waited(l)' <=> Waited(l)) /\ (Queued(l)' <=> Queued(l))
    BY <1>1 DEF Waited, Queued
  <1>8. NetOK'
    BY <1>1, <1>2 DEF Body, NetOK
  <1>9. ASSUME NEW f \in Those(stack') PROVE FrameOK(f)'
    <2>1. CASE f = c
      BY <1>1, <1>3, <2>1 DEF FrameOK, Clears
    <2>2. CASE f \in Those(stack)
      <3>1. FrameOK(f) /\ f.at \notin {"install", "mount"}
        BY <1>2, <1>5, <2>2, BodyParts
      <3> QED BY <1>1, <1>6, <1>7, <3>1 DEF FrameOK, ForLoad, Taken
    <2> QED BY <1>4, <1>9, <2>1, <2>2
  <1>10. ASSUME NEW i \in Includes PROVE IncludeOK(i)'
    <2>1. IncludeOK(i)
      BY <1>2, BodyParts
    <2> QED BY <1>1, <1>6, <1>7, <2>1 DEF IncludeOK, Coming
  <1>11. ASSUME NEW l \in DOMAIN loads' PROVE LoadOK(l)'
    <2>1. LoadOK(l)
      BY <1>1, <1>2, BodyParts
    <2> QED BY <1>1, <1>6, <1>7, <2>1 DEF LoadOK, Overtaken
  <1> QED BY <1>8, <1>9, <1>10, <1>11, BodyParts

\* A load is waited for, or is asked for now: the slot of its include is cleared only
\* if the include is gone or its source is empty.
LEMMA ClearReason ==
  ASSUME IInv, NEW f \in Those(stack), f.at \in Clears,
         NEW l \in DOMAIN loads, loads[l].i = f.i, token[f.i] = l, Waited(l) \/ Asked(l)
  PROVE  f.i \notin alive \/ seen[f.i] = Empty
  <1>1. FrameOK(f)
    BY BodyParts DEF IInv
  <1>2. l # 0
    BY TypeFacts DEF IInv
  <1> QED BY <1>1, <1>2 DEF FrameOK, Taken

\* There is no content: the token is cleared.
LEMMA ClearNothingBody ==
  ASSUME IInv, ClearNothing
  PROVE  Body'
  <1>1. /\ stack # <<>> /\ Top.at = "clear" /\ clone[Top.i] = 0 /\ token' = [token EXCEPT ![Top.i] = 0]
        /\ alive' = alive /\ seen' = seen /\ loads' = loads
        /\ clone' = clone /\ scopes' = scopes /\ dom' = dom /\ inFlight' = inFlight /\ jobs' = jobs
    BY DEF ClearNothing, At, net
  <1>2. TypeOK /\ Fitted(stack) /\ Body
    BY DEF IInv
  <1>3. Those(stack) = {Top} \cup Those(Popped) /\ Those(stack') = Those(Popped)
    BY <1>1, <1>2, StackFacts, Stacked DEF ClearNothing
  <1>4. Top \in Those(stack) /\ FrameOK(Top)
    BY <1>2, <1>3, BodyParts
  <1>5. PICK x \in Includes : x = Top.i
    BY <1>1, <1>4 DEF FrameOK, Clears
  <1>6. token' \in [Includes -> Nat] /\ token'[x] = 0 /\ \A i \in Includes : i # x => token'[i] = token[i]
    <2>1. token \in [Includes -> Nat]
      BY <1>2, TypeFacts DEF TypeOK
    <2> QED BY <1>1, <1>5, <2>1
  <1>7. \A f \in Those(stack) : f.at # "mount"
    BY <1>1, <1>2, Below DEF Clears
  <1>8. /\ \A i : (Pending(i) => Pending(i)' \/ i = x) /\ (Pending(i)' => Pending(i))
        /\ \A i : Clearing(i)' <=> Clearing(i)
        /\ \A l : (Asked(l)' <=> Asked(l)) /\ ~Mounting(l) /\ ~Mounting(l)'
    BY <1>1, <1>3, <1>5, <1>7 DEF Pending, Clearing, Asked, Mounting, Clears
  <1>9. \A l : (Waited(l)' <=> Waited(l)) /\ (Queued(l)' <=> Queued(l))
    BY <1>1 DEF Waited, Queued
  <1>10. NetOK'
    BY <1>1, <1>2 DEF Body, NetOK
  <1>11. \A l \in DOMAIN loads : loads[l].i = x /\ token[x] = l /\ (Waited(l) \/ Asked(l)) =>
           x \notin alive \/ seen[x] = Empty
    BY <1>1, <1>4, <1>5, ClearReason DEF Clears
  <1>12. ASSUME NEW f \in Those(stack') PROVE FrameOK(f)'
    <2>1. f \in Those(stack) /\ FrameOK(f)
      BY <1>2, <1>3, <1>12, BodyParts
    <2>2. CASE f.at \in Clears
      BY <1>1, <1>5, <1>6, <1>8, <1>9, <2>1, <2>2 DEF FrameOK, Taken, Clears
    <2>3. CASE f.at = "request"
      <3>1. ForLoad(f) /\ loads[f.l].url = seen[f.i] /\ Asked(f.l)
        BY <2>1, <2>3 DEF FrameOK, Asked
      <3>2. seen[f.i] # Empty
        BY <1>2, <3>1, IncludeAssumption, TypeFacts DEF ForLoad
      <3> QED BY <1>1, <1>6, <1>8, <1>9, <1>11, <2>1, <2>3, <3>1, <3>2 DEF FrameOK, ForLoad, Clears
    <2>4. CASE f.at = "install"
      <3>1. ForLoad(f) /\ Wanted(f) /\ (Pending(f.i) \/ (token[f.i] = 0 /\ clone[f.i] = 0))
        BY <2>1, <2>4 DEF FrameOK
      <3>2. ForLoad(f)' /\ Wanted(f)'
        BY <1>1, <1>8, <1>9, <3>1 DEF ForLoad, Wanted, Taken
      <3>3. Pending(f.i)' \/ (token'[f.i] = 0 /\ clone'[f.i] = 0)
        BY <1>1, <1>5, <1>6, <1>8, <3>1 DEF ForLoad
      <3> QED BY <2>4, <3>2, <3>3 DEF FrameOK, Clears
    <2>5. CASE f.at \notin Clears \cup {"request", "install", "mount"}
      BY <2>5 DEF FrameOK, Clears
    <2> QED BY <1>7, <2>1, <2>2, <2>3, <2>4, <2>5
  <1>13. ASSUME NEW i \in Includes PROVE IncludeOK(i)'
    <2>1. IncludeOK(i)
      BY <1>2, BodyParts
    <2> QED BY <1>1, <1>5, <1>6, <1>8, <1>9, <2>1 DEF IncludeOK, Coming
  <1>14. ASSUME NEW l \in DOMAIN loads' PROVE LoadOK(l)'
    <2>1. LoadOK(l) /\ l \in DOMAIN loads /\ loads[l].i \in Includes
      BY <1>1, <1>2, <1>14, BodyParts, TypeFacts
    <2>2. Waited(l) => token'[loads[l].i] = l \/ Overtaken(l)
      BY <1>6, <1>11, <2>1 DEF LoadOK, Overtaken
    <2> QED BY <1>1, <1>8, <1>9, <2>1, <2>2 DEF LoadOK, Overtaken
  <1> QED BY <1>10, <1>12, <1>13, <1>14, BodyParts

\* The scope of the content is destroyed, before its listeners are told.
LEMMA ClearScopeBody ==
  ASSUME IInv, ClearScope
  PROVE  Body'
  <1>1. /\ stack # <<>> /\ Top.at = "clear" /\ clone[Top.i] # 0 /\ scopes' = scopes \ {clone[Top.i]}
        /\ alive' = alive /\ seen' = seen /\ loads' = loads
        /\ token' = token /\ clone' = clone /\ dom' = dom /\ inFlight' = inFlight /\ jobs' = jobs
    BY DEF ClearScope, At, net
  <1>2. TypeOK /\ Fitted(stack) /\ Body
    BY DEF IInv
  <1>3. Those(stack) = {Top} \cup Those(Popped) /\ Top \in Those(stack) /\ FrameOK(Top)
    BY <1>1, <1>2, StackFacts, BodyParts
  <1>4. PICK x \in Includes : x = Top.i
    BY <1>1, <1>3 DEF FrameOK, Clears
  <1>5. PICK c : c = Frame("cleared", x, 0) /\ c \in FrameSet /\ c.at = "cleared" /\ c.i = x
    BY FrameFields
  <1>6. PICK w : w = UserFrame("destroyed") /\ w.at = "user"
    BY FrameFields
  <1>7. Those(stack') = {w, c} \cup Those(Popped)
    <2>1. w \in FrameSet /\ Continues(<<w, c>>)
      BY <1>4, <1>5, <1>6, FrameFields DEF ClearScope
    <2> QED BY <1>1, <1>2, <1>5, <2>1, Stacked
  <1>8. \A f \in Those(stack) : f.at # "mount"
    BY <1>1, <1>2, Below DEF Clears
  <1>9. /\ \A i : (Pending(i)' <=> Pending(i)) /\ (Clearing(i)' <=> Clearing(i) \/ i = x)
        /\ \A l : (Asked(l)' <=> Asked(l)) /\ ~Mounting(l) /\ ~Mounting(l)'
    BY <1>1, <1>3, <1>4, <1>5, <1>6, <1>7, <1>8 DEF Pending, Clearing, Asked, Mounting, Clears
  <1>10. \A l : (Waited(l)' <=> Waited(l)) /\ (Queued(l)' <=> Queued(l))
    BY <1>1 DEF Waited, Queued
  <1>11. NetOK'
    BY <1>1, <1>2 DEF Body, NetOK
  <1>12. ASSUME NEW f \in Those(stack') PROVE FrameOK(f)'
    <2>1. CASE f = w
      BY <1>6, <2>1 DEF FrameOK, Clears
    <2>2. CASE f = c
      <3>1. clone'[x] \notin scopes'
        BY <1>1, <1>4
      <3>2. x \notin alive \/ seen[x] = Empty \/ token[x] = 0 \/ Taken(token[x])
        BY <1>1, <1>3, <1>4 DEF FrameOK, Clears
      <3>3. x \notin alive' \/ seen'[x] = Empty \/ token'[x] = 0 \/ Taken(token[x])'
        BY <1>1, <1>9, <1>10, <3>2 DEF Taken
      <3> QED BY <1>1, <1>5, <2>2, <3>1, <3>3 DEF FrameOK, Taken, Clears
    <2>3. CASE f \in Those(Popped)
      <3>1. f \in Those(stack) /\ FrameOK(f) /\ f.at # "mount"
        BY <1>2, <1>3, <1>8, <2>3, BodyParts
      <3> QED BY <1>1, <1>9, <1>10, <3>1 DEF FrameOK, ForLoad, Wanted, Taken, Clears
    <2> QED BY <1>7, <1>12, <2>1, <2>2, <2>3
  <1>13. ASSUME NEW i \in Includes PROVE IncludeOK(i)'
    <2>1. IncludeOK(i) /\ IncludeOK(x)
      BY <1>2, BodyParts
    <2>2. i # x /\ clone[i] # 0 => clone[i] # clone[x]
      BY <1>1, <1>4, <2>1 DEF IncludeOK
    <2> QED BY <1>1, <1>4, <1>9, <1>10, <2>1, <2>2 DEF IncludeOK, Coming
  <1>14. ASSUME NEW l \in DOMAIN loads' PROVE LoadOK(l)'
    <2>1. LoadOK(l)
      BY <1>1, <1>2, <1>14, BodyParts
    <2> QED BY <1>1, <1>9, <1>10, <2>1 DEF LoadOK, Overtaken
  <1> QED BY <1>11, <1>12, <1>13, <1>14, BodyParts

\* The content leaves the document, and the slot is empty.
LEMMA ClearDoneBody ==
  ASSUME IInv, ClearDone
  PROVE  Body'
  <1>1. /\ stack # <<>> /\ Top.at = "cleared" /\ dom' = dom \ {clone[Top.i]}
        /\ token' = [token EXCEPT ![Top.i] = 0] /\ clone' = [clone EXCEPT ![Top.i] = 0]
        /\ alive' = alive /\ seen' = seen /\ loads' = loads
        /\ scopes' = scopes /\ inFlight' = inFlight /\ jobs' = jobs
    BY DEF ClearDone, At, net
  <1>2. TypeOK /\ Fitted(stack) /\ Body
    BY DEF IInv
  <1>3. Those(stack) = {Top} \cup Those(Popped) /\ Those(stack') = Those(Popped)
    BY <1>1, <1>2, StackFacts, Stacked DEF ClearDone
  <1>4. Top \in Those(stack) /\ FrameOK(Top)
    BY <1>2, <1>3, BodyParts
  <1>5. PICK x \in Includes : x = Top.i
    BY <1>1, <1>4 DEF FrameOK, Clears
  <1>6. /\ token'[x] = 0 /\ \A i \in Includes : i # x => token'[i] = token[i]
        /\ clone'[x] = 0 /\ \A i \in Includes : i # x => clone'[i] = clone[i]
    <2>1. token \in [Includes -> Nat] /\ clone \in [Includes -> Nat]
      BY <1>2, TypeFacts DEF TypeOK
    <2> QED BY <1>1, <1>5, <2>1
  <1>7. \A f \in Those(stack) : f.at # "mount"
    BY <1>1, <1>2, Below DEF Clears
  <1>8. /\ \A i : (Pending(i) => Pending(i)' \/ i = x) /\ (Pending(i)' => Pending(i))
        /\ \A i : (Clearing(i) => Clearing(i)' \/ i = x)
        /\ \A l : (Asked(l)' <=> Asked(l)) /\ ~Mounting(l) /\ ~Mounting(l)'
    BY <1>1, <1>3, <1>5, <1>7 DEF Pending, Clearing, Asked, Mounting, Clears
  <1>9. \A l : (Waited(l)' <=> Waited(l)) /\ (Queued(l)' <=> Queued(l))
    BY <1>1 DEF Waited, Queued
  <1>10. NetOK'
    BY <1>1, <1>2 DEF Body, NetOK
  <1>11. \A l \in DOMAIN loads : loads[l].i = x /\ token[x] = l /\ (Waited(l) \/ Asked(l)) =>
           x \notin alive \/ seen[x] = Empty
    BY <1>1, <1>4, <1>5, ClearReason DEF Clears
  <1>12. 0 \notin scopes /\ scopes \subseteq DOMAIN loads /\ clone[x] \notin scopes
    BY <1>1, <1>2, <1>4, <1>5, TypeFacts DEF TypeOK, FrameOK
  <1>13. ASSUME NEW f \in Those(stack') PROVE FrameOK(f)'
    <2>1. f \in Those(stack) /\ FrameOK(f)
      BY <1>2, <1>3, <1>13, BodyParts
    <2>2. CASE f.at \in Clears
      <3>1. f.i \in Includes
        BY <2>1, <2>2 DEF FrameOK
      <3>2. f.at = "cleared" => clone'[f.i] \notin scopes'
        BY <1>1, <1>6, <1>12, <2>1, <3>1 DEF FrameOK
      <3>3. (f.i \notin alive \/ seen[f.i] = Empty \/ token[f.i] = 0 \/ Taken(token[f.i]))'
        <4>1. CASE f.i = x
          BY <1>6, <4>1
        <4>2. CASE f.i # x
          <5>1. token'[f.i] = token[f.i]
            BY <1>6, <3>1, <4>2
          <5> QED BY <1>1, <1>8, <1>9, <2>1, <2>2, <5>1 DEF FrameOK, Taken
        <4> QED BY <4>1, <4>2
      <3> QED BY <2>2, <3>1, <3>2, <3>3 DEF FrameOK, Taken, Clears
    <2>3. CASE f.at = "request"
      <3>1. ForLoad(f) /\ loads[f.l].url = seen[f.i] /\ Asked(f.l)
        BY <2>1, <2>3 DEF FrameOK, Asked
      <3>2. seen[f.i] # Empty
        BY <1>2, <3>1, IncludeAssumption, TypeFacts DEF ForLoad
      <3> QED BY <1>1, <1>6, <1>8, <1>9, <1>11, <2>1, <2>3, <3>1, <3>2 DEF FrameOK, ForLoad, Clears
    <2>4. CASE f.at = "install"
      <3>1. ForLoad(f) /\ Wanted(f) /\ (Pending(f.i) \/ (token[f.i] = 0 /\ clone[f.i] = 0))
        BY <2>1, <2>4 DEF FrameOK
      <3>2. ForLoad(f)' /\ Wanted(f)'
        BY <1>1, <1>8, <1>9, <3>1 DEF ForLoad, Wanted, Taken
      <3>3. Pending(f.i)' \/ (token'[f.i] = 0 /\ clone'[f.i] = 0)
        BY <1>6, <1>8, <3>1 DEF ForLoad
      <3> QED BY <2>4, <3>2, <3>3 DEF FrameOK, Clears
    <2>5. CASE f.at \notin Clears \cup {"request", "install", "mount"}
      BY <2>5 DEF FrameOK, Clears
    <2> QED BY <1>7, <2>1, <2>2, <2>3, <2>4, <2>5
  <1>14. ASSUME NEW i \in Includes PROVE IncludeOK(i)'
    <2>1. IncludeOK(i) /\ IncludeOK(x)
      BY <1>2, BodyParts
    <2>2. i # x /\ clone[i] # 0 => clone[i] # clone[x]
      BY <2>1 DEF IncludeOK
    <2> QED BY <1>1, <1>5, <1>6, <1>8, <1>9, <2>1, <2>2 DEF IncludeOK, Coming
  <1>15. ASSUME NEW l \in DOMAIN loads' PROVE LoadOK(l)'
    <2>1. LoadOK(l) /\ l \in DOMAIN loads /\ loads[l].i \in Includes
      BY <1>1, <1>2, <1>15, BodyParts, TypeFacts
    <2>2. Waited(l) => token'[loads[l].i] = l \/ Overtaken(l)
      BY <1>6, <1>11, <2>1 DEF LoadOK, Overtaken
    <2>3. l \in scopes' => clone'[loads[l].i] = l
      BY <1>1, <1>6, <1>8, <1>12, <2>1 DEF LoadOK
    <2>4. l \in dom' => clone'[loads[l].i] = l
      BY <1>1, <1>5, <1>6, <2>1 DEF LoadOK
    <2> QED BY <1>1, <1>8, <1>9, <2>1, <2>2, <2>3, <2>4 DEF LoadOK, Overtaken
  <1> QED BY <1>10, <1>13, <1>14, <1>15, BodyParts

\* Where a digest runs its watches, nothing else of an include is in progress.
LEMMA DigestAlone ==
  ASSUME IInv, At("digest")
  PROVE  /\ \A f \in Those(stack) : f.at \in {"user", "digest"}
         /\ \A i : ~Pending(i) /\ ~Clearing(i)
         /\ \A l : ~Asked(l) /\ ~Mounting(l)
  <1>1. Those(stack) = {Top} \cup Those(Popped) /\ \A f \in Those(Popped) : f.at = "user"
    BY StackFacts, Below DEF IInv, At
  <1>2. \A f \in Those(stack) : f.at \in {"user", "digest"}
    BY <1>1 DEF At
  <1> QED BY <1>2 DEF Pending, Clearing, Asked, Mounting, Clears

\* The source is empty: the include is to be cleared.
LEMMA SourceClearedBody ==
  ASSUME IInv, NEW x \in Includes, SourceCleared(x)
  PROVE  Body'
  <1>1. /\ stack # <<>> /\ Top.at = "digest" /\ seen' = [seen EXCEPT ![x] = src[x]] /\ src[x] = Empty
        /\ alive' = alive /\ loads' = loads /\ token' = token
        /\ clone' = clone /\ scopes' = scopes /\ dom' = dom /\ inFlight' = inFlight /\ jobs' = jobs
    BY DEF SourceCleared, At, slot, net
  <1>2. TypeOK /\ Fitted(stack) /\ Body
    BY DEF IInv
  <1>3. PICK c : c = Frame("clear", x, 0) /\ c \in FrameSet /\ c.at = "clear" /\ c.i = x
    BY FrameFields
  <1>4. Those(stack') = {c} \cup Those(stack)
    BY <1>2, <1>3, Stacked DEF SourceCleared
  <1>5. /\ \A f \in Those(stack) : f.at \in {"user", "digest"}
        /\ \A i : ~Pending(i) /\ ~Clearing(i)
        /\ \A l : ~Asked(l) /\ ~Mounting(l)
    BY <1>1, DigestAlone DEF At
  <1>6. /\ \A i : (Pending(i)' <=> i = x) /\ ~Clearing(i)'
        /\ \A l : ~Asked(l)' /\ ~Mounting(l)'
    BY <1>3, <1>4, <1>5 DEF Pending, Clearing, Asked, Mounting, Clears
  <1>7. seen'[x] = Empty /\ \A i \in Includes : i # x => seen'[i] = seen[i]
    <2>1. seen \in [Includes -> URLs \cup {Empty, Unseen}]
      BY <1>2 DEF TypeOK
    <2> QED BY <1>1, <2>1
  <1>8. \A l : (Waited(l)' <=> Waited(l)) /\ (Queued(l)' <=> Queued(l))
    BY <1>1 DEF Waited, Queued
  <1>9. NetOK'
    BY <1>1, <1>2 DEF Body, NetOK
  <1>10. ASSUME NEW f \in Those(stack') PROVE FrameOK(f)'
    BY <1>3, <1>4, <1>5, <1>7, <1>10 DEF FrameOK, Clears
  <1>11. ASSUME NEW i \in Includes PROVE IncludeOK(i)'
    <2>1. IncludeOK(i)
      BY <1>2, BodyParts
    <2> QED BY <1>1, <1>5, <1>6, <1>7, <1>8, <2>1 DEF IncludeOK, Coming
  <1>12. ASSUME NEW l \in DOMAIN loads' PROVE LoadOK(l)'
    <2>1. LoadOK(l) /\ loads[l].i \in Includes
      BY <1>1, <1>2, <1>12, BodyParts, TypeFacts
    <2> QED BY <1>1, <1>5, <1>6, <1>7, <1>8, <2>1 DEF LoadOK, Overtaken
  <1> QED BY <1>9, <1>10, <1>11, <1>12, BodyParts

\* A load starts: the one before it is overtaken.
LEMMA SourceChangedBody ==
  ASSUME IInv, NEW x \in Includes, SourceChanged(x)
  PROVE  Body'
  <1>1. PICK n \in Nat, l \in Nat : n = Len(loads) /\ l = n + 1 /\ DOMAIN loads = 1 .. n
    <2>1. Len(loads) \in Nat /\ DOMAIN loads = 1 .. Len(loads)
      BY TypeFacts DEF IInv
    <2>2. Len(loads) + 1 \in Nat
      BY <2>1
    <2> QED BY <2>1, <2>2
  <1>2. /\ stack # <<>> /\ Top.at = "digest" /\ seen' = [seen EXCEPT ![x] = src[x]] /\ src[x] # Empty
        /\ x \in alive /\ loads' = Append(loads, [i |-> x, url |-> src[x]])
        /\ token' = [token EXCEPT ![x] = l]
        /\ alive' = alive /\ clone' = clone /\ scopes' = scopes /\ dom' = dom
        /\ inFlight' = inFlight /\ jobs' = jobs
    BY <1>1 DEF SourceChanged, Due, At, net
  <1>3. TypeOK /\ Fitted(stack) /\ Body
    BY DEF IInv
  <1>4. PICK c : c = Frame("request", x, l) /\ c \in FrameSet /\ c.at = "request" /\ c.i = x /\ c.l = l
    BY FrameFields
  <1>5. PICK w : w = UserFrame("requested") /\ w \in FrameSet /\ w.at = "user"
    BY FrameFields
  <1>6. Those(stack') = {w, c} \cup Those(stack)
    BY <1>1, <1>3, <1>4, <1>5, Stacked DEF SourceChanged
  <1>7. /\ \A f \in Those(stack) : f.at \in {"user", "digest"}
        /\ \A i : ~Pending(i) /\ ~Clearing(i)
        /\ \A k : ~Asked(k) /\ ~Mounting(k)
    BY <1>2, DigestAlone DEF At
  <1>8. /\ \A i : ~Pending(i)' /\ ~Clearing(i)'
        /\ \A k : (Asked(k)' <=> k = l) /\ ~Mounting(k)'
    BY <1>4, <1>5, <1>6, <1>7 DEF Pending, Clearing, Asked, Mounting, Clears
  <1>9. /\ seen'[x] = src[x] /\ \A i \in Includes : i # x => seen'[i] = seen[i]
        /\ token'[x] = l /\ \A i \in Includes : i # x => token'[i] = token[i]
    <2>1. seen \in [Includes -> URLs \cup {Empty, Unseen}] /\ token \in [Includes -> Nat]
      BY <1>3, TypeFacts DEF TypeOK
    <2> QED BY <1>2, <2>1
  <1>10. /\ DOMAIN loads' = 1 .. l /\ l \notin 1 .. n /\ l \in 1 .. l /\ l # 0
         /\ loads'[l].i = x /\ loads'[l].url = src[x]
         /\ \A k \in 1 .. n : loads'[k] = loads[k] /\ k \in 1 .. l /\ l > k
         /\ \A k \in 1 .. l : k = l \/ k \in 1 .. n
    <2>1. PICK R : R = [i : Includes, url : URLs]
      OBVIOUS
    <2>2. PICK r : r = [i |-> x, url |-> src[x]] /\ r \in R /\ r.i = x /\ r.url = src[x]
      <3>1. src[x] \in URLs
        BY <1>2, <1>3 DEF TypeOK
      <3>2. [i |-> x, url |-> src[x]] \in [i : Includes, url : URLs]
        BY <3>1
      <3>3. PICK r : r = [i |-> x, url |-> src[x]]
        OBVIOUS
      <3>4. r.i = x /\ r.url = src[x]
        BY <3>3
      <3> QED BY <2>1, <3>2, <3>3, <3>4
    <2>3. loads \in Seq(R)
      BY <1>3, <2>1 DEF TypeOK
    <2>4. /\ Append(loads, r) \in Seq(R) /\ Len(Append(loads, r)) = Len(loads) + 1
          /\ \A k \in 1 .. Len(loads) : Append(loads, r)[k] = loads[k]
          /\ Append(loads, r)[Len(loads) + 1] = r
      BY <2>2, <2>3, AppendFacts
    <2>5. DOMAIN Append(loads, r) = 1 .. Len(loads) + 1
      BY <2>4
    <2>6. l \notin 1 .. n /\ l \in 1 .. l /\ l # 0 /\ (\A k \in 1 .. n : k \in 1 .. l /\ l > k)
          /\ \A k \in 1 .. l : k = l \/ k \in 1 .. n
      BY <1>1
    <2> QED BY <1>1, <1>2, <2>2, <2>4, <2>5, <2>6
  <1>11. \A k : (Waited(k)' <=> Waited(k)) /\ (Queued(k)' <=> Queued(k))
    BY <1>2 DEF Waited, Queued
  <1>12. \A k : Waited(k) \/ Queued(k) => k \in 1 .. n
    <2>1. \A k : Waited(k) => k \in 1 .. n
      BY <1>1, <1>3, TypeFacts
    <2>2. \A k : Queued(k) => k \in 1 .. n
      BY <1>1, <1>3 DEF Body, NetOK, Queued
    <2> QED BY <2>1, <2>2
  <1>13. NetOK'
    <2>1. /\ \A u \in URLs : /\ inFlight[u].state # "none" => u \notin Untrusted
                             /\ \A k \in Those(inFlight[u].waiters) : loads[k].url = u
          /\ \A j \in Those(jobs) : IF j.kind = "fetched" THEN j.u \notin Untrusted
                                                          ELSE j.l \in 1 .. n
      BY <1>1, <1>3 DEF Body, NetOK
    <2>2. \A u \in URLs : \A k \in Those(inFlight[u].waiters) : k \in 1 .. n
      BY <1>1, <1>3, TypeFacts
    <2> QED BY <1>2, <1>10, <2>1, <2>2 DEF NetOK
  <1>14. ASSUME NEW f \in Those(stack') PROVE FrameOK(f)'
    <2>1. CASE f = c
      <3>1. ForLoad(f)'
        BY <1>4, <1>10, <2>1 DEF ForLoad
      <3>2. loads'[f.l].url = seen'[f.i] /\ token'[f.i] = f.l
        BY <1>4, <1>9, <1>10, <2>1
      <3>3. ~Waited(f.l)' /\ ~Queued(f.l)'
        BY <1>4, <1>10, <1>11, <1>12, <2>1
      <3> QED BY <1>4, <2>1, <3>1, <3>2, <3>3 DEF FrameOK, Clears
    <2>2. CASE f.at \in {"user", "digest"}
      BY <2>2 DEF FrameOK, Clears
    <2> QED BY <1>5, <1>6, <1>7, <1>14, <2>1, <2>2
  <1>15. ASSUME NEW i \in Includes PROVE IncludeOK(i)'
    <2>1. IncludeOK(i) /\ (clone[i] # 0 => clone[i] \in 1 .. n) /\ (token[i] # 0 => token[i] \in 1 .. n)
      BY <1>1, <1>3, BodyParts, TypeFacts
    <2>2. CASE i = x
      <3>1. clone'[i] # 0 => /\ loads'[clone[i]].i = i /\ clone[i] \in dom /\ clone[i] \in scopes
        BY <1>2, <1>7, <1>10, <2>1 DEF IncludeOK
      <3>2. token'[i] = l /\ loads'[l].i = i /\ loads'[l].url = seen'[i] /\ i \in alive' /\ l # 0
        BY <1>2, <1>9, <1>10, <2>2
      <3>3. Coming(token[i])'
        BY <1>8, <3>2 DEF Coming
      <3> QED BY <1>2, <3>1, <3>2, <3>3 DEF IncludeOK
    <2>3. CASE i # x
      <3>1. /\ token'[i] = token[i] /\ clone'[i] = clone[i] /\ seen'[i] = seen[i]
            /\ (token[i] # 0 => loads'[token[i]] = loads[token[i]])
            /\ (clone[i] # 0 => loads'[clone[i]] = loads[clone[i]])
        BY <1>2, <1>9, <1>10, <2>1, <2>3
      <3>2. Coming(token[i]) => Coming(token[i])'
        BY <1>7, <1>11, <3>1 DEF Coming
      <3> QED BY <1>2, <1>7, <1>8, <2>1, <3>1, <3>2 DEF IncludeOK
    <2> QED BY <2>2, <2>3
  <1>16. ASSUME NEW k \in DOMAIN loads' PROVE LoadOK(k)'
    <2>1. CASE k = l
      <3>1. ~Waited(k)' /\ k \notin scopes' /\ k \notin dom'
        BY <1>1, <1>2, <1>3, <1>10, <1>11, <1>12, <2>1 DEF TypeOK
      <3> QED BY <3>1 DEF LoadOK
    <2>2. CASE k \in 1 .. n
      <3>1. LoadOK(k) /\ loads'[k] = loads[k] /\ loads[k].i \in Includes /\ k \in DOMAIN loads
        BY <1>1, <1>3, <1>10, <2>2, BodyParts, TypeFacts
      <3>2. Waited(k) => token'[loads[k].i] = k \/ Overtaken(k)'
        <4>1. CASE loads[k].i = x
          <5>1. l \in DOMAIN loads' /\ l > k /\ loads'[l].i = loads'[k].i
            BY <1>10, <2>2, <3>1, <4>1
          <5> QED BY <5>1 DEF Overtaken
        <4>2. CASE loads[k].i # x
          <5>1. Overtaken(k) => Overtaken(k)'
            BY <1>1, <1>2, <1>9, <1>10, <3>1, <4>2 DEF Overtaken
          <5> QED BY <1>9, <3>1, <4>2, <5>1 DEF LoadOK
        <4> QED BY <4>1, <4>2
      <3> QED BY <1>2, <1>7, <1>11, <3>1, <3>2 DEF LoadOK
    <2> QED BY <1>10, <1>16, <2>1, <2>2
  <1> QED BY <1>13, <1>14, <1>15, <1>16, BodyParts

\* Where a request is made, the call for it is the only one of an include in progress.
LEMMA RequestAlone ==
  ASSUME IInv, At("request")
  PROVE  /\ Those(stack) = {Top} \cup Those(Popped) /\ ForLoad(Top) /\ FrameOK(Top)
         /\ \A f \in Those(Popped) : f.at \in {"user", "digest"}
         /\ \A i : ~Pending(i) /\ ~Clearing(i)
         /\ \A l : (Asked(l) <=> l = Top.l) /\ ~Mounting(l)
  <1>1. Those(stack) = {Top} \cup Those(Popped) /\ \A f \in Those(Popped) : f.at \in {"user", "digest"}
    BY StackFacts, Below DEF IInv, At
  <1>2. FrameOK(Top) /\ Top.at = "request"
    BY <1>1, BodyParts DEF IInv, At
  <1> QED BY <1>1, <1>2 DEF FrameOK, Pending, Clearing, Asked, Mounting, Clears

\* The URL is not trusted: the load fails.
LEMMA RequestRefusedBody ==
  ASSUME IInv, RequestRefused
  PROVE  Body'
  <1>1. /\ At("request") /\ stack # <<>> /\ Continues(Fails(Top.i))
        /\ alive' = alive /\ seen' = seen /\ loads' = loads /\ token' = token
        /\ clone' = clone /\ scopes' = scopes /\ dom' = dom /\ inFlight' = inFlight /\ jobs' = jobs
    BY DEF RequestRefused, At, slot, net
  <1>2. TypeOK /\ Fitted(stack) /\ Body
    BY DEF IInv
  <1>3. /\ Those(stack) = {Top} \cup Those(Popped) /\ ForLoad(Top) /\ FrameOK(Top) /\ Top.at = "request"
        /\ \A f \in Those(Popped) : f.at \in {"user", "digest"}
        /\ \A i : ~Pending(i) /\ ~Clearing(i)
        /\ \A l : (Asked(l) <=> l = Top.l) /\ ~Mounting(l)
    BY <1>1, RequestAlone DEF At
  <1>4. PICK x \in Includes, l \in DOMAIN loads :
          x = Top.i /\ l = Top.l /\ loads[l].i = x /\ ~Waited(l) /\ (x \notin alive \/ token[x] = l)
    BY <1>3 DEF FrameOK, ForLoad
  <1>5. PICK c : c = Frame("clear", x, 0) /\ c \in FrameSet /\ c.at = "clear" /\ c.i = x
    BY FrameFields
  <1>6. PICK w : w = UserFrame("failed") /\ w \in FrameSet /\ w.at = "user"
    BY FrameFields
  <1>7. Those(stack') = {w, c} \cup Those(Popped)
    BY <1>1, <1>2, <1>4, <1>5, <1>6, Stacked DEF Fails
  <1>8. /\ \A i : (Pending(i)' <=> i = x) /\ ~Clearing(i)'
        /\ \A k : ~Asked(k)' /\ ~Mounting(k)'
    BY <1>3, <1>5, <1>6, <1>7 DEF Pending, Clearing, Asked, Mounting, Clears
  <1>9. \A k : (Waited(k)' <=> Waited(k)) /\ (Queued(k)' <=> Queued(k))
    BY <1>1 DEF Waited, Queued
  <1>10. NetOK'
    BY <1>1, <1>2 DEF Body, NetOK
  <1>11. ASSUME NEW f \in Those(stack') PROVE FrameOK(f)'
    <2>1. CASE f = c
      BY <1>1, <1>4, <1>5, <1>8, <1>9, <2>1 DEF FrameOK, Taken, Clears
    <2>2. CASE f.at \in {"user", "digest"}
      BY <2>2 DEF FrameOK, Clears
    <2> QED BY <1>3, <1>6, <1>7, <1>11, <2>1, <2>2
  <1>12. ASSUME NEW i \in Includes PROVE IncludeOK(i)'
    <2>1. IncludeOK(i)
      BY <1>2, BodyParts
    <2>2. i # x /\ Asked(token[i]) => token[i] = 0
      BY <1>3, <1>4, <2>1 DEF IncludeOK
    <2> QED BY <1>1, <1>3, <1>8, <1>9, <2>1, <2>2 DEF IncludeOK, Coming
  <1>13. ASSUME NEW k \in DOMAIN loads' PROVE LoadOK(k)'
    <2>1. LoadOK(k)
      BY <1>1, <1>2, <1>13, BodyParts
    <2> QED BY <1>1, <1>3, <1>8, <1>9, <2>1 DEF LoadOK, Overtaken
  <1> QED BY <1>10, <1>11, <1>12, <1>13, BodyParts

\* The load waits for its template, or its answer is queued at once.
LEMMA RequestBody ==
  ASSUME IInv, Request
  PROVE  Body'
  <1>1. /\ At("request") /\ stack # <<>> /\ Continues(<<>>)
        /\ alive' = alive /\ seen' = seen /\ loads' = loads /\ token' = token
        /\ clone' = clone /\ scopes' = scopes /\ dom' = dom
    BY DEF Request, At, slot
  <1>2. TypeOK /\ Fitted(stack) /\ Body
    BY DEF IInv
  <1>3. /\ Those(stack) = {Top} \cup Those(Popped) /\ ForLoad(Top) /\ FrameOK(Top) /\ Top.at = "request"
        /\ \A f \in Those(Popped) : f.at \in {"user", "digest"}
        /\ \A i : ~Pending(i) /\ ~Clearing(i)
        /\ \A l : (Asked(l) <=> l = Top.l) /\ ~Mounting(l)
    BY <1>1, RequestAlone DEF At
  <1>4. PICK x \in Includes, l \in DOMAIN loads :
          /\ x = Top.i /\ l = Top.l /\ loads[l].i = x
          /\ ~Waited(l) /\ ~Queued(l) /\ (x \notin alive \/ token[x] = l)
    BY <1>3 DEF FrameOK, ForLoad
  <1>5. PICK u \in URLs : u = loads[l].url
    BY <1>2, TypeFacts
  <1>6. Those(stack') = Those(Popped)
    BY <1>1, <1>2, Stacked
  <1>7. /\ \A i : ~Pending(i)' /\ ~Clearing(i)'
        /\ \A k : ~Asked(k)' /\ ~Mounting(k)'
    BY <1>3, <1>6 DEF Pending, Clearing, Asked, Mounting, Clears
  <1>8. ASSUME NEW f \in Those(stack') PROVE FrameOK(f)'
    BY <1>3, <1>6, <1>8 DEF FrameOK, Clears
  \* What the request changes: a queued answer, or a waiter.
  <1>9. /\ \A k : (Waited(k)' \/ Queued(k)') <=> (Waited(k) \/ Queued(k) \/ k = l)
        /\ \A k : k # l => (Waited(k)' <=> Waited(k)) /\ (Queued(k)' <=> Queued(k))
        /\ ~(Waited(l)' /\ Queued(l)')
        /\ NetOK'
    <2>1. CASE u \in cached
      <3>1. PICK j : j = Job("deliver", l, u, "ok") /\ j.kind = "deliver" /\ j.l = l /\ j \in JobSet
        <4>1. l \in Nat
          BY <1>2, TypeFacts
        <4>2. Job("deliver", l, u, "ok") \in JobSet
          BY <1>5, <4>1 DEF Job, JobSet
        <4>3. Job("deliver", l, u, "ok").kind = "deliver" /\ Job("deliver", l, u, "ok").l = l
          BY DEF Job
        <4> QED BY <4>2, <4>3
      <3>2. inFlight' = inFlight /\ jobs' = Append(jobs, j)
        BY <1>4, <1>5, <2>1, <3>1 DEF Request
      <3>3. Those(jobs') = Those(jobs) \cup {j}
        <4>1. jobs \in Seq(JobSet)
          BY <1>2, TypeFacts
        <4> QED BY <3>1, <3>2, <4>1, AppendFacts
      <3>4. \A k : (Waited(k)' <=> Waited(k)) /\ (Queued(k)' <=> Queued(k) \/ k = l)
        BY <3>1, <3>2, <3>3 DEF Waited, Queued
      <3>5. NetOK'
        BY <1>1, <1>2, <1>4, <3>1, <3>2, <3>3 DEF Body, NetOK
      <3> QED BY <1>4, <3>4, <3>5
    <2>2. CASE u \notin cached
      <3>1. /\ jobs' = jobs
            /\ inFlight' = [inFlight EXCEPT ![u].waiters = Append(@, l),
                                            ![u].state = IF @ = "none" THEN "out" ELSE @]
            /\ u \notin Untrusted
        BY <1>4, <1>5, <2>2 DEF Request
      <3>2. PICK ws \in Seq(DOMAIN loads) : ws = inFlight[u].waiters
        BY <1>2, TypeFacts
      <3>3. inFlight'[u].waiters = Append(ws, l) /\ \A v \in URLs : v # u => inFlight'[v] = inFlight[v]
        <4>1. /\ inFlight \in FetchesTo(Len(loads))
          BY <1>2, TypeFacts, TypeParts
        <4> QED BY <3>1, <3>2, <4>1 DEF FetchesTo
      <3>4. Those(inFlight'[u].waiters) = Those(inFlight[u].waiters) \cup {l}
        BY <3>2, <3>3, AppendFacts
      <3>5. \A k : (Waited(k)' <=> Waited(k) \/ k = l) /\ (Queued(k)' <=> Queued(k))
        BY <3>1, <3>3, <3>4 DEF Waited, Queued
      <3>6. NetOK'
        BY <1>1, <1>2, <1>5, <3>1, <3>3, <3>4 DEF Body, NetOK
      <3> QED BY <1>4, <3>5, <3>6
    <2> QED BY <2>1, <2>2
  <1>10. ASSUME NEW i \in Includes PROVE IncludeOK(i)'
    <2>1. IncludeOK(i)
      BY <1>2, BodyParts
    <2>2. Coming(token[i]) => Coming(token[i])'
      BY <1>1, <1>3, <1>4, <1>9 DEF Coming
    <2> QED BY <1>1, <1>3, <1>7, <2>1, <2>2 DEF IncludeOK
  <1>11. ASSUME NEW k \in DOMAIN loads' PROVE LoadOK(k)'
    <2>1. LoadOK(k)
      BY <1>1, <1>2, <1>11, BodyParts
    <2>2. k = l => token[x] = k \/ Overtaken(k)
      BY <1>4 DEF Overtaken
    <2>3. Waited(k)' => ~Queued(k)' /\ (token[loads[k].i] = k \/ Overtaken(k))
      BY <1>4, <1>9, <2>1, <2>2 DEF LoadOK
    <2> QED BY <1>1, <1>3, <1>7, <2>1, <2>3 DEF LoadOK, Overtaken
  <1> QED BY <1>8, <1>9, <1>10, <1>11, BodyParts

-----------------------------------------------------------------------------
(* The network, and the jobs                                                *)

\* Between calls, nothing of an include is in progress.
LEMMA NothingCalled ==
  ASSUME stack = <<>>
  PROVE  /\ Those(stack) = {}
         /\ \A i : ~Pending(i) /\ ~Clearing(i)
         /\ \A l : ~Asked(l) /\ ~Mounting(l)
  <1>1. Those(stack) = {}
    <2>1. DOMAIN <<>> = {}
      OBVIOUS
    <2> QED BY <2>1 DEF Those
  <1> QED BY <1>1 DEF Pending, Clearing, Asked, Mounting

\* The invariant, where nothing is called before or after.
LEMMA UncalledBody ==
  ASSUME TypeOK, Body, stack = <<>>, stack' = <<>>, UNCHANGED <<seen, alive, loads, slot>>, NetOK',
         \A l : (Waited(l)' \/ Queued(l)') <=> (Waited(l) \/ Queued(l)),
         \A l \in DOMAIN loads : Waited(l)' => Waited(l) /\ ~Queued(l)'
  PROVE  Body'
  <1>1. /\ seen' = seen /\ alive' = alive /\ loads' = loads /\ token' = token /\ clone' = clone
        /\ scopes' = scopes /\ dom' = dom
    BY DEF slot
  <1>2. /\ Those(stack) = {} /\ Those(stack') = {}
        /\ \A i : ~Pending(i) /\ ~Clearing(i) /\ ~Pending(i)' /\ ~Clearing(i)'
        /\ \A l : ~Asked(l) /\ ~Mounting(l) /\ ~Asked(l)' /\ ~Mounting(l)'
    <2>1. Those(stack) = {} /\ Those(stack') = {}
      <3>1. DOMAIN <<>> = {}
        OBVIOUS
      <3> QED BY <3>1 DEF Those
    <2> QED BY <2>1 DEF Pending, Clearing, Asked, Mounting
  <1>3. ASSUME NEW i \in Includes PROVE IncludeOK(i)'
    <2>1. IncludeOK(i)
      BY BodyParts
    <2> QED BY <1>1, <1>2, <2>1 DEF IncludeOK, Coming
  <1>4. ASSUME NEW l \in DOMAIN loads' PROVE LoadOK(l)'
    <2>1. LoadOK(l) /\ l \in DOMAIN loads
      BY <1>1, <1>4, BodyParts
    <2> QED BY <1>1, <1>2, <2>1 DEF LoadOK, Overtaken
  <1> QED BY <1>2, <1>3, <1>4, BodyParts

\* A fetch is answered.
LEMMA FetchSettlesBody ==
  ASSUME IInv, NEW u \in URLs, NEW o \in {"ok", "fail"}, FetchSettles(u, o)
  PROVE  Body'
  <1>1. /\ stack = <<>> /\ stack' = <<>> /\ jobs = <<>> /\ inFlight[u].state = "out"
        /\ inFlight' = [inFlight EXCEPT ![u].state = "settled"]
        /\ jobs' = Append(jobs, Job("fetched", 0, u, o))
        /\ UNCHANGED <<seen, alive, loads, slot>>
    BY DEF FetchSettles
  <1>2. TypeOK /\ Body /\ NetOK
    BY DEF IInv, Body
  <1>3. PICK j : j = Job("fetched", 0, u, o) /\ j.kind = "fetched" /\ j.u = u /\ j \in JobSet
    <2>1. Job("fetched", 0, u, o) \in JobSet
      BY DEF Job, JobSet
    <2>2. Job("fetched", 0, u, o).kind = "fetched" /\ Job("fetched", 0, u, o).u = u
      BY DEF Job
    <2> QED BY <2>1, <2>2
  <1>4. Those(jobs') = Those(jobs) \cup {j}
    <2>1. jobs \in Seq(JobSet)
      BY <1>2, TypeFacts
    <2>2. jobs' = Append(jobs, j)
      BY <1>1, <1>3
    <2>3. Those(Append(jobs, j)) = Those(jobs) \cup {j}
      BY <1>3, <2>1, AppendFacts
    <2> QED BY <2>2, <2>3
  <1>5. \A v \in URLs : /\ inFlight'[v].waiters = inFlight[v].waiters
                        /\ v # u => inFlight'[v] = inFlight[v]
    <2>1. inFlight \in FetchesTo(Len(loads))
      BY <1>2, TypeFacts, TypeParts
    <2> QED BY <1>1, <2>1 DEF FetchesTo
  <1>6. \A l : (Waited(l)' <=> Waited(l)) /\ (Queued(l)' <=> Queued(l))
    BY <1>3, <1>4, <1>5 DEF Waited, Queued
  <1>7. u \notin Untrusted
    BY <1>1, <1>2 DEF NetOK
  <1>8. NetOK'
    BY <1>1, <1>2, <1>3, <1>4, <1>5, <1>7 DEF NetOK
  <1>9. \A l \in DOMAIN loads : Waited(l) => ~Queued(l)
    BY <1>2, BodyParts DEF LoadOK
  <1> QED BY <1>1, <1>2, <1>6, <1>8, <1>9, UncalledBody

\* The jobs that deliver a text to those who wait for it.
LEMMA Delivered ==
  ASSUME NEW w \in Seq(Nat), NEW u \in URLs, NEW o \in {"ok", "fail"},
         NEW d, d = [k \in DOMAIN w |-> Job("deliver", w[k], u, o)]
  PROVE  d \in Seq(JobSet) /\ Those(d) = {Job("deliver", l, u, o) : l \in Those(w)}
  <1>1. PICK n \in Nat : n = Len(w) /\ DOMAIN w = 1 .. n
    OBVIOUS
  <1>2. \A k \in 1 .. n : w[k] \in Nat
    <2>1. \A k \in DOMAIN w : w[k] \in Nat
      OBVIOUS
    <2> QED BY <1>1, <2>1
  <1>3. \A k \in 1 .. n : Job("deliver", w[k], u, o) \in JobSet
    BY <1>2 DEF Job, JobSet
  <1>4. d = [k \in 1 .. n |-> Job("deliver", w[k], u, o)]
    BY <1>1
  <1>5. d \in Seq(JobSet)
    BY <1>3, <1>4
  <1>6. Those(d) = {Job("deliver", l, u, o) : l \in Those(w)}
    BY <1>1, <1>4 DEF Those
  <1> QED BY <1>1, <1>4, <1>5, <1>6

\* A text arrives, and those who wait for it are to be told.
LEMMA FetchedBody ==
  ASSUME IInv, Fetched
  PROVE  Body'
  <1>1. /\ stack = <<>> /\ stack' = <<>> /\ jobs # <<>> /\ jobs[1].kind = "fetched"
        /\ UNCHANGED <<seen, alive, loads, slot>> /\ loads' = loads
    BY DEF Fetched, Running
  <1>2. TypeOK /\ Body /\ NetOK /\ jobs \in Seq(JobSet)
    BY TypeFacts DEF IInv, Body
  <1>3. /\ Tail(jobs) \in Seq(JobSet) /\ jobs[1] \in JobSet
        /\ Those(jobs) = {jobs[1]} \cup Those(Tail(jobs))
    BY <1>1, <1>2, TailFacts
  <1>4. PICK u \in URLs, o \in {"ok", "fail"} : u = jobs[1].u /\ o = jobs[1].o
    BY <1>3 DEF JobSet
  <1>5. PICK w \in Seq(DOMAIN loads) : w = inFlight[u].waiters
    BY <1>2, TypeFacts
  <1>6. Those(jobs') = Those(Tail(jobs)) \cup {Job("deliver", l, u, o) : l \in Those(w)}
    <2>1. w \in Seq(Nat)
      <3>1. DOMAIN loads \subseteq Nat
        BY <1>2, TypeFacts
      <3> QED BY <3>1, SeqMonotonic
    <2>2. PICK d : d = [k \in DOMAIN w |-> Job("deliver", w[k], u, o)]
      OBVIOUS
    <2>3. d \in Seq(JobSet) /\ Those(d) = {Job("deliver", l, u, o) : l \in Those(w)}
      BY <2>1, <2>2, Delivered
    <2>4. jobs' = Tail(jobs) \o d
      BY <1>4, <1>5, <2>2 DEF Fetched
    <2>5. Those(Tail(jobs) \o d) = Those(Tail(jobs)) \cup Those(d)
      <3>1. PICK q \in Seq(JobSet), e \in Seq(JobSet) : q = Tail(jobs) /\ e = d
        BY <1>3, <2>3
      <3>2. Those(q \o e) = Those(q) \cup Those(e)
        BY ConcatFacts
      <3> QED BY <3>1, <3>2
    <2> QED BY <2>3, <2>4, <2>5
  <1>7. inFlight'[u] = NoFetch /\ \A v \in URLs : v # u => inFlight'[v] = inFlight[v]
    <2>1. inFlight \in FetchesTo(Len(loads)) /\ inFlight' = [inFlight EXCEPT ![u] = NoFetch]
      BY <1>2, <1>4, TypeFacts, TypeParts DEF Fetched
    <2> QED BY <2>1 DEF FetchesTo
  <1>8. NoFetch.state = "none" /\ Those(NoFetch.waiters) = {}
    <2>1. DOMAIN <<>> = {}
      OBVIOUS
    <2> QED BY <2>1 DEF NoFetch, Those
  <1>9. \A l : Queued(l)' <=> Queued(l) \/ l \in Those(w)
    <2>1. \A l : Job("deliver", l, u, o).kind = "deliver" /\ Job("deliver", l, u, o).l = l
      BY DEF Job
    <2> QED BY <1>1, <1>3, <1>6, <2>1 DEF Queued
  <1>10. \A l : Waited(l)' <=> \E v \in URLs : v # u /\ l \in Those(inFlight[v].waiters)
    BY <1>7, <1>8 DEF Waited
  <1>11. \A v \in URLs : \A l \in Those(inFlight[v].waiters) : loads[l].url = v
    BY <1>2 DEF NetOK
  <1>12. NetOK'
    <2>1. \A l \in Those(w) : l \in DOMAIN loads
      BY <1>2, <1>5, TypeFacts
    <2>2. \A l : Job("deliver", l, u, o).kind = "deliver" /\ Job("deliver", l, u, o).l = l
      BY DEF Job
    <2>3. \A j \in Those(jobs') : IF j.kind = "fetched" THEN j.u \notin Untrusted
                                                       ELSE j.l \in DOMAIN loads
      BY <1>2, <1>3, <1>6, <2>1, <2>2 DEF NetOK
    <2>4. \A v \in URLs : /\ inFlight'[v].state # "none" => v \notin Untrusted
                          /\ \A l \in Those(inFlight'[v].waiters) : loads[l].url = v
      BY <1>2, <1>7, <1>8 DEF NetOK
    <2> QED BY <1>1, <2>3, <2>4 DEF NetOK
  <1>13. \A l : (Waited(l)' \/ Queued(l)') <=> (Waited(l) \/ Queued(l))
    BY <1>5, <1>9, <1>10 DEF Waited
  <1>14. \A l \in DOMAIN loads : Waited(l) => ~Queued(l)
    BY <1>2, BodyParts DEF LoadOK
  <1>15. ASSUME NEW l \in DOMAIN loads, Waited(l)' PROVE Waited(l) /\ ~Queued(l)'
    <2>1. PICK v \in URLs : v # u /\ l \in Those(inFlight[v].waiters)
      BY <1>10, <1>15
    <2>2. l \notin Those(w)
      BY <1>5, <1>11, <2>1
    <2>3. Waited(l)
      BY <2>1 DEF Waited
    <2> QED BY <1>9, <1>14, <2>2, <2>3
  <1> QED BY <1>1, <1>2, <1>12, <1>13, <1>15, UncalledBody

\* An answer is taken from the queue.
LEMMA Delivery ==
  ASSUME IInv, NEW l \in DOMAIN loads, Delivering(l)
  PROVE  /\ stack = <<>>
         /\ alive' = alive /\ seen' = seen /\ loads' = loads /\ token' = token /\ clone' = clone
         /\ scopes' = scopes /\ dom' = dom
         /\ \A k : (Waited(k)' <=> Waited(k)) /\ (Queued(k)' => Queued(k))
                                              /\ (Queued(k) => Queued(k)' \/ k = l)
         /\ ~Waited(l) /\ NetOK'
  <1>1. /\ stack = <<>> /\ jobs # <<>> /\ jobs[1].kind = "deliver" /\ jobs[1].l = l /\ jobs' = Tail(jobs)
        /\ alive' = alive /\ seen' = seen /\ loads' = loads /\ token' = token /\ clone' = clone
        /\ scopes' = scopes /\ dom' = dom /\ inFlight' = inFlight
    BY DEF Delivering, Running, slot
  <1>2. TypeOK /\ Body /\ NetOK /\ jobs \in Seq(JobSet)
    BY TypeFacts DEF IInv, Body
  <1>3. Those(jobs) = {jobs[1]} \cup Those(jobs')
    BY <1>1, <1>2, TailFacts
  <1>4. \A k : (Waited(k)' <=> Waited(k)) /\ (Queued(k)' => Queued(k))
                                          /\ (Queued(k) => Queued(k)' \/ k = l)
    BY <1>1, <1>3 DEF Waited, Queued
  <1>5. ~Waited(l)
    <2>1. Queued(l)
      BY <1>1, <1>3 DEF Queued
    <2> QED BY <1>2, <2>1, BodyParts DEF LoadOK
  <1>6. NetOK'
    BY <1>1, <1>2, <1>3 DEF NetOK
  <1> QED BY <1>1, <1>4, <1>5, <1>6

\* The answer is not for the latest load, or the slot was cleared since: it is dropped.
LEMMA DeliverStaleBody ==
  ASSUME IInv, NEW l \in DOMAIN loads, Delivering(l), ~Current(l), stack' = stack
  PROVE  Body'
  <1>1. /\ stack = <<>>
        /\ alive' = alive /\ seen' = seen /\ loads' = loads /\ token' = token /\ clone' = clone
        /\ scopes' = scopes /\ dom' = dom
        /\ \A k : (Waited(k)' <=> Waited(k)) /\ (Queued(k)' => Queued(k))
                                             /\ (Queued(k) => Queued(k)' \/ k = l)
        /\ NetOK'
    BY Delivery
  <1>2. TypeOK /\ Body
    BY DEF IInv
  <1>3. /\ Those(stack) = {} /\ Those(stack') = {}
        /\ \A i : ~Pending(i) /\ ~Clearing(i) /\ ~Pending(i)' /\ ~Clearing(i)'
        /\ \A k : ~Asked(k) /\ ~Mounting(k) /\ ~Asked(k)' /\ ~Mounting(k)'
    <2>1. Those(stack) = {} /\ Those(stack') = {}
      BY <1>1, NothingCalled
    <2> QED BY <2>1 DEF Pending, Clearing, Asked, Mounting
  <1>4. ASSUME NEW i \in Includes PROVE IncludeOK(i)'
    <2>1. IncludeOK(i)
      BY <1>2, BodyParts
    <2>2. token[i] # 0 => token[i] # l
      BY <2>1 DEF IncludeOK, Current
    <2> QED BY <1>1, <1>3, <2>1, <2>2 DEF IncludeOK, Coming
  <1>5. ASSUME NEW k \in DOMAIN loads' PROVE LoadOK(k)'
    <2>1. LoadOK(k)
      BY <1>1, <1>2, <1>5, BodyParts
    <2> QED BY <1>1, <1>3, <2>1 DEF LoadOK, Overtaken
  <1> QED BY <1>1, <1>3, <1>4, <1>5, BodyParts

\* The answer is for the load whose token the slot has: the slot is to be cleared,
\* and a text that has come is to be installed then.
LEMMA DeliverCurrentBody ==
  ASSUME IInv, NEW l \in DOMAIN loads, Delivering(l), Current(l),
         NEW w \in FrameSet, NEW c \in FrameSet, c.at = "clear", c.i = loads[l].i,
         w.at = "user" \/ (w.at = "install" /\ w.i = loads[l].i /\ w.l = l),
         Those(stack') = {w, c}
  PROVE  Body'
  <1>1. /\ stack = <<>>
        /\ alive' = alive /\ seen' = seen /\ loads' = loads /\ token' = token /\ clone' = clone
        /\ scopes' = scopes /\ dom' = dom
        /\ \A k : (Waited(k)' <=> Waited(k)) /\ (Queued(k)' => Queued(k))
                                             /\ (Queued(k) => Queued(k)' \/ k = l)
        /\ ~Waited(l) /\ NetOK'
    BY Delivery
  <1>2. TypeOK /\ Body
    BY DEF IInv
  <1>3. PICK x \in Includes : x = loads[l].i /\ token[x] = l /\ l # 0
    BY <1>2, TypeFacts DEF Current
  <1>4. /\ \A i : ~Pending(i) /\ ~Clearing(i)
        /\ \A k : ~Asked(k) /\ ~Mounting(k)
    BY <1>1, NothingCalled
  <1>5. /\ \A i : (Pending(i)' <=> i = x) /\ ~Clearing(i)'
        /\ \A k : ~Asked(k)' /\ ~Mounting(k)'
    BY <1>3 DEF Pending, Clearing, Asked, Mounting, Clears
  <1>6. x \in alive /\ loads[l].url = seen[x]
    BY <1>2, <1>3, <1>4, BodyParts DEF IncludeOK
  <1>7. ASSUME NEW f \in Those(stack') PROVE FrameOK(f)'
    <2>1. CASE f = c
      BY <1>1, <1>3, <1>5, <2>1 DEF FrameOK, Taken, Clears
    <2>2. CASE f = w /\ w.at = "user"
      BY <2>2 DEF FrameOK, Clears
    <2>3. CASE f = w /\ w.at = "install" /\ w.i = loads[l].i /\ w.l = l
      BY <1>1, <1>3, <1>5, <1>6, <2>3 DEF FrameOK, ForLoad, Wanted, Taken, Clears
    <2> QED BY <1>7, <2>1, <2>2, <2>3
  <1>8. ASSUME NEW i \in Includes PROVE IncludeOK(i)'
    <2>1. IncludeOK(i)
      BY <1>2, BodyParts
    <2>2. i # x => token[i] # l
      BY <1>3, <2>1 DEF IncludeOK
    <2> QED BY <1>1, <1>4, <1>5, <2>1, <2>2 DEF IncludeOK, Coming
  <1>9. ASSUME NEW k \in DOMAIN loads' PROVE LoadOK(k)'
    <2>1. LoadOK(k)
      BY <1>1, <1>2, <1>9, BodyParts
    <2> QED BY <1>1, <1>4, <1>5, <2>1 DEF LoadOK, Overtaken
  <1> QED BY <1>1, <1>7, <1>8, <1>9, BodyParts

LEMMA DeliverBody ==
  ASSUME IInv, DeliverStale \/ DeliverFailure \/ DeliverContent
  PROVE  Body'
  <1>1. TypeOK /\ Those(<<>>) = {}
    <2>1. DOMAIN <<>> = {}
      OBVIOUS
    <2> QED BY <2>1 DEF IInv, Those
  <1>2. CASE DeliverStale
    BY <1>2, DeliverStaleBody DEF DeliverStale
  <1>3. CASE DeliverFailure
    <2>1. PICK l \in DOMAIN loads : Delivering(l) /\ Current(l) /\ Calls(Fails(loads[l].i))
      BY <1>3 DEF DeliverFailure
    <2>2. loads[l].i \in Includes
      BY <1>1, TypeFacts
    <2>3. PICK w \in FrameSet, c \in FrameSet :
            /\ w = UserFrame("failed") /\ c = Frame("clear", loads[l].i, 0)
            /\ w.at = "user" /\ c.at = "clear" /\ c.i = loads[l].i
      BY <2>2, FrameFields
    <2>4. Those(stack') = {w, c}
      BY <1>1, <2>1, <2>3, Stacked DEF Fails, Delivering, Running
    <2> QED BY <2>1, <2>3, <2>4, DeliverCurrentBody
  <1>4. CASE DeliverContent
    <2>1. PICK l \in DOMAIN loads :
            /\ Delivering(l) /\ Current(l)
            /\ Calls(<<Frame("clear", loads[l].i, 0), Frame("install", loads[l].i, l)>>)
      BY <1>4 DEF DeliverContent
    <2>2. loads[l].i \in Includes /\ l \in Nat
      BY <1>1, TypeFacts
    <2>3. PICK w \in FrameSet, c \in FrameSet :
            /\ w = Frame("install", loads[l].i, l) /\ c = Frame("clear", loads[l].i, 0)
            /\ w.at = "install" /\ w.i = loads[l].i /\ w.l = l /\ c.at = "clear" /\ c.i = loads[l].i
      BY <2>2, FrameFields
    <2>4. Those(stack') = {w, c}
      BY <1>1, <2>1, <2>3, Stacked DEF Delivering, Running
    <2> QED BY <2>1, <2>3, <2>4, DeliverCurrentBody
  <1> QED BY <1>2, <1>3, <1>4

\* The call on top that installs or mounts content is the only one.
LEMMA ContentAlone ==
  ASSUME IInv, stack # <<>>, Top.at \in {"install", "mount"}
  PROVE  /\ Those(stack) = {Top} /\ Those(Popped) = {} /\ ForLoad(Top) /\ Wanted(Top) /\ FrameOK(Top)
         /\ \A i : ~Pending(i) /\ ~Clearing(i)
         /\ \A l : ~Asked(l) /\ (Mounting(l) <=> Top.at = "mount" /\ l = Top.l)
  <1>1. Those(stack) = {Top} \cup Those(Popped) /\ Popped = <<>>
    BY StackFacts, Below DEF IInv
  <1>2. Those(Popped) = {}
    <2>1. DOMAIN <<>> = {}
      OBVIOUS
    <2> QED BY <1>1, <2>1 DEF Those
  <1>3. FrameOK(Top)
    BY <1>1, BodyParts DEF IInv
  <1> QED BY <1>1, <1>2, <1>3 DEF FrameOK, Pending, Clearing, Asked, Mounting, Clears

\* The content gets its scope.
LEMMA InstallBody ==
  ASSUME IInv, Install
  PROVE  Body'
  <1>1. /\ stack # <<>> /\ Top.at = "install" /\ token' = [token EXCEPT ![Top.i] = Top.l]
        /\ scopes' = scopes \cup {Top.l}
        /\ alive' = alive /\ seen' = seen /\ loads' = loads /\ clone' = clone /\ dom' = dom
        /\ inFlight' = inFlight /\ jobs' = jobs
    BY DEF Install, At, net
  <1>2. TypeOK /\ Fitted(stack) /\ Body
    BY DEF IInv
  <1>3. /\ Those(stack) = {Top} /\ Those(Popped) = {} /\ ForLoad(Top) /\ Wanted(Top) /\ FrameOK(Top)
        /\ \A i : ~Pending(i) /\ ~Clearing(i)
        /\ \A l : ~Asked(l) /\ ~Mounting(l)
    BY <1>1, ContentAlone
  <1>4. PICK x \in Includes, l \in DOMAIN loads :
          /\ x = Top.i /\ l = Top.l /\ loads[l].i = x /\ loads[l].url = seen[x] /\ x \in alive
          /\ Taken(l) /\ token[x] = 0 /\ clone[x] = 0 /\ l # 0 /\ l \in Nat
    BY <1>1, <1>2, <1>3, TypeFacts DEF FrameOK, ForLoad, Wanted
  <1>5. PICK c \in FrameSet : c = Frame("mount", x, l) /\ c.at = "mount" /\ c.i = x /\ c.l = l
    BY <1>4, FrameFields
  <1>6. PICK w \in FrameSet : w = UserFrame("linked") /\ w.at = "user"
    BY FrameFields
  <1>7. Those(stack') = {w, c}
    <2>1. Continues(<<w, c>>)
      BY <1>4, <1>5, <1>6 DEF Install
    <2> QED BY <1>1, <1>2, <1>3, <2>1, Stacked
  <1>8. /\ \A i : ~Pending(i)' /\ ~Clearing(i)'
        /\ \A k : ~Asked(k)' /\ (Mounting(k)' <=> k = l)
    BY <1>5, <1>6, <1>7 DEF Pending, Clearing, Asked, Mounting, Clears
  <1>9. \A k : (Waited(k)' <=> Waited(k)) /\ (Queued(k)' <=> Queued(k))
    BY <1>1 DEF Waited, Queued
  <1>10. NetOK'
    BY <1>1, <1>2 DEF Body, NetOK
  <1>11. token'[x] = l /\ \A i \in Includes : i # x => token'[i] = token[i]
    <2>1. token \in [Includes -> Nat]
      BY <1>2, TypeFacts DEF TypeOK
    <2> QED BY <1>1, <1>4, <2>1
  <1>12. ASSUME NEW f \in Those(stack') PROVE FrameOK(f)'
    <2>1. CASE f = w
      BY <1>6, <2>1 DEF FrameOK, Clears
    <2>2. CASE f = c
      BY <1>1, <1>4, <1>5, <1>8, <1>9, <1>11, <2>2 DEF FrameOK, ForLoad, Wanted, Taken, Clears
    <2> QED BY <1>7, <1>12, <2>1, <2>2
  <1>13. ASSUME NEW i \in Includes PROVE IncludeOK(i)'
    <2>1. IncludeOK(i)
      BY <1>2, BodyParts
    <2>2. CASE i = x
      BY <1>1, <1>4, <1>8, <1>11, <2>2 DEF IncludeOK, Coming
    <2>3. CASE i # x
      BY <1>1, <1>3, <1>8, <1>9, <1>11, <2>1, <2>3 DEF IncludeOK, Coming
    <2> QED BY <2>2, <2>3
  <1>14. ASSUME NEW k \in DOMAIN loads' PROVE LoadOK(k)'
    <2>1. LoadOK(k) /\ loads[k].i \in Includes /\ k # 0
      BY <1>1, <1>2, <1>14, BodyParts, TypeFacts
    <2>2. Waited(k) => token'[loads[k].i] = k \/ Overtaken(k)
      BY <1>4, <1>11, <2>1 DEF LoadOK
    <2> QED BY <1>1, <1>3, <1>4, <1>8, <1>9, <2>1, <2>2 DEF LoadOK, Overtaken
  <1> QED BY <1>10, <1>12, <1>13, <1>14, BodyParts

\* The content is in its place.
LEMMA MountBody ==
  ASSUME IInv, Mount
  PROVE  Body'
  <1>1. /\ stack # <<>> /\ Top.at = "mount" /\ clone' = [clone EXCEPT ![Top.i] = Top.l]
        /\ dom' = dom \cup {Top.l}
        /\ alive' = alive /\ seen' = seen /\ loads' = loads /\ token' = token /\ scopes' = scopes
        /\ inFlight' = inFlight /\ jobs' = jobs
    BY DEF Mount, At, net
  <1>2. TypeOK /\ Fitted(stack) /\ Body
    BY DEF IInv
  <1>3. /\ Those(stack) = {Top} /\ Those(Popped) = {} /\ ForLoad(Top) /\ Wanted(Top) /\ FrameOK(Top)
        /\ \A i : ~Pending(i) /\ ~Clearing(i)
        /\ \A k : ~Asked(k) /\ (Mounting(k) <=> k = Top.l)
    BY <1>1, ContentAlone
  <1>4. PICK x \in Includes, l \in DOMAIN loads :
          /\ x = Top.i /\ l = Top.l /\ loads[l].i = x /\ loads[l].url = seen[x] /\ x \in alive
          /\ token[x] = l /\ clone[x] = 0 /\ l # 0 /\ l \in Nat /\ l \in scopes
    BY <1>1, <1>2, <1>3, TypeFacts DEF FrameOK, ForLoad, Wanted
  <1>5. PICK w \in FrameSet : w = UserFrame("loaded") /\ w.at = "user"
    BY FrameFields
  <1>6. Those(stack') = {w}
    <2>1. Continues(<<w>>)
      BY <1>5 DEF Mount
    <2> QED BY <1>1, <1>2, <1>3, <2>1, Stacked
  <1>7. /\ \A i : ~Pending(i)' /\ ~Clearing(i)'
        /\ \A k : ~Asked(k)' /\ ~Mounting(k)'
    BY <1>5, <1>6 DEF Pending, Clearing, Asked, Mounting, Clears
  <1>8. \A k : (Waited(k)' <=> Waited(k)) /\ (Queued(k)' <=> Queued(k))
    BY <1>1 DEF Waited, Queued
  <1>9. NetOK'
    BY <1>1, <1>2 DEF Body, NetOK
  <1>10. clone'[x] = l /\ \A i \in Includes : i # x => clone'[i] = clone[i]
    <2>1. clone \in [Includes -> Nat]
      BY <1>2, TypeFacts DEF TypeOK
    <2> QED BY <1>1, <1>4, <2>1
  <1>11. ASSUME NEW f \in Those(stack') PROVE FrameOK(f)'
    BY <1>5, <1>6, <1>11 DEF FrameOK, Clears
  <1>12. ASSUME NEW i \in Includes PROVE IncludeOK(i)'
    <2>1. IncludeOK(i)
      BY <1>2, BodyParts
    <2>2. CASE i = x
      BY <1>1, <1>4, <1>10, <2>2 DEF IncludeOK
    <2>3. CASE i # x
      <3>1. token[i] # 0 => token[i] # l
        BY <1>4, <2>1, <2>3 DEF IncludeOK
      <3> QED BY <1>1, <1>3, <1>4, <1>7, <1>8, <1>10, <2>1, <2>3, <3>1 DEF IncludeOK, Coming
    <2> QED BY <2>2, <2>3
  <1>13. ASSUME NEW k \in DOMAIN loads' PROVE LoadOK(k)'
    <2>1. LoadOK(k) /\ loads[k].i \in Includes /\ k # 0
      BY <1>1, <1>2, <1>13, BodyParts, TypeFacts
    <2>2. clone[loads[k].i] = k \/ k = l => clone'[loads[k].i] = k
      BY <1>4, <1>10, <2>1
    <2> QED BY <1>1, <1>3, <1>4, <1>7, <1>8, <2>1, <2>2 DEF LoadOK, Overtaken
  <1> QED BY <1>9, <1>11, <1>12, <1>13, BodyParts

\* Compiling the content throws: its scope goes, and the load has failed.
LEMMA CompileThrowsBody ==
  ASSUME IInv, CompileThrows
  PROVE  Body'
  <1>1. /\ stack # <<>> /\ Top.at = "mount" /\ scopes' = scopes \ {Top.l} /\ Continues(Fails(Top.i))
        /\ alive' = alive /\ seen' = seen /\ loads' = loads /\ token' = token /\ clone' = clone
        /\ dom' = dom /\ inFlight' = inFlight /\ jobs' = jobs
    BY DEF CompileThrows, At, net
  <1>2. TypeOK /\ Fitted(stack) /\ Body
    BY DEF IInv
  <1>3. /\ Those(stack) = {Top} /\ Those(Popped) = {} /\ ForLoad(Top) /\ Wanted(Top) /\ FrameOK(Top)
        /\ \A i : ~Pending(i) /\ ~Clearing(i)
        /\ \A k : ~Asked(k) /\ (Mounting(k) <=> k = Top.l)
    BY <1>1, ContentAlone
  <1>4. PICK x \in Includes, l \in DOMAIN loads :
          /\ x = Top.i /\ l = Top.l /\ loads[l].i = x /\ Taken(l)
          /\ token[x] = l /\ clone[x] = 0 /\ l # 0
    BY <1>1, <1>2, <1>3, TypeFacts DEF FrameOK, ForLoad, Wanted
  <1>5. PICK c \in FrameSet : c = Frame("clear", x, 0) /\ c.at = "clear" /\ c.i = x
    BY FrameFields
  <1>6. PICK w \in FrameSet : w = UserFrame("failed") /\ w.at = "user"
    BY FrameFields
  <1>7. Those(stack') = {w, c}
    BY <1>1, <1>2, <1>3, <1>4, <1>5, <1>6, Stacked DEF Fails
  <1>8. /\ \A i : (Pending(i)' <=> i = x) /\ ~Clearing(i)'
        /\ \A k : ~Asked(k)' /\ ~Mounting(k)'
    BY <1>5, <1>6, <1>7 DEF Pending, Clearing, Asked, Mounting, Clears
  <1>9. \A k : (Waited(k)' <=> Waited(k)) /\ (Queued(k)' <=> Queued(k))
    BY <1>1 DEF Waited, Queued
  <1>10. NetOK'
    BY <1>1, <1>2 DEF Body, NetOK
  <1>11. ASSUME NEW f \in Those(stack') PROVE FrameOK(f)'
    <2>1. CASE f = w
      BY <1>6, <2>1 DEF FrameOK, Clears
    <2>2. CASE f = c
      BY <1>1, <1>4, <1>5, <1>8, <1>9, <2>2 DEF FrameOK, Taken, Clears
    <2> QED BY <1>7, <1>11, <2>1, <2>2
  <1>12. ASSUME NEW i \in Includes PROVE IncludeOK(i)'
    <2>1. IncludeOK(i)
      BY <1>2, BodyParts
    <2>2. CASE i = x
      BY <1>1, <1>4, <1>8, <2>1, <2>2 DEF IncludeOK
    <2>3. CASE i # x
      <3>1. (token[i] # 0 => token[i] # l) /\ (clone[i] # 0 => clone[i] # l)
        BY <1>4, <2>1, <2>3 DEF IncludeOK
      <3> QED BY <1>1, <1>3, <1>4, <1>8, <1>9, <2>1, <2>3, <3>1 DEF IncludeOK, Coming
    <2> QED BY <2>2, <2>3
  <1>13. ASSUME NEW k \in DOMAIN loads' PROVE LoadOK(k)'
    <2>1. LoadOK(k)
      BY <1>1, <1>2, <1>13, BodyParts
    <2> QED BY <1>1, <1>3, <1>4, <1>8, <1>9, <2>1 DEF LoadOK, Overtaken
  <1> QED BY <1>10, <1>11, <1>12, <1>13, BodyParts

-----------------------------------------------------------------------------
(* The invariant holds throughout                                           *)

LEMMA InitInv == Init => IInv
  <1> SUFFICES ASSUME Init PROVE IInv
    OBVIOUS
  <1>1. TypeOK /\ Fitted(stack)
    BY InitType, EmptyFitted DEF Init
  <1>2. Those(<<>>) = {} /\ Those(NoFetch.waiters) = {} /\ DOMAIN loads = {}
    <2>1. DOMAIN <<>> = {} /\ NoFetch.waiters = <<>>
      BY DEF NoFetch
    <2> QED BY <2>1 DEF Those, Init
  <1>3. NetOK
    <2>1. \A u \in URLs : inFlight[u] = NoFetch
      BY DEF Init
    <2>2. NoFetch.state = "none"
      BY DEF NoFetch
    <2> QED BY <1>2, <2>1, <2>2 DEF NetOK, Init
  <1>4. \A i \in Includes : IncludeOK(i)
    <2>1. ASSUME NEW i \in Includes PROVE IncludeOK(i)
      <3>1. token[i] = 0 /\ clone[i] = 0 /\ i \in alive
        BY DEF Init
      <3> QED BY <3>1 DEF IncludeOK
    <2> QED BY <2>1
  <1>5. Those(stack) = {}
    BY <1>2 DEF Init
  <1>6. Body
    BY <1>2, <1>3, <1>4, <1>5, BodyParts
  <1> QED BY <1>1, <1>6 DEF IInv

LEMMA NextInv ==
  ASSUME Restrained, IInv, [Next]_vars
  PROVE  IInv'
  <1>1. TypeOK /\ Fitted(stack) /\ Body /\ FramesOK /\ NetOK
    BY DEF IInv, Body
  <1>2. TypeOK'
    BY <1>1, NextType
  <1>3. Fitted(stack')
    BY <1>1, NextFits
  \* Frames that come and go above the others, of application code and of digests.
  <1>4. ASSUME Kernel' = Kernel, NEW g, g.at \in {"user", "digest"},
               \/ Those(stack') = {g} \cup Those(stack)
               \/ Those(stack) = {g} \cup Those(stack')
        PROVE  Body'
    <2>1. \A f : f.at \notin {"user", "digest"} => (f \in Those(stack') <=> f \in Those(stack))
      BY <1>4
    <2> QED BY <1>1, <1>4, <2>1, SameKernel
  <1>5. ASSUME Kernel' = Kernel, stack' = stack PROVE Body'
    <2>1. \A f : f.at \notin {"user", "digest"} => (f \in Those(stack') <=> f \in Those(stack))
      BY <1>5
    <2> QED BY <1>1, <1>5, <2>1, SameKernel
  <1>6. ASSUME BeginTurn PROVE Body'
    <2>1. PICK w \in FrameSet : w = UserFrame("turn") /\ w.at = "user"
      BY FrameFields
    <2>2. Those(stack') = {w} \cup Those(stack)
      BY <1>1, <1>6, <2>1, Stacked DEF BeginTurn
    <2>3. Kernel' = Kernel
      BY <1>6 DEF BeginTurn, slot, net, Kernel
    <2> QED BY <1>4, <2>1, <2>2, <2>3
  <1>7. ASSUME UserReturns \/ DigestEnds PROVE Body'
    <2>1. stack # <<>> /\ Top.at \in {"user", "digest"} /\ Continues(<<>>) /\ Kernel' = Kernel
      BY <1>7 DEF UserReturns, DigestEnds, At, slot, net, Kernel
    <2>2. Those(stack) = {Top} \cup Those(Popped) /\ Those(stack') = Those(Popped)
      BY <1>1, <2>1, StackFacts, Stacked
    <2> QED BY <1>4, <2>1, <2>2
  <1>8. ASSUME Digest PROVE Body'
    <2>1. PICK c \in FrameSet : c = Frame("digest", 0, 0) /\ c.at = "digest"
      <3>1. 0 \in Includes \cup {0}
        OBVIOUS
      <3> QED BY <3>1, FrameFields
    <2>2. Those(stack') = {c} \cup Those(stack)
      BY <1>1, <1>8, <2>1, Stacked DEF Digest
    <2>3. Kernel' = Kernel
      BY <1>8 DEF Digest, slot, net, Kernel
    <2> QED BY <1>4, <2>1, <2>2, <2>3
  <1>9. ASSUME NEW i \in Includes, NEW v \in URLs \cup {Empty}, Assign(i, v) PROVE Body'
    <2>1. Kernel' = Kernel /\ stack' = stack
      BY <1>9 DEF Assign, slot, net, Kernel
    <2> QED BY <1>5, <2>1
  <1>10. ASSUME NEW u \in URLs, Evict(u) PROVE Body'
    <2>1. Kernel' = Kernel /\ stack' = stack
      BY <1>10 DEF Evict, slot, net, Kernel
    <2> QED BY <1>5, <2>1
  <1>11. ASSUME UNCHANGED vars PROVE Body'
    <2>1. Kernel' = Kernel /\ stack' = stack
      BY <1>11 DEF vars, slot, net, Kernel
    <2> QED BY <1>5, <2>1
  <1>12. ASSUME UserOp PROVE Body'
    BY <1>8, <1>9, <1>10, <1>12, DestroyBody DEF UserOp
  <1>13. ASSUME Network PROVE Body'
    BY <1>13, FetchSettlesBody DEF Network
  <1>14. ASSUME Engine PROVE Body'
    BY <1>7, <1>14, ClearNothingBody, ClearScopeBody, ClearDoneBody, SourceClearedBody,
       SourceChangedBody, RequestRefusedBody, RequestBody, FetchedBody, DeliverBody, InstallBody,
       MountBody, CompileThrowsBody DEF Engine
  <1>15. Body'
    BY <1>6, <1>11, <1>12, <1>13, <1>14 DEF Next
  <1> QED BY <1>2, <1>3, <1>15 DEF IInv

\* Where nothing is in progress and nothing queued, the invariant says what is shown.
LEMMA AtRestShown ==
  ASSUME IInv
  PROVE  ShowsWhatIsWanted
  <1>1. TypeOK /\ Body /\ NetOK
    BY DEF IInv, Body
  <1>2. ASSUME AtRest
        PROVE  /\ \A i : ~Pending(i) /\ ~Clearing(i)
               /\ \A l : ~Asked(l) /\ ~Mounting(l) /\ ~Queued(l)
    <2>1. Those(jobs) = {}
      <3>1. DOMAIN <<>> = {}
        OBVIOUS
      <3> QED BY <1>2, <3>1 DEF AtRest, Those
    <2> QED BY <1>2, <2>1, NothingCalled DEF AtRest, Queued
  <1>3. \A s : ToSet(s) = Those(s)
    BY DEF ToSet, Those
  <1>4. ShowsLatest
    <2> SUFFICES ASSUME AtRest, NEW i \in alive, i \in Includes, token[i] # 0
                 PROVE  /\ loads[token[i]] = [i |-> i, url |-> seen[i]]
                        /\ clone[i] = token[i] \/ token[i] \in Those(inFlight[seen[i]].waiters)
      <3>1. \A i \in Includes : token[i] = 0 => clone[i] = 0
        BY <1>1, BodyParts DEF IncludeOK
      <3> QED BY <1>1, <1>3, <3>1 DEF ShowsLatest, TypeOK
    <2>1. /\ loads[token[i]].i = i /\ loads[token[i]].url = seen[i]
          /\ clone[i] = token[i] \/ Waited(token[i])
      BY <1>1, <1>2, BodyParts DEF IncludeOK, Coming
    <2>2. loads[token[i]] = [i |-> i, url |-> seen[i]]
      <3>1. PICK R : R = [i : Includes, url : URLs]
        OBVIOUS
      <3>2. loads \in Seq(R) /\ token[i] \in DOMAIN loads
        BY <1>1, <3>1, TypeFacts
      <3>3. loads[token[i]] \in R
        BY <3>2
      <3> QED BY <2>1, <3>1, <3>3
    <2>3. Waited(token[i]) => token[i] \in Those(inFlight[seen[i]].waiters)
      BY <1>1, <2>1 DEF Waited, NetOK
    <2> QED BY <2>1, <2>2, <2>3
  <1>5. LoadNotLost
    <2> SUFFICES ASSUME AtRest, NEW u \in URLs, NEW l \in Those(inFlight[u].waiters)
                 PROVE  token[loads[l].i] = l \/ Overtaken(l)
      BY <1>3 DEF LoadNotLost, Overtaken
    <2>1. l \in DOMAIN loads /\ Waited(l)
      BY <1>1, TypeFacts DEF Waited
    <2> QED BY <1>1, <2>1, BodyParts DEF LoadOK
  <1>6. OneContent
    <2> SUFFICES ASSUME AtRest
                 PROVE  /\ scopes = {clone[i] : i \in Includes} \ {0} /\ dom = scopes
                        /\ \A i \in Includes \ alive : clone[i] = 0
      BY DEF OneContent
    <2>1. \A i \in Includes : clone[i] # 0 => clone[i] \in dom /\ clone[i] \in scopes
      BY <1>1, <1>2, BodyParts DEF IncludeOK
    <2>2. \A l \in DOMAIN loads : l \in scopes \/ l \in dom => clone[loads[l].i] = l
      BY <1>1, <1>2, BodyParts DEF LoadOK
    <2>3. /\ scopes \subseteq DOMAIN loads /\ dom \subseteq DOMAIN loads /\ 0 \notin DOMAIN loads
          /\ \A l \in DOMAIN loads : loads[l].i \in Includes
      BY <1>1, TypeFacts DEF TypeOK
    <2>4. \A i \in Includes \ alive : clone[i] = 0
      BY <1>1, <1>2, BodyParts DEF IncludeOK
    <2>5. scopes = {clone[i] : i \in Includes} \ {0}
      BY <2>1, <2>2, <2>3
    <2>6. dom = scopes
      BY <2>1, <2>2, <2>3
    <2> QED BY <2>4, <2>5, <2>6
  <1> QED BY <1>1, <1>4, <1>5, <1>6 DEF ShowsWhatIsWanted

\* Whatever the order of the answers, and whatever application code does between
\* the steps of a load, an include shows one content, that of the source its watch
\* saw last, and the answer of a load that is still wanted is let in; given that no
\* digest is started and no include destroyed in the middle of a load
\* (ng-include.ts 402, 486, 490).
THEOREM IncludesShowWhatIsWanted ==
  ASSUME "digest" \notin FailedOps \cup DestroyedOps \cup LinkedOps,
         "destroy" \notin DestroyedOps \cup LinkedOps
  PROVE  Spec => []ShowsWhatIsWanted
  <1>1. Restrained
    BY DEF Restrained
  <1>2. Init => IInv
    BY InitInv
  <1>3. IInv /\ [Next]_vars => IInv'
    BY <1>1, NextInv
  <1>4. IInv => ShowsWhatIsWanted
    BY AtRestShown
  <1> QED BY <1>2, <1>3, <1>4, PTL DEF Spec
=============================================================================
