------------------------------ MODULE QProofs ------------------------------
(***************************************************************************)
(* Proofs about Q, for any number of promises, of inputs and of operations   *)
(* of user code: every follow-up is processed once and in order, no promise  *)
(* the engine feeds is abandoned, outcomes are final, unhandled rejections   *)
(* are reported once, and a combined promise tells the truth.               *)
(***************************************************************************)
EXTENDS Q, SequenceFacts, FiniteSetTheorems, TLAPS

States == {"unborn", "pending", "resolved", "rejected"}
Ends   == {"resolved", "rejected"}

Objects ==
  [state : States, value : Vals \cup {Undef, Group}, pending : Seq(FollowUps), handled : BOOLEAN]
Jobs == [kind : {"process", "check", "notify"}, p : Promises, cbs : Seq(FollowUps)]

\* What World is, whenever an operation looks at it.
Worlds ==
  [heap : [Promises -> Objects], tasks : Seq(Jobs), attached : [Promises -> Seq(FollowUps)]]

-----------------------------------------------------------------------------
(* The follow-ups that the tasks hold                                       *)

\* What upTo of Scheduled is, for the first N tasks.
IsUpTo(f, N, p, ts) ==
  /\ f = [n \in 0 .. N |-> f[n]]
  /\ f[0] = <<>>
  /\ \A n \in 1 .. N : f[n] = f[n - 1] \o Share(p, ts[n])

\* There is such a function, for any number of tasks.
LEMMA UpToExists ==
  ASSUME NEW p, NEW ts, NEW N \in Nat
  PROVE  \E f : IsUpTo(f, N, p, ts)
  <1> DEFINE S == {n \in Nat : \E f : IsUpTo(f, n, p, ts)}
  <1>1. 0 \in S
    <2>1. IsUpTo([n \in 0 .. 0 |-> <<>>], 0, p, ts)
      BY DEF IsUpTo
    <2> QED BY <2>1
  <1>2. ASSUME NEW n \in Nat, n \in S PROVE n + 1 \in S
    <2>1. PICK f : IsUpTo(f, n, p, ts)
      BY <1>2
    <2> DEFINE g == [k \in 0 .. n + 1 |-> IF k = n + 1 THEN f[n] \o Share(p, ts[n + 1]) ELSE f[k]]
    <2>2. IsUpTo(g, n + 1, p, ts)
      BY <2>1 DEF IsUpTo
    <2> HIDE DEF g
    <2> QED BY <2>2
  <1> HIDE DEF S
  <1>3. N \in S
    BY <1>1, <1>2, Induction
  <1> QED BY <1>3 DEF S

\* Scheduled is what it is for all the tasks.
LEMMA ScheduledIsUpTo ==
  ASSUME NEW p, NEW ts, Len(ts) \in Nat
  PROVE  \E f : IsUpTo(f, Len(ts), p, ts) /\ Scheduled(p, ts) = f[Len(ts)]
  <1> DEFINE R(f) == f = [n \in 0 .. Len(ts) |->
                            IF n = 0 THEN <<>> ELSE f[n - 1] \o Share(p, ts[n])]
             h == CHOOSE f : R(f)
  <1>1. PICK g : IsUpTo(g, Len(ts), p, ts)
    BY UpToExists
  <1>2. R(g)
    BY <1>1 DEF IsUpTo
  <1>3. R(h)
    BY <1>2
  <1>4. Scheduled(p, ts) = h[Len(ts)]
    BY DEF Scheduled
  <1> HIDE DEF h
  <1>5. IsUpTo(h, Len(ts), p, ts)
    BY <1>3 DEF IsUpTo
  <1> QED BY <1>4, <1>5

\* Two lists that begin alike hold the same up to there.
LEMMA UpToSame ==
  ASSUME NEW p, NEW ts, NEW us, NEW N \in Nat, NEW M \in Nat, N <= M, NEW f, NEW g,
         IsUpTo(f, N, p, ts), IsUpTo(g, M, p, us), \A n \in 1 .. N : ts[n] = us[n]
  PROVE  f[N] = g[N]
  <1> DEFINE S == {n \in Nat : n <= N => f[n] = g[n]}
  <1>1. 0 \in S
    BY DEF IsUpTo
  <1>2. ASSUME NEW n \in Nat, n \in S PROVE n + 1 \in S
    <2>1. SUFFICES ASSUME n + 1 <= N PROVE f[n + 1] = g[n + 1]
      OBVIOUS
    <2>2. n + 1 \in 1 .. N /\ n + 1 \in 1 .. M /\ (n + 1) - 1 = n
      BY <2>1
    <2>3. f[n + 1] = f[n] \o Share(p, ts[n + 1]) /\ g[n + 1] = g[n] \o Share(p, us[n + 1])
      BY <2>2 DEF IsUpTo
    <2>4. f[n] = g[n]
      BY <1>2, <2>1
    <2> QED BY <2>2, <2>3, <2>4
  <1> HIDE DEF S
  <1>3. N \in S
    BY <1>1, <1>2, Induction
  <1> QED BY <1>3 DEF S

\* It gives lists of follow-ups.
LEMMA UpToSeq ==
  ASSUME NEW p, NEW ts, NEW N \in Nat, NEW f, IsUpTo(f, N, p, ts),
         \A n \in 1 .. N : ts[n] \in Jobs
  PROVE  \A n \in 0 .. N : f[n] \in Seq(FollowUps)
  <1>0. \A t \in Jobs : Share(p, t) \in Seq(FollowUps)
    BY DEF Share, Jobs
  <1> DEFINE S == {n \in Nat : n <= N => f[n] \in Seq(FollowUps)}
  <1>1. 0 \in S
    BY DEF IsUpTo
  <1>2. ASSUME NEW n \in Nat, n \in S PROVE n + 1 \in S
    <2>1. ASSUME n + 1 <= N PROVE f[n + 1] \in Seq(FollowUps)
      <3>1. n + 1 \in 1 .. N /\ (n + 1) - 1 = n /\ n <= N
        BY <2>1
      <3>2. f[n + 1] = f[n] \o Share(p, ts[n + 1])
        BY <3>1 DEF IsUpTo
      <3>3. f[n] \in Seq(FollowUps) /\ Share(p, ts[n + 1]) \in Seq(FollowUps)
        BY <1>0, <1>2, <3>1
      <3> QED BY <3>2, <3>3, ConcatFacts
    <2> QED BY <2>1
  <1> HIDE DEF S
  <1>3. \A n \in Nat : n \in S
    BY <1>1, <1>2, Induction
  <1> QED BY <1>3 DEF S

\* A list one task shorter at its front holds what follows that task's share.
Behind(N, M, ts, us) ==
  M = N + 1 /\ (\A n \in 1 .. M : ts[n] \in Jobs) /\ (\A n \in 1 .. N : us[n] = ts[n + 1])

Joined(all, t, rest) == all = t \o rest

\* The two are the share of the first task apart.
LEMMA UpToShift ==
  ASSUME NEW p, NEW N, NEW M, NEW ts, NEW us, NEW f, NEW g,
         N \in Nat, Behind(N, M, ts, us), IsUpTo(f, M, p, ts), IsUpTo(g, N, p, us)
  PROVE  Joined(f[M], Share(p, ts[1]), g[N])
  <1> USE DEF Behind, Joined
  <1>0. /\ \A t \in Jobs : Share(p, t) \in Seq(FollowUps)
        /\ \A n \in 0 .. N : g[n] \in Seq(FollowUps)
    <2>1. \A n \in 1 .. N : us[n] \in Jobs
      OBVIOUS
    <2>2. \A n \in 0 .. N : g[n] \in Seq(FollowUps)
      BY <2>1, UpToSeq
    <2> QED BY <2>2 DEF Share, Jobs
  <1> DEFINE S == {n \in Nat : n <= N => f[n + 1] = Share(p, ts[1]) \o g[n]}
  <1>1. 0 \in S
    <2>0. 1 \in 1 .. M /\ 1 - 1 = 0
      OBVIOUS
    <2>1. g[0] = <<>> /\ f[0] = <<>> /\ f[1] = <<>> \o Share(p, ts[1])
      BY <2>0 DEF IsUpTo
    <2>2. Share(p, ts[1]) \in Seq(FollowUps)
      BY <1>0, <2>0
    <2>3. f[0 + 1] = Share(p, ts[1]) \o g[0]
      BY <2>1, <2>2, ConcatEmptySeq
    <2> QED BY <2>3
  <1>2. ASSUME NEW n \in Nat, n \in S PROVE n + 1 \in S
    <2>0. SUFFICES ASSUME n + 1 <= N
                   PROVE  f[(n + 1) + 1] = Share(p, ts[1]) \o g[n + 1]
      <3>1. n + 1 \in Nat
        OBVIOUS
      <3> QED BY <3>1
    <2>1. n <= N
      BY <2>0
    <2>2. f[n + 1] = Share(p, ts[1]) \o g[n]
      BY <1>2, <2>1
    <2>3. /\ n + 1 \in 1 .. N /\ (n + 1) + 1 \in 1 .. M /\ 1 \in 1 .. M /\ n \in 0 .. N
          /\ ((n + 1) + 1) - 1 = n + 1 /\ (n + 1) - 1 = n
      BY <2>0
    <2>4. g[n + 1] = g[n] \o Share(p, us[n + 1]) /\ us[n + 1] = ts[(n + 1) + 1]
      BY <2>3 DEF IsUpTo
    <2>5. f[(n + 1) + 1] = f[n + 1] \o Share(p, ts[(n + 1) + 1])
      BY <2>3 DEF IsUpTo
    <2> DEFINE a == Share(p, ts[1])
               b == g[n]
               c == Share(p, ts[(n + 1) + 1])
    <2>6. a \in Seq(FollowUps) /\ b \in Seq(FollowUps) /\ c \in Seq(FollowUps)
      BY <1>0, <2>3
    <2>7. (a \o b) \o c = a \o (b \o c)
      <3> HIDE DEF a, b, c
      <3> QED BY <2>6, ConcatAssociative
    <2> QED BY <2>2, <2>4, <2>5, <2>7
  <1> HIDE DEF S
  <1>3. N \in S /\ N <= N
    BY <1>1, <1>2, Induction
  <1> QED BY <1>3 DEF S

\* What upTo holds of a list, in terms of its first task and the rest.
LEMMA ScheduledFirst ==
  ASSUME NEW p, NEW ts \in Seq(Jobs), ts # <<>>
  PROVE  /\ Scheduled(p, ts) = Share(p, ts[1]) \o Scheduled(p, Tail(ts))
         /\ Scheduled(p, Tail(ts)) \in Seq(FollowUps) /\ Share(p, ts[1]) \in Seq(FollowUps)
  <1>1. PICK us : us = Tail(ts)
    OBVIOUS
  <1>2. PICK N \in Nat : N + 1 = Len(ts)
    <2>1. Len(ts) \in Nat \ {0}
      BY TailFacts
    <2>2. Len(ts) - 1 \in Nat /\ (Len(ts) - 1) + 1 = Len(ts)
      BY <2>1
    <2> QED BY <2>2
  <1>3. Len(us) = N /\ (\A n \in 1 .. N : us[n] = ts[n + 1]) /\ us \in Seq(Jobs)
    <2>1. Len(Tail(ts)) = Len(ts) - 1 /\ Tail(ts) \in Seq(Jobs)
          /\ \A k \in 1 .. Len(ts) - 1 : Tail(ts)[k] = ts[k + 1]
      BY TailFacts
    <2>2. Len(ts) - 1 = N
      BY <1>2
    <2> QED BY <1>1, <2>1, <2>2
  <1>4. \A n \in 1 .. N + 1 : ts[n] \in Jobs
    BY <1>2
  <1>5. PICK f : IsUpTo(f, N + 1, p, ts) /\ Scheduled(p, ts) = f[N + 1]
    BY <1>2, ScheduledIsUpTo
  <1>6. PICK g : IsUpTo(g, N, p, us) /\ Scheduled(p, us) = g[N]
    BY <1>3, ScheduledIsUpTo
  <1>7. g[N] \in Seq(FollowUps)
    <2>1. \A n \in 1 .. N : us[n] \in Jobs
      BY <1>3, <1>4
    <2> QED BY <1>6, <2>1, UpToSeq
  <1>9. f[N + 1] = Share(p, ts[1]) \o g[N]
    <2>1. PICK M : M = N + 1
      OBVIOUS
    <2>2. IsUpTo(f, M, p, ts) /\ \A n \in 1 .. M : ts[n] \in Jobs
      BY <1>4, <1>5, <2>1
    <2>3. Behind(N, M, ts, us) /\ N \in Nat
      BY <1>3, <2>1, <2>2 DEF Behind
    <2>4. IsUpTo(g, N, p, us)
      BY <1>6
    <2>5. Joined(f[M], Share(p, ts[1]), g[N])
      BY ONLY <2>2, <2>3, <2>4, UpToShift
    <2> QED BY <2>1, <2>5 DEF Joined
  <1>8. Share(p, ts[1]) \in Seq(FollowUps)
    <2>1. ts[1] \in Jobs
      BY <1>4
    <2> QED BY <2>1 DEF Share, Jobs
  <1> QED BY <1>1, <1>5, <1>6, <1>7, <1>8, <1>9

\* No task holds nothing.
LEMMA ScheduledNil ==
  ASSUME NEW p
  PROVE  Scheduled(p, <<>>) = <<>>
  <1>1. Len(<<>>) = 0
    OBVIOUS
  <1>2. PICK f : IsUpTo(f, 0, p, <<>>) /\ Scheduled(p, <<>>) = f[0]
    BY <1>1, ScheduledIsUpTo
  <1> QED BY <1>2 DEF IsUpTo

\* What the tasks hold is a list of follow-ups.
LEMMA ScheduledType ==
  ASSUME NEW p, NEW ts \in Seq(Jobs)
  PROVE  Scheduled(p, ts) \in Seq(FollowUps)
  <1>1. CASE ts = <<>>
    <2>1. <<>> \in Seq(FollowUps)
      OBVIOUS
    <2>2. Scheduled(p, ts) = <<>>
      BY <1>1, ScheduledNil
    <2> QED BY <2>1, <2>2
  <1>2. CASE ts # <<>>
    BY <1>2, ScheduledFirst, ConcatFacts
  <1> QED BY <1>1, <1>2

\* The share of a task that is added comes last.
LEMMA ScheduledAppend ==
  ASSUME NEW p, NEW ts \in Seq(Jobs), NEW t \in Jobs
  PROVE  Scheduled(p, Append(ts, t)) = Scheduled(p, ts) \o Share(p, t)
  <1> DEFINE us == Append(ts, t)
             N == Len(ts)
  <1>1. /\ N \in Nat /\ Len(us) = N + 1 /\ us[N + 1] = t /\ \A n \in 1 .. N : us[n] = ts[n]
    OBVIOUS
  <1>2. PICK f : IsUpTo(f, N, p, ts) /\ Scheduled(p, ts) = f[N]
    BY <1>1, ScheduledIsUpTo
  <1>3. PICK g : IsUpTo(g, N + 1, p, us) /\ Scheduled(p, us) = g[N + 1]
    <2> HIDE DEF us
    <2> QED BY <1>1, ScheduledIsUpTo
  <1> HIDE DEF us, N
  <1>4. N + 1 \in 1 .. N + 1 /\ (N + 1) - 1 = N /\ N \in 0 .. N + 1
    BY <1>1
  <1>5. g[N + 1] = g[N] \o Share(p, t)
    BY <1>1, <1>3, <1>4 DEF IsUpTo
  <1>6. f[N] = g[N]
    <2>1. N + 1 \in Nat /\ N <= N + 1
      BY <1>1
    <2>2. \A n \in 1 .. N : ts[n] = us[n]
      BY <1>1
    <2> QED BY <1>1, <1>2, <1>3, <2>1, <2>2, UpToSame
  <1> QED BY <1>2, <1>3, <1>5, <1>6 DEF us

\* Tasks that are none of p's hold nothing of p's.
LEMMA ScheduledNone ==
  ASSUME NEW p, NEW ts \in Seq(Jobs), \A i \in 1 .. Len(ts) : Share(p, ts[i]) = <<>>
  PROVE  Scheduled(p, ts) = <<>>
  <1> DEFINE N == Len(ts)
  <1>1. N \in Nat
    OBVIOUS
  <1>2. PICK f : IsUpTo(f, N, p, ts) /\ Scheduled(p, ts) = f[N]
    BY <1>1, ScheduledIsUpTo
  <1>3. \A i \in 1 .. N : Share(p, ts[i]) = <<>>
    OBVIOUS
  <1> HIDE DEF N
  <1> DEFINE S == {n \in Nat : n <= N => f[n] = <<>>}
  <1>4. 0 \in S
    BY <1>2 DEF IsUpTo
  <1>5. ASSUME NEW n \in Nat, n \in S PROVE n + 1 \in S
    <2>1. SUFFICES ASSUME n + 1 <= N PROVE f[n + 1] = <<>>
      <3>1. n + 1 \in Nat
        OBVIOUS
      <3> QED BY <3>1
    <2>2. n + 1 \in 1 .. N /\ (n + 1) - 1 = n /\ n <= N
      BY <1>1, <2>1
    <2>3. f[n + 1] = f[n] \o Share(p, ts[n + 1])
      BY <1>2, <2>2 DEF IsUpTo
    <2>4. f[n] = <<>>
      BY <1>5, <2>2
    <2>5. <<>> \o <<>> = <<>>
      OBVIOUS
    <2> QED BY <1>3, <2>2, <2>3, <2>4, <2>5
  <1> HIDE DEF S
  <1>6. N \in S
    BY <1>1, <1>4, <1>5, Induction
  <1> QED BY <1>1, <1>2, <1>6 DEF S

-----------------------------------------------------------------------------
(* What is left of a list                                                  *)

\* What is left of the list s when its first r elements are done.
Rest(s, r) == SubSeq(s, r + 1, Len(s))

\* The rest of a list is a list, shorter by what is taken from its front.
LEMMA RestFacts ==
  ASSUME NEW S, NEW s \in Seq(S), NEW r \in 0 .. Len(s)
  PROVE  /\ Rest(s, r) \in Seq(S) /\ Len(Rest(s, r)) = Len(s) - r
         /\ \A k \in 1 .. Len(s) - r : Rest(s, r)[k] = s[r + k]
  <1>1. Len(s) \in Nat /\ r + 1 \in Int /\ \A i \in r + 1 .. Len(s) : s[i] \in S
    OBVIOUS
  <1>2. /\ Rest(s, r) \in Seq(S)
        /\ Len(Rest(s, r)) = IF r + 1 <= Len(s) THEN Len(s) - (r + 1) + 1 ELSE 0
        /\ \A i \in 1 .. Len(s) - (r + 1) + 1 : Rest(s, r)[i] = s[(r + 1) + i - 1]
    BY <1>1, SubSeqProperties DEF Rest
  <1>3. Len(Rest(s, r)) = Len(s) - r
    BY <1>1, <1>2
  <1>4. ASSUME NEW k \in 1 .. Len(s) - r PROVE Rest(s, r)[k] = s[r + k]
    <2>1. k \in 1 .. Len(s) - (r + 1) + 1 /\ (r + 1) + k - 1 = r + k
      BY <1>1
    <2> QED BY <1>2, <2>1
  <1> QED BY <1>2, <1>3, <1>4

\* What is added to a list is added to its rest.
LEMMA RestAppend ==
  ASSUME NEW S, NEW s \in Seq(S), NEW c \in S, NEW r \in 0 .. Len(s)
  PROVE  Rest(Append(s, c), r) = Append(Rest(s, r), c)
  <1> DEFINE a == Rest(Append(s, c), r)
             b == Append(Rest(s, r), c)
             L == Len(s) - r
  <1>0. Len(s) \in Nat /\ L \in Nat
    OBVIOUS
  <1>1. /\ Append(s, c) \in Seq(S) /\ Len(Append(s, c)) = Len(s) + 1
        /\ \A k \in 1 .. Len(s) : Append(s, c)[k] = s[k]
        /\ Append(s, c)[Len(s) + 1] = c
    BY AppendProperties
  <1>2. /\ a \in Seq(S) /\ Len(a) = L + 1
        /\ \A k \in 1 .. L + 1 : a[k] = Append(s, c)[r + k]
    <2>1. r \in 0 .. Len(Append(s, c)) /\ Len(Append(s, c)) - r = L + 1
      BY <1>0, <1>1
    <2> QED BY <1>1, <2>1, RestFacts
  <1>3. /\ Rest(s, r) \in Seq(S) /\ Len(Rest(s, r)) = L
        /\ \A k \in 1 .. L : Rest(s, r)[k] = s[r + k]
    BY RestFacts
  <1>4. /\ b \in Seq(S) /\ Len(b) = L + 1 /\ b[L + 1] = c
        /\ \A k \in 1 .. L : b[k] = Rest(s, r)[k]
    BY <1>3, AppendProperties
  <1> HIDE DEF a, b
  <1>5. ASSUME NEW k \in 1 .. L + 1 PROVE a[k] = b[k]
    <2>1. CASE k = L + 1
      <3>1. r + k = Len(s) + 1
        BY <1>0, <2>1
      <3> QED BY <1>1, <1>2, <1>4, <2>1, <3>1
    <2>2. CASE k \in 1 .. L
      <3>1. r + k \in 1 .. Len(s)
        BY <1>0, <2>2
      <3> QED BY <1>1, <1>2, <1>3, <1>4, <2>2, <3>1
    <2> QED BY <1>0, <2>1, <2>2
  <1>6. a = b
    BY <1>2, <1>4, <1>5, SeqEqual
  <1> QED BY <1>6 DEF a, b

\* The rest begins with the element after those taken.
LEMMA RestNext ==
  ASSUME NEW S, NEW s \in Seq(S), NEW r \in 0 .. Len(s), Rest(s, r) # <<>>
  PROVE  /\ r + 1 \in 1 .. Len(s) /\ Rest(s, r)[1] = s[r + 1]
         /\ Rest(s, r + 1) = Tail(Rest(s, r))
  <1>1. /\ Rest(s, r) \in Seq(S) /\ Len(Rest(s, r)) = Len(s) - r
        /\ \A k \in 1 .. Len(s) - r : Rest(s, r)[k] = s[r + k]
    BY RestFacts
  <1>2. Len(Rest(s, r)) \in Nat \ {0} /\ Len(s) \in Nat
    BY <1>1, EmptySeq
  <1>3. r + 1 \in 1 .. Len(s) /\ Len(s) \in r + 1 .. Len(s) /\ 1 \in 1 .. Len(s) - r
    BY <1>1, <1>2
  <1>4. Tail(Rest(s, r)) = SubSeq(s, (r + 1) + 1, Len(s))
    BY <1>3, HeadTailOfSubSeq DEF Rest
  <1> QED BY <1>1, <1>3, <1>4 DEF Rest

\* Elements added to both sides of an equation between lists.
LEMMA ConcatAppend ==
  ASSUME NEW S, NEW s \in Seq(S), NEW t \in Seq(S), NEW c \in S
  PROVE  /\ s \o Append(t, c) = Append(s \o t, c)
         /\ s \o <<c>> = Append(s, c) /\ <<c>> \in Seq(S)
  <1>1. /\ <<c>> \in Seq(S) /\ Append(t, c) = t \o <<c>> /\ s \o t \in Seq(S)
        /\ s \o <<c>> = Append(s, c)
    BY AppendIsConcat, ConcatProperties
  <1>2. Append(s \o t, c) = (s \o t) \o <<c>>
    BY <1>1, AppendIsConcat
  <1>3. (s \o t) \o <<c>> = s \o (t \o <<c>>)
    BY <1>1, ConcatAssociative
  <1> QED BY <1>1, <1>2, <1>3

\* The first element of a list taken away from two lists joined.
LEMMA TailOfConcat ==
  ASSUME NEW S, NEW s \in Seq(S), NEW t \in Seq(S), s # <<>>
  PROVE  Tail(s \o t) = Tail(s) \o t /\ (s \o t)[1] = s[1] /\ s \o t # <<>>
  <1>1. /\ s \o t \in Seq(S) /\ Len(s \o t) = Len(s) + Len(t)
        /\ \A k \in 1 .. Len(s) : (s \o t)[k] = s[k]
        /\ \A k \in 1 .. Len(t) : (s \o t)[Len(s) + k] = t[k]
    BY ConcatFacts
  <1>2. /\ Len(s) \in Nat \ {0} /\ Len(t) \in Nat /\ Tail(s) \in Seq(S)
        /\ Len(Tail(s)) = Len(s) - 1 /\ \A k \in 1 .. Len(s) - 1 : Tail(s)[k] = s[k + 1]
    BY TailFacts
  <1>3. s \o t # <<>> /\ Len(s \o t) \in Nat \ {0}
    BY <1>1, <1>2
  <1> DEFINE a == Tail(s \o t)
             b == Tail(s) \o t
             L == Len(s) - 1
  <1>0. L \in Nat /\ Len(s) = L + 1
    BY <1>2
  <1>4. /\ a \in Seq(S) /\ Len(a) = L + Len(t)
        /\ \A k \in 1 .. L + Len(t) : a[k] = (s \o t)[k + 1]
    <2>1. /\ a \in Seq(S) /\ Len(a) = Len(s \o t) - 1
          /\ \A k \in 1 .. Len(s \o t) - 1 : a[k] = (s \o t)[k + 1]
      BY <1>1, <1>3, TailFacts
    <2>2. Len(s \o t) - 1 = L + Len(t)
      BY <1>1, <1>2
    <2> QED BY <2>1, <2>2
  <1>5. /\ b \in Seq(S) /\ Len(b) = L + Len(t)
        /\ \A k \in 1 .. L : b[k] = Tail(s)[k]
        /\ \A k \in 1 .. Len(t) : b[L + k] = t[k]
    BY <1>2, ConcatFacts
  <1> HIDE DEF a, b, L
  <1>6. ASSUME NEW k \in 1 .. L + Len(t) PROVE a[k] = b[k]
    <2>1. CASE k \in 1 .. L
      <3>1. k + 1 \in 1 .. Len(s)
        BY <1>0, <2>1
      <3> QED BY <1>0, <1>1, <1>2, <1>4, <1>5, <2>1, <3>1
    <2>2. CASE k \notin 1 .. L
      <3>1. PICK j \in 1 .. Len(t) : j = k - L
        BY <1>0, <1>2, <2>2
      <3>2. k = L + j /\ k + 1 = Len(s) + j
        BY <1>0, <1>2, <3>1
      <3> QED BY <1>1, <1>4, <1>5, <3>1, <3>2
    <2> QED BY <2>1, <2>2
  <1>7. a = b
    BY <1>4, <1>5, <1>6, SeqEqual
  <1>8. 1 \in 1 .. Len(s)
    BY <1>2
  <1> QED BY <1>1, <1>3, <1>7, <1>8 DEF a, b

-----------------------------------------------------------------------------
(* What holds of the promises and of the tasks after every operation        *)

Ended(w, p) == w.heap[p].state \in Ends

\* Only a pending promise has follow-ups waiting, only one that was created has
\* any, and a task that delivers an outcome has one to deliver.
Sane(w) ==
  /\ \A p \in Promises :
       /\ w.heap[p].state # "pending" => w.heap[p].pending = <<>>
       /\ w.heap[p].state = "unborn" => w.attached[p] = <<>>
       /\ Ended(w, p) => w.heap[p].value # Undef
  /\ \A i \in 1 .. Len(w.tasks) :
       w.tasks[i].kind = "process" => w.tasks[i].cbs # <<>> /\ Ended(w, w.tasks[i].p)

\* FollowUpsInOrder, of a world and the counts rn of what was processed.
Ordered(w, rn) ==
  \A p \in Promises :
    /\ rn[p] \in 0 .. Len(w.attached[p])
    /\ Scheduled(p, w.tasks) \o w.heap[p].pending = Rest(w.attached[p], rn[p])

\* ProgressBeforeOutcome, of the tasks ts.
Told(ts) ==
  \A i, j \in 1 .. Len(ts) :
    ts[i].kind = "process" /\ ts[j].kind = "notify" /\ ts[i].p = ts[j].p => j < i

\* A rejection has one check, queued or reported by, and it has one unless a
\* follow-up was attached before the check ran.
Checked(w, rep) ==
  /\ \A i, j \in 1 .. Len(w.tasks) :
       w.tasks[i].kind = "check" /\ w.tasks[j].kind = "check" /\ w.tasks[i].p = w.tasks[j].p => i = j
  /\ \A i \in 1 .. Len(w.tasks) : w.tasks[i].kind = "check" =>
       w.heap[w.tasks[i].p].state = "rejected" /\ \A j \in 1 .. Len(rep) : rep[j] # w.tasks[i].p
  /\ \A i, j \in 1 .. Len(rep) : rep[i] = rep[j] => i = j
  /\ \A i \in 1 .. Len(rep) : w.heap[rep[i]].state = "rejected"
  /\ \A p \in Promises : w.heap[p].state = "rejected" /\ ~w.heap[p].handled =>
       (\E i \in 1 .. Len(w.tasks) : w.tasks[i].kind = "check" /\ w.tasks[i].p = p)
       \/ (\E i \in 1 .. Len(rep) : rep[i] = p)

Whole(w, rn, rep) ==
  /\ w \in Worlds /\ rn \in [Promises -> Nat] /\ rep \in Seq(Promises)
  /\ Sane(w) /\ Ordered(w, rn) /\ Told(w.tasks) /\ Checked(w, rep)

\* No promise has another outcome, or another state, in u than in w.
Alike(u, w) ==
  \A q \in Promises : u.heap[q].state = w.heap[q].state /\ u.heap[q].value = w.heap[q].value

-----------------------------------------------------------------------------

\* The fields of a world have their types.
LEMMA WorldFacts ==
  ASSUME NEW w \in Worlds
  PROVE  /\ w = [heap |-> w.heap, tasks |-> w.tasks, attached |-> w.attached]
         /\ w.heap \in [Promises -> Objects] /\ w.tasks \in Seq(Jobs)
         /\ w.attached \in [Promises -> Seq(FollowUps)]
         /\ Len(w.tasks) \in Nat /\ \A i \in 1 .. Len(w.tasks) : w.tasks[i] \in Jobs
  BY DEF Worlds

\* The parts of what Attach makes of a world.
Attached(u, w, p, cb) ==
  /\ u \in Worlds /\ Alike(u, w)
  /\ \A q \in Promises : q # p => u.heap[q] = w.heap[q] /\ u.attached[q] = w.attached[q]
  /\ u.heap[p].handled = TRUE /\ u.attached[p] = Append(w.attached[p], cb)
  /\ w.heap[p].state = "pending" =>
       u.heap[p].pending = Append(w.heap[p].pending, cb) /\ u.tasks = w.tasks
  /\ w.heap[p].state # "pending" =>
       /\ u.heap[p].pending = w.heap[p].pending
       /\ u.tasks = Append(w.tasks, Task("process", p, <<cb>>))
       /\ Task("process", p, <<cb>>) \in Jobs

\* Attach does what its parts say.
LEMMA AttachParts ==
  ASSUME NEW w \in Worlds, NEW p \in Promises, NEW cb \in FollowUps, NEW u, u = Attach(w, p, cb)
  PROVE  Attached(u, w, p, cb)
  <1>1. /\ w.heap \in [Promises -> Objects] /\ w.tasks \in Seq(Jobs)
        /\ w.attached \in [Promises -> Seq(FollowUps)]
    BY WorldFacts
  <1>2. PICK o \in Objects : o = w.heap[p]
    BY <1>1
  <1>3. PICK a \in Seq(FollowUps) : a = w.attached[p]
    BY <1>1
  <1> DEFINE o2 == [o EXCEPT !.handled = TRUE,
                             !.pending = IF o.state = "pending" THEN Append(@, cb) ELSE @]
             t2 == IF o.state = "pending" THEN w.tasks ELSE Append(w.tasks, Task("process", p, <<cb>>))
             a2 == Append(a, cb)
  <1>4. /\ u.heap = [w.heap EXCEPT ![p] = o2] /\ u.tasks = t2
        /\ u.attached = [w.attached EXCEPT ![p] = a2]
    BY <1>2, <1>3 DEF Attach, Worlds
  <1>5. /\ o2 \in Objects /\ o2.state = o.state /\ o2.value = o.value /\ o2.handled = TRUE
        /\ o2.pending = IF o.state = "pending" THEN Append(o.pending, cb) ELSE o.pending
    <2>1. o.pending \in Seq(FollowUps)
      BY DEF Objects
    <2>2. Append(o.pending, cb) \in Seq(FollowUps)
      BY <2>1, AppendProperties
    <2>3. (IF o.state = "pending" THEN Append(o.pending, cb) ELSE o.pending) \in Seq(FollowUps)
      BY <2>1, <2>2
    <2> QED BY <2>3 DEF Objects
  <1>6. Task("process", p, <<cb>>) \in Jobs
    BY DEF Task, Jobs
  <1>7. t2 \in Seq(Jobs) /\ a2 \in Seq(FollowUps)
    BY <1>1, <1>3, <1>6, AppendProperties
  <1> HIDE DEF o2, a2, t2
  <1>9. u \in Worlds
    <2>1. [w.heap EXCEPT ![p] = o2] \in [Promises -> Objects]
      BY <1>1, <1>5
    <2>2. [w.attached EXCEPT ![p] = a2] \in [Promises -> Seq(FollowUps)]
      BY <1>1, <1>7
    <2>3. u.heap \in [Promises -> Objects] /\ u.tasks \in Seq(Jobs)
          /\ u.attached \in [Promises -> Seq(FollowUps)]
      BY <1>4, <1>7, <2>1, <2>2
    <2> QED BY <2>3 DEF Attach, Worlds
  <1>10. /\ u.heap[p] = o2 /\ u.attached[p] = a2
         /\ \A q \in Promises : q # p => u.heap[q] = w.heap[q] /\ u.attached[q] = w.attached[q]
    BY <1>1, <1>4
  <1>11. Alike(u, w)
    BY <1>2, <1>5, <1>10 DEF Alike
  <1> QED BY <1>2, <1>3, <1>4, <1>5, <1>6, <1>9, <1>10, <1>11 DEF a2, t2, Attached

\* The parts of what a settlement makes of a world.
Closed(u, w, d, st, v) ==
  /\ u \in Worlds /\ u.attached = w.attached
  /\ \A q \in Promises : q # d => u.heap[q] = w.heap[q]
  /\ u.heap[d].state = st /\ u.heap[d].value = v /\ u.heap[d].pending = <<>>
  /\ u.heap[d].handled = w.heap[d].handled
  /\ u.tasks = w.tasks
       \o (IF w.heap[d].pending = <<>> THEN <<>> ELSE <<Task("process", d, w.heap[d].pending)>>)
       \o (IF st = "rejected" THEN <<Task("check", d, <<>>)>> ELSE <<>>)
  /\ Task("process", d, w.heap[d].pending) \in Jobs /\ Task("check", d, <<>>) \in Jobs

\* SettledWorld does what its parts say.
LEMMA SettledParts ==
  ASSUME NEW w \in Worlds, NEW d \in Promises, NEW st \in Ends, NEW v \in Vals \cup {Group},
         NEW u, u = SettledWorld(w, d, st, v, st = "rejected")
  PROVE  Closed(u, w, d, st, v)
  <1>1. /\ w.heap \in [Promises -> Objects] /\ w.tasks \in Seq(Jobs)
        /\ w.attached \in [Promises -> Seq(FollowUps)]
    BY WorldFacts
  <1>2. PICK o \in Objects : o = w.heap[d]
    BY <1>1
  <1> DEFINE o2 == [o EXCEPT !.state = st, !.value = v, !.pending = <<>>]
             one == IF o.pending = <<>> THEN <<>> ELSE <<Task("process", d, o.pending)>>
             two == IF st = "rejected" THEN <<Task("check", d, <<>>)>> ELSE <<>>
             t2 == w.tasks \o one \o two
  <1>4. /\ u.heap = [w.heap EXCEPT ![d] = o2] /\ u.tasks = t2 /\ u.attached = w.attached
    BY <1>2 DEF SettledWorld, Worlds
  <1>5. /\ o2 \in Objects /\ o2.state = st /\ o2.value = v /\ o2.handled = o.handled
        /\ o2.pending = <<>>
    <2>1. st \in States /\ v \in Vals \cup {Undef, Group} /\ <<>> \in Seq(FollowUps)
      BY DEF States, Ends
    <2> QED BY <2>1 DEF Objects
  <1>6. Task("process", d, o.pending) \in Jobs /\ Task("check", d, <<>>) \in Jobs
    <2>1. o.pending \in Seq(FollowUps) /\ <<>> \in Seq(FollowUps)
      BY DEF Objects
    <2> QED BY <2>1 DEF Task, Jobs
  <1>7. t2 \in Seq(Jobs)
    <2>1. one \in Seq(Jobs) /\ two \in Seq(Jobs)
      BY <1>6
    <2> HIDE DEF one, two
    <2> QED BY <1>1, <2>1, ConcatProperties
  <1> HIDE DEF o2, t2
  <1>9. u \in Worlds
    <2>1. u.heap \in [Promises -> Objects] /\ u.tasks \in Seq(Jobs)
          /\ u.attached \in [Promises -> Seq(FollowUps)]
      BY <1>1, <1>4, <1>5, <1>7
    <2> QED BY <2>1 DEF SettledWorld, Worlds
  <1>10. /\ u.heap[d] = o2 /\ \A q \in Promises : q # d => u.heap[q] = w.heap[q]
    BY <1>1, <1>4
  <1> QED BY <1>2, <1>4, <1>5, <1>6, <1>9, <1>10 DEF t2, Closed

\* The parts of a world with a new promise.
LEMMA CreateParts ==
  ASSUME NEW w \in Worlds, NEW d \in Promises, NEW u, u = Create(w, d)
  PROVE  /\ u \in Worlds /\ u.attached = w.attached /\ u.tasks = w.tasks
         /\ \A q \in Promises : q # d => u.heap[q] = w.heap[q]
         /\ u.heap[d].state = "pending" /\ u.heap[d].value = Undef /\ u.heap[d].pending = <<>>
  <1>1. /\ w.heap \in [Promises -> Objects] /\ w.tasks \in Seq(Jobs)
        /\ w.attached \in [Promises -> Seq(FollowUps)]
    BY WorldFacts
  <1>2. /\ Fresh \in Objects /\ Fresh.state = "pending" /\ Fresh.value = Undef
        /\ Fresh.pending = <<>>
    <2>1. <<>> \in Seq(FollowUps)
      OBVIOUS
    <2> QED BY <2>1 DEF Fresh, Unborn, Objects, States
  <1>3. u.heap = [w.heap EXCEPT ![d] = Fresh] /\ u.tasks = w.tasks /\ u.attached = w.attached
    BY DEF Create, Worlds
  <1>5. u \in Worlds
    BY <1>2 DEF Create, Worlds
  <1> QED BY <1>1, <1>2, <1>3, <1>5

\* A task added last tells progress before its outcome, if no outcome of its promise is queued.
LEMMA ToldAppend ==
  ASSUME NEW ts \in Seq(Jobs), Told(ts), NEW t \in Jobs,
         t.kind = "notify" => \A i \in 1 .. Len(ts) : ts[i].kind = "process" => ts[i].p # t.p
  PROVE  Told(Append(ts, t))
  <1>1. /\ Len(Append(ts, t)) = Len(ts) + 1 /\ Len(ts) \in Nat
        /\ \A i \in 1 .. Len(ts) : Append(ts, t)[i] = ts[i]
        /\ Append(ts, t)[Len(ts) + 1] = t
    BY AppendProperties
  <1>2. PICK us : us = Append(ts, t)
    OBVIOUS
  <1> QED BY <1>1, <1>2 DEF Told

\* A new promise leaves all the others whole.
LEMMA CreateKeeps ==
  ASSUME NEW w, NEW rn, NEW rep, Whole(w, rn, rep), NEW d \in Promises,
         w.heap[d].state = "unborn", NEW u, u = Create(w, d)
  PROVE  Whole(u, rn, rep)
  <1>1. /\ u \in Worlds /\ u.attached = w.attached /\ u.tasks = w.tasks
        /\ \A q \in Promises : q # d => u.heap[q] = w.heap[q]
        /\ u.heap[d].state = "pending" /\ u.heap[d].value = Undef /\ u.heap[d].pending = <<>>
    BY CreateParts DEF Whole
  <1>2. w \in Worlds /\ Len(w.tasks) \in Nat /\ \A i \in 1 .. Len(w.tasks) : w.tasks[i].p \in Promises
    BY WorldFacts DEF Whole, Jobs
  <1>3. Sane(u)
    <2>1. ASSUME NEW q \in Promises
          PROVE  /\ u.heap[q].state # "pending" => u.heap[q].pending = <<>>
                 /\ u.heap[q].state = "unborn" => u.attached[q] = <<>>
                 /\ Ended(u, q) => u.heap[q].value # Undef
      BY <1>1 DEF Whole, Sane, Ended, Ends
    <2>2. ASSUME NEW i \in 1 .. Len(u.tasks), u.tasks[i].kind = "process"
          PROVE  u.tasks[i].cbs # <<>> /\ Ended(u, u.tasks[i].p)
      <3>1. w.tasks[i].cbs # <<>> /\ Ended(w, w.tasks[i].p)
        BY <1>1, <2>2 DEF Whole, Sane
      <3>2. w.tasks[i].p # d /\ w.tasks[i].p \in Promises
        BY <1>1, <1>2, <3>1 DEF Ended, Ends
      <3> QED BY <1>1, <3>1, <3>2 DEF Ended
    <2> QED BY <2>1, <2>2 DEF Sane
  <1>4. Ordered(u, rn)
    BY <1>1 DEF Whole, Ordered, Sane
  <1>5. Checked(u, rep)
    <2>1. Checked(w, rep) /\ \A i \in 1 .. Len(rep) : rep[i] \in Promises
      BY DEF Whole
    <2>2. \A q \in Promises : w.heap[q].state = "rejected" \/ u.heap[q].state = "rejected"
            => q # d /\ u.heap[q] = w.heap[q]
      BY <1>1
    <2>3. \A i \in 1 .. Len(w.tasks) : w.tasks[i].kind = "check" =>
            u.heap[w.tasks[i].p].state = "rejected"
      BY <1>2, <2>1, <2>2 DEF Checked
    <2>4. \A i \in 1 .. Len(rep) : u.heap[rep[i]].state = "rejected"
      BY <2>1, <2>2 DEF Checked
    <2>5. \A q \in Promises : u.heap[q].state = "rejected" /\ ~u.heap[q].handled =>
           (\E i \in 1 .. Len(w.tasks) : w.tasks[i].kind = "check" /\ w.tasks[i].p = q)
           \/ (\E i \in 1 .. Len(rep) : rep[i] = q)
      BY <2>1, <2>2 DEF Checked
    <2> QED BY <1>1, <2>1, <2>3, <2>4, <2>5 DEF Checked
  <1> QED BY <1>1, <1>3, <1>4, <1>5 DEF Whole

\* A follow-up that is attached waits, or is scheduled, behind those before it.
LEMMA AttachKeeps ==
  ASSUME NEW w, NEW rn, NEW rep, Whole(w, rn, rep), NEW p \in Promises, NEW cb \in FollowUps,
         w.heap[p].state # "unborn", NEW u, u = Attach(w, p, cb)
  PROVE  Whole(u, rn, rep)
  <1> DEFINE t == Task("process", p, <<cb>>)
  <1>1. /\ u \in Worlds /\ Alike(u, w)
        /\ \A q \in Promises : q # p => u.heap[q] = w.heap[q] /\ u.attached[q] = w.attached[q]
        /\ u.heap[p].handled = TRUE /\ u.attached[p] = Append(w.attached[p], cb)
        /\ w.heap[p].state = "pending" =>
             u.heap[p].pending = Append(w.heap[p].pending, cb) /\ u.tasks = w.tasks
        /\ w.heap[p].state # "pending" =>
             /\ u.heap[p].pending = w.heap[p].pending
             /\ u.tasks = Append(w.tasks, t) /\ t \in Jobs
    <2>1. w \in Worlds
      BY DEF Whole
    <2>2. Attached(u, w, p, cb)
      BY <2>1, AttachParts
    <2> QED BY <2>2 DEF Attached
  <1>2. /\ w \in Worlds /\ w.tasks \in Seq(Jobs) /\ Len(w.tasks) \in Nat
        /\ \A i \in 1 .. Len(w.tasks) : w.tasks[i] \in Jobs /\ w.tasks[i].p \in Promises
    BY WorldFacts DEF Whole, Jobs
  <1>3. /\ w.heap[p] \in Objects /\ w.heap[p].pending \in Seq(FollowUps)
        /\ w.attached[p] \in Seq(FollowUps) /\ rn[p] \in 0 .. Len(w.attached[p])
        /\ w.heap[p].state \in States
    BY <1>2, WorldFacts DEF Whole, Ordered, Objects
  <1>4. t.kind = "process" /\ t.p = p /\ t.cbs = <<cb>> /\ <<cb>> # <<>>
    BY DEF Task
  <1> HIDE DEF t
  <1>5. w.heap[p].state # "pending" =>
          /\ Len(u.tasks) = Len(w.tasks) + 1 /\ u.tasks[Len(w.tasks) + 1] = t
          /\ \A i \in 1 .. Len(w.tasks) : u.tasks[i] = w.tasks[i]
          /\ w.heap[p].state \in Ends
    <2>1. ASSUME w.heap[p].state # "pending"
          PROVE  /\ Len(u.tasks) = Len(w.tasks) + 1 /\ u.tasks[Len(w.tasks) + 1] = t
                 /\ \A i \in 1 .. Len(w.tasks) : u.tasks[i] = w.tasks[i]
      <3>1. u.tasks = Append(w.tasks, t) /\ t \in Jobs /\ w.tasks \in Seq(Jobs)
        BY <1>1, <1>2, <2>1
      <3> QED BY <3>1, AppendProperties
    <2>2. w.heap[p].state # "pending" => w.heap[p].state \in Ends
      BY <1>3 DEF States, Ends
    <2> QED BY <2>1, <2>2
  <1>6. Sane(u)
    <2>1. ASSUME NEW q \in Promises
          PROVE  /\ u.heap[q].state # "pending" => u.heap[q].pending = <<>>
                 /\ u.heap[q].state = "unborn" => u.attached[q] = <<>>
                 /\ Ended(u, q) => u.heap[q].value # Undef
      <3>1. /\ w.heap[q].state # "pending" => w.heap[q].pending = <<>>
            /\ w.heap[q].state = "unborn" => w.attached[q] = <<>>
            /\ w.heap[q].state \in Ends => w.heap[q].value # Undef
        BY DEF Whole, Sane, Ended
      <3>2. u.heap[q].state = w.heap[q].state /\ u.heap[q].value = w.heap[q].value
        BY <1>1 DEF Alike
      <3>3. CASE q = p
        BY <1>1, <3>1, <3>2, <3>3 DEF Ended
      <3>4. CASE q # p
        BY <1>1, <3>1, <3>2, <3>4 DEF Ended
      <3> QED BY <3>3, <3>4
    <2>2. ASSUME NEW i \in 1 .. Len(u.tasks), u.tasks[i].kind = "process"
          PROVE  u.tasks[i].cbs # <<>> /\ Ended(u, u.tasks[i].p)
      <3>1. CASE i \in 1 .. Len(w.tasks)
        <4>1. u.tasks[i] = w.tasks[i]
          BY <1>1, <1>5, <3>1
        <4>2. w.tasks[i].cbs # <<>> /\ Ended(w, w.tasks[i].p) /\ w.tasks[i].p \in Promises
          BY <1>2, <2>2, <3>1, <4>1 DEF Whole, Sane
        <4> QED BY <1>1, <4>1, <4>2 DEF Ended, Alike
      <3>2. CASE i \notin 1 .. Len(w.tasks)
        <4>1. w.heap[p].state # "pending" /\ i = Len(w.tasks) + 1
          BY <1>1, <1>2, <1>5, <3>2
        <4>2. u.tasks[i] = t /\ w.heap[p].state \in Ends
          BY <1>5, <4>1
        <4>3. u.heap[p].state \in Ends
          BY <1>1, <4>2 DEF Alike
        <4> QED BY <1>4, <4>2, <4>3 DEF Ended
      <3> QED BY <3>1, <3>2
    <2> QED BY <2>1, <2>2 DEF Sane
  <1>7. Ordered(u, rn)
    <2>1. ASSUME NEW q \in Promises, q # p
          PROVE  /\ rn[q] \in 0 .. Len(u.attached[q])
                 /\ Scheduled(q, u.tasks) \o u.heap[q].pending = Rest(u.attached[q], rn[q])
      <3>1. Scheduled(q, u.tasks) = Scheduled(q, w.tasks)
        <4>1. CASE w.heap[p].state = "pending"
          BY <1>1, <4>1
        <4>2. CASE w.heap[p].state # "pending"
          <5>1. Share(q, t) = <<>>
            BY <1>4, <2>1 DEF Share
          <5>2. Scheduled(q, u.tasks) = Scheduled(q, w.tasks) \o <<>>
            BY <1>1, <1>2, <4>2, <5>1, ScheduledAppend
          <5> QED BY <1>2, <5>2, ScheduledType, ConcatEmptySeq
        <4> QED BY <4>1, <4>2
      <3> QED BY <1>1, <2>1, <3>1 DEF Whole, Ordered
    <2>2. rn[p] \in 0 .. Len(u.attached[p])
      <3>1. Len(u.attached[p]) = Len(w.attached[p]) + 1 /\ Len(w.attached[p]) \in Nat
        BY <1>1, <1>3, AppendProperties
      <3> QED BY <1>3, <3>1
    <2>3. Scheduled(p, u.tasks) \o u.heap[p].pending = Rest(u.attached[p], rn[p])
      <3>1. Rest(u.attached[p], rn[p]) = Append(Rest(w.attached[p], rn[p]), cb)
        BY <1>1, <1>3, RestAppend
      <3>2. Rest(w.attached[p], rn[p]) = Scheduled(p, w.tasks) \o w.heap[p].pending
        BY DEF Whole, Ordered
      <3>3. Scheduled(p, w.tasks) \in Seq(FollowUps)
        BY <1>2, ScheduledType
      <3>4. CASE w.heap[p].state = "pending"
        <4> DEFINE a == Scheduled(p, w.tasks)
                   b == w.heap[p].pending
        <4>1. a \o Append(b, cb) = Append(a \o b, cb)
          <5>1. a \in Seq(FollowUps) /\ b \in Seq(FollowUps)
            BY <1>3, <3>3
          <5> HIDE DEF a, b
          <5> QED BY <5>1, ConcatAppend
        <4> QED BY <1>1, <3>1, <3>2, <3>4, <4>1
      <3>5. CASE w.heap[p].state # "pending"
        <4>1. w.heap[p].pending = <<>> /\ u.heap[p].pending = <<>>
          BY <1>1, <3>5 DEF Whole, Sane
        <4>2. Share(p, t) = <<cb>>
          BY <1>4 DEF Share
        <4>3. Scheduled(p, u.tasks) = Scheduled(p, w.tasks) \o <<cb>>
          BY <1>1, <1>2, <3>5, <4>2, ScheduledAppend
        <4>4. Scheduled(p, w.tasks) \o <<cb>> = Append(Scheduled(p, w.tasks), cb)
              /\ Append(Scheduled(p, w.tasks), cb) \in Seq(FollowUps)
          BY <3>3, AppendIsConcat, AppendProperties
        <4>5. Scheduled(p, w.tasks) \o <<>> = Scheduled(p, w.tasks)
          BY <3>3, ConcatEmptySeq
        <4>6. Append(Scheduled(p, w.tasks), cb) \o <<>> = Append(Scheduled(p, w.tasks), cb)
          BY <4>4, ConcatEmptySeq
        <4> QED BY <3>1, <3>2, <4>1, <4>3, <4>4, <4>5, <4>6
      <3> QED BY <3>4, <3>5
    <2> QED BY <2>1, <2>2, <2>3 DEF Ordered
  <1>8. Told(u.tasks)
    <2>1. Told(w.tasks)
      BY DEF Whole
    <2>2. CASE w.heap[p].state # "pending"
      BY <1>1, <1>2, <1>4, <2>1, <2>2, ToldAppend
    <2> QED BY <1>1, <2>1, <2>2
  <1>9. Checked(u, rep)
    <2>1. \A i \in 1 .. Len(rep) : rep[i] \in Promises
      BY DEF Whole
    <2>2. \A i \in 1 .. Len(u.tasks) : u.tasks[i].kind = "check" =>
            i \in 1 .. Len(w.tasks) /\ u.tasks[i] = w.tasks[i]
      BY <1>1, <1>2, <1>4, <1>5
    <2>3. \A i \in 1 .. Len(w.tasks) : i \in 1 .. Len(u.tasks) /\ u.tasks[i] = w.tasks[i]
      BY <1>1, <1>2, <1>5
    <2>4. Checked(w, rep)
      BY DEF Whole
    <2>5. \A q \in Promises : u.heap[q].state = w.heap[q].state
                              /\ (~u.heap[q].handled => ~w.heap[q].handled)
      BY <1>1 DEF Alike
    <2>6. \A i, j \in 1 .. Len(u.tasks) :
            u.tasks[i].kind = "check" /\ u.tasks[j].kind = "check" /\ u.tasks[i].p = u.tasks[j].p => i = j
      BY <2>2, <2>4 DEF Checked
    <2>7. \A i \in 1 .. Len(u.tasks) : u.tasks[i].kind = "check" =>
            u.heap[u.tasks[i].p].state = "rejected" /\ \A j \in 1 .. Len(rep) : rep[j] # u.tasks[i].p
      <3>1. ASSUME NEW i \in 1 .. Len(u.tasks), u.tasks[i].kind = "check", NEW q, q = u.tasks[i].p
            PROVE  u.heap[q].state = "rejected" /\ \A j \in 1 .. Len(rep) : rep[j] # q
        <4>1. i \in 1 .. Len(w.tasks) /\ w.tasks[i].kind = "check" /\ w.tasks[i].p = q
          BY <2>2, <3>1
        <4>2. w.heap[q].state = "rejected" /\ \A j \in 1 .. Len(rep) : rep[j] # q
          BY <2>4, <4>1 DEF Checked
        <4>3. q \in Promises
          BY <1>2, <4>1
        <4> QED BY <2>5, <4>2, <4>3
      <3> QED BY <3>1
    <2>8. \A q \in Promises : u.heap[q].state = "rejected" /\ ~u.heap[q].handled =>
           (\E i \in 1 .. Len(u.tasks) : u.tasks[i].kind = "check" /\ u.tasks[i].p = q)
           \/ (\E i \in 1 .. Len(rep) : rep[i] = q)
      BY <2>3, <2>4, <2>5 DEF Checked
    <2>9. /\ \A i, j \in 1 .. Len(rep) : rep[i] = rep[j] => i = j
          /\ \A i \in 1 .. Len(rep) : u.heap[rep[i]].state = "rejected"
      BY <2>1, <2>4, <2>5 DEF Checked
    <2> QED BY <2>6, <2>7, <2>8, <2>9 DEF Checked
  <1> QED BY <1>1, <1>6, <1>7, <1>8, <1>9 DEF Whole

\* What resolve and reject with a plain value change.
OnlyOutcome(u, w, d, st, v) ==
  \A q \in Promises :
    /\ u.heap[q].state = IF q = d /\ w.heap[d].state = "pending" THEN st ELSE w.heap[q].state
    /\ u.heap[q].value = IF q = d /\ w.heap[d].state = "pending" THEN v ELSE w.heap[q].value

\* A settlement schedules what waited, and a check for a rejection.
LEMMA SettleKeeps ==
  ASSUME NEW w, NEW rn, NEW rep, Whole(w, rn, rep), NEW d \in Promises, NEW st \in Ends,
         NEW v \in Vals \cup {Group}, NEW u, u = Settle(w, d, st, v)
  PROVE  Whole(u, rn, rep) /\ u.attached = w.attached /\ OnlyOutcome(u, w, d, st, v)
  <1>1. CASE w.heap[d].state # "pending"
    BY <1>1 DEF Settle, OnlyOutcome
  <1>2. CASE w.heap[d].state = "pending"
    <2>1. Closed(u, w, d, st, v)
      BY <1>2, SettledParts DEF Whole, Settle
    <2>2. /\ w \in Worlds /\ w.tasks \in Seq(Jobs) /\ Len(w.tasks) \in Nat
          /\ \A i \in 1 .. Len(w.tasks) : w.tasks[i] \in Jobs /\ w.tasks[i].p \in Promises
      BY WorldFacts DEF Whole, Jobs
    <2>3. /\ w.heap[d].pending \in Seq(FollowUps)
          /\ \A q \in Promises : w.attached[q] \in Seq(FollowUps)
      BY <2>2, WorldFacts DEF Objects
    <2> DEFINE c == w.heap[d].pending
               tp == Task("process", d, c)
               tc == Task("check", d, <<>>)
               t1 == IF c = <<>> THEN w.tasks ELSE Append(w.tasks, tp)
    <2>4. /\ tp \in Jobs /\ tc \in Jobs
          /\ tp.kind = "process" /\ tp.p = d /\ tp.cbs = c
          /\ tc.kind = "check" /\ tc.p = d
      <3>1. tp \in Jobs /\ tc \in Jobs
        BY <2>1 DEF Closed
      <3> QED BY <3>1 DEF Task
    <2>5. u.tasks = IF st = "rejected" THEN Append(t1, tc) ELSE t1
      <3>1. u.tasks = w.tasks \o (IF c = <<>> THEN <<>> ELSE <<tp>>)
                              \o (IF st = "rejected" THEN <<tc>> ELSE <<>>)
        BY <2>1 DEF Closed
      <3> HIDE DEF c, tp, tc
      <3>2. w.tasks \o (IF c = <<>> THEN <<>> ELSE <<tp>>) = t1
        <4>1. CASE c = <<>>
          BY <2>2, <4>1, ConcatEmptySeq
        <4>2. CASE c # <<>>
          BY <2>2, <2>4, <4>2, AppendIsConcat
        <4> QED BY <4>1, <4>2
      <3>3. t1 \in Seq(Jobs)
        BY <2>2, <2>4, AppendProperties
      <3> HIDE DEF t1
      <3>4. CASE st = "rejected"
        <4>1. u.tasks = t1 \o <<tc>>
          BY <3>1, <3>2, <3>4
        <4>2. Append(t1, tc) = t1 \o <<tc>>
          BY <2>4, <3>3, AppendIsConcat
        <4> QED BY <3>4, <4>1, <4>2
      <3>5. CASE st # "rejected"
        <4>1. u.tasks = t1 \o <<>>
          BY <3>1, <3>2, <3>5
        <4> QED BY <3>3, <3>5, <4>1, ConcatEmptySeq
      <3> QED BY <3>4, <3>5
    <2> HIDE DEF tp, tc
    <2>6. t1 \in Seq(Jobs)
      BY <2>2, <2>4, AppendProperties
    <2>7. /\ Len(t1) \in Nat /\ Len(w.tasks) <= Len(t1)
          /\ \A i \in 1 .. Len(w.tasks) : t1[i] = w.tasks[i]
          /\ \A i \in 1 .. Len(t1) : i \notin 1 .. Len(w.tasks) => c # <<>> /\ t1[i] = tp
      <3>1. CASE c = <<>>
        BY <2>2, <3>1
      <3>2. CASE c # <<>>
        <4>1. /\ Len(t1) = Len(w.tasks) + 1 /\ t1[Len(w.tasks) + 1] = tp
              /\ \A i \in 1 .. Len(w.tasks) : t1[i] = w.tasks[i]
          BY <2>2, <2>4, <3>2, AppendProperties
        <4> HIDE DEF t1
        <4> QED BY <2>2, <3>2, <4>1
      <3> QED BY <3>1, <3>2
    <2>8. /\ u.tasks \in Seq(Jobs) /\ Len(u.tasks) \in Nat /\ Len(t1) <= Len(u.tasks)
          /\ \A i \in 1 .. Len(t1) : u.tasks[i] = t1[i]
          /\ \A i \in 1 .. Len(u.tasks) : i \notin 1 .. Len(t1) =>
               st = "rejected" /\ u.tasks[i] = tc /\ i = Len(t1) + 1
          /\ st = "rejected" => Len(u.tasks) = Len(t1) + 1 /\ u.tasks[Len(t1) + 1] = tc
      <3> HIDE DEF t1
      <3>1. CASE st = "rejected"
        <4>1. /\ u.tasks \in Seq(Jobs) /\ Len(u.tasks) = Len(t1) + 1 /\ u.tasks[Len(t1) + 1] = tc
              /\ \A i \in 1 .. Len(t1) : u.tasks[i] = t1[i]
          BY <2>4, <2>5, <2>6, <3>1, AppendProperties
        <4> QED BY <2>7, <3>1, <4>1
      <3>2. CASE st # "rejected"
        BY <2>5, <2>6, <2>7, <3>2
      <3> QED BY <3>1, <3>2
    <2>9. /\ u.attached = w.attached /\ u \in Worlds
          /\ \A q \in Promises : q # d => u.heap[q] = w.heap[q]
          /\ u.heap[d].state = st /\ u.heap[d].value = v /\ u.heap[d].pending = <<>>
          /\ u.heap[d].handled = w.heap[d].handled
      BY <2>1 DEF Closed
    <2> HIDE DEF c
    <2>10. Sane(u)
      <3>1. v # Undef /\ st # "pending" /\ st # "unborn"
        BY QAssumption DEF Ends
      <3>2. ASSUME NEW q \in Promises
            PROVE  /\ u.heap[q].state # "pending" => u.heap[q].pending = <<>>
                   /\ u.heap[q].state = "unborn" => u.attached[q] = <<>>
                   /\ Ended(u, q) => u.heap[q].value # Undef
        BY <2>9, <3>1 DEF Whole, Sane, Ended
      <3>3. ASSUME NEW i \in 1 .. Len(u.tasks), u.tasks[i].kind = "process"
            PROVE  u.tasks[i].cbs # <<>> /\ Ended(u, u.tasks[i].p)
        <4> HIDE DEF t1
        <4>1. CASE i \in 1 .. Len(w.tasks)
          <5>1. u.tasks[i] = w.tasks[i]
            BY <2>2, <2>7, <2>8, <4>1
          <5>2. w.tasks[i].cbs # <<>> /\ Ended(w, w.tasks[i].p) /\ w.tasks[i].p \in Promises
            BY <2>2, <3>3, <4>1, <5>1 DEF Whole, Sane
          <5>3. Ended(u, w.tasks[i].p)
            BY <2>9, <5>2 DEF Ended
          <5> QED BY <5>1, <5>2, <5>3
        <4>2. CASE i \notin 1 .. Len(w.tasks)
          <5>1. i \in 1 .. Len(t1)
            BY <2>4, <2>8, <3>3
          <5>2. u.tasks[i] = tp /\ c # <<>>
            BY <2>7, <2>8, <4>2, <5>1
          <5> QED BY <2>4, <2>9, <5>2 DEF Ended
        <4> QED BY <4>1, <4>2
      <3> QED BY <3>2, <3>3 DEF Sane
    <2>11. Ordered(u, rn)
      <3>1. ASSUME NEW q \in Promises
            PROVE  Scheduled(q, u.tasks) = Scheduled(q, w.tasks) \o (IF q = d THEN c ELSE <<>>)
        <4>1. Scheduled(q, t1) = Scheduled(q, w.tasks) \o (IF q = d THEN c ELSE <<>>)
          <5>1. CASE c = <<>>
            BY <2>2, <5>1, ScheduledType, ConcatEmptySeq
          <5>2. CASE c # <<>>
            <6>1. Share(q, tp) = IF q = d THEN c ELSE <<>>
              BY <2>4 DEF Share
            <6> QED BY <2>2, <2>4, <5>2, <6>1, ScheduledAppend
          <5> QED BY <5>1, <5>2
        <4> HIDE DEF t1
        <4>2. CASE st = "rejected"
          <5>1. Share(q, tc) = <<>>
            BY <2>4 DEF Share
          <5>2. Scheduled(q, u.tasks) = Scheduled(q, t1) \o <<>>
            BY <2>4, <2>5, <2>6, <4>2, <5>1, ScheduledAppend
          <5>3. Scheduled(q, t1) \o <<>> = Scheduled(q, t1)
            BY <2>6, ScheduledType, ConcatEmptySeq
          <5> QED BY <4>1, <5>2, <5>3
        <4>3. CASE st # "rejected"
          BY <2>5, <4>1, <4>3
        <4> QED BY <4>2, <4>3
      <3>2. ASSUME NEW q \in Promises
            PROVE  Scheduled(q, u.tasks) \o u.heap[q].pending = Scheduled(q, w.tasks) \o w.heap[q].pending
        <4>1. Scheduled(q, w.tasks) \in Seq(FollowUps) /\ w.heap[q].pending \in Seq(FollowUps)
              /\ Scheduled(q, u.tasks) \in Seq(FollowUps)
          BY <2>2, <2>8, ScheduledType, WorldFacts DEF Objects
        <4>2. CASE q = d
          <5>1. Scheduled(q, u.tasks) = Scheduled(q, w.tasks) \o w.heap[q].pending
            BY <3>1, <4>2 DEF c
          <5>2. u.heap[q].pending = <<>> /\ Scheduled(q, u.tasks) \o <<>> = Scheduled(q, u.tasks)
            BY <2>9, <4>1, <4>2, ConcatEmptySeq
          <5> QED BY <5>1, <5>2
        <4>3. CASE q # d
          <5>1. Scheduled(q, u.tasks) = Scheduled(q, w.tasks) \o <<>>
            BY <3>1, <4>3
          <5>2. Scheduled(q, w.tasks) \o <<>> = Scheduled(q, w.tasks)
            BY <4>1, ConcatEmptySeq
          <5> QED BY <2>9, <4>3, <5>1, <5>2
        <4> QED BY <4>2, <4>3
      <3> QED BY <2>9, <3>2 DEF Whole, Ordered
    <2>12. Told(u.tasks)
      <3>1. Told(t1)
        <4>1. CASE c = <<>>
          BY <4>1 DEF Whole
        <4>2. CASE c # <<>>
          BY <2>2, <2>4, <4>2, ToldAppend DEF Whole
        <4> QED BY <4>1, <4>2
      <3> HIDE DEF t1
      <3>2. CASE st = "rejected"
        BY <2>4, <2>5, <2>6, <3>1, <3>2, ToldAppend
      <3> QED BY <2>5, <3>1, <3>2
    <2>13. Checked(u, rep)
      <3> HIDE DEF t1
      <3>1. Checked(w, rep) /\ \A i \in 1 .. Len(rep) : rep[i] \in Promises
        BY DEF Whole
      <3>2. \A i \in 1 .. Len(u.tasks) : u.tasks[i].kind = "check" =>
              \/ i \in 1 .. Len(w.tasks) /\ u.tasks[i] = w.tasks[i] /\ w.tasks[i].p # d
              \/ st = "rejected" /\ i = Len(t1) + 1 /\ u.tasks[i].p = d
        <4>1. \A i \in 1 .. Len(w.tasks) : w.tasks[i].kind = "check" => w.tasks[i].p # d
          BY <1>2, <3>1 DEF Checked
        <4>2. ASSUME NEW i \in 1 .. Len(u.tasks), u.tasks[i].kind = "check"
              PROVE  \/ i \in 1 .. Len(w.tasks) /\ u.tasks[i] = w.tasks[i] /\ w.tasks[i].p # d
                     \/ st = "rejected" /\ i = Len(t1) + 1 /\ u.tasks[i].p = d
          <5>1. CASE i \in 1 .. Len(w.tasks)
            <6>1. u.tasks[i] = w.tasks[i]
              BY <2>2, <2>7, <2>8, <5>1
            <6> QED BY <4>1, <4>2, <5>1, <6>1
          <5>2. CASE i \notin 1 .. Len(t1)
            BY <2>4, <2>8, <5>2
          <5>3. CASE i \in 1 .. Len(t1) /\ i \notin 1 .. Len(w.tasks)
            BY <2>4, <2>7, <2>8, <4>2, <5>3
          <5> QED BY <5>1, <5>2, <5>3
        <4> QED BY <4>2
      <3>3. \A i \in 1 .. Len(w.tasks) : i \in 1 .. Len(u.tasks) /\ u.tasks[i] = w.tasks[i]
        BY <2>2, <2>7, <2>8
      <3>4. \A i \in 1 .. Len(rep) : rep[i] # d /\ u.heap[rep[i]].state = "rejected"
        BY <1>2, <2>9, <3>1 DEF Checked
      <3>5. \A i, j \in 1 .. Len(u.tasks) :
              u.tasks[i].kind = "check" /\ u.tasks[j].kind = "check" /\ u.tasks[i].p = u.tasks[j].p
                => i = j
        <4>1. \A i, j \in 1 .. Len(w.tasks) :
                w.tasks[i].kind = "check" /\ w.tasks[j].kind = "check" /\ w.tasks[i].p = w.tasks[j].p
                  => i = j
          BY <3>1 DEF Checked
        <4>2. ASSUME NEW i \in 1 .. Len(u.tasks), NEW j \in 1 .. Len(u.tasks),
                     u.tasks[i].kind = "check", u.tasks[j].kind = "check", u.tasks[i].p = u.tasks[j].p
              PROVE  i = j
          BY <3>2, <4>1, <4>2
        <4> QED BY <4>2
      <3>6. \A i \in 1 .. Len(u.tasks) : u.tasks[i].kind = "check" =>
              u.heap[u.tasks[i].p].state = "rejected" /\ \A j \in 1 .. Len(rep) : rep[j] # u.tasks[i].p
        BY <2>2, <2>9, <3>1, <3>2, <3>4 DEF Checked
      <3>7. ASSUME NEW q \in Promises, u.heap[q].state = "rejected", ~u.heap[q].handled
            PROVE  \/ \E i \in 1 .. Len(u.tasks) : u.tasks[i].kind = "check" /\ u.tasks[i].p = q
                   \/ \E i \in 1 .. Len(rep) : rep[i] = q
        <4>1. CASE q = d
          <5>1. st = "rejected" /\ Len(t1) + 1 \in 1 .. Len(u.tasks) /\ u.tasks[Len(t1) + 1] = tc
            BY <2>7, <2>8, <2>9, <3>7, <4>1
          <5> QED BY <2>4, <4>1, <5>1
        <4>2. CASE q # d
          BY <2>9, <3>1, <3>3, <3>7, <4>2 DEF Checked
        <4> QED BY <4>1, <4>2
      <3> QED BY <3>1, <3>4, <3>5, <3>6, <3>7 DEF Checked
    <2>14. OnlyOutcome(u, w, d, st, v)
      BY <1>2, <2>9 DEF OnlyOutcome
    <2> QED BY <2>9, <2>10, <2>11, <2>12, <2>13, <2>14 DEF Whole
  <1> QED BY <1>1, <1>2

\* us is the list of tasks ts without its first k, and a follow-up fewer at its head.
Fewer(us, ts, k) ==
  /\ us \in Seq(Jobs) /\ k \in {0, 1} /\ Len(us) = Len(ts) - k
  /\ \A i \in 1 .. Len(us) :
       /\ us[i].kind = ts[i + k].kind /\ us[i].p = ts[i + k].p
       /\ us[i].kind = "process" /\ ts[i + k].cbs # <<>> => us[i].cbs # <<>>

\* A list of tasks without its first.
LEMMA DropHead ==
  ASSUME NEW ts \in Seq(Jobs), ts # <<>>
  PROVE  Fewer(Tail(ts), ts, 1)
  <1>1. /\ Tail(ts) \in Seq(Jobs) /\ Len(Tail(ts)) = Len(ts) - 1
        /\ \A k \in 1 .. Len(ts) - 1 : Tail(ts)[k] = ts[k + 1]
    BY TailFacts
  <1>2. PICK us : us = Tail(ts)
    OBVIOUS
  <1> QED BY <1>1, <1>2 DEF Fewer

\* The head task with its first follow-up taken from it.
LEMMA TrimHead ==
  ASSUME NEW ts \in Seq(Jobs), ts # <<>>, Len(ts[1].cbs) > 1,
         NEW us, us = [ts EXCEPT ![1].cbs = Tail(@)]
  PROVE  /\ Fewer(us, ts, 0) /\ us # <<>> /\ us[1].cbs = Tail(ts[1].cbs)
         /\ us[1].kind = ts[1].kind /\ us[1].p = ts[1].p
         /\ Tail(us) = Tail(ts)
  <1>1. Len(ts) \in Nat \ {0} /\ 1 \in 1 .. Len(ts)
    BY EmptySeq
  <1>2. PICK t \in Jobs : t = ts[1]
    BY <1>1
  <1>3. t.cbs \in Seq(FollowUps) /\ Len(t.cbs) > 1
    BY <1>2 DEF Jobs
  <1>4. /\ Tail(t.cbs) \in Seq(FollowUps) /\ Len(Tail(t.cbs)) = Len(t.cbs) - 1
        /\ Len(t.cbs) \in Nat
    <2>1. t.cbs # <<>>
      BY <1>3
    <2> QED BY <1>3, <2>1, TailFacts
  <1>5. Tail(t.cbs) # <<>>
    BY <1>3, <1>4
  <1> DEFINE t2 == [t EXCEPT !.cbs = Tail(@)]
  <1>6. t2 \in Jobs /\ t2.kind = t.kind /\ t2.p = t.p /\ t2.cbs = Tail(t.cbs)
    BY <1>4 DEF Jobs
  <1>7. us = [ts EXCEPT ![1] = t2]
    BY <1>2
  <1> HIDE DEF t2
  <1>8. /\ us \in Seq(Jobs) /\ Len(us) = Len(ts)
        /\ \A j \in 1 .. Len(ts) : us[j] = IF j = 1 THEN t2 ELSE ts[j]
    BY ONLY <1>1, <1>6, <1>7, ts \in Seq(Jobs), ExceptSeq
  <1>9. us # <<>>
    BY <1>1, <1>8
  <1>10. Fewer(us, ts, 0)
    <2>1. ASSUME NEW i \in 1 .. Len(us)
          PROVE  /\ us[i].kind = ts[i + 0].kind /\ us[i].p = ts[i + 0].p
                 /\ us[i].kind = "process" /\ ts[i + 0].cbs # <<>> => us[i].cbs # <<>>
      <3>1. i \in 1 .. Len(ts) /\ i + 0 = i
        BY <1>1, <1>8
      <3>2. us[i] = IF i = 1 THEN t2 ELSE ts[i]
        BY <1>8, <3>1
      <3> QED BY <1>2, <1>5, <1>6, <3>1, <3>2
    <2>2. Len(us) = Len(ts) - 0
      BY <1>1, <1>8
    <2> QED BY <1>8, <2>1, <2>2 DEF Fewer
  <1>11. Tail(us) = Tail(ts)
    <2>1. /\ Tail(us) \in Seq(Jobs) /\ Len(Tail(us)) = Len(us) - 1
          /\ \A k \in 1 .. Len(us) - 1 : Tail(us)[k] = us[k + 1]
      BY <1>8, <1>9, TailFacts
    <2>2. /\ Tail(ts) \in Seq(Jobs) /\ Len(Tail(ts)) = Len(ts) - 1
          /\ \A k \in 1 .. Len(ts) - 1 : Tail(ts)[k] = ts[k + 1]
      BY TailFacts
    <2>3. ASSUME NEW k \in 1 .. Len(ts) - 1 PROVE Tail(us)[k] = Tail(ts)[k]
      <3>1. k + 1 \in 1 .. Len(ts) /\ k + 1 # 1
        BY <1>1
      <3> QED BY <1>8, <2>1, <2>2, <3>1
    <2> QED BY <1>8, <2>1, <2>2, <2>3, SeqEqual
  <1>12. us[1] = t2
    BY <1>1, <1>8
  <1> QED BY <1>2, <1>6, <1>9, <1>10, <1>11, <1>12

\* Taking from the tasks disturbs neither their order nor what they say.
LEMMA FewerKeeps ==
  ASSUME NEW w, NEW rn, NEW rep, Whole(w, rn, rep), NEW u, NEW k, u \in Worlds, u.heap = w.heap,
         u.attached = w.attached, Fewer(u.tasks, w.tasks, k)
  PROVE  Sane(u) /\ Told(u.tasks)
  <1>1. /\ w \in Worlds /\ w.tasks \in Seq(Jobs) /\ Len(w.tasks) \in Nat
        /\ u.tasks \in Seq(Jobs) /\ Len(u.tasks) \in Nat
    BY WorldFacts DEF Whole
  <1>2. k \in {0, 1} /\ \A i \in 1 .. Len(u.tasks) : i + k \in 1 .. Len(w.tasks)
    BY <1>1 DEF Fewer
  <1>3. Told(u.tasks)
    <2>1. Told(w.tasks)
      BY DEF Whole
    <2>2. ASSUME NEW i \in 1 .. Len(u.tasks), NEW j \in 1 .. Len(u.tasks),
                 u.tasks[i].kind = "process", u.tasks[j].kind = "notify",
                 u.tasks[i].p = u.tasks[j].p
          PROVE  j < i
      <3>1. j + k < i + k
        BY <1>2, <2>1, <2>2 DEF Fewer, Told
      <3> QED BY <1>2, <3>1
    <2> QED BY <2>2 DEF Told
  <1>4. Sane(u)
    <2>1. ASSUME NEW i \in 1 .. Len(u.tasks), u.tasks[i].kind = "process"
          PROVE  u.tasks[i].cbs # <<>> /\ Ended(u, u.tasks[i].p)
      <3>1. w.tasks[i + k].kind = "process" /\ w.tasks[i + k].p = u.tasks[i].p
        BY <2>1 DEF Fewer
      <3>2. w.tasks[i + k].cbs # <<>> /\ Ended(w, w.tasks[i + k].p)
        BY <1>2, <3>1 DEF Whole, Sane
      <3> QED BY <2>1, <3>1, <3>2 DEF Fewer, Ended
    <2> QED BY <2>1 DEF Whole, Sane, Ended
  <1> QED BY <1>3, <1>4

\* Every check is still queued, so what is reported need not change.
LEMMA FewerChecked ==
  ASSUME NEW w, NEW rn, NEW rep, Whole(w, rn, rep), NEW u, NEW k, u \in Worlds, u.heap = w.heap,
         u.attached = w.attached, Fewer(u.tasks, w.tasks, k),
         k = 1 => w.tasks[1].kind # "check"
  PROVE  Checked(u, rep)
  <1>1. /\ w \in Worlds /\ w.tasks \in Seq(Jobs) /\ Len(w.tasks) \in Nat
        /\ u.tasks \in Seq(Jobs) /\ Len(u.tasks) \in Nat
    BY WorldFacts DEF Whole
  <1>2. k \in {0, 1} /\ \A i \in 1 .. Len(u.tasks) : i + k \in 1 .. Len(w.tasks)
    BY <1>1 DEF Fewer
  <1>3. Checked(w, rep)
    BY DEF Whole
  <1>4. \A i, j \in 1 .. Len(u.tasks) :
          u.tasks[i].kind = "check" /\ u.tasks[j].kind = "check" /\ u.tasks[i].p = u.tasks[j].p => i = j
    <2>1. ASSUME NEW i \in 1 .. Len(u.tasks), NEW j \in 1 .. Len(u.tasks),
                 u.tasks[i].kind = "check", u.tasks[j].kind = "check", u.tasks[i].p = u.tasks[j].p
          PROVE  i = j
      <3>1. /\ i + k \in 1 .. Len(w.tasks) /\ j + k \in 1 .. Len(w.tasks)
            /\ w.tasks[i + k].kind = "check" /\ w.tasks[j + k].kind = "check"
            /\ w.tasks[i + k].p = w.tasks[j + k].p
        BY <1>2, <2>1 DEF Fewer
      <3>2. i + k = j + k
        BY <1>3, <3>1 DEF Checked
      <3> QED BY <1>2, <3>2
    <2> QED BY <2>1
  <1>5. \A i \in 1 .. Len(u.tasks) : u.tasks[i].kind = "check" =>
          u.heap[u.tasks[i].p].state = "rejected" /\ \A j \in 1 .. Len(rep) : rep[j] # u.tasks[i].p
    <2>1. ASSUME NEW i \in 1 .. Len(u.tasks), u.tasks[i].kind = "check"
          PROVE  i + k \in 1 .. Len(w.tasks) /\ w.tasks[i + k].kind = "check"
                 /\ w.tasks[i + k].p = u.tasks[i].p
      BY <1>2, <2>1 DEF Fewer
    <2> QED BY <1>3, <2>1 DEF Checked
  <1>6. ASSUME NEW q \in Promises, u.heap[q].state = "rejected", ~u.heap[q].handled
        PROVE  \/ \E i \in 1 .. Len(u.tasks) : u.tasks[i].kind = "check" /\ u.tasks[i].p = q
               \/ \E i \in 1 .. Len(rep) : rep[i] = q
    <2>1. CASE \E i \in 1 .. Len(rep) : rep[i] = q
      BY <2>1
    <2>2. CASE \E i \in 1 .. Len(w.tasks) : w.tasks[i].kind = "check" /\ w.tasks[i].p = q
      <3>1. PICK i \in 1 .. Len(w.tasks) : w.tasks[i].kind = "check" /\ w.tasks[i].p = q
        BY <2>2
      <3>2. PICK j \in 1 .. Len(u.tasks) : j + k = i
        <4>1. k = 1 => i # 1
          BY <3>1
        <4>2. i - k \in 1 .. Len(u.tasks) /\ (i - k) + k = i
          BY <1>1, <1>2, <4>1 DEF Fewer
        <4> QED BY <4>2
      <3> QED BY <3>1, <3>2 DEF Fewer
    <2> QED BY <1>3, <1>6, <2>1, <2>2 DEF Checked
  <1> QED BY <1>3, <1>4, <1>5, <1>6 DEF Checked

\* The head task with its first follow-up done.
LEMMA ShiftParts ==
  ASSUME World \in Worlds, tasks # <<>>, NEW u, u = Shifted(World)
  PROVE  /\ u \in Worlds /\ u.heap = heap /\ u.attached = attached
         /\ \/ Len(Running.cbs) <= 1 /\ u.tasks = Tail(tasks)
            \/ Len(Running.cbs) > 1 /\ u.tasks = [tasks EXCEPT ![1].cbs = Tail(@)]
         /\ \E k : Fewer(u.tasks, tasks, k) /\ (k = 1 <=> Len(Running.cbs) <= 1)
  <1>1. /\ World.heap = heap /\ World.tasks = tasks /\ World.attached = attached
        /\ tasks \in Seq(Jobs)
    BY WorldFacts DEF World
  <1>2. /\ u.heap = heap /\ u.attached = attached
        /\ u.tasks = IF Len(Running.cbs) <= 1 THEN Tail(tasks) ELSE [tasks EXCEPT ![1].cbs = Tail(@)]
    BY <1>1 DEF Shifted, Worlds
  <1>3. Len(Running.cbs) \in Nat
    <2>1. tasks[1] \in Jobs
      BY <1>1, TailFacts
    <2>2. tasks[1].cbs \in Seq(FollowUps)
      BY <2>1 DEF Jobs
    <2> QED BY <2>2 DEF Running
  <1>4. \/ Len(Running.cbs) <= 1 /\ u.tasks = Tail(tasks)
        \/ Len(Running.cbs) > 1 /\ u.tasks = [tasks EXCEPT ![1].cbs = Tail(@)]
    BY <1>2, <1>3
  <1>5. \E k : Fewer(u.tasks, tasks, k) /\ (k = 1 <=> Len(Running.cbs) <= 1)
    <2>1. CASE Len(Running.cbs) <= 1
      <3>1. Fewer(Tail(tasks), tasks, 1)
        BY <1>1, DropHead
      <3>2. u.tasks = Tail(tasks)
        BY <1>3, <1>4, <2>1
      <3> QED BY <2>1, <3>1, <3>2
    <2>2. CASE Len(Running.cbs) > 1
      <3>1. Fewer(u.tasks, tasks, 0)
        BY <1>1, <1>3, <1>4, <2>2, TrimHead DEF Running
      <3> QED BY <1>3, <2>2, <3>1
    <2> QED BY <1>4, <2>1, <2>2
  <1>6. u \in Worlds
    <2>1. u.tasks \in Seq(Jobs)
      BY <1>5 DEF Fewer
    <2> QED BY <1>1, <1>2, <2>1 DEF Shifted, Worlds
  <1> QED BY <1>2, <1>4, <1>5, <1>6

\* The follow-up cb is the next one of p, which is settled.
NextOf(p, cb) ==
  /\ p \in Promises /\ cb \in FollowUps /\ heap[p].state \in Ends
  /\ ran[p] + 1 \in 1 .. Len(attached[p]) /\ attached[p][ran[p] + 1] = cb

\* The follow-up that the head task is done with is the next one of its promise.
LEMMA ShiftKeeps ==
  ASSUME Whole(World, ran, reported), tasks # <<>>, Running.kind = "process",
         NEW p, p = Running.p, NEW cb, cb = Running.cbs[1], NEW u, u = Shifted(World),
         NEW rn, rn = [ran EXCEPT ![p] = @ + 1]
  PROVE  Whole(u, rn, reported) /\ u.heap = heap /\ u.attached = attached /\ NextOf(p, cb)
  <1>1. /\ World.heap = heap /\ World.tasks = tasks /\ World.attached = attached
        /\ World \in Worlds /\ tasks \in Seq(Jobs)
        /\ heap \in [Promises -> Objects] /\ attached \in [Promises -> Seq(FollowUps)]
    <2>1. World \in Worlds
      BY DEF Whole
    <2> QED BY <2>1, WorldFacts DEF World
  <1>2. PICK k : Fewer(u.tasks, tasks, k) /\ (k = 1 <=> Len(Running.cbs) <= 1)
    BY <1>1, ShiftParts
  <1>3. /\ u \in Worlds /\ u.heap = heap /\ u.attached = attached
        /\ \/ Len(Running.cbs) <= 1 /\ u.tasks = Tail(tasks)
           \/ Len(Running.cbs) > 1 /\ u.tasks = [tasks EXCEPT ![1].cbs = Tail(@)]
    BY <1>1, ShiftParts
  <1>4. Sane(u) /\ Told(u.tasks)
    BY <1>1, <1>2, <1>3, FewerKeeps
  <1>5. Checked(u, reported)
    BY <1>1, <1>2, <1>3, FewerChecked DEF Running
  <1>6. PICK t \in Jobs : t = tasks[1]
    BY <1>1, TailFacts
  <1>7. /\ t.kind = "process" /\ t.p = p /\ p \in Promises /\ t.cbs \in Seq(FollowUps)
        /\ t.cbs = Running.cbs /\ t.cbs # <<>> /\ heap[p].state \in Ends
    <2>1. t.kind = "process" /\ t.p = p /\ t.p \in Promises /\ t.cbs \in Seq(FollowUps)
          /\ t.cbs = Running.cbs
      BY <1>6 DEF Jobs, Running
    <2>2. 1 \in 1 .. Len(tasks)
      BY <1>1, EmptySeq
    <2>3. t.cbs # <<>> /\ Ended(World, t.p)
      BY <1>1, <1>6, <2>1, <2>2 DEF Whole, Sane
    <2> QED BY <1>1, <2>1, <2>3 DEF Ended
  <1>8. cb = t.cbs[1] /\ cb \in FollowUps
    BY <1>7, TailFacts
  <1>9. /\ Tail(t.cbs) \in Seq(FollowUps)
        /\ Len(t.cbs) <= 1 => Tail(t.cbs) = <<>>
    <2>1. Tail(t.cbs) \in Seq(FollowUps) /\ Len(Tail(t.cbs)) = Len(t.cbs) - 1 /\ Len(t.cbs) \in Nat \ {0}
      BY <1>7, TailFacts
    <2>2. \A m \in Nat \ {0} : m <= 1 => m - 1 = 0
      OBVIOUS
    <2>3. Len(t.cbs) <= 1 => Len(Tail(t.cbs)) = 0
      BY <2>1, <2>2
    <2> QED BY <2>1, <2>3, EmptySeq
  \* What the tasks of each promise hold, before and after.
  <1>10. ASSUME NEW q \in Promises
         PROVE  /\ Scheduled(q, Tail(tasks)) \in Seq(FollowUps)
                /\ Scheduled(q, tasks) = (IF q = p THEN t.cbs ELSE <<>>) \o Scheduled(q, Tail(tasks))
                /\ Scheduled(q, u.tasks)
                     = (IF q = p THEN Tail(t.cbs) ELSE <<>>) \o Scheduled(q, Tail(tasks))
    <2>1. /\ Scheduled(q, tasks) = Share(q, t) \o Scheduled(q, Tail(tasks))
          /\ Scheduled(q, Tail(tasks)) \in Seq(FollowUps)
      BY <1>1, <1>6, ScheduledFirst
    <2>2. Share(q, t) = IF q = p THEN t.cbs ELSE <<>>
      BY <1>7 DEF Share
    <2>3. CASE Len(t.cbs) <= 1
      <3>1. u.tasks = Tail(tasks)
        BY <1>3, <1>7, <2>3
      <3>2. (IF q = p THEN Tail(t.cbs) ELSE <<>>) = <<>>
        BY <1>9, <2>3
      <3>3. <<>> \o Scheduled(q, Tail(tasks)) = Scheduled(q, Tail(tasks))
        BY <2>1, ConcatEmptySeq
      <3> QED BY <2>1, <2>2, <3>1, <3>2, <3>3
    <2>4. CASE ~(Len(t.cbs) <= 1)
      <3>1. Len(tasks[1].cbs) > 1 /\ u.tasks = [tasks EXCEPT ![1].cbs = Tail(@)]
        BY <1>3, <1>6, <1>7, <2>4
      <3>2. /\ u.tasks # <<>> /\ u.tasks[1].cbs = Tail(t.cbs) /\ u.tasks[1].kind = "process"
            /\ u.tasks[1].p = p /\ Tail(u.tasks) = Tail(tasks)
        BY <1>1, <1>6, <1>7, <3>1, TrimHead
      <3>3. u.tasks \in Seq(Jobs)
        BY <1>2 DEF Fewer
      <3>4. Scheduled(q, u.tasks) = Share(q, u.tasks[1]) \o Scheduled(q, Tail(u.tasks))
        BY <3>2, <3>3, ScheduledFirst
      <3>5. Share(q, u.tasks[1]) = IF q = p THEN Tail(t.cbs) ELSE <<>>
        BY <3>2 DEF Share
      <3> QED BY <2>1, <2>2, <3>2, <3>4, <3>5
    <2> QED BY <2>3, <2>4
  <1>11. /\ ran[p] \in 0 .. Len(attached[p]) /\ attached[p] \in Seq(FollowUps)
         /\ Scheduled(p, tasks) \o heap[p].pending = Rest(attached[p], ran[p])
         /\ heap[p].pending \in Seq(FollowUps)
    BY <1>1, <1>7 DEF Whole, Ordered, Objects
  <1> DEFINE R == Scheduled(p, Tail(tasks))
             c == t.cbs
             n == heap[p].pending
  <1>12. /\ (Tail(c) \o R) \o n = Tail((c \o R) \o n)
         /\ (c \o R) \o n # <<>> /\ ((c \o R) \o n)[1] = c[1]
    <2>1. c \in Seq(FollowUps) /\ R \in Seq(FollowUps) /\ n \in Seq(FollowUps) /\ c # <<>>
      BY <1>7, <1>10, <1>11
    <2> HIDE DEF c, R, n
    <2>2. /\ Tail(c \o R) = Tail(c) \o R /\ (c \o R)[1] = c[1] /\ c \o R # <<>>
          /\ c \o R \in Seq(FollowUps)
      BY <2>1, TailOfConcat, ConcatProperties
    <2>3. Tail((c \o R) \o n) = Tail(c \o R) \o n /\ ((c \o R) \o n)[1] = (c \o R)[1]
          /\ (c \o R) \o n # <<>>
      BY <2>1, <2>2, TailOfConcat
    <2> QED BY <2>2, <2>3
  <1>13. /\ Rest(attached[p], ran[p]) = (c \o R) \o n
         /\ Scheduled(p, u.tasks) \o heap[p].pending = (Tail(c) \o R) \o n
    BY <1>7, <1>10, <1>11
  <1> HIDE DEF R, c, n
  <1>14. /\ ran[p] + 1 \in 1 .. Len(attached[p]) /\ attached[p][ran[p] + 1] = c[1]
         /\ Rest(attached[p], ran[p] + 1) = (Tail(c) \o R) \o n
    <2>1. Rest(attached[p], ran[p]) # <<>>
      BY <1>12, <1>13
    <2>2. /\ ran[p] + 1 \in 1 .. Len(attached[p])
          /\ Rest(attached[p], ran[p])[1] = attached[p][ran[p] + 1]
          /\ Rest(attached[p], ran[p] + 1) = Tail(Rest(attached[p], ran[p]))
      BY <1>11, <2>1, RestNext
    <2> QED BY <1>12, <1>13, <2>2
  <1>15. rn \in [Promises -> Nat] /\ rn[p] = ran[p] + 1 /\ \A q \in Promises : q # p => rn[q] = ran[q]
    BY <1>7 DEF Whole
  <1>16. Ordered(u, rn)
    <2>1. ASSUME NEW q \in Promises
          PROVE  /\ rn[q] \in 0 .. Len(u.attached[q])
                 /\ Scheduled(q, u.tasks) \o u.heap[q].pending = Rest(u.attached[q], rn[q])
      <3>1. CASE q = p
        <4>1. ran[p] + 1 \in 0 .. Len(attached[p])
          BY <1>14
        <4> QED BY <1>3, <1>13, <1>14, <1>15, <3>1, <4>1
      <3>2. CASE q # p
        <4>1. Scheduled(q, u.tasks) = Scheduled(q, tasks)
          BY <1>10, <3>2
        <4> QED BY <1>1, <1>3, <1>15, <3>2, <4>1 DEF Whole, Ordered
      <3> QED BY <3>1, <3>2
    <2> QED BY <2>1 DEF Ordered
  <1>17. NextOf(p, cb)
    BY <1>7, <1>8, <1>14 DEF NextOf, c
  <1> QED BY <1>3, <1>4, <1>5, <1>15, <1>16, <1>17 DEF Whole

\* A follow-up feeds a promise of its own kind; a combiner's one names the
\* input it was attached to.
Aims(cb, p, og, ins) ==
  /\ cb.kind = "then" => og[cb.d] = "derived"
  /\ cb.kind = "adopt" => og[cb.d] \in {"deferred", "derived"}
  /\ cb.kind \in Combiners =>
       og[cb.d] = cb.kind /\ cb.key \in 1 .. Len(ins[cb.d]) /\ ins[cb.d][cb.key] = p

\* Two follow-ups of one combiner for one input.
Same(a, b) == a.kind \in Combiners /\ b.kind \in Combiners /\ a.d = b.d /\ a.key = b.key

\* Every follow-up aims where it should, and a combiner has one per input.
Aimed(a, og, ins) ==
  \A p \in Promises : \A i \in 1 .. Len(a[p]) :
    /\ Aims(a[p][i], p, og, ins)
    /\ \A j \in 1 .. Len(a[p]) : Same(a[p][i], a[p][j]) => i = j

\* The follow-ups a2 are the follow-ups a, and after them some of one kind for d.
Grown(a2, a, kind, d) ==
  \A q \in Promises :
    /\ Len(a[q]) <= Len(a2[q])
    /\ \A i \in 1 .. Len(a[q]) : a2[q][i] = a[q][i]
    /\ \A i \in 1 .. Len(a2[q]) : i > Len(a[q]) => a2[q][i].kind = kind /\ a2[q][i].d = d

\* A follow-up that is attached is the last.
LEMMA AttachGrows ==
  ASSUME NEW w \in Worlds, NEW p \in Promises, NEW cb \in FollowUps, NEW u, Attached(u, w, p, cb)
  PROVE  /\ Grown(u.attached, w.attached, cb.kind, cb.d)
         /\ Len(u.attached[p]) = Len(w.attached[p]) + 1 /\ Len(w.attached[p]) \in Nat
         /\ u.attached[p][Len(w.attached[p]) + 1] = cb
         /\ \A q \in Promises : q # p => u.attached[q] = w.attached[q]
  <1>1. /\ \A q \in Promises : w.attached[q] \in Seq(FollowUps) /\ Len(w.attached[q]) \in Nat
    BY WorldFacts
  <1>2. /\ Len(u.attached[p]) = Len(w.attached[p]) + 1
        /\ \A i \in 1 .. Len(w.attached[p]) : u.attached[p][i] = w.attached[p][i]
        /\ u.attached[p][Len(w.attached[p]) + 1] = cb
    BY <1>1, AppendProperties DEF Attached
  <1>3. \A q \in Promises : q # p => u.attached[q] = w.attached[q]
    BY DEF Attached
  <1>4. ASSUME NEW q \in Promises
        PROVE  /\ Len(w.attached[q]) <= Len(u.attached[q])
               /\ \A i \in 1 .. Len(w.attached[q]) : u.attached[q][i] = w.attached[q][i]
               /\ \A i \in 1 .. Len(u.attached[q]) : i > Len(w.attached[q]) =>
                    u.attached[q][i].kind = cb.kind /\ u.attached[q][i].d = cb.d
    <2>1. CASE q = p
      <3>1. Len(w.attached[p]) \in Nat
        BY <1>1
      <3>2. \A i \in 1 .. Len(w.attached[p]) + 1 : i > Len(w.attached[p]) => i = Len(w.attached[p]) + 1
        BY <3>1
      <3> QED BY <1>2, <2>1, <3>1, <3>2
    <2>2. CASE q # p
      <3>1. Len(w.attached[q]) \in Nat /\ u.attached[q] = w.attached[q]
        BY <1>1, <1>3, <2>2
      <3> QED BY <3>1
    <2> QED BY <2>1, <2>2
  <1>5. Grown(u.attached, w.attached, cb.kind, cb.d)
    BY <1>4 DEF Grown
  <1>6. Len(w.attached[p]) \in Nat
    BY <1>1
  <1> QED BY <1>2, <1>3, <1>5, <1>6

\* What is attached aims where it should if the follow-up does.
LEMMA AttachAims ==
  ASSUME NEW w \in Worlds, NEW p \in Promises, NEW cb \in FollowUps, NEW u, Attached(u, w, p, cb),
         NEW og, NEW ins, Aimed(w.attached, og, ins), Aims(cb, p, og, ins),
         \A i \in 1 .. Len(w.attached[p]) : ~Same(w.attached[p][i], cb)
  PROVE  Aimed(u.attached, og, ins)
  <1>1. /\ Len(u.attached[p]) = Len(w.attached[p]) + 1 /\ Len(w.attached[p]) \in Nat
        /\ u.attached[p][Len(w.attached[p]) + 1] = cb
        /\ \A i \in 1 .. Len(w.attached[p]) : u.attached[p][i] = w.attached[p][i]
        /\ \A q \in Promises : q # p => u.attached[q] = w.attached[q]
    BY AttachGrows DEF Grown
  <1>2. ASSUME NEW q \in Promises, NEW i \in 1 .. Len(u.attached[q])
        PROVE  /\ Aims(u.attached[q][i], q, og, ins)
               /\ \A j \in 1 .. Len(u.attached[q]) : Same(u.attached[q][i], u.attached[q][j]) => i = j
    <2>1. CASE q # p
      BY <1>1, <2>1 DEF Aimed
    <2>2. CASE q = p
      <3>1. ASSUME NEW j \in 1 .. Len(u.attached[p]), Same(u.attached[p][i], u.attached[p][j])
            PROVE  i = j
        <4>1. CASE i \in 1 .. Len(w.attached[p]) /\ j \in 1 .. Len(w.attached[p])
          BY <1>1, <3>1, <4>1 DEF Aimed
        <4>2. CASE i \in 1 .. Len(w.attached[p]) /\ j = Len(w.attached[p]) + 1
          BY <1>1, <3>1, <4>2
        <4>3. CASE j \in 1 .. Len(w.attached[p]) /\ i = Len(w.attached[p]) + 1
          <5>1. Same(w.attached[p][j], cb)
            BY <1>1, <3>1, <4>3 DEF Same
          <5> QED BY <4>3, <5>1
        <4> QED BY <1>1, <2>2, <4>1, <4>2, <4>3
      <3>2. Aims(u.attached[p][i], p, og, ins)
        <4>1. CASE i \in 1 .. Len(w.attached[p])
          BY <1>1, <4>1 DEF Aimed
        <4>2. CASE i = Len(w.attached[p]) + 1
          BY <1>1, <4>2
        <4> QED BY <1>1, <2>2, <4>1, <4>2
      <3> QED BY <2>2, <3>1, <3>2
    <2> QED BY <2>1, <2>2
  <1> QED BY <1>2 DEF Aimed

-----------------------------------------------------------------------------
(* The follow-ups of a combiner                                             *)

\* The follow-up of the combined promise d for its k-th input.
ForInput(kind, d, k) == FollowUp(kind, d, TRUE, TRUE, FALSE, k)

\* What upTo of AttachAll is, for the first N inputs.
IsChain(f, N, w, kind, d, ps) ==
  /\ f = [n \in 0 .. N |-> f[n]]
  /\ f[0] = w
  /\ \A n \in 1 .. N : f[n] = Attach(f[n - 1], ps[n], ForInput(kind, d, n))

\* There is such a chain, for any number of inputs.
LEMMA ChainExists ==
  ASSUME NEW w, NEW kind, NEW d, NEW ps, NEW N \in Nat
  PROVE  \E f : IsChain(f, N, w, kind, d, ps)
  <1> DEFINE S == {n \in Nat : \E f : IsChain(f, n, w, kind, d, ps)}
             Step(n, x) == Attach(x, ps[n], ForInput(kind, d, n))
  <1>1. 0 \in S
    <2>1. IsChain([n \in 0 .. 0 |-> w], 0, w, kind, d, ps)
      BY DEF IsChain
    <2> QED BY <2>1
  <1>2. ASSUME NEW n \in Nat, n \in S PROVE n + 1 \in S
    <2>1. PICK f : IsChain(f, n, w, kind, d, ps)
      BY <1>2
    <2> DEFINE g == [k \in 0 .. n + 1 |-> IF k = n + 1 THEN Step(n + 1, f[n]) ELSE f[k]]
    <2>2. IsChain(g, n + 1, w, kind, d, ps)
      <3>1. /\ g = [k \in 0 .. n + 1 |-> g[k]]
            /\ \A k \in 0 .. n : g[k] = f[k]
            /\ g[n + 1] = Step(n + 1, f[n])
        <4>1. PICK last : last = Step(n + 1, f[n])
          OBVIOUS
        <4>2. g = [k \in 0 .. n + 1 |-> IF k = n + 1 THEN last ELSE f[k]]
          BY <4>1
        <4> HIDE DEF g
        <4> QED BY <4>1, <4>2
      <3> HIDE DEF g
      <3>2. ASSUME NEW k \in 1 .. n + 1 PROVE g[k] = Step(k, g[k - 1])
        <4>1. CASE k = n + 1
          <5>0. k - 1 = n /\ n \in 0 .. n
            BY <4>1
          <5>1. g[k - 1] = f[n]
            BY <3>1, <5>0
          <5> QED BY <3>1, <4>1, <5>1
        <4>2. CASE k \in 1 .. n
          <5>1. f[k] = Step(k, f[k - 1])
            BY <2>1, <4>2 DEF IsChain
          <5>2. k \in 0 .. n /\ k - 1 \in 0 .. n
            BY <4>2
          <5>3. g[k] = f[k] /\ g[k - 1] = f[k - 1]
            BY <3>1, <5>2
          <5> QED BY <5>1, <5>3
        <4> QED BY <4>1, <4>2
      <3>3. g[0] = w
        BY <2>1, <3>1 DEF IsChain
      <3> QED BY <3>1, <3>2, <3>3 DEF IsChain
    <2> HIDE DEF g
    <2> QED BY <2>2
  <1> HIDE DEF S
  <1>3. N \in S
    BY <1>1, <1>2, Induction
  <1> QED BY <1>3 DEF S

\* AttachAll is the end of one.
LEMMA AttachAllIsChain ==
  ASSUME NEW w, NEW kind, NEW d, NEW ps, Len(ps) \in Nat
  PROVE  \E f : IsChain(f, Len(ps), w, kind, d, ps) /\ AttachAll(w, kind, d, ps) = f[Len(ps)]
  <1> DEFINE R(f) == f = [n \in 0 .. Len(ps) |->
                            IF n = 0 THEN w
                            ELSE Attach(f[n - 1], ps[n], ForInput(kind, d, n))]
             h == CHOOSE f : R(f)
  <1>1. PICK g : IsChain(g, Len(ps), w, kind, d, ps)
    BY ChainExists
  <1>2. R(g)
    BY <1>1 DEF IsChain
  <1>3. R(h)
    BY <1>2
  <1>4. AttachAll(w, kind, d, ps) = h[Len(ps)]
    BY DEF AttachAll, ForInput
  <1> HIDE DEF h
  <1>5. IsChain(h, Len(ps), w, kind, d, ps)
    BY <1>3 DEF IsChain
  <1> QED BY <1>4, <1>5

\* What a combiner has done when its first k follow-ups are attached.
Begun(u, k, w, rn, rep, kind, d, ps, og, ins) ==
  /\ Whole(u, rn, rep) /\ Alike(u, w) /\ Aimed(u.attached, og, ins)
  /\ Grown(u.attached, w.attached, kind, d)
  /\ \A q \in Promises : \A i \in 1 .. Len(u.attached[q]) :
       u.attached[q][i].d = d => u.attached[q][i].key <= k
  /\ \A j \in 1 .. k : \E i \in 1 .. Len(u.attached[ps[j]]) :
       u.attached[ps[j]][i] = ForInput(kind, d, j)

\* A combiner attaches a follow-up to each of its inputs.
LEMMA AttachAllKeeps ==
  ASSUME NEW w, NEW rn, NEW rep, Whole(w, rn, rep), NEW kind \in Combiners, NEW d \in Promises,
         NEW ps, Len(ps) \in 0 .. MaxInputs, \A k \in 1 .. Len(ps) : ps[k] \in Promises,
         \A k \in 1 .. Len(ps) : w.heap[ps[k]].state # "unborn",
         NEW og, NEW ins, Aimed(w.attached, og, ins), og[d] = kind, ins[d] = ps,
         \A q \in Promises : \A i \in 1 .. Len(w.attached[q]) : w.attached[q][i].d # d
  PROVE  Begun(AttachAll(w, kind, d, ps), Len(ps), w, rn, rep, kind, d, ps, og, ins)
  <1> DEFINE cb(k) == ForInput(kind, d, k)
             B(u, k) == Begun(u, k, w, rn, rep, kind, d, ps, og, ins)
  <1>0. w \in Worlds /\ Len(ps) \in Nat /\ MaxInputs \in Nat
    BY QAssumption DEF Whole
  <1>1. PICK f : IsChain(f, Len(ps), w, kind, d, ps) /\ AttachAll(w, kind, d, ps) = f[Len(ps)]
    BY <1>0, AttachAllIsChain
  <1> DEFINE S == {n \in Nat : n <= Len(ps) => B(f[n], n)}
  <1>2. 0 \in S
    <2>1. f[0] = w
      BY <1>1 DEF IsChain
    <2>2. Alike(w, w)
      BY DEF Alike
    <2>3. Grown(w.attached, w.attached, kind, d)
      <3>1. \A q \in Promises : Len(w.attached[q]) \in Nat
        BY <1>0, WorldFacts
      <3> QED BY <3>1 DEF Grown
    <2>4. B(w, 0)
      BY <2>2, <2>3 DEF Begun
    <2> QED BY <2>1, <2>4
  <1>3. ASSUME NEW n \in Nat, n \in S PROVE n + 1 \in S
    <2>1. ASSUME n + 1 <= Len(ps) PROVE B(f[n + 1], n + 1)
      <3>1. PICK m \in 1 .. Len(ps) : m = n + 1
        BY <1>0, <2>1
      <3>2. B(f[n], n)
        BY <1>0, <1>3, <2>1
      <3>3. PICK v : v = f[n]
        OBVIOUS
      <3>4. PICK u : u = f[m]
        OBVIOUS
      <3>5. PICK c : c = cb(m)
        OBVIOUS
      <3>6. PICK p \in Promises : p = ps[m]
        BY <3>1
      <3>7. c \in FollowUps /\ c.kind = kind /\ c.d = d /\ c.key = m
        BY <1>0, <3>5 DEF FollowUps, FollowUp, Combiners, ForInput
      <3>8. u = Attach(v, p, c)
        <4>1. f[m] = Attach(f[m - 1], ps[m], ForInput(kind, d, m))
          BY <1>1 DEF IsChain
        <4>2. m - 1 = n
          BY <3>1
        <4> QED BY <3>3, <3>4, <3>5, <3>6, <4>1, <4>2
      <3>9. B(v, n)
        BY <3>2, <3>3
      <3>10. Whole(v, rn, rep) /\ v \in Worlds /\ Alike(v, w) /\ v.heap[p].state # "unborn"
        BY <3>6, <3>9 DEF Begun, Whole, Alike
      <3>11. Whole(u, rn, rep)
        BY <3>7, <3>8, <3>10, AttachKeeps
      <3>12. Attached(u, v, p, c)
        BY <3>7, <3>8, <3>10, AttachParts
      <3>13. Alike(u, w)
        BY <3>10, <3>12 DEF Attached, Alike
      <3>14. Aimed(u.attached, og, ins)
        <4>1. Aims(c, p, og, ins)
          BY <3>6, <3>7 DEF Aims, Combiners
        <4>2. ASSUME NEW i \in 1 .. Len(v.attached[p]) PROVE ~Same(v.attached[p][i], c)
          <5>1. v.attached[p][i].d = d => v.attached[p][i].key <= n
            BY <3>9 DEF Begun
          <5> QED BY <3>1, <3>7, <5>1 DEF Same
        <4>3. Aimed(v.attached, og, ins)
          BY <3>9 DEF Begun
        <4> QED BY <3>7, <3>10, <3>12, <4>1, <4>2, <4>3, AttachAims
      <3>15. /\ Grown(u.attached, v.attached, kind, d)
             /\ Len(u.attached[p]) = Len(v.attached[p]) + 1 /\ Len(v.attached[p]) \in Nat
             /\ u.attached[p][Len(v.attached[p]) + 1] = c
             /\ \A q \in Promises : q # p => u.attached[q] = v.attached[q]
        BY <3>7, <3>10, <3>12, AttachGrows
      <3>16. Grown(u.attached, w.attached, kind, d)
        <4>1. Grown(v.attached, w.attached, kind, d)
          BY <3>9 DEF Begun
        <4>2. \A x \in Worlds : \A q \in Promises : Len(x.attached[q]) \in Nat
          BY WorldFacts
        <4>3. u \in Worlds
          BY <3>11 DEF Whole
        <4>4. ASSUME NEW q \in Promises
              PROVE  /\ Len(w.attached[q]) <= Len(u.attached[q])
                     /\ \A i \in 1 .. Len(w.attached[q]) : u.attached[q][i] = w.attached[q][i]
                     /\ \A i \in 1 .. Len(u.attached[q]) : i > Len(w.attached[q]) =>
                          u.attached[q][i].kind = kind /\ u.attached[q][i].d = d
          <5>1. PICK lu \in Nat, lv \in Nat, lw \in Nat :
                  lu = Len(u.attached[q]) /\ lv = Len(v.attached[q]) /\ lw = Len(w.attached[q])
            BY <1>0, <3>10, <4>2, <4>3
          <5>2. /\ Len(w.attached[q]) <= Len(v.attached[q])
                /\ \A i \in 1 .. Len(w.attached[q]) : v.attached[q][i] = w.attached[q][i]
                /\ \A i \in 1 .. Len(v.attached[q]) : i > Len(w.attached[q]) =>
                     v.attached[q][i].kind = kind /\ v.attached[q][i].d = d
            BY <4>1 DEF Grown
          <5>3. /\ Len(v.attached[q]) <= Len(u.attached[q])
                /\ \A i \in 1 .. Len(v.attached[q]) : u.attached[q][i] = v.attached[q][i]
                /\ \A i \in 1 .. Len(u.attached[q]) : i > Len(v.attached[q]) =>
                     u.attached[q][i].kind = kind /\ u.attached[q][i].d = d
            BY <3>15 DEF Grown
          <5>4. Len(w.attached[q]) <= Len(u.attached[q])
            BY ONLY <5>1, <5>2, <5>3
          <5>5. ASSUME NEW i \in 1 .. Len(w.attached[q])
                PROVE  u.attached[q][i] = w.attached[q][i]
            <6>1. i \in 1 .. Len(v.attached[q])
              BY <5>1, <5>2
            <6> QED BY ONLY <5>2, <5>3, <6>1, <5>5
          <5>6. ASSUME NEW i \in 1 .. Len(u.attached[q]), i > Len(w.attached[q])
                PROVE  u.attached[q][i].kind = kind /\ u.attached[q][i].d = d
            <6>1. CASE i \in 1 .. Len(v.attached[q])
              BY <5>2, <5>3, <5>6, <6>1
            <6>2. CASE i > Len(v.attached[q])
              BY <5>3, <6>2
            <6> QED BY <5>1, <6>1, <6>2
          <5> QED BY <5>4, <5>5, <5>6
        <4> QED BY <4>4 DEF Grown
      <3>17. ASSUME NEW q \in Promises, NEW i \in 1 .. Len(u.attached[q]), u.attached[q][i].d = d
             PROVE  u.attached[q][i].key <= n + 1
        <4>1. CASE i \in 1 .. Len(v.attached[q])
          <5>1. u.attached[q][i] = v.attached[q][i] /\ u.attached[q][i].key <= n
            BY <3>9, <3>15, <3>17, <4>1 DEF Begun, Grown
          <5>2. u.attached[q][i].key \in Nat
            <6>1. u.attached[q][i] \in FollowUps
              BY <3>11, WorldFacts DEF Whole
            <6> QED BY <1>0, <6>1 DEF FollowUps
          <5> QED BY <5>1, <5>2
        <4>2. CASE i \notin 1 .. Len(v.attached[q])
          <5>1. q = p /\ i = Len(v.attached[p]) + 1
            BY <3>15, <4>2
          <5> QED BY <3>1, <3>7, <3>15, <5>1
        <4> QED BY <4>1, <4>2
      <3>18. ASSUME NEW j \in 1 .. n + 1
             PROVE  \E i \in 1 .. Len(u.attached[ps[j]]) : u.attached[ps[j]][i] = cb(j)
        <4>1. CASE j = n + 1
          <5>1. Len(v.attached[p]) + 1 \in 1 .. Len(u.attached[p])
            BY <3>15
          <5> QED BY <3>1, <3>5, <3>6, <3>15, <4>1, <5>1
        <4>2. CASE j \in 1 .. n
          <5>1. PICK q \in Promises : q = ps[j]
            BY <1>0, <2>1
          <5>2. PICK i \in 1 .. Len(v.attached[q]) : v.attached[q][i] = cb(j)
            BY <3>9, <4>2, <5>1 DEF Begun
          <5>3. Len(u.attached[q]) \in Nat /\ Len(v.attached[q]) \in Nat
            <6>1. \A x \in Worlds : \A r \in Promises : Len(x.attached[r]) \in Nat
              BY WorldFacts
            <6>2. u \in Worlds
              BY <3>11 DEF Whole
            <6> QED BY <3>10, <6>1, <6>2
          <5>4. i \in 1 .. Len(u.attached[q]) /\ u.attached[q][i] = v.attached[q][i]
            BY <3>15, <5>3 DEF Grown
          <5>5. \E k \in 1 .. Len(u.attached[q]) : u.attached[q][k] = cb(j)
            BY <5>2, <5>4
          <5> QED BY <5>1, <5>5
        <4> QED BY <4>1, <4>2
      <3>19. B(u, n + 1)
        BY <3>11, <3>13, <3>14, <3>16, <3>17, <3>18 DEF Begun
      <3> QED BY <3>1, <3>4, <3>19
    <2>2. n + 1 \in Nat
      OBVIOUS
    <2> QED BY <2>1, <2>2
  <1> HIDE DEF S
  <1>4. Len(ps) \in S /\ Len(ps) <= Len(ps)
    BY <1>0, <1>2, <1>3, Induction
  <1> QED BY <1>1, <1>4 DEF S

-----------------------------------------------------------------------------
(* The inductive invariant                                                  *)

Results == {NoResult} \cup ({"resolved", "rejected"} \X (Vals \cup {Group}))

Typed ==
  /\ origin \in [Promises -> {"none", "deferred", "derived"} \cup Combiners]
  /\ inputs \in [Promises -> Seq(Promises)] /\ left \in [Promises -> 0..MaxInputs]
  /\ got \in [Promises -> Seq(Results)] /\ budget \in Nat

\* The inputs whose result the combined promise d has not got.
Missing(d) == {k \in 1 .. Len(inputs[d]) : got[d][k] = NoResult}

\* The combined promise d counts the inputs it misses, and has a follow-up at each.
ShapedAt(d) ==
  /\ origin[d] = "none" <=> heap[d].state = "unborn"
  /\ Len(got[d]) = Len(inputs[d]) /\ Len(inputs[d]) <= MaxInputs
  /\ inputs[d] # <<>> => origin[d] \in Combiners
  /\ left[d] = Cardinality(Missing(d))
  /\ \A k \in 1 .. Len(inputs[d]) :
       /\ Born(inputs[d][k])
       /\ \E i \in 1 .. Len(attached[inputs[d][k]]) :
            LET cb == attached[inputs[d][k]][i]
            IN  cb.kind = origin[d] /\ cb.d = d /\ cb.key = k

\* The results and the outcome of d are those of its inputs.
TruthAt(d) ==
  /\ \A k \in 1 .. Len(inputs[d]) : got[d][k] # NoResult =>
       /\ Settled(inputs[d][k]) /\ got[d][k] = Outcome(inputs[d][k])
       /\ origin[d] = "all" => heap[inputs[d][k]].state = "resolved"
  /\ origin[d] \in {"all", "allSettled"} =>
       /\ heap[d].state = "resolved" => Missing(d) = {}
       /\ heap[d].state = "pending" => Missing(d) # {}
  /\ origin[d] = "all" /\ heap[d].state = "rejected" =>
       \E k \in 1 .. Len(inputs[d]) : Outcome(inputs[d][k]) = Outcome(d)
  /\ origin[d] = "race" /\ Settled(d) =>
       \E k \in 1 .. Len(inputs[d]) : Outcome(inputs[d][k]) = Outcome(d)
  /\ origin[d] = "allSettled" => heap[d].state # "rejected"

\* The i-th follow-up of p is the result of the input it was attached to, once
\* it is processed and not before, unless what it feeds was settled by another.
TalliedAt(p, i) ==
  LET cb == attached[p][i]
  IN  /\ cb.kind \in {"all", "allSettled"} /\ i > ran[p] => got[cb.d][cb.key] = NoResult
      /\ cb.kind \in {"all", "allSettled"} /\ i <= ran[p] =>
           got[cb.d][cb.key] # NoResult \/ heap[cb.d].state # "pending"
      /\ cb.kind = "race" /\ i <= ran[p] => heap[cb.d].state # "pending"

\* While the derived promise d is pending, a follow-up that feeds it is to come.
FedAt(d) ==
  origin[d] = "derived" /\ heap[d].state = "pending" =>
    \E p \in Promises : \E i \in 1 .. Len(attached[p]) : i > ran[p] /\ attached[p][i].d = d

Sound == Whole(World, ran, reported) /\ Typed /\ Aimed(attached, origin, inputs)

Combined ==
  /\ \A d \in Promises : ShapedAt(d) /\ TruthAt(d) /\ FedAt(d)
  /\ \A p \in Promises : \A i \in 1 .. Len(attached[p]) : TalliedAt(p, i)

IInv == Sound /\ Combined

-----------------------------------------------------------------------------

\* What Sound says of the variables.
Plain ==
  /\ heap \in [Promises -> Objects] /\ tasks \in Seq(Jobs)
  /\ attached \in [Promises -> Seq(FollowUps)] /\ ran \in [Promises -> Nat]
  /\ reported \in Seq(Promises)
  /\ \A p \in Promises :
       /\ Len(attached[p]) \in Nat /\ ran[p] \in 0 .. Len(attached[p])
       /\ heap[p].state \in States
       /\ heap[p].state = "unborn" => attached[p] = <<>>
       /\ \A i \in 1 .. Len(attached[p]) :
            attached[p][i] \in FollowUps /\ attached[p][i].d \in Promises

\* Whole says what Plain does.
LEMMA PlainFacts ==
  ASSUME Whole(World, ran, reported)
  PROVE  Plain
  <1>1. /\ World.heap = heap /\ World.tasks = tasks /\ World.attached = attached
        /\ World \in Worlds
    BY DEF Whole, World
  <1>2. /\ heap \in [Promises -> Objects] /\ tasks \in Seq(Jobs)
        /\ attached \in [Promises -> Seq(FollowUps)] /\ ran \in [Promises -> Nat]
        /\ reported \in Seq(Promises)
    BY <1>1, WorldFacts DEF Whole
  <1>3. ASSUME NEW p \in Promises
        PROVE  /\ Len(attached[p]) \in Nat /\ ran[p] \in 0 .. Len(attached[p])
               /\ heap[p].state \in States
               /\ heap[p].state = "unborn" => attached[p] = <<>>
               /\ \A i \in 1 .. Len(attached[p]) :
                    attached[p][i] \in FollowUps /\ attached[p][i].d \in Promises
    <2>1. Len(attached[p]) \in Nat /\ ran[p] \in 0 .. Len(attached[p])
      BY <1>1, <1>2 DEF Whole, Ordered
    <2>2. heap[p].state \in States /\ (heap[p].state = "unborn" => attached[p] = <<>>)
      BY <1>1, <1>2 DEF Whole, Sane, Objects
    <2>3. \A i \in 1 .. Len(attached[p]) :
            attached[p][i] \in FollowUps /\ attached[p][i].d \in Promises
      <3>1. attached[p] \in Seq(FollowUps) /\ \A x \in FollowUps : x.d \in Promises
        BY <1>2 DEF FollowUps
      <3> QED BY <3>1
    <2> QED BY <2>1, <2>2, <2>3
  <1> QED BY <1>2, <1>3 DEF Plain

\* A step that may settle d, if it is pending, and may attach an adoption for it.
Moved(d) ==
  /\ Plain /\ Plain' /\ d \in Promises
  /\ \A q \in Promises : q # d \/ heap[q].state # "pending" =>
       heap'[q].state = heap[q].state /\ heap'[q].value = heap[q].value
  /\ heap[d].state = "pending" => heap'[d].state # "unborn"
  /\ Grown(attached', attached, "adopt", d)
  /\ origin' = origin /\ inputs' = inputs
  /\ \A q \in Promises : ran[q] <= ran'[q]

\* The follow-ups processed by the step fed d, which is settled or will be fed again.
Delivered(d) ==
  /\ \A q \in Promises : \A i \in 1 .. Len(attached[q]) :
       i > ran[q] /\ i <= ran'[q] =>
         /\ attached[q][i].d = d
         /\ attached[q][i].kind \in {"all", "allSettled"} =>
              heap'[d].state # "pending" \/ got'[d][attached[q][i].key] # NoResult
         /\ attached[q][i].kind = "race" => heap'[d].state # "pending"
         /\ origin[d] = "derived" /\ heap'[d].state = "pending" =>
              \E p \in Promises : \E j \in 1 .. Len(attached'[p]) :
                j > ran'[p] /\ attached'[p][j].d = d

\* The results change at d alone: there none is lost, and those of the inputs that
\* are not processed yet are the same.
Counted(d) ==
  /\ \A q \in Promises : q # d => left'[q] = left[q] /\ got'[q] = got[q]
  /\ \A q \in Promises : \A i \in 1 .. Len(attached[q]) :
       attached[q][i].kind \in {"all", "allSettled"} /\ attached[q][i].d = d =>
         /\ got[d][attached[q][i].key] # NoResult => got'[d][attached[q][i].key] # NoResult
         /\ i > ran'[q] => got'[d][attached[q][i].key] = got[d][attached[q][i].key]

\* Such a step creates no promise, keeps what is settled, and loses no follow-up.
LEMMA MovedFacts ==
  ASSUME NEW d, Moved(d)
  PROVE  /\ \A q \in Promises : heap[q].state = "unborn" <=> heap'[q].state = "unborn"
         /\ \A q \in Promises : Settled(q) =>
              Settled(q)' /\ Outcome(q)' = Outcome(q) /\ heap'[q].state = heap[q].state
         /\ \A q \in Promises : heap'[q].state = "pending" => heap[q].state = "pending"
         /\ \A q \in Promises : \A i \in 1 .. Len(attached[q]) :
              i \in 1 .. Len(attached'[q]) /\ attached'[q][i] = attached[q][i]
  <1>1. \A q \in Promises : heap[q].state = "unborn" <=> heap'[q].state = "unborn"
    BY DEF Moved
  <1>2. \A q \in Promises : Settled(q) =>
          Settled(q)' /\ Outcome(q)' = Outcome(q) /\ heap'[q].state = heap[q].state
    BY DEF Moved, Settled, Outcome
  <1>3. \A q \in Promises : heap'[q].state = "pending" => heap[q].state = "pending"
    BY DEF Moved
  <1>4. \A q \in Promises : \A i \in 1 .. Len(attached[q]) :
          i \in 1 .. Len(attached'[q]) /\ attached'[q][i] = attached[q][i]
    BY DEF Moved, Plain, Grown
  <1> QED BY <1>1, <1>2, <1>3, <1>4

\* A combined promise whose results do not change keeps its shape.
LEMMA MovedShaped ==
  ASSUME Combined, Typed, NEW d, Moved(d), NEW q \in Promises, left'[q] = left[q], got'[q] = got[q]
  PROVE  ShapedAt(q)'
  <1>1. /\ \A r \in Promises : heap[r].state = "unborn" <=> heap'[r].state = "unborn"
        /\ \A r \in Promises : \A i \in 1 .. Len(attached[r]) :
             i \in 1 .. Len(attached'[r]) /\ attached'[r][i] = attached[r][i]
    BY MovedFacts
  <1>2. /\ origin' = origin /\ inputs' = inputs /\ Missing(q)' = Missing(q)
        /\ \A k \in 1 .. Len(inputs[q]) : inputs[q][k] \in Promises
    BY DEF Moved, Missing, Typed
  <1>3. ShapedAt(q)
    BY DEF Combined
  <1>4. ASSUME NEW k \in 1 .. Len(inputs[q])
        PROVE  /\ Born(inputs[q][k])'
               /\ \E i \in 1 .. Len(attached'[inputs[q][k]]) :
                    LET cb == attached'[inputs[q][k]][i]
                    IN  cb.kind = origin[q] /\ cb.d = q /\ cb.key = k
    <2>1. PICK p \in Promises : p = inputs[q][k]
      BY <1>2
    <2>2. Born(p)'
      BY <1>1, <1>3, <2>1 DEF ShapedAt, Born
    <2>3. PICK i \in 1 .. Len(attached[p]) :
            attached[p][i].kind = origin[q] /\ attached[p][i].d = q /\ attached[p][i].key = k
      BY <1>3, <2>1 DEF ShapedAt
    <2>4. i \in 1 .. Len(attached'[p]) /\ attached'[p][i] = attached[p][i]
      BY <1>1
    <2> QED BY <1>2, <2>1, <2>2, <2>3, <2>4
  <1> QED BY <1>1, <1>2, <1>3, <1>4 DEF ShapedAt

\* Of a promise whose outcome and results do not change, what is true stays true.
LEMMA TruthStays ==
  ASSUME Combined, Typed, NEW d, Moved(d), NEW q \in Promises, got'[q] = got[q],
         q # d \/ heap[d].state # "pending" \/ heap'[d].state = "pending"
  PROVE  TruthAt(q)'
  <1>0. \A p \in Promises : heap[p].state = "pending" /\ heap'[p].state = "pending" => ~Settled(p)
    BY DEF Settled
  <1>1. /\ \A p \in Promises : Settled(p) =>
             Settled(p)' /\ Outcome(p)' = Outcome(p) /\ heap'[p].state = heap[p].state
        /\ heap'[q].state = heap[q].state
        /\ Settled(q) => Outcome(q)' = Outcome(q)
        /\ Settled(q)' <=> Settled(q)
    BY MovedFacts DEF Moved, Settled
  <1>2. /\ origin' = origin /\ inputs' = inputs /\ Missing(q)' = Missing(q)
        /\ \A k \in 1 .. Len(inputs[q]) : inputs[q][k] \in Promises
    BY DEF Moved, Missing, Typed
  <1>3. TruthAt(q)
    BY DEF Combined
  <1>4. Settled(q) => \A p \in Promises : Outcome(p) = Outcome(q) => Settled(p)
    BY DEF Settled, Outcome
  <1>5. ASSUME NEW k \in 1 .. Len(inputs[q]), Settled(q), Outcome(inputs[q][k]) = Outcome(q)
        PROVE  Outcome(inputs[q][k])' = Outcome(q)'
    BY <1>1, <1>2, <1>4, <1>5
  <1>6. ASSUME NEW k \in 1 .. Len(inputs[q]), got[q][k] # NoResult
        PROVE  /\ Settled(inputs[q][k])' /\ got[q][k] = Outcome(inputs[q][k])'
               /\ origin[q] = "all" => heap'[inputs[q][k]].state = "resolved"
    BY <1>1, <1>2, <1>3, <1>6 DEF TruthAt
  <1>7. origin[q] = "all" /\ heap[q].state = "rejected" =>
          \E k \in 1 .. Len(inputs[q]) : Outcome(inputs[q][k])' = Outcome(q)'
    BY <1>3, <1>5 DEF TruthAt, Settled
  <1>8. origin[q] = "race" /\ Settled(q) =>
          \E k \in 1 .. Len(inputs[q]) : Outcome(inputs[q][k])' = Outcome(q)'
    BY <1>3, <1>5 DEF TruthAt
  <1> QED BY <1>1, <1>2, <1>3, <1>6, <1>7, <1>8 DEF TruthAt

\* Such a step keeps what is said of the combined promises, if it does of d.
LEMMA MovedKeeps ==
  ASSUME Combined, Typed, NEW d, Moved(d), Counted(d), Delivered(d), ShapedAt(d)', TruthAt(d)'
  PROVE  Combined'
  <1>1. /\ \A q \in Promises : heap[q].state = "unborn" <=> heap'[q].state = "unborn"
        /\ \A q \in Promises : Settled(q) =>
             Settled(q)' /\ Outcome(q)' = Outcome(q) /\ heap'[q].state = heap[q].state
        /\ \A q \in Promises : heap'[q].state = "pending" => heap[q].state = "pending"
        /\ \A q \in Promises : \A i \in 1 .. Len(attached[q]) :
             i \in 1 .. Len(attached'[q]) /\ attached'[q][i] = attached[q][i]
    BY MovedFacts
  <1>2. /\ origin' = origin /\ inputs' = inputs
        /\ \A q \in Promises : got'[q] = got[q] => Missing(q)' = Missing(q)
        /\ \A q \in Promises : \A k \in 1 .. Len(inputs[q]) : inputs[q][k] \in Promises
    <2>1. origin' = origin /\ inputs' = inputs
      BY DEF Moved
    <2>2. \A q \in Promises : inputs[q] \in Seq(Promises)
      BY DEF Typed
    <2> QED BY <2>1, <2>2 DEF Missing
  <1>3. ASSUME NEW q \in Promises PROVE ShapedAt(q)'
    BY MovedShaped DEF Counted
  <1>4. ASSUME NEW q \in Promises PROVE TruthAt(q)'
    <2>1. CASE q = d
      BY <2>1
    <2>2. CASE q # d
      <3>1. got'[q] = got[q]
        BY <2>2 DEF Counted
      <3> QED BY <2>2, <3>1, TruthStays
    <2> QED BY <2>1, <2>2
  <1>5. ASSUME NEW p \in Promises, NEW i \in 1 .. Len(attached'[p]) PROVE TalliedAt(p, i)'
    <2>1. Plain /\ Plain'
      BY DEF Moved
    <2>2. CASE i \in 1 .. Len(attached[p])
      <3>1. PICK cb \in FollowUps : cb = attached[p][i]
        BY <2>1, <2>2 DEF Plain
      <3>2. attached'[p][i] = cb /\ cb.d \in Promises
        BY <1>1, <2>1, <2>2, <3>1 DEF Plain
      <3>3. TalliedAt(p, i) /\ ran[p] <= ran'[p] /\ ran[p] \in Nat /\ ran'[p] \in Nat
        BY <2>1, <2>2 DEF Combined, Moved, Plain
      <3>4. i <= ran[p] => (heap'[cb.d].state = "pending" => heap[cb.d].state = "pending")
        BY <1>1, <3>2
      <3>5. i > ran[p] /\ i <= ran'[p] =>
              /\ cb.d = d
              /\ cb.kind \in {"all", "allSettled"} =>
                   heap'[d].state # "pending" \/ got'[d][cb.key] # NoResult
              /\ cb.kind = "race" => heap'[d].state # "pending"
        BY <2>2, <3>1 DEF Delivered
      <3>7. cb.kind \in {"all", "allSettled"} /\ got[cb.d][cb.key] # NoResult =>
              got'[cb.d][cb.key] # NoResult
        BY <2>2, <3>1, <3>2 DEF Counted
      <3>8. i > ran'[p] /\ cb.kind \in {"all", "allSettled"} =>
              got'[cb.d][cb.key] = got[cb.d][cb.key]
        BY <2>2, <3>1, <3>2 DEF Counted
      <3>6. i > ran'[p] => i > ran[p]
        BY <3>3
      <3> QED BY <3>1, <3>2, <3>3, <3>4, <3>5, <3>6, <3>7, <3>8 DEF TalliedAt
    <2>3. CASE i \notin 1 .. Len(attached[p])
      <3>1. i > Len(attached[p])
        BY <2>1, <2>3 DEF Plain
      <3>2. attached'[p][i].kind = "adopt"
        BY <3>1 DEF Moved, Grown
      <3> QED BY <3>2 DEF TalliedAt
    <2> QED BY <2>2, <2>3
  <1>6. ASSUME NEW q \in Promises PROVE FedAt(q)'
    <2>1. SUFFICES ASSUME origin[q] = "derived", heap'[q].state = "pending"
                   PROVE  \E p \in Promises : \E j \in 1 .. Len(attached'[p]) :
                            j > ran'[p] /\ attached'[p][j].d = q
      BY <1>2 DEF FedAt
    <2>2. heap[q].state = "pending"
      BY <1>1, <2>1
    <2>0. PICK p \in Promises : \E i \in 1 .. Len(attached[p]) : i > ran[p] /\ attached[p][i].d = q
      BY <2>1, <2>2 DEF Combined, FedAt
    <2>3. PICK i \in 1 .. Len(attached[p]) : i > ran[p] /\ attached[p][i].d = q
      BY <2>0
    <2>4. i \in 1 .. Len(attached'[p]) /\ attached'[p][i].d = q
      BY <1>1, <2>3
    <2>5. CASE i > ran'[p]
      BY <2>4, <2>5
    <2>6. CASE ~(i > ran'[p])
      <3>1. i <= ran'[p]
        BY <2>6 DEF Moved, Plain
      <3>2. attached[p][i].d = d
        BY <2>3, <3>1 DEF Delivered
      <3>3. q = d
        BY <2>3, <3>2
      <3> QED BY <2>1, <2>3, <3>1, <3>3 DEF Delivered
    <2> QED BY <2>5, <2>6
  <1> QED BY <1>3, <1>4, <1>5, <1>6 DEF Combined

\* A step that creates the promise n, of the kind kind, and may attach
\* follow-ups for it.
Arrived(n, kind, fkind) ==
  /\ Plain /\ Plain' /\ n \in Promises /\ heap[n].state = "unborn" /\ heap'[n].state # "unborn"
  /\ \A q \in Promises : q # n =>
       heap'[q].state = heap[q].state /\ heap'[q].value = heap[q].value
  /\ Grown(attached', attached, fkind, n)
  /\ kind # "none" /\ origin' = [origin EXCEPT ![n] = kind]
  /\ \A q \in Promises : q # n => inputs'[q] = inputs[q] /\ left'[q] = left[q] /\ got'[q] = got[q]
  /\ ran' = ran

\* Nothing refers to a promise that is not created yet.
Apart(n) ==
  /\ origin[n] = "none" /\ inputs[n] = <<>> /\ attached[n] = <<>>
  /\ \A q \in Promises : \A i \in 1 .. Len(attached[q]) : attached[q][i].d # n
  /\ \A q \in Promises : \A k \in 1 .. Len(inputs[q]) : inputs[q][k] # n

\* So it is of every promise that is not created yet.
LEMMA UnbornApart ==
  ASSUME Combined, Typed, Plain, Aimed(attached, origin, inputs),
         NEW n \in Promises, heap[n].state = "unborn"
  PROVE  Apart(n)
  <1>1. origin[n] = "none"
    BY DEF Combined, ShapedAt
  <1>2. inputs[n] = <<>>
    BY <1>1 DEF Combined, ShapedAt, Combiners
  <1>3. attached[n] = <<>>
    BY DEF Plain
  <1>4. ASSUME NEW q \in Promises, NEW i \in 1 .. Len(attached[q]) PROVE attached[q][i].d # n
    <2>1. PICK cb \in FollowUps : cb = attached[q][i]
      BY DEF Plain
    <2>2. Aims(cb, q, origin, inputs)
      BY <2>1 DEF Aimed
    <2>3. cb.kind \in {"then", "adopt"} \cup Combiners
      BY DEF FollowUps
    <2>4. cb.d # n
      BY <1>1, <2>2, <2>3 DEF Aims, Combiners
    <2> QED BY <2>1, <2>4
  <1>5. ASSUME NEW q \in Promises, NEW k \in 1 .. Len(inputs[q]) PROVE inputs[q][k] # n
    <2>1. ShapedAt(q)
      BY DEF Combined
    <2>2. heap[inputs[q][k]].state # "unborn"
      BY <2>1 DEF ShapedAt, Born
    <2> QED BY <2>2
  <1> QED BY <1>1, <1>2, <1>3, <1>4, <1>5 DEF Apart

\* The follow-ups there were aim where they did.
LEMMA ArrivedAims ==
  ASSUME Combined, Typed, Aimed(attached, origin, inputs), NEW n, NEW kind, NEW fkind,
         Arrived(n, kind, fkind), inputs' \in [Promises -> Seq(Promises)]
  PROVE  Aimed(attached, origin', inputs')
  <1>1. \A q \in Promises : \A i \in 1 .. Len(attached[q]) :
          attached[q][i].d # n /\ attached[q][i].d \in Promises
    <2>1. Apart(n)
      BY UnbornApart DEF Arrived
    <2> QED BY <2>1 DEF Apart, Arrived, Plain
  <1>2. ASSUME NEW q \in Promises, NEW i \in 1 .. Len(attached[q])
        PROVE  Aims(attached[q][i], q, origin', inputs')
    <2>1. PICK cb : cb = attached[q][i]
      OBVIOUS
    <2>2. Aims(cb, q, origin, inputs) /\ cb.d # n /\ cb.d \in Promises
      BY <1>1, <2>1 DEF Aimed
    <2>3. origin'[cb.d] = origin[cb.d] /\ inputs'[cb.d] = inputs[cb.d]
      BY <2>2 DEF Arrived, Typed
    <2> QED BY <2>1, <2>2, <2>3 DEF Aims
  <1> QED BY <1>2 DEF Aimed

\* Such a step keeps what is said of the combined promises, if it is said of n.
LEMMA ArrivedKeeps ==
  ASSUME Combined, Typed, Aimed(attached, origin, inputs), NEW n, NEW kind, NEW fkind,
         Arrived(n, kind, fkind), ShapedAt(n)', TruthAt(n)', FedAt(n)',
         \A p \in Promises : \A i \in 1 .. Len(attached'[p]) :
           i > Len(attached[p]) => TalliedAt(p, i)'
  PROVE  Combined'
  <1>1. /\ Plain /\ Plain' /\ n \in Promises /\ ran' = ran
        /\ origin[n] = "none"
        /\ \A q \in Promises : \A i \in 1 .. Len(attached[q]) : attached[q][i].d # n
        /\ \A q \in Promises : \A k \in 1 .. Len(inputs[q]) :
             inputs[q][k] # n /\ inputs[q][k] \in Promises
    <2>1. Apart(n)
      BY UnbornApart DEF Arrived
    <2>2. \A q \in Promises : \A k \in 1 .. Len(inputs[q]) : inputs[q][k] \in Promises
      BY DEF Typed
    <2> QED BY <2>1, <2>2 DEF Apart, Arrived
  <1>2. \A q \in Promises : q # n =>
          /\ heap'[q].state = heap[q].state /\ Outcome(q)' = Outcome(q)
          /\ (Settled(q)' <=> Settled(q)) /\ (Born(q)' <=> Born(q))
          /\ origin'[q] = origin[q] /\ inputs'[q] = inputs[q] /\ left'[q] = left[q]
          /\ got'[q] = got[q] /\ Missing(q)' = Missing(q)
    BY DEF Arrived, Outcome, Settled, Born, Typed, Missing
  <1>3. \A q \in Promises : \A i \in 1 .. Len(attached[q]) :
          i \in 1 .. Len(attached'[q]) /\ attached'[q][i] = attached[q][i]
    BY <1>1 DEF Arrived, Plain, Grown
  <1>4. ASSUME NEW q \in Promises, q # n PROVE ShapedAt(q)'
    <2>1. ShapedAt(q)
      BY DEF Combined
    <2>2. ASSUME NEW k \in 1 .. Len(inputs[q])
          PROVE  /\ Born(inputs[q][k])'
                 /\ \E i \in 1 .. Len(attached'[inputs[q][k]]) :
                      LET cb == attached'[inputs[q][k]][i]
                      IN  cb.kind = origin[q] /\ cb.d = q /\ cb.key = k
      <3>1. PICK p \in Promises : p = inputs[q][k] /\ p # n
        BY <1>1
      <3>2. Born(p)'
        BY <1>2, <2>1, <3>1 DEF ShapedAt
      <3>3. PICK i \in 1 .. Len(attached[p]) :
              attached[p][i].kind = origin[q] /\ attached[p][i].d = q /\ attached[p][i].key = k
        BY <2>1, <3>1 DEF ShapedAt
      <3>4. i \in 1 .. Len(attached'[p]) /\ attached'[p][i] = attached[p][i]
        BY <1>3
      <3>5. inputs[q][k]' = p
        BY <1>2, <1>4, <3>1
      <3>6. Born(inputs[q][k])'
        BY <3>2, <3>5 DEF Born
      <3>7. \E j \in 1 .. Len(attached'[p]) :
              LET cb == attached'[p][j]
              IN  cb.kind = origin[q] /\ cb.d = q /\ cb.key = k
        BY <3>3, <3>4
      <3> QED BY <3>1, <3>6, <3>7
    <2>3. inputs'[q] = inputs[q] /\ origin'[q] = origin[q]
      BY <1>2, <1>4
    <2>4. \A k \in 1 .. Len(inputs'[q]) :
            /\ Born(inputs[q][k])'
            /\ \E i \in 1 .. Len(attached'[inputs'[q][k]]) :
                 LET cb == attached'[inputs'[q][k]][i]
                 IN  cb.kind = origin'[q] /\ cb.d = q /\ cb.key = k
      BY <2>2, <2>3
    <2> QED BY <1>2, <1>4, <2>1, <2>4 DEF ShapedAt
  <1>5. ASSUME NEW q \in Promises, q # n PROVE TruthAt(q)'
    <2>1. TruthAt(q)
      BY DEF Combined
    <2>2. \A k \in 1 .. Len(inputs[q]) :
            /\ (Settled(inputs[q][k])' <=> Settled(inputs[q][k]))
            /\ Outcome(inputs[q][k])' = Outcome(inputs[q][k])
            /\ heap'[inputs[q][k]].state = heap[inputs[q][k]].state
      <3>1. ASSUME NEW k \in 1 .. Len(inputs[q])
            PROVE  /\ (Settled(inputs[q][k])' <=> Settled(inputs[q][k]))
                   /\ Outcome(inputs[q][k])' = Outcome(inputs[q][k])
                   /\ heap'[inputs[q][k]].state = heap[inputs[q][k]].state
        <4>1. PICK p \in Promises : p = inputs[q][k] /\ p # n
          BY <1>1
        <4>2. inputs'[q][k] = p
          BY <1>2, <1>5, <4>1
        <4> QED BY <1>2, <4>1, <4>2
      <3> QED BY <3>1
    <2> QED BY <1>2, <1>5, <2>1, <2>2 DEF TruthAt
  <1>6. ASSUME NEW p \in Promises, NEW i \in 1 .. Len(attached[p]) PROVE TalliedAt(p, i)'
    <2>1. TalliedAt(p, i)
      BY DEF Combined
    <2>2. PICK d \in Promises : d = attached[p][i].d /\ d # n
      BY <1>1 DEF Plain
    <2> QED BY <1>1, <1>2, <1>3, <2>1, <2>2 DEF TalliedAt
  <1>7. ASSUME NEW q \in Promises, q # n PROVE FedAt(q)'
    <2>1. SUFFICES ASSUME origin[q] = "derived", heap[q].state = "pending"
                   PROVE  \E p \in Promises : \E j \in 1 .. Len(attached'[p]) :
                            j > ran[p] /\ attached'[p][j].d = q
      BY <1>1, <1>2, <1>7 DEF FedAt
    <2>2. PICK p \in Promises : \E i \in 1 .. Len(attached[p]) : i > ran[p] /\ attached[p][i].d = q
      BY <2>1 DEF Combined, FedAt
    <2> QED BY <1>3, <2>2
  <1>8. ASSUME NEW p \in Promises, NEW i \in 1 .. Len(attached'[p]) PROVE TalliedAt(p, i)'
    <2>1. i \in 1 .. Len(attached[p]) \/ i > Len(attached[p])
      BY <1>1 DEF Plain
    <2> QED BY <1>6, <2>1
  <1> QED BY <1>4, <1>5, <1>7, <1>8 DEF Combined

-----------------------------------------------------------------------------
(* From worlds to steps                                                     *)

\* The world after a step.
LEMMA BecomesWorld ==
  ASSUME NEW u \in Worlds, Becomes(u)
  PROVE  World' = u
  BY WorldFacts DEF Becomes, World

\* What the lemmas use of the invariant.
LEMMA BornFacts ==
  ASSUME IInv
  PROVE  /\ Plain /\ Typed /\ Whole(World, ran, reported) /\ Combined
         /\ Aimed(attached, origin, inputs)
         /\ World \in Worlds /\ World.heap = heap /\ World.tasks = tasks /\ World.attached = attached
  <1>1. Whole(World, ran, reported)
    BY DEF IInv, Sound
  <1>2. World \in Worlds /\ World.heap = heap /\ World.tasks = tasks /\ World.attached = attached
    BY <1>1 DEF World, Whole
  <1> QED BY <1>1, <1>2, PlainFacts DEF IInv, Sound

\* The promises that are settled keep their outcomes.
Lasts ==
  \A p \in Promises : Settled(p) =>
    heap'[p].state = heap[p].state /\ heap'[p].value = heap[p].value

\* What every step does: the invariant holds again, and no outcome has changed.
Kept == IInv' /\ Lasts

\* A step that moves d settles it at most.
LEMMA MovedLasts ==
  ASSUME NEW d, Moved(d)
  PROVE  Lasts
  BY DEF Moved, Settled, Lasts

\* A step that creates a promise settles no other.
LEMMA ArrivedLasts ==
  ASSUME NEW n, NEW kind, NEW fkind, Arrived(n, kind, fkind)
  PROVE  Lasts
  BY DEF Arrived, Settled, Lasts

\* A step that changes neither outcomes nor follow-ups keeps what is said of them.
LEMMA StillKeeps ==
  ASSUME Combined, UNCHANGED <<heap, origin, group, attached, ran>>
  PROVE  Combined'
  <1>1. /\ heap' = heap /\ origin' = origin /\ inputs' = inputs /\ left' = left /\ got' = got
        /\ attached' = attached /\ ran' = ran
    BY DEF group
  <1>2. ASSUME NEW d \in Promises PROVE ShapedAt(d)' /\ TruthAt(d)' /\ FedAt(d)'
    <2>1. ShapedAt(d) /\ TruthAt(d) /\ FedAt(d)
      BY DEF Combined
    <2>2. ShapedAt(d)'
      BY <1>1, <2>1 DEF ShapedAt, Missing, Born
    <2>3. TruthAt(d)'
      BY <1>1, <2>1 DEF TruthAt, Missing, Settled, Outcome
    <2> QED BY <1>1, <2>1, <2>2, <2>3 DEF FedAt
  <1>3. ASSUME NEW p \in Promises, NEW i \in 1 .. Len(attached[p]) PROVE TalliedAt(p, i)'
    BY <1>1 DEF Combined, TalliedAt
  <1> QED BY <1>1, <1>2, <1>3 DEF Combined

\* No follow-up need be added.
LEMMA SelfGrown ==
  ASSUME Plain, NEW kind, NEW d
  PROVE  Grown(attached, attached, kind, d)
  BY DEF Plain, Grown

\* User code takes a step: nothing is processed.
LEMMA MayFacts ==
  ASSUME Typed, May
  PROVE  budget' \in Nat
  BY DEF Typed, May

-----------------------------------------------------------------------------
(* resolve and reject, called by user code or by the engine                  *)

\* The effect of Resolve and Reject of d on a world w that has the promises and
\* the follow-ups of the state.
Effect(w, u, d) ==
  \/ /\ u.attached = attached
     /\ \E st \in Ends, v \in Vals \cup {Group} : OnlyOutcome(u, w, d, st, v)
  \/ /\ Alike(u, w)
     /\ \E x \in Promises, cb \in FollowUps :
          /\ cb.kind = "adopt" /\ cb.d = d /\ heap[d].state = "pending"
          /\ Attached(u, w, x, cb)
  \/ u = w /\ heap[d].state # "pending"

AdoptCb(d) == FollowUp("adopt", d, TRUE, TRUE, FALSE, 0)

\* The follow-up of an adoption is one.
LEMMA AdoptFacts ==
  ASSUME NEW d \in Promises
  PROVE  AdoptCb(d) \in FollowUps /\ AdoptCb(d).kind = "adopt" /\ AdoptCb(d).d = d
  BY QAssumption DEF AdoptCb, FollowUp, FollowUps

\* resolve settles d, has it adopt a promise, or does nothing.
LEMMA ResolveKeeps ==
  ASSUME NEW w, NEW rn, NEW rep, Whole(w, rn, rep), w.heap = heap, w.attached = attached,
         NEW d \in Promises, NEW x \in Vals \cup Promises,
         x \in Promises => heap[x].state # "unborn",
         Aimed(attached, origin, inputs), origin[d] \in {"deferred", "derived"},
         NEW u, u = Resolve(w, d, x)
  PROVE  /\ Whole(u, rn, rep) /\ Aimed(u.attached, origin, inputs) /\ Effect(w, u, d)
  <1>1. CASE x \in Promises /\ heap[d].state = "pending"
    <2>1. PICK cb \in FollowUps : cb = AdoptCb(d) /\ cb.kind = "adopt" /\ cb.d = d
      BY AdoptFacts
    <2>2. u = Attach(w, x, cb)
      BY <1>1, <2>1 DEF Resolve, AdoptCb
    <2>3. Whole(u, rn, rep)
      BY <1>1, <2>2, AttachKeeps
    <2>4. Attached(u, w, x, cb)
      BY <1>1, <2>2, AttachParts DEF Whole
    <2>5. Aimed(u.attached, origin, inputs)
      <3>1. Aims(cb, x, origin, inputs)
        BY <2>1 DEF Aims, Combiners
      <3>2. \A i \in 1 .. Len(w.attached[x]) : ~Same(w.attached[x][i], cb)
        BY <2>1 DEF Same, Combiners
      <3>3. w \in Worlds /\ Aimed(w.attached, origin, inputs)
        BY DEF Whole
      <3> QED BY <1>1, <2>4, <3>1, <3>2, <3>3, AttachAims
    <2>6. Effect(w, u, d)
      <3>1. Alike(u, w)
        BY <2>4 DEF Attached
      <3> QED BY <1>1, <2>1, <2>4, <3>1 DEF Effect
    <2> QED BY <2>3, <2>5, <2>6
  <1>2. CASE x \in Promises /\ heap[d].state # "pending"
    <2>1. u = w
      BY <1>2 DEF Resolve
    <2> QED BY <1>2, <2>1 DEF Effect
  <1>3. CASE x \notin Promises
    <2>1. u = Settle(w, d, "resolved", x) /\ "resolved" \in Ends /\ x \in Vals \cup {Group}
      BY <1>3 DEF Resolve, Ends
    <2>2. /\ Whole(u, rn, rep) /\ u.attached = w.attached
          /\ OnlyOutcome(u, w, d, "resolved", x)
      BY <2>1, SettleKeeps
    <2> QED BY <2>1, <2>2 DEF Effect
  <1> QED BY <1>1, <1>2, <1>3

\* Either effect moves d alone.
LEMMA EffectMoves ==
  ASSUME Plain, Plain', NEW w, w.heap = heap, w.attached = attached, w \in Worlds,
         NEW d \in Promises, NEW u, Effect(w, u, d), heap' = u.heap, attached' = u.attached,
         origin' = origin, inputs' = inputs, \A q \in Promises : ran[q] <= ran'[q]
  PROVE  /\ Moved(d)
         /\ \/ attached' = attached /\ heap'[d].state # "pending"
            \/ /\ heap'[d].state = "pending"
               /\ \E x \in Promises : /\ Len(attached'[x]) = Len(attached[x]) + 1
                                      /\ attached'[x][Len(attached[x]) + 1].d = d
  <1>1. CASE u.attached = attached /\ \E st \in Ends, v \in Vals \cup {Group} : OnlyOutcome(u, w, d, st, v)
    <2>1. PICK st \in Ends, v \in Vals \cup {Group} : OnlyOutcome(u, w, d, st, v)
      BY <1>1
    <2>2. Grown(attached', attached, "adopt", d)
      BY <1>1, SelfGrown
    <2>3. heap'[d].state # "pending" /\ st # "unborn"
      BY <2>1 DEF OnlyOutcome, Ends
    <2> QED BY <1>1, <2>1, <2>2, <2>3 DEF OnlyOutcome, Moved
  <1>2. CASE /\ Alike(u, w)
             /\ \E x \in Promises, cb \in FollowUps :
                  /\ cb.kind = "adopt" /\ cb.d = d /\ heap[d].state = "pending"
                  /\ Attached(u, w, x, cb)
    <2>1. PICK x \in Promises, cb \in FollowUps :
                  /\ cb.kind = "adopt" /\ cb.d = d /\ heap[d].state = "pending"
                  /\ Attached(u, w, x, cb)
      BY <1>2
    <2>2. /\ Grown(u.attached, w.attached, cb.kind, cb.d)
          /\ Len(u.attached[x]) = Len(w.attached[x]) + 1
          /\ u.attached[x][Len(w.attached[x]) + 1] = cb
      BY <2>1, AttachGrows
    <2> QED BY <1>2, <2>1, <2>2 DEF Alike, Moved
  <1>3. CASE u = w /\ heap[d].state # "pending"
    <2>2. Grown(attached', attached, "adopt", d)
      BY <1>3, SelfGrown
    <2> QED BY <1>3, <2>2 DEF Moved
  <1> QED BY <1>1, <1>2, <1>3 DEF Effect

\* A promise that is no combined one has no inputs, so that nothing is said of them.
LEMMA SingleTruth ==
  ASSUME Combined, Typed, NEW d, Moved(d), got' = got, origin[d] \in {"none", "deferred", "derived"}
  PROVE  TruthAt(d)'
  <1>1. d \in Promises /\ origin' = origin /\ inputs' = inputs
    BY DEF Moved
  <1>2. inputs[d] = <<>>
    BY <1>1 DEF Combined, ShapedAt, Combiners
  <1>3. inputs'[d] = <<>> /\ origin'[d] \in {"none", "deferred", "derived"} /\ Len(<<>>) = 0
    BY <1>1, <1>2
  <1> QED BY <1>3 DEF TruthAt

\* The controller of a deferred settles it, or has it adopt a promise.
LEMMA ControllerKeeps ==
  ASSUME IInv, NEW d \in Promises, origin[d] = "deferred", NEW u, Becomes(u),
         Whole(u, ran, reported), Aimed(u.attached, origin, inputs), Effect(World, u, d),
         budget' \in Nat, UNCHANGED <<origin, group, ran, reported>>
  PROVE  Kept
  <1>1. /\ Plain /\ Typed /\ Whole(World, ran, reported) /\ Combined
        /\ World \in Worlds /\ World.heap = heap /\ World.attached = attached
    BY BornFacts
  <1>2. /\ origin' = origin /\ inputs' = inputs /\ left' = left /\ got' = got /\ ran' = ran
        /\ reported' = reported
    BY DEF group
  <1>3. heap' = u.heap /\ attached' = u.attached /\ u \in Worlds
    BY DEF Becomes, Whole
  <1>4. Whole(World, ran, reported)' /\ Plain'
    <2>1. World' = u
      BY <1>3, BecomesWorld
    <2>2. Whole(World, ran, reported)'
      BY <1>2, <2>1
    <2> QED BY <2>2, PlainFacts, PTL
  <1>5. Typed'
    BY <1>1, <1>2 DEF Typed
  <1>6. Moved(d)
    <2>1. \A q \in Promises : ran[q] <= ran'[q]
      BY <1>1, <1>2 DEF Plain
    <2> QED BY <1>1, <1>2, <1>3, <1>4, <2>1, EffectMoves
  <1>7. Counted(d)
    BY <1>2 DEF Counted
  <1>8. Delivered(d)
    BY <1>1, <1>2 DEF Delivered, Plain
  <1>9. TruthAt(d)' /\ ShapedAt(d)'
    BY <1>1, <1>2, <1>6, SingleTruth, MovedShaped
  <1>10. Combined'
    BY <1>1, <1>6, <1>7, <1>8, <1>9, MovedKeeps
  <1>11. Aimed(attached, origin, inputs)'
    BY <1>2, <1>3
  <1> QED BY <1>4, <1>5, <1>6, <1>10, <1>11, MovedLasts DEF IInv, Sound, Kept

\* resolve of a deferred keeps the invariant.
LEMMA ResolveWithKeeps ==
  ASSUME IInv, NEW d \in Promises, NEW x \in Vals \cup Promises, x \in Promises => Born(x),
         ResolveWith(d, x)
  PROVE  Kept
  <1>1. /\ Typed /\ Whole(World, ran, reported) /\ Aimed(attached, origin, inputs)
        /\ World.heap = heap /\ World.attached = attached
    BY BornFacts
  <1>2. PICK u : u = Resolve(World, d, x)
    OBVIOUS
  <1>3. /\ Becomes(u) /\ origin[d] = "deferred" /\ May /\ UNCHANGED <<origin, group, ran, reported>>
    BY <1>2 DEF ResolveWith
  <1>4. Whole(u, ran, reported) /\ Aimed(u.attached, origin, inputs) /\ Effect(World, u, d)
    BY <1>1, <1>2, <1>3, ResolveKeeps DEF Born
  <1>5. budget' \in Nat
    BY <1>1, <1>3, MayFacts
  <1> QED BY <1>3, <1>4, <1>5, ControllerKeeps

\* reject of a deferred keeps the invariant.
LEMMA RejectWithKeeps ==
  ASSUME IInv, NEW d \in Promises, NEW e \in Vals, RejectWith(d, e)
  PROVE  Kept
  <1>1. /\ Typed /\ Whole(World, ran, reported) /\ Aimed(attached, origin, inputs)
        /\ World.heap = heap /\ World.attached = attached
    BY BornFacts
  <1>2. PICK u : u = Settle(World, d, "rejected", e)
    OBVIOUS
  <1>3. /\ Becomes(u) /\ origin[d] = "deferred" /\ May /\ UNCHANGED <<origin, group, ran, reported>>
    BY <1>2 DEF RejectWith, Reject
  <1>4. "rejected" \in Ends /\ e \in Vals \cup {Group}
    BY DEF Ends
  <1>5. /\ Whole(u, ran, reported) /\ u.attached = World.attached
        /\ OnlyOutcome(u, World, d, "rejected", e)
    BY <1>1, <1>2, <1>4, SettleKeeps
  <1>6. Effect(World, u, d) /\ Aimed(u.attached, origin, inputs)
    BY <1>1, <1>4, <1>5 DEF Effect
  <1>7. budget' \in Nat
    BY <1>1, <1>3, MayFacts
  <1> QED BY <1>3, <1>5, <1>6, <1>7, ControllerKeeps

-----------------------------------------------------------------------------
(* New promises                                                             *)

\* The next promise is not created yet.
LEMMA NewFacts ==
  ASSUME CanCreate
  PROVE  NextNew \in Promises /\ heap[NextNew].state = "unborn"
  BY DEF CanCreate, NextNew, Born

\* After a step, the promises and the tasks are what the step makes of them.
LEMMA PrimedPlain ==
  ASSUME NEW u, Becomes(u), Whole(u, ran', reported')
  PROVE  Whole(World, ran, reported)' /\ Plain' /\ heap' = u.heap /\ attached' = u.attached
  <1>1. u \in Worlds
    BY DEF Whole
  <1>2. World' = u
    BY <1>1, BecomesWorld
  <1>3. Whole(World, ran, reported)'
    BY <1>2
  <1>4. Plain'
    BY <1>3, PlainFacts, PTL
  <1> QED BY <1>3, <1>4 DEF Becomes

\* A promise that is no combined one starts without inputs.
LEMMA SingleArrives ==
  ASSUME IInv, NEW n, NEW kind \in {"deferred", "derived"}, NEW fkind, Arrived(n, kind, fkind),
         UNCHANGED group
  PROVE  ShapedAt(n)' /\ TruthAt(n)'
  <1>1. /\ Plain /\ Typed /\ Combined /\ Aimed(attached, origin, inputs)
        /\ n \in Promises /\ heap[n].state = "unborn" /\ heap'[n].state # "unborn"
        /\ inputs' = inputs /\ left' = left /\ got' = got
    BY BornFacts DEF Arrived, group
  <1>2. origin'[n] = kind /\ inputs'[n] = <<>> /\ Len(<<>>) = 0 /\ inputs[n] = <<>>
    <2>1. Apart(n)
      BY <1>1, UnbornApart
    <2> QED BY <1>1, <2>1 DEF Apart, Arrived, Typed
  <1>3. Missing(n)' = Missing(n)
    BY <1>1 DEF Missing
  <1>4. ShapedAt(n)'
    BY <1>1, <1>2, <1>3 DEF Combined, ShapedAt
  <1>5. TruthAt(n)'
    BY <1>2 DEF TruthAt
  <1> QED BY <1>4, <1>5

\* A new deferred keeps the invariant.
LEMMA DeferKeeps ==
  ASSUME IInv, Defer
  PROVE  Kept
  <1>1. /\ Plain /\ Typed /\ Whole(World, ran, reported) /\ Combined
        /\ Aimed(attached, origin, inputs)
        /\ World \in Worlds /\ World.heap = heap /\ World.attached = attached
    BY BornFacts
  <1>2. PICK n : n = NextNew
    OBVIOUS
  <1>3. PICK u : u = Create(World, n)
    OBVIOUS
  <1>4. /\ n \in Promises /\ heap[n].state = "unborn" /\ May /\ Becomes(u)
        /\ origin' = [origin EXCEPT ![n] = "deferred"]
        /\ UNCHANGED group /\ ran' = ran /\ reported' = reported
    BY <1>2, <1>3, NewFacts DEF Defer, Creates
  <1>5. Whole(u, ran, reported)
    BY <1>1, <1>3, <1>4, CreateKeeps
  <1>6. /\ u.attached = attached /\ u.heap[n].state = "pending"
        /\ \A q \in Promises : q # n => u.heap[q] = heap[q]
    BY <1>1, <1>3, <1>4, CreateParts
  <1>7. Whole(World, ran, reported)' /\ Plain' /\ heap' = u.heap /\ attached' = u.attached
    BY <1>4, <1>5, PrimedPlain
  <1>8. inputs' = inputs /\ left' = left /\ got' = got
    BY <1>4 DEF group
  <1>9. Arrived(n, "deferred", "then")
    <2>1. Grown(attached', attached, "then", n)
      BY <1>1, <1>6, <1>7, SelfGrown
    <2> QED BY <1>1, <1>4, <1>6, <1>7, <1>8, <2>1 DEF Arrived
  <1>10. ShapedAt(n)' /\ TruthAt(n)'
    BY <1>4, <1>9, SingleArrives
  <1>11. FedAt(n)'
    BY <1>1, <1>4 DEF FedAt, Typed
  <1>12. \A p \in Promises : \A i \in 1 .. Len(attached'[p]) : i > Len(attached[p]) => TalliedAt(p, i)'
    BY <1>1, <1>6, <1>7 DEF Plain
  <1>13. Combined'
    BY <1>1, <1>9, <1>10, <1>11, <1>12, ArrivedKeeps
  <1>14. Typed'
    BY <1>1, <1>4, <1>8, MayFacts DEF Typed
  <1>15. Aimed(attached, origin, inputs)'
    <2>1. Aimed(attached, origin', inputs')
      BY <1>1, <1>8, <1>9, ArrivedAims DEF Typed
    <2> QED BY <1>6, <1>7, <2>1
  <1> QED BY <1>7, <1>9, <1>13, <1>14, <1>15, ArrivedLasts DEF IInv, Sound, Kept

\* then keeps the invariant.
LEMMA ThenKeeps ==
  ASSUME IInv, NEW p \in Promises, NEW f \in BOOLEAN, NEW r \in BOOLEAN, NEW pr \in BOOLEAN,
         Then(p, f, r, pr)
  PROVE  Kept
  <1>1. /\ Plain /\ Typed /\ Whole(World, ran, reported) /\ Combined
        /\ Aimed(attached, origin, inputs)
        /\ World \in Worlds /\ World.heap = heap /\ World.attached = attached
    BY BornFacts
  <1>2. PICK n : n = NextNew
    OBVIOUS
  <1>3. PICK w : w = Create(World, n)
    OBVIOUS
  <1>4. PICK cb : cb = FollowUp("then", n, f, r, pr, 0)
    OBVIOUS
  <1>5. PICK u : u = Attach(w, p, cb)
    OBVIOUS
  <1>6. /\ n \in Promises /\ heap[n].state = "unborn" /\ May /\ Becomes(u) /\ Born(p)
        /\ origin' = [origin EXCEPT ![n] = "derived"]
        /\ UNCHANGED group /\ ran' = ran /\ reported' = reported
    BY <1>2, <1>3, <1>4, <1>5, NewFacts DEF Then, Creates
  <1>7. p # n /\ cb \in FollowUps /\ cb.kind = "then" /\ cb.d = n
    <2>1. p # n
      BY <1>6 DEF Born
    <2>2. 0 \in 0 .. MaxInputs /\ "then" \in {"then", "adopt"} \cup Combiners
      BY QAssumption
    <2>3. /\ cb.kind = "then" /\ cb.d = n
          /\ cb = [kind |-> "then", d |-> n, f |-> f, r |-> r, pr |-> pr, key |-> 0]
      BY <1>4 DEF FollowUp
    <2>4. cb \in FollowUps
      BY <1>6, <2>2, <2>3 DEF FollowUps
    <2> QED BY <2>1, <2>3, <2>4
  <1>8. Whole(w, ran, reported)
    BY <1>1, <1>3, <1>6, CreateKeeps
  <1>9. /\ w \in Worlds /\ w.attached = attached /\ w.heap[n].state = "pending"
        /\ \A q \in Promises : q # n => w.heap[q] = heap[q]
    <2>1. World \in Worlds /\ n \in Promises /\ w = Create(World, n)
      BY <1>1, <1>3, <1>6
    <2>2. /\ w \in Worlds /\ w.attached = World.attached /\ w.heap[n].state = "pending"
          /\ \A q \in Promises : q # n => w.heap[q] = World.heap[q]
      BY <2>1, CreateParts
    <2> QED BY <1>1, <2>2
  <1>10. Whole(u, ran, reported)
    BY <1>5, <1>6, <1>7, <1>8, <1>9, AttachKeeps DEF Born
  <1>11. Attached(u, w, p, cb)
    BY <1>5, <1>7, <1>9, AttachParts
  <1>12. /\ Grown(u.attached, attached, "then", n)
         /\ Len(u.attached[p]) = Len(attached[p]) + 1 /\ Len(attached[p]) \in Nat
         /\ u.attached[p][Len(attached[p]) + 1] = cb
    BY <1>7, <1>9, <1>11, AttachGrows
  <1>13. Whole(World, ran, reported)' /\ Plain' /\ heap' = u.heap /\ attached' = u.attached
    BY <1>6, <1>10, PrimedPlain
  <1>14. inputs' = inputs /\ left' = left /\ got' = got
    BY <1>6 DEF group
  <1>15. Arrived(n, "derived", "then")
    <2>1. /\ heap'[n].state = "pending"
          /\ \A q \in Promises : q # n =>
               heap'[q].state = heap[q].state /\ heap'[q].value = heap[q].value
      BY <1>6, <1>9, <1>11, <1>13 DEF Attached, Alike
    <2> QED BY <1>1, <1>6, <1>12, <1>13, <1>14, <2>1 DEF Arrived
  <1>16. ShapedAt(n)' /\ TruthAt(n)'
    BY <1>6, <1>15, SingleArrives
  <1>17. FedAt(n)'
    <2>1. Len(attached[p]) + 1 \in 1 .. Len(attached'[p]) /\ Len(attached[p]) + 1 > ran'[p]
      BY <1>1, <1>6, <1>12, <1>13 DEF Plain
    <2> QED BY <1>7, <1>12, <1>13, <2>1 DEF FedAt
  <1>18. ASSUME NEW q \in Promises, NEW i \in 1 .. Len(attached'[q]), i > Len(attached[q])
         PROVE  TalliedAt(q, i)'
    <2>1. attached'[q][i].kind = "then"
      BY <1>12, <1>13, <1>18 DEF Grown
    <2> QED BY <2>1 DEF TalliedAt
  <1>19. Combined'
    BY <1>1, <1>15, <1>16, <1>17, <1>18, ArrivedKeeps
  <1>20. Typed'
    BY <1>1, <1>6, <1>14, MayFacts DEF Typed
  <1>21. Aimed(attached, origin, inputs)'
    <2>1. Aimed(w.attached, origin', inputs')
      BY <1>1, <1>9, <1>14, <1>15, ArrivedAims DEF Typed
    <2>2. Aims(cb, p, origin', inputs')
      BY <1>1, <1>6, <1>7 DEF Aims, Combiners, Typed
    <2>3. \A i \in 1 .. Len(w.attached[p]) : ~Same(w.attached[p][i], cb)
      BY <1>7 DEF Same, Combiners
    <2>4. Aimed(u.attached, origin', inputs')
      BY <1>7, <1>9, <1>11, <2>1, <2>2, <2>3, AttachAims
    <2> QED BY <1>13, <2>4
  <1> QED BY <1>13, <1>15, <1>19, <1>20, <1>21, ArrivedLasts DEF IInv, Sound, Kept

-----------------------------------------------------------------------------
(* Combiners                                                                *)

\* A new combined promise keeps the invariant.
LEMMA CombineKeeps ==
  ASSUME IInv, NEW kind \in Combiners, NEW m \in 0 .. MaxInputs, NEW ps \in [1 .. m -> Promises],
         Combine(kind, ps)
  PROVE  Kept
  <1>1. /\ Plain /\ Typed /\ Whole(World, ran, reported) /\ Combined
        /\ Aimed(attached, origin, inputs)
        /\ World \in Worlds /\ World.heap = heap /\ World.attached = attached
    BY BornFacts
  <1>0. ps \in Seq(Promises) /\ Len(ps) = m /\ DOMAIN ps = 1 .. m /\ m \in Nat
    BY QAssumption
  <1>2. PICK n : n = NextNew
    OBVIOUS
  <1>3. PICK w : w = Create(World, n)
    OBVIOUS
  <1>4. PICK v : v = AttachAll(w, kind, n, ps)
    OBVIOUS
  <1>5. PICK u : u = IF ps = <<>> /\ kind # "race" THEN Settle(v, n, "resolved", Group) ELSE v
    OBVIOUS
  <1>6. /\ n \in Promises /\ heap[n].state = "unborn" /\ May /\ Becomes(u)
        /\ \A k \in 1 .. m : Born(ps[k])
        /\ origin' = [origin EXCEPT ![n] = kind]
        /\ inputs' = [inputs EXCEPT ![n] = ps] /\ left' = [left EXCEPT ![n] = m]
        /\ got' = [got EXCEPT ![n] = [k \in 1 .. m |-> NoResult]]
        /\ ran' = ran /\ reported' = reported
    BY <1>0, <1>2, <1>3, <1>4, <1>5, NewFacts DEF Combine, Creates
  <1>7. Typed'
    <2>1. [k \in 1 .. m |-> NoResult] \in Seq(Results) /\ m \in 0 .. MaxInputs
      BY <1>0 DEF Results
    <2>2. kind \in {"none", "deferred", "derived"} \cup Combiners
      OBVIOUS
    <2>3. budget' \in Nat
      BY <1>1, <1>6, MayFacts
    <2> QED BY <1>0, <1>1, <1>6, <2>1, <2>2, <2>3 DEF Typed
  <1>8. /\ origin'[n] = kind /\ inputs'[n] = ps /\ left'[n] = m
        /\ got'[n] = [k \in 1 .. m |-> NoResult]
        /\ \A q \in Promises : q # n => inputs'[q] = inputs[q] /\ left'[q] = left[q] /\ got'[q] = got[q]
    BY <1>1, <1>6 DEF Typed
  <1>9. Whole(w, ran, reported)
    BY <1>1, <1>3, <1>6, CreateKeeps
  <1>10. /\ w \in Worlds /\ w.attached = attached /\ w.heap[n].state = "pending"
         /\ \A q \in Promises : q # n => w.heap[q] = heap[q]
    BY <1>1, <1>3, <1>6, CreateParts
  <1>11. Apart(n)
    BY <1>1, <1>6, UnbornApart
  <1>12. Aimed(w.attached, origin', inputs')
    <2>1. ASSUME NEW q \in Promises, NEW i \in 1 .. Len(attached[q])
          PROVE  Aims(attached[q][i], q, origin', inputs')
      <3>1. PICK c : c = attached[q][i]
        OBVIOUS
      <3>2. Aims(c, q, origin, inputs) /\ c.d # n /\ c.d \in Promises
        BY <1>1, <1>11, <3>1 DEF Aimed, Apart, Plain
      <3>3. origin'[c.d] = origin[c.d] /\ inputs'[c.d] = inputs[c.d]
        BY <1>6, <1>8, <3>2 DEF Typed
      <3> QED BY <3>1, <3>2, <3>3 DEF Aims
    <2> QED BY <1>1, <1>10, <2>1 DEF Aimed
  <1>13. Begun(v, m, w, ran, reported, kind, n, ps, origin', inputs')
    <2>1. \A k \in 1 .. Len(ps) : ps[k] \in Promises /\ w.heap[ps[k]].state # "unborn"
      BY <1>0, <1>6, <1>10 DEF Born
    <2>2. \A q \in Promises : \A i \in 1 .. Len(w.attached[q]) : w.attached[q][i].d # n
      BY <1>10, <1>11 DEF Apart
    <2>3. PICK og : og = origin'
      OBVIOUS
    <2>4. PICK ins : ins = inputs'
      OBVIOUS
    <2>5. Aimed(w.attached, og, ins) /\ og[n] = kind /\ ins[n] = ps /\ Len(ps) \in 0 .. MaxInputs
      BY <1>0, <1>8, <1>12, <2>3, <2>4
    <2>6. Begun(AttachAll(w, kind, n, ps), Len(ps), w, ran, reported, kind, n, ps, og, ins)
      BY <1>6, <1>9, <2>1, <2>2, <2>5, AttachAllKeeps
    <2> QED BY <1>0, <1>4, <2>3, <2>4, <2>6
  <1>14. /\ Whole(v, ran, reported) /\ Alike(v, w) /\ Aimed(v.attached, origin', inputs')
         /\ Grown(v.attached, attached, kind, n)
         /\ \A k \in 1 .. m : \E i \in 1 .. Len(v.attached[ps[k]]) :
              v.attached[ps[k]][i] = ForInput(kind, n, k)
    BY <1>10, <1>13 DEF Begun
  <1>15. /\ Whole(u, ran, reported) /\ u.attached = v.attached
         /\ \A q \in Promises : q # n =>
              u.heap[q].state = heap[q].state /\ u.heap[q].value = heap[q].value
         /\ u.heap[n].state = IF ps = <<>> /\ kind # "race" THEN "resolved" ELSE "pending"
    <2>1. CASE ps = <<>> /\ kind # "race"
      <3>1. u = Settle(v, n, "resolved", Group) /\ "resolved" \in Ends /\ Group \in Vals \cup {Group}
        BY <1>5, <2>1 DEF Ends
      <3>2. /\ Whole(u, ran, reported) /\ u.attached = v.attached
            /\ OnlyOutcome(u, v, n, "resolved", Group)
        BY <1>6, <1>14, <3>1, SettleKeeps
      <3> QED BY <1>6, <1>10, <1>14, <2>1, <3>2 DEF OnlyOutcome, Alike
    <2>2. CASE ~(ps = <<>> /\ kind # "race")
      <3>1. u = v
        BY <1>5, <2>2
      <3> QED BY <1>6, <1>10, <1>14, <2>2, <3>1 DEF Alike
    <2> QED BY <2>1, <2>2
  <1>16. Whole(World, ran, reported)' /\ Plain' /\ heap' = u.heap /\ attached' = u.attached
    BY <1>6, <1>15, PrimedPlain
  <1>17. Arrived(n, kind, kind)
    <2>1. kind # "none" /\ heap'[n].state # "unborn"
      BY <1>15, <1>16 DEF Combiners
    <2> QED BY <1>1, <1>6, <1>8, <1>14, <1>15, <1>16, <2>1 DEF Arrived
  <1>18. Missing(n)' = 1 .. m
    BY <1>0, <1>8 DEF Missing
  <1>19. ShapedAt(n)'
    <2>1. Cardinality(Missing(n)') = m
      <3>1. Cardinality(1 .. m) = IF 1 > m THEN 0 ELSE m - 1 + 1
        BY <1>0, FS_Interval
      <3> QED BY <1>0, <1>18, <3>1
    <2>2. Len(got'[n]) = m
      BY <1>0, <1>8
    <2>3. ASSUME NEW k \in 1 .. m
          PROVE  /\ heap'[ps[k]].state # "unborn"
                 /\ \E i \in 1 .. Len(attached'[ps[k]]) :
                      LET cb == attached'[ps[k]][i]
                      IN  cb.kind = kind /\ cb.d = n /\ cb.key = k
      <3>1. PICK p \in Promises : p = ps[k]
        OBVIOUS
      <3>2. heap'[p].state # "unborn"
        BY <1>6, <1>15, <1>16, <3>1 DEF Born
      <3>3. PICK i \in 1 .. Len(attached'[p]) : attached'[p][i] = ForInput(kind, n, k)
        BY <1>14, <1>15, <1>16, <3>1
      <3>4. ForInput(kind, n, k).kind = kind /\ ForInput(kind, n, k).d = n /\ ForInput(kind, n, k).key = k
        BY DEF ForInput, FollowUp
      <3>5. \E j \in 1 .. Len(attached'[p]) :
              LET cb == attached'[p][j]
              IN  cb.kind = kind /\ cb.d = n /\ cb.key = k
        BY <3>3, <3>4
      <3> QED BY <3>1, <3>2, <3>5
    <2>4. kind # "none" /\ heap'[n].state # "unborn"
      BY <1>17 DEF Arrived
    <2>5. m <= MaxInputs
      BY <1>0
    <2> QED BY <1>0, <1>8, <2>1, <2>2, <2>3, <2>4, <2>5 DEF ShapedAt, Born
  <1>20. TruthAt(n)'
    <2>1. \A k \in 1 .. m : got'[n][k] = NoResult
      BY <1>8
    <2>2. heap'[n].state = "resolved" => m = 0 /\ kind # "race"
      BY <1>0, <1>15, <1>16
    <2>3. heap'[n].state = "pending" => kind = "race" \/ m # 0
      BY <1>0, <1>15, <1>16
    <2>4. heap'[n].state # "rejected"
      BY <1>15, <1>16
    <2>5. m # 0 => 1 \in 1 .. m
      BY <1>0
    <2>6. m = 0 => 1 .. m = {}
      BY <1>0
    <2>7. kind # "race" \/ (kind # "all" /\ kind # "allSettled")
      OBVIOUS
    <2> QED BY <1>0, <1>8, <1>18, <2>1, <2>2, <2>3, <2>4, <2>5, <2>6, <2>7 DEF TruthAt, Settled
  <1>21. FedAt(n)'
    BY <1>8 DEF FedAt, Combiners
  <1>22. ASSUME NEW q \in Promises, NEW i \in 1 .. Len(attached'[q]), i > Len(attached[q])
         PROVE  TalliedAt(q, i)'
    <2>1. PICK c : c = attached'[q][i]
      OBVIOUS
    <2>2. c.kind = kind /\ c.d = n
      BY <1>14, <1>15, <1>16, <1>22, <2>1 DEF Grown
    <2>3. c.key \in 1 .. m
      <3>1. Aims(c, q, origin', inputs')
        BY <1>14, <1>15, <1>16, <2>1 DEF Aimed
      <3> QED BY <1>0, <1>8, <2>2, <3>1 DEF Aims
    <2>4. got'[c.d][c.key] = NoResult
      BY <1>8, <2>2, <2>3
    <2>5. i > ran'[q]
      BY <1>1, <1>6, <1>22 DEF Plain
    <2>6. ~(i <= ran'[q])
      BY <1>16, <2>5 DEF Plain
    <2> QED BY <2>1, <2>4, <2>6 DEF TalliedAt
  <1>23. Combined'
    BY <1>1, <1>17, <1>19, <1>20, <1>21, <1>22, ArrivedKeeps
  <1>24. Aimed(attached, origin, inputs)'
    BY <1>14, <1>15, <1>16
  <1> QED BY <1>7, <1>16, <1>17, <1>23, <1>24, ArrivedLasts DEF IInv, Sound, Kept

-----------------------------------------------------------------------------
(* The tasks                                                                *)

\* A step that processed the follow-up cb of p, with the world w after the shift.
Took(p, cb, w) ==
  /\ Whole(w, ran', reported) /\ w.heap = heap /\ w.attached = attached /\ w \in Worlds
  /\ NextOf(p, cb) /\ Aims(cb, p, origin, inputs) /\ Aimed(attached, origin, inputs)
  /\ TalliedAt(p, ran[p] + 1) /\ heap[p].value \in Vals \cup {Group}
  /\ ran' = [ran EXCEPT ![p] = @ + 1] /\ ran \in [Promises -> Nat]
  /\ origin' = origin /\ inputs' = inputs /\ reported' = reported /\ budget' = budget

\* A follow-up that is processed was the next one of its promise, which is settled.
LEMMA TookFacts ==
  ASSUME IInv, NEW kinds, NEW p, NEW cb, Processing(kinds, p, cb), NEW w, w = Shifted(World)
  PROVE  Took(p, cb, w)
  <1>1. /\ Plain /\ Typed /\ Whole(World, ran, reported) /\ Combined
        /\ Aimed(attached, origin, inputs)
        /\ World \in Worlds /\ World.heap = heap /\ World.attached = attached
    BY BornFacts
  <1>2. /\ tasks # <<>> /\ Running.kind = "process" /\ p = Running.p /\ cb = Running.cbs[1]
        /\ ran' = [ran EXCEPT ![p] = @ + 1]
        /\ origin' = origin /\ inputs' = inputs /\ reported' = reported /\ budget' = budget
    BY DEF Processing
  <1>3. Whole(w, ran', reported) /\ w.heap = heap /\ w.attached = attached /\ NextOf(p, cb)
    BY <1>1, <1>2, ShiftKeeps
  <1>4. Aims(cb, p, origin, inputs) /\ TalliedAt(p, ran[p] + 1)
    BY <1>1, <1>3 DEF NextOf, Aimed, Combined
  <1>5. heap[p].value \in Vals \cup {Group}
    <2>1. heap[p].value # Undef
      BY <1>1, <1>3 DEF Whole, Sane, Ended, NextOf
    <2>2. heap[p] \in Objects
      BY <1>1, <1>3 DEF NextOf, Plain
    <2> QED BY <2>1, <2>2 DEF Objects
  <1> QED BY <1>1, <1>2, <1>3, <1>4, <1>5 DEF Took, Whole

\* The follow-up that was taken is the only one processed.
LEMMA TookOne ==
  ASSUME Plain, NEW p, NEW cb, NEW w, Took(p, cb, w)
  PROVE  /\ \A q \in Promises : ran[q] <= ran'[q]
         /\ \A q \in Promises : \A i \in 1 .. Len(attached[q]) :
              i > ran[q] /\ i <= ran'[q] => q = p /\ i = ran[p] + 1 /\ attached[q][i] = cb
  <1>1. p \in Promises /\ ran'[p] = ran[p] + 1 /\ \A q \in Promises : q # p => ran'[q] = ran[q]
    BY DEF Took, NextOf
  <1>2. \A q \in Promises : ran[q] \in Nat
    BY DEF Took
  <1>3. attached[p][ran[p] + 1] = cb
    BY DEF Took, NextOf
  <1> QED BY <1>1, <1>2, <1>3

\* A follow-up that settles what it feeds, or has it adopt a promise.
LEMMA FeedKeeps ==
  ASSUME IInv, NEW p, NEW cb, NEW w, Took(p, cb, w), NEW u, Becomes(u),
         Whole(u, ran', reported), Aimed(u.attached, origin, inputs), Effect(w, u, cb.d),
         left' = left, got' = got, cb.kind \in {"all", "allSettled", "race"} => attached' = attached,
         cb.kind \in {"race", "all"} /\ heap[cb.d].state = "pending" => TruthAt(cb.d)',
         cb.kind # "allSettled"
  PROVE  Kept
  <1>1. /\ Plain /\ Typed /\ Combined /\ Aimed(attached, origin, inputs)
    BY BornFacts
  <1>2. PICK d \in Promises : d = cb.d
    BY DEF Took, NextOf, FollowUps
  <1>3. /\ origin' = origin /\ inputs' = inputs /\ reported' = reported /\ budget' = budget
        /\ w.heap = heap /\ w.attached = attached /\ w \in Worlds
    BY DEF Took
  <1>4. Whole(World, ran, reported)' /\ Plain' /\ heap' = u.heap /\ attached' = u.attached
    BY <1>3, PrimedPlain
  <1>5. /\ Moved(d)
        /\ \/ attached' = attached /\ heap'[d].state # "pending"
           \/ /\ heap'[d].state = "pending"
              /\ \E x \in Promises : /\ Len(attached'[x]) = Len(attached[x]) + 1
                                     /\ attached'[x][Len(attached[x]) + 1].d = d
    BY <1>1, <1>2, <1>3, <1>4, TookOne, EffectMoves
  <1>6. Counted(d)
    BY DEF Counted
  <1>7. Delivered(d)
    <2>1. ASSUME heap'[d].state = "pending"
          PROVE  \E x \in Promises : \E j \in 1 .. Len(attached'[x]) :
                   j > ran'[x] /\ attached'[x][j].d = d
      <3>1. PICK x \in Promises : /\ Len(attached'[x]) = Len(attached[x]) + 1
                                  /\ attached'[x][Len(attached[x]) + 1].d = d
        BY <1>5, <2>1
      <3>2. PICK j : j = Len(attached[x]) + 1
        OBVIOUS
      <3>3. j \in 1 .. Len(attached'[x]) /\ ran'[x] \in Nat /\ Len(attached[x]) \in Nat
        BY <1>1, <1>4, <3>1, <3>2 DEF Plain
      <3>4. ran'[x] <= Len(attached[x])
        <4>1. ran'[x] = ran[x] \/ (x = p /\ ran'[x] = ran[p] + 1)
          BY DEF Took, NextOf
        <4>2. ran[x] \in 0 .. Len(attached[x])
          BY <1>1 DEF Plain
        <4>3. ran[p] + 1 \in 1 .. Len(attached[p])
          BY DEF Took, NextOf
        <4> QED BY <3>3, <4>1, <4>2, <4>3
      <3>5. j > ran'[x]
        BY <3>2, <3>3, <3>4
      <3> QED BY <3>1, <3>2, <3>3, <3>5
    <2>2. cb.kind \in {"all", "allSettled", "race"} => heap'[d].state # "pending"
      <3>1. SUFFICES ASSUME cb.kind \in {"all", "allSettled", "race"}, heap'[d].state = "pending"
                     PROVE  FALSE
        OBVIOUS
      <3>2. PICK x \in Promises : Len(attached'[x]) = Len(attached[x]) + 1
        BY <1>5, <3>1
      <3>3. attached' = attached
        BY <3>1
      <3>4. Len(attached[x]) \in Nat
        BY <1>1 DEF Plain
      <3> QED BY <3>2, <3>3, <3>4
    <2>3. \A q \in Promises : \A i \in 1 .. Len(attached[q]) :
              i > ran[q] /\ i <= ran'[q] => attached[q][i] = cb
      BY <1>1, TookOne
    <2> QED BY <1>2, <2>1, <2>2, <2>3 DEF Delivered
  <1>8. TruthAt(d)'
    <2>1. CASE heap[d].state # "pending"
      BY <1>1, <1>5, <2>1, TruthStays
    <2>2. CASE heap[d].state = "pending" /\ cb.kind \in {"then", "adopt"}
      <3>1. origin[d] \in {"none", "deferred", "derived"}
        BY <1>2, <2>2 DEF Took, Aims
      <3> QED BY <1>1, <1>5, <3>1, SingleTruth
    <2>3. CASE heap[d].state = "pending" /\ cb.kind \in {"race", "all"}
      BY <1>2, <2>3
    <2>4. cb.kind \in {"then", "adopt", "race", "all"}
      BY DEF Took, NextOf, FollowUps, Combiners
    <2> QED BY <2>1, <2>2, <2>3, <2>4
  <1>9. ShapedAt(d)'
    BY <1>1, <1>5, MovedShaped
  <1>10. Combined'
    BY <1>1, <1>5, <1>6, <1>7, <1>8, <1>9, MovedKeeps
  <1>11. Typed' /\ Aimed(attached, origin, inputs)'
    BY <1>1, <1>3, <1>4 DEF Typed
  <1> QED BY <1>4, <1>5, <1>10, <1>11, MovedLasts DEF IInv, Sound, Kept

\* An outcome that passes on to what the follow-up feeds.
LEMMA OutcomePasses ==
  ASSUME IInv, NEW p, NEW cb, NEW w, Took(p, cb, w), NEW st \in Ends, NEW v \in Vals \cup {Group},
         NEW u, u = Settle(w, cb.d, st, v), Becomes(u), left' = left, got' = got,
         cb.kind # "allSettled",
         cb.kind \in {"race", "all"} => st = heap[p].state /\ v = heap[p].value,
         cb.kind = "all" => st = "rejected"
  PROVE  Kept
  <1>1. /\ Plain /\ Typed /\ Combined
    BY BornFacts
  <1>2. PICK d \in Promises : d = cb.d
    BY DEF Took, NextOf, FollowUps
  <1>3. /\ Whole(u, ran', reported) /\ u.attached = attached /\ OnlyOutcome(u, w, d, st, v)
    BY <1>2, SettleKeeps DEF Took
  <1>4. heap' = u.heap /\ attached' = attached
    BY <1>3 DEF Becomes
  <1>5. Effect(w, u, d) /\ Aimed(u.attached, origin, inputs)
    BY <1>3 DEF Effect, Took
  <1>6. ASSUME cb.kind \in {"race", "all"}, heap[d].state = "pending" PROVE TruthAt(d)'
    <2>1. /\ origin[d] = cb.kind /\ cb.key \in 1 .. Len(inputs[d]) /\ inputs[d][cb.key] = p
          /\ origin' = origin /\ inputs' = inputs /\ p \in Promises /\ heap[p].state \in Ends
      BY <1>2, <1>6 DEF Took, Aims, Combiners, NextOf
    <2>2. /\ heap'[d].state = st /\ heap'[d].value = v
          /\ \A q \in Promises : q # d => heap'[q].state = heap[q].state /\ heap'[q].value = heap[q].value
      BY <1>2, <1>3, <1>4, <1>6 DEF OnlyOutcome, Took
    <2>3. p # d
      BY <1>6, <2>1 DEF Ends
    <2>4. Outcome(p)' = Outcome(d)'
      BY <1>6, <2>2, <2>3, <2>1 DEF Outcome
    <2>5. \A q \in Promises : Settled(q) => Settled(q)' /\ Outcome(q)' = Outcome(q)
                                            /\ heap'[q].state = heap[q].state
      BY <1>6, <2>2 DEF Settled, Outcome
    <2>6. TruthAt(d) /\ \A k \in 1 .. Len(inputs[d]) : inputs[d][k] \in Promises
      BY <1>1 DEF Combined, Typed
    <2>7. ASSUME NEW k \in 1 .. Len(inputs[d]), got[d][k] # NoResult
          PROVE  /\ Settled(inputs[d][k])' /\ got[d][k] = Outcome(inputs[d][k])'
                 /\ origin[d] = "all" => heap'[inputs[d][k]].state = "resolved"
      BY <2>1, <2>5, <2>6, <2>7 DEF TruthAt
    <2>8. \E k \in 1 .. Len(inputs[d]) : Outcome(inputs[d][k])' = Outcome(d)'
      BY <2>1, <2>4
    <2>9. origin[d] # "allSettled" /\ (origin[d] = "all" => heap'[d].state = "rejected")
      BY <1>6, <2>1, <2>2
    <2> QED BY <2>1, <2>7, <2>8, <2>9 DEF TruthAt
  <1> QED BY <1>2, <1>3, <1>4, <1>5, <1>6, FeedKeeps

\* An outcome without a handler for it keeps the invariant.
LEMMA PassThroughKeeps ==
  ASSUME IInv, NEW p, NEW cb, PassThrough(p, cb)
  PROVE  Kept
  <1>1. PICK w : w = Shifted(World)
    OBVIOUS
  <1>2. PICK u : u = Settle(w, cb.d, heap[p].state, heap[p].value)
    OBVIOUS
  <1>3. /\ Processing({"then", "adopt", "race"}, p, cb) /\ Becomes(u) /\ left' = left /\ got' = got
        /\ cb.kind \in {"then", "adopt", "race"}
    BY <1>1, <1>2 DEF PassThrough, Processing
  <1>4. Took(p, cb, w)
    BY <1>1, <1>3, TookFacts
  <1>5. heap[p].state \in Ends /\ heap[p].value \in Vals \cup {Group}
    BY <1>4 DEF Took, NextOf
  <1> QED BY <1>2, <1>3, <1>4, <1>5, OutcomePasses

\* A handler that returns keeps the invariant.
LEMMA HandlerReturnsKeeps ==
  ASSUME IInv, NEW p, NEW cb, NEW x \in Vals \cup Promises, HandlerReturns(p, cb, x)
  PROVE  Kept
  <1>1. PICK w : w = Shifted(World)
    OBVIOUS
  <1>2. PICK u : u = Resolve(w, cb.d, x)
    OBVIOUS
  <1>3. /\ Processing({"then"}, p, cb) /\ Becomes(u) /\ left' = left /\ got' = got
        /\ cb.kind = "then" /\ (x \in Promises => heap[x].state # "unborn")
    BY <1>1, <1>2 DEF HandlerReturns, Processing, Born
  <1>4. Took(p, cb, w)
    BY <1>1, <1>3, TookFacts
  <1>5. PICK d \in Promises : d = cb.d /\ origin[d] \in {"deferred", "derived"}
    BY <1>3, <1>4 DEF Took, NextOf, FollowUps, Aims
  <1>6. Whole(u, ran', reported) /\ Aimed(u.attached, origin, inputs) /\ Effect(w, u, d)
    BY <1>2, <1>3, <1>4, <1>5, ResolveKeeps DEF Took
  <1> QED BY <1>3, <1>4, <1>5, <1>6, FeedKeeps

\* A handler that throws keeps the invariant.
LEMMA HandlerThrowsKeeps ==
  ASSUME IInv, NEW p, NEW cb, NEW e \in Vals, HandlerThrows(p, cb, e)
  PROVE  Kept
  <1>1. PICK w : w = Shifted(World)
    OBVIOUS
  <1>2. PICK u : u = Settle(w, cb.d, "rejected", e)
    OBVIOUS
  <1>3. /\ Processing({"then"}, p, cb) /\ Becomes(u) /\ left' = left /\ got' = got
        /\ cb.kind = "then"
    BY <1>1, <1>2 DEF HandlerThrows, Processing, Reject
  <1>4. Took(p, cb, w)
    BY <1>1, <1>3, TookFacts
  <1>5. "rejected" \in Ends /\ e \in Vals \cup {Group}
    BY DEF Ends
  <1> QED BY <1>2, <1>3, <1>4, <1>5, OutcomePasses

\* An input of all that failed keeps the invariant.
LEMMA InputFailsKeeps ==
  ASSUME IInv, NEW p, NEW cb, InputFails(p, cb)
  PROVE  Kept
  <1>1. PICK w : w = Shifted(World)
    OBVIOUS
  <1>2. PICK u : u = Settle(w, cb.d, "rejected", heap[p].value)
    OBVIOUS
  <1>3. /\ Processing({"all"}, p, cb) /\ Becomes(u) /\ left' = left /\ got' = got
        /\ cb.kind = "all" /\ heap[p].state = "rejected"
    BY <1>1, <1>2 DEF InputFails, Processing, Reject
  <1>4. Took(p, cb, w)
    BY <1>1, <1>3, TookFacts
  <1>5. "rejected" \in Ends /\ heap[p].value \in Vals \cup {Group}
    BY <1>4 DEF Took, Ends
  <1> QED BY <1>2, <1>3, <1>4, <1>5, OutcomePasses

\* The input k of the combined promise d, with its follow-up cb, has the result res.
Recorded(cb, d, k, res) ==
  /\ cb.kind \in {"all", "allSettled"} /\ d = cb.d /\ k = cb.key
  /\ got' = [got EXCEPT ![d][k] = res] /\ left' = [left EXCEPT ![d] = @ - 1]

\* The result of an input is the outcome it has, and it was not there before.
LEMMA ResultFacts ==
  ASSUME IInv, NEW p, NEW cb, NEW w, Took(p, cb, w), NEW d, NEW k, NEW res, res = Outcome(p),
         Recorded(cb, d, k, res)
  PROVE  /\ d \in Promises /\ origin[d] = cb.kind /\ p \in Promises /\ Settled(p)
         /\ k \in 1 .. Len(inputs[d]) /\ inputs[d][k] = p
         /\ k \in Missing(d) /\ Missing(d)' = Missing(d) \ {k}
         /\ got'[d] \in Seq(Results) /\ Len(got'[d]) = Len(got[d])
         /\ \A j \in 1 .. Len(inputs[d]) : got'[d][j] = IF j = k THEN res ELSE got[d][j]
         /\ res # NoResult
         /\ left'[d] = Cardinality(Missing(d)') /\ left'[d] \in 0 .. MaxInputs
         /\ (left'[d] = 0 <=> Missing(d)' = {})
         /\ got' \in [Promises -> Seq(Results)] /\ left' \in [Promises -> 0 .. MaxInputs]
         /\ \A q \in Promises : q # d => left'[q] = left[q] /\ got'[q] = got[q]
  <1>1. /\ Plain /\ Typed /\ Combined /\ Aimed(attached, origin, inputs)
    BY BornFacts
  <1>2. /\ d \in Promises /\ origin[d] = cb.kind /\ p \in Promises /\ Settled(p)
        /\ k \in 1 .. Len(inputs[d]) /\ inputs[d][k] = p /\ inputs' = inputs
    BY DEF Took, NextOf, Aims, Combiners, FollowUps, Settled, Ends, Recorded
  <1>3. got[d][k] = NoResult
    <2>1. attached[p][ran[p] + 1] = cb /\ ran[p] \in Nat /\ ran[p] + 1 > ran[p]
      BY <1>2 DEF Took, NextOf
    <2> QED BY <2>1 DEF Took, TalliedAt, Recorded
  <1>4. /\ got[d] \in Seq(Results) /\ Len(got[d]) = Len(inputs[d]) /\ Len(inputs[d]) \in 0 .. MaxInputs
        /\ left[d] = Cardinality(Missing(d)) /\ left[d] \in 0 .. MaxInputs /\ MaxInputs \in Nat
    BY <1>1, <1>2, QAssumption DEF Typed, Combined, ShapedAt
  <1>5. res \in Results /\ res # NoResult
    <2>1. res \in {"resolved", "rejected"} \X (Vals \cup {Group})
      BY DEF Took, NextOf, Outcome, Ends
    <2> QED BY <2>1, QAssumption DEF Results
  <1> DEFINE rs == [got[d] EXCEPT ![k] = res]
  <1>6. got' = [got EXCEPT ![d] = rs]
    BY DEF Recorded
  <1>7. /\ rs \in Seq(Results) /\ Len(rs) = Len(got[d])
        /\ \A j \in 1 .. Len(got[d]) : rs[j] = IF j = k THEN res ELSE got[d][j]
    BY ONLY <1>2, <1>4, <1>5, ExceptSeq
  <1> HIDE DEF rs
  <1>8. /\ got'[d] = rs /\ got' \in [Promises -> Seq(Results)]
        /\ \A q \in Promises : q # d => got'[q] = got[q]
    BY <1>1, <1>2, <1>6, <1>7 DEF Typed
  <1>9. k \in Missing(d)
    BY <1>2, <1>3 DEF Missing
  <1>10. \A j \in 1 .. Len(inputs[d]) : got'[d][j] = IF j = k THEN res ELSE got[d][j]
    BY <1>4, <1>7, <1>8
  <1>11. Missing(d)' = Missing(d) \ {k}
    BY <1>2, <1>5, <1>10 DEF Missing
  <1>12. IsFiniteSet(Missing(d))
    <2>1. IsFiniteSet(1 .. Len(inputs[d]))
      <3>1. 1 \in Int /\ Len(inputs[d]) \in Int
        BY <1>4
      <3> QED BY <3>1, FS_Interval
    <2>2. Missing(d) \subseteq 1 .. Len(inputs[d])
      BY DEF Missing
    <2> QED BY <2>1, <2>2, FS_Subset
  <1>13. IsFiniteSet(Missing(d)') /\ Cardinality(Missing(d)') = left[d] - 1
    <2>1. PICK M : M = Missing(d)
      OBVIOUS
    <2>2. IsFiniteSet(M \ {k}) /\ Cardinality(M \ {k}) = Cardinality(M) - 1
      BY <1>9, <1>12, <2>1, FS_RemoveElement
    <2> QED BY <1>4, <1>11, <2>1, <2>2
  <1>14. Cardinality(Missing(d)') \in Nat /\ (Cardinality(Missing(d)') = 0 <=> Missing(d)' = {})
    BY <1>13, FS_CardinalityType, FS_EmptySet
  <1>15. /\ left'[d] = left[d] - 1 /\ left' \in [Promises -> Int]
         /\ \A q \in Promises : q # d => left'[q] = left[q]
    <2>1. left' = [left EXCEPT ![d] = left[d] - 1]
      BY DEF Recorded
    <2>2. left \in [Promises -> Int] /\ left[d] - 1 \in Int
      BY <1>1, <1>2, <1>4, QAssumption DEF Typed
    <2> QED BY <1>2, <2>1, <2>2
  <1>16. left'[d] \in 0 .. MaxInputs
    BY <1>4, <1>13, <1>14, <1>15
  <1>17. left' \in [Promises -> 0 .. MaxInputs]
    <2>1. left' = [left EXCEPT ![d] = left[d] - 1] /\ left[d] - 1 \in 0 .. MaxInputs
      BY <1>15, <1>16 DEF Recorded
    <2> QED BY <1>1, <1>16, <2>1 DEF Typed
  <1> QED BY <1>2, <1>5, <1>7, <1>8, <1>9, <1>10, <1>11, <1>13, <1>14, <1>15, <1>16, <1>17

\* An input that counts keeps the invariant.
LEMMA InputCountsKeeps ==
  ASSUME IInv, NEW p, NEW cb, InputCounts(p, cb)
  PROVE  Kept
  <1>1. PICK w : w = Shifted(World)
    OBVIOUS
  <1>2. PICK d : d = cb.d
    OBVIOUS
  <1>3. PICK u : u = IF left'[d] = 0 THEN Settle(w, d, "resolved", Group) ELSE w
    OBVIOUS
  <1>4. PICK k : k = cb.key
    OBVIOUS
  <1>5. PICK res : res = Outcome(p)
    OBVIOUS
  <1>6. /\ Processing({"all", "allSettled"}, p, cb) /\ cb.kind \in {"all", "allSettled"}
        /\ cb.kind = "all" => heap[p].state = "resolved"
        /\ Recorded(cb, d, k, res) /\ Becomes(u)
    BY <1>1, <1>2, <1>3, <1>4, <1>5 DEF InputCounts, Processing, Outcome, Recorded
  <1>7. /\ Plain /\ Typed /\ Combined /\ Aimed(attached, origin, inputs)
    BY BornFacts
  <1>8. Took(p, cb, w)
    BY <1>1, <1>6, TookFacts
  <1>9. /\ d \in Promises /\ origin[d] = cb.kind /\ p \in Promises /\ Settled(p)
        /\ k \in 1 .. Len(inputs[d]) /\ inputs[d][k] = p
        /\ k \in Missing(d) /\ Missing(d)' = Missing(d) \ {k}
        /\ got'[d] \in Seq(Results) /\ Len(got'[d]) = Len(got[d])
        /\ \A j \in 1 .. Len(inputs[d]) : got'[d][j] = IF j = k THEN res ELSE got[d][j]
        /\ res # NoResult
        /\ left'[d] = Cardinality(Missing(d)') /\ left'[d] \in 0 .. MaxInputs
        /\ (left'[d] = 0 <=> Missing(d)' = {})
        /\ got' \in [Promises -> Seq(Results)] /\ left' \in [Promises -> 0 .. MaxInputs]
        /\ \A q \in Promises : q # d => left'[q] = left[q] /\ got'[q] = got[q]
    BY <1>5, <1>6, <1>8, ResultFacts
  <1>10. /\ origin' = origin /\ inputs' = inputs /\ reported' = reported /\ budget' = budget
         /\ w.heap = heap /\ w.attached = attached /\ Whole(w, ran', reported)
    BY <1>8 DEF Took
  <1>11. /\ Whole(u, ran', reported) /\ u.attached = attached
         /\ \A q \in Promises : q # d \/ heap[q].state # "pending" \/ left'[d] # 0 =>
              u.heap[q].state = heap[q].state /\ u.heap[q].value = heap[q].value
         /\ left'[d] = 0 /\ heap[d].state = "pending" => u.heap[d].state = "resolved"
    <2>1. CASE left'[d] = 0
      <3>1. u = Settle(w, d, "resolved", Group) /\ "resolved" \in Ends /\ Group \in Vals \cup {Group}
        BY <1>3, <2>1 DEF Ends
      <3>2. /\ Whole(u, ran', reported) /\ u.attached = w.attached
            /\ OnlyOutcome(u, w, d, "resolved", Group)
        BY <1>9, <1>10, <3>1, SettleKeeps
      <3> QED BY <1>9, <1>10, <2>1, <3>2 DEF OnlyOutcome
    <2>2. CASE left'[d] # 0
      BY <1>3, <1>10, <2>2
    <2> QED BY <2>1, <2>2
  <1>12. Whole(World, ran, reported)' /\ Plain' /\ heap' = u.heap /\ attached' = attached
    BY <1>6, <1>10, <1>11, PrimedPlain
  <1>13. Moved(d)
    <2>1. \A q \in Promises : ran[q] <= ran'[q]
      BY <1>7, <1>8, TookOne
    <2>2. heap[d].state = "pending" => heap'[d].state # "unborn"
      BY <1>9, <1>11, <1>12
    <2>3. \A q \in Promises : q # d \/ heap[q].state # "pending" =>
            heap'[q].state = heap[q].state /\ heap'[q].value = heap[q].value
      BY <1>11, <1>12
    <2>4. Grown(attached', attached, "adopt", d)
      BY <1>7, <1>12, SelfGrown
    <2> QED BY <1>7, <1>9, <1>10, <1>12, <2>1, <2>2, <2>3, <2>4 DEF Moved
  <1>14. Counted(d)
    <2>1. ASSUME NEW q \in Promises, NEW i \in 1 .. Len(attached[q]), NEW c, c = attached[q][i],
                 c.kind \in {"all", "allSettled"}, c.d = d
          PROVE  /\ got[d][c.key] # NoResult => got'[d][c.key] # NoResult
                 /\ i > ran'[q] => got'[d][c.key] = got[d][c.key]
      <3>1. c.key \in 1 .. Len(inputs[d]) /\ inputs[d][c.key] = q
        <4>1. Aims(c, q, origin, inputs)
          BY <1>7, <2>1 DEF Aimed
        <4> QED BY <2>1, <4>1 DEF Aims, Combiners
      <3>2. ASSUME c.key = k PROVE ~(i > ran'[q])
        <4>1. q = p
          BY <1>9, <3>1, <3>2
        <4>2. PICK j \in 1 .. Len(attached[p]) : j = ran[p] + 1 /\ attached[p][j] = cb
          BY <1>8 DEF Took, NextOf
        <4>3. Same(c, cb)
          BY <1>2, <1>4, <1>6, <2>1, <3>2 DEF Same, Combiners
        <4>4. i = j
          BY <1>7, <2>1, <4>1, <4>2, <4>3 DEF Aimed
        <4>5. ran'[p] = ran[p] + 1 /\ ran[p] \in Nat
          BY <1>8, <1>9 DEF Took
        <4>6. i = ran'[p]
          BY <4>2, <4>4, <4>5
        <4>7. ran'[p] \in Nat /\ ~(ran'[p] > ran'[p])
          BY <4>5
        <4> QED BY <4>1, <4>6, <4>7
      <3> QED BY <1>9, <3>1, <3>2
    <2>2. \A q \in Promises : \A i \in 1 .. Len(attached[q]) :
            attached[q][i].kind \in {"all", "allSettled"} /\ attached[q][i].d = d =>
              /\ got[d][attached[q][i].key] # NoResult => got'[d][attached[q][i].key] # NoResult
              /\ i > ran'[q] => got'[d][attached[q][i].key] = got[d][attached[q][i].key]
      BY <2>1
    <2>3. \A q \in Promises : q # d => left'[q] = left[q] /\ got'[q] = got[q]
      BY <1>9
    <2> QED BY <2>2, <2>3 DEF Counted
  <1>15. Delivered(d)
    <2>1. \A q \in Promises : \A i \in 1 .. Len(attached[q]) :
              i > ran[q] /\ i <= ran'[q] => attached[q][i] = cb
      BY <1>7, <1>8, TookOne
    <2>2. got'[d][cb.key] # NoResult
      BY <1>4, <1>9
    <2>3. origin[d] # "derived" /\ cb.kind # "race"
      BY <1>6, <1>9
    <2> QED BY <1>2, <2>1, <2>2, <2>3 DEF Delivered
  <1>16. /\ \A q \in Promises : heap[q].state = "unborn" <=> heap'[q].state = "unborn"
         /\ \A q \in Promises : Settled(q) =>
              Settled(q)' /\ Outcome(q)' = Outcome(q) /\ heap'[q].state = heap[q].state
         /\ \A q \in Promises : heap'[q].state = "pending" => heap[q].state = "pending"
    BY <1>13, MovedFacts
  <1>17. ShapedAt(d)'
    <2>1. ShapedAt(d) /\ \A j \in 1 .. Len(inputs[d]) : inputs[d][j] \in Promises
      BY <1>7, <1>9 DEF Combined, Typed
    <2>2. \A j \in 1 .. Len(inputs[d]) : Born(inputs[d][j])'
      BY <1>10, <1>16, <2>1 DEF ShapedAt, Born
    <2> QED BY <1>9, <1>10, <1>12, <1>16, <2>1, <2>2 DEF ShapedAt
  <1>18. TruthAt(d)'
    <2>1. TruthAt(d) /\ \A j \in 1 .. Len(inputs[d]) : inputs[d][j] \in Promises
      BY <1>7, <1>9 DEF Combined, Typed
    <2>2. ASSUME NEW j \in 1 .. Len(inputs[d]), got'[d][j] # NoResult
          PROVE  /\ Settled(inputs[d][j])' /\ got'[d][j] = Outcome(inputs[d][j])'
                 /\ origin[d] = "all" => heap'[inputs[d][j]].state = "resolved"
      <3>1. PICK q \in Promises : q = inputs[d][j]
        BY <2>1
      <3>2. Settled(q) /\ got'[d][j] = Outcome(q) /\ (origin[d] = "all" => heap[q].state = "resolved")
        <4>1. CASE j = k
          BY <1>5, <1>6, <1>9, <3>1, <4>1
        <4>2. CASE j # k
          BY <1>9, <2>1, <2>2, <3>1, <4>2 DEF TruthAt
        <4> QED BY <4>1, <4>2
      <3>3. Settled(q)' /\ got'[d][j] = Outcome(q)' /\ (origin[d] = "all" => heap'[q].state = "resolved")
        BY <1>16, <3>2
      <3>4. inputs'[d][j] = q
        BY <1>10, <3>1
      <3> QED BY <3>1, <3>3, <3>4
    <2>3. heap'[d].state = "resolved" => Missing(d)' = {}
      <3>1. heap[d].state # "resolved"
        BY <1>6, <1>9, <2>1 DEF TruthAt
      <3> QED BY <1>9, <1>11, <1>12, <3>1
    <2>4. heap'[d].state = "pending" => Missing(d)' # {}
      BY <1>9, <1>11, <1>12, <1>16
    <2>5. heap'[d].state = "rejected" => heap[d].state = "rejected"
      BY <1>9, <1>11, <1>12
    <2>6. origin[d] = "all" /\ heap'[d].state = "rejected" =>
            \E j \in 1 .. Len(inputs[d]) : Outcome(inputs[d][j])' = Outcome(d)'
      <3>1. SUFFICES ASSUME origin[d] = "all", heap'[d].state = "rejected"
                     PROVE  \E j \in 1 .. Len(inputs[d]) : Outcome(inputs[d][j])' = Outcome(d)'
        OBVIOUS
      <3>2. PICK j \in 1 .. Len(inputs[d]) : Outcome(inputs[d][j]) = Outcome(d)
        BY <2>1, <2>5, <3>1 DEF TruthAt
      <3>3. PICK q \in Promises : q = inputs[d][j]
        BY <2>1
      <3>4. Settled(d) /\ Settled(q)
        BY <2>5, <3>1, <3>2, <3>3 DEF Settled, Outcome
      <3>5. Outcome(q)' = Outcome(d)' /\ inputs'[d][j] = q
        BY <1>9, <1>10, <1>16, <3>2, <3>3, <3>4
      <3> QED BY <3>3, <3>5
    <2>7. origin[d] = "allSettled" => heap'[d].state # "rejected"
      BY <2>1, <2>5 DEF TruthAt
    <2>8. origin'[d] \in {"all", "allSettled"} /\ origin' = origin /\ inputs' = inputs
      BY <1>6, <1>9, <1>10
    <2> QED BY <2>2, <2>3, <2>4, <2>6, <2>7, <2>8 DEF TruthAt
  <1>19. Combined'
    BY <1>7, <1>13, <1>14, <1>15, <1>17, <1>18, MovedKeeps
  <1>20. Typed' /\ Aimed(attached, origin, inputs)'
    BY <1>7, <1>9, <1>10, <1>12 DEF Typed
  <1> QED BY <1>12, <1>13, <1>19, <1>20, MovedLasts DEF IInv, Sound, Kept

\* A step that changes the tasks alone, or what is reported, keeps the invariant if
\* the promises and the tasks stay whole.
LEMMA TasksKeep ==
  ASSUME IInv, UNCHANGED <<heap, origin, group, attached, ran>>, budget' \in Nat,
         NEW u, u.heap = heap, u.attached = attached, u.tasks = tasks', Whole(u, ran, reported')
  PROVE  Kept
  <1>1. /\ Plain /\ Typed /\ Combined /\ Aimed(attached, origin, inputs)
    BY BornFacts
  <1>2. /\ heap' = heap /\ origin' = origin /\ inputs' = inputs /\ left' = left /\ got' = got
        /\ attached' = attached /\ ran' = ran
    BY DEF group
  <1>3. Becomes(u) /\ Whole(u, ran', reported')
    BY <1>2 DEF Becomes
  <1>4. Whole(World, ran, reported)'
    BY <1>3, PrimedPlain
  <1>5. Combined'
    BY <1>1, StillKeeps
  <1>6. Typed' /\ Aimed(attached, origin, inputs)'
    BY <1>1, <1>2 DEF Typed
  <1>7. Lasts
    BY <1>2 DEF Lasts
  <1> QED BY <1>4, <1>5, <1>6, <1>7 DEF IInv, Sound, Kept

\* notify keeps the invariant.
LEMMA NotifyKeeps ==
  ASSUME IInv, NEW d \in Promises, Notify(d)
  PROVE  Kept
  <1>1. /\ Plain /\ Typed /\ Whole(World, ran, reported)
        /\ World \in Worlds /\ World.heap = heap /\ World.tasks = tasks /\ World.attached = attached
    BY BornFacts
  <1>2. budget' \in Nat /\ reported' = reported
        /\ UNCHANGED <<heap, origin, group, attached, ran>>
    BY <1>1, MayFacts DEF Notify
  <1>3. CASE heap[d].state # "pending"
    <2>1. World.tasks = tasks' /\ Whole(World, ran, reported')
      BY <1>1, <1>2, <1>3 DEF Notify
    <2> QED BY <1>1, <1>2, <2>1, TasksKeep
  <1>4. CASE heap[d].state = "pending"
    <2>1. PICK t : t = Task("notify", d, heap[d].pending)
      OBVIOUS
    <2>2. tasks \in Seq(Jobs) /\ heap[d].pending \in Seq(FollowUps)
      BY <1>1 DEF Plain, Objects
    <2>3. t \in Jobs /\ t.kind = "notify" /\ t.p = d
      BY <2>1, <2>2 DEF Task, Jobs
    <2>4. PICK ts : ts = Append(tasks, t)
      OBVIOUS
    <2>5. tasks' = ts
      BY <1>4, <2>1, <2>4 DEF Notify
    <2>6. /\ ts \in Seq(Jobs) /\ Len(ts) = Len(tasks) + 1 /\ Len(tasks) \in Nat
          /\ ts[Len(tasks) + 1] = t
          /\ \A i \in 1 .. Len(tasks) : ts[i] = tasks[i] /\ tasks[i] \in Jobs
      BY <2>2, <2>3, <2>4, AppendProperties
    <2>7. PICK u : u = [heap |-> heap, tasks |-> ts, attached |-> attached]
      OBVIOUS
    <2>8. /\ u \in Worlds /\ u.heap = heap /\ u.tasks = ts /\ u.attached = attached
      BY <1>1, <2>6, <2>7 DEF Plain, Worlds
    <2>9. \A i \in 1 .. Len(ts) : ts[i].kind # "notify" => i \in 1 .. Len(tasks) /\ ts[i] = tasks[i]
      <3>1. ASSUME NEW i \in 1 .. Len(ts), ts[i].kind # "notify"
            PROVE  i \in 1 .. Len(tasks) /\ ts[i] = tasks[i]
        <4>1. i # Len(tasks) + 1
          BY <2>3, <2>6, <3>1
        <4> QED BY <2>6, <4>1
      <3> QED BY <3>1
    <2>10. Sane(u)
      <3>1. Sane(World)
        BY <1>1 DEF Whole
      <3>2. ASSUME NEW i \in 1 .. Len(ts), ts[i].kind = "process"
            PROVE  ts[i].cbs # <<>> /\ Ended(u, ts[i].p)
        <4>1. i \in 1 .. Len(tasks) /\ ts[i] = tasks[i]
          BY <2>9, <3>2
        <4>2. tasks[i].kind = "process"
          BY <3>2, <4>1
        <4> QED BY <1>1, <2>8, <3>1, <4>1, <4>2 DEF Sane, Ended
      <3> QED BY <1>1, <2>8, <3>1, <3>2 DEF Sane, Ended
    <2>11. Ordered(u, ran)
      <3>1. ASSUME NEW p \in Promises
            PROVE  Scheduled(p, ts) = Scheduled(p, tasks)
        <4>1. Share(p, t) = <<>>
          BY <2>3 DEF Share
        <4>2. Scheduled(p, ts) = Scheduled(p, tasks) \o <<>>
          BY <2>2, <2>3, <2>4, <4>1, ScheduledAppend
        <4>3. Scheduled(p, tasks) \in Seq(FollowUps)
          BY <2>2, ScheduledType
        <4> QED BY <4>2, <4>3, ConcatEmptySeq
      <3> QED BY <1>1, <2>8, <3>1 DEF Whole, Ordered
    <2>12. Told(ts)
      <3>1. \A i \in 1 .. Len(tasks) : tasks[i].kind = "process" => tasks[i].p # t.p
        BY <1>1, <1>4, <2>3 DEF Whole, Sane, Ended, Ends
      <3> QED BY <1>1, <2>2, <2>3, <2>4, <3>1, ToldAppend DEF Whole
    <2>13. Checked(u, reported)
      <3>1. Checked(World, reported)
        BY <1>1 DEF Whole
      <3>2. \A i \in 1 .. Len(tasks) : i \in 1 .. Len(ts)
        BY <2>6
      <3>3. \A i \in 1 .. Len(ts) : ts[i].kind = "check" => i \in 1 .. Len(tasks) /\ ts[i] = tasks[i]
        BY <2>9
      <3>4. \A i \in 1 .. Len(tasks) : ts[i] = tasks[i]
        BY <2>6
      <3>5. \A i, j \in 1 .. Len(ts) :
              ts[i].kind = "check" /\ ts[j].kind = "check" /\ ts[i].p = ts[j].p => i = j
        BY <1>1, <3>1, <3>3 DEF Checked
      <3>6. \A i \in 1 .. Len(ts) : ts[i].kind = "check" =>
              heap[ts[i].p].state = "rejected" /\ \A j \in 1 .. Len(reported) : reported[j] # ts[i].p
        BY <1>1, <3>1, <3>3 DEF Checked
      <3>7. \A p \in Promises : heap[p].state = "rejected" /\ ~heap[p].handled =>
              (\E i \in 1 .. Len(ts) : ts[i].kind = "check" /\ ts[i].p = p)
              \/ (\E i \in 1 .. Len(reported) : reported[i] = p)
        BY <1>1, <3>1, <3>2, <3>4 DEF Checked
      <3> QED BY <1>1, <2>8, <3>1, <3>5, <3>6, <3>7 DEF Checked
    <2>14. Whole(u, ran, reported')
      BY <1>1, <1>2, <2>8, <2>10, <2>11, <2>12, <2>13 DEF Whole
    <2> QED BY <1>2, <2>5, <2>8, <2>14, TasksKeep
  <1> QED BY <1>3, <1>4

\* The head task is done, or done with a follow-up, and delivers no outcome.
LEMMA LessKeeps ==
  ASSUME IInv, tasks # <<>>, Running.kind # "process",
         NEW ts, \/ ts = Tail(tasks)
                 \/ Len(Running.cbs) > 1 /\ ts = [tasks EXCEPT ![1].cbs = Tail(@)],
         NEW u, u = [heap |-> heap, tasks |-> ts, attached |-> attached]
  PROVE  /\ u \in Worlds /\ u.heap = heap /\ u.tasks = ts /\ u.attached = attached
         /\ Sane(u) /\ Ordered(u, ran) /\ Told(ts)
         /\ Running.kind # "check" => Whole(u, ran, reported)
  <1>1. /\ Plain /\ Typed /\ Whole(World, ran, reported) /\ tasks \in Seq(Jobs)
        /\ World \in Worlds /\ World.heap = heap /\ World.tasks = tasks /\ World.attached = attached
    BY BornFacts DEF Plain
  <1>2. PICK k : /\ Fewer(ts, tasks, k)
                 /\ \A p \in Promises : Scheduled(p, ts) = Scheduled(p, tasks)
    <2>1. ASSUME NEW p \in Promises, NEW us \in Seq(Jobs), us # <<>>, us[1].kind # "process"
          PROVE  Scheduled(p, us) = Scheduled(p, Tail(us))
      <3>1. Share(p, us[1]) = <<>>
        BY <2>1 DEF Share
      <3>2. Scheduled(p, us) = <<>> \o Scheduled(p, Tail(us)) /\ Scheduled(p, Tail(us)) \in Seq(FollowUps)
        BY <2>1, <3>1, ScheduledFirst
      <3> QED BY <3>2, ConcatEmptySeq
    <2>2. CASE ts = Tail(tasks)
      BY <1>1, <2>1, <2>2, DropHead DEF Running
    <2>3. CASE Len(Running.cbs) > 1 /\ ts = [tasks EXCEPT ![1].cbs = Tail(@)]
      <3>1. /\ Fewer(ts, tasks, 0) /\ ts # <<>> /\ ts[1].kind = tasks[1].kind
            /\ Tail(ts) = Tail(tasks)
        BY <1>1, <2>3, TrimHead DEF Running
      <3>2. ts \in Seq(Jobs)
        BY <3>1 DEF Fewer
      <3>3. \A p \in Promises : Scheduled(p, ts) = Scheduled(p, Tail(ts))
        BY <2>1, <3>1, <3>2 DEF Running
      <3>4. \A p \in Promises : Scheduled(p, tasks) = Scheduled(p, Tail(tasks))
        BY <1>1, <2>1 DEF Running
      <3> QED BY <3>1, <3>3, <3>4
    <2> QED BY <2>2, <2>3
  <1>3. ts \in Seq(Jobs)
    BY <1>2 DEF Fewer
  <1>4. /\ u \in Worlds /\ u.heap = heap /\ u.tasks = ts /\ u.attached = attached
    BY <1>1, <1>3 DEF Plain, Worlds
  <1>5. Sane(u) /\ Told(ts)
    BY <1>1, <1>2, <1>4, FewerKeeps
  <1>6. Ordered(u, ran)
    BY <1>1, <1>2, <1>4 DEF Whole, Ordered
  <1>7. ASSUME Running.kind # "check" PROVE Whole(u, ran, reported)
    <2>1. Checked(u, reported)
      BY <1>1, <1>2, <1>4, <1>7, FewerChecked DEF Running
    <2> QED BY <1>1, <1>4, <1>5, <1>6, <2>1 DEF Whole
  <1> QED BY <1>4, <1>5, <1>6, <1>7

\* A progress task keeps the invariant.
LEMMA ProgressKeeps ==
  ASSUME IInv, Progress
  PROVE  Kept
  <1>1. /\ Typed /\ World \in Worlds /\ World.tasks = tasks
        /\ tasks # <<>> /\ Running.kind = "notify" /\ reported' = reported /\ budget' \in Nat
        /\ UNCHANGED <<heap, origin, group, attached, ran>>
    BY BornFacts DEF Progress, Typed
  <1>2. PICK u : u = [heap |-> heap, tasks |-> tasks', attached |-> attached]
    OBVIOUS
  <1>3. \/ tasks' = Tail(tasks)
        \/ Len(Running.cbs) > 1 /\ tasks' = [tasks EXCEPT ![1].cbs = Tail(@)]
    BY <1>1, ShiftParts DEF Progress
  <1>4. u.heap = heap /\ u.tasks = tasks' /\ u.attached = attached /\ Whole(u, ran, reported')
    BY <1>1, <1>2, <1>3, LessKeeps
  <1> QED BY <1>1, <1>4, TasksKeep

\* The check of a rejection keeps the invariant.
LEMMA CheckUnhandledKeeps ==
  ASSUME IInv, CheckUnhandled
  PROVE  Kept
  <1>1. /\ Plain /\ Typed /\ Whole(World, ran, reported) /\ tasks \in Seq(Jobs)
        /\ World \in Worlds /\ World.heap = heap /\ World.tasks = tasks /\ World.attached = attached
    BY BornFacts DEF Plain
  <1>2. /\ tasks # <<>> /\ Running.kind = "check" /\ tasks' = Tail(tasks) /\ budget' \in Nat
        /\ UNCHANGED <<heap, origin, group, attached, ran>>
    BY <1>1 DEF CheckUnhandled, Typed
  <1>3. PICK ts : ts = Tail(tasks)
    OBVIOUS
  <1>4. PICK u : u = [heap |-> heap, tasks |-> ts, attached |-> attached]
    OBVIOUS
  <1>5. /\ u \in Worlds /\ u.heap = heap /\ u.tasks = ts /\ u.attached = attached
        /\ Sane(u) /\ Ordered(u, ran) /\ Told(ts)
    BY <1>2, <1>3, <1>4, LessKeeps
  <1>6. /\ Len(tasks) \in Nat \ {0} /\ ts \in Seq(Jobs) /\ Len(ts) = Len(tasks) - 1
        /\ \A i \in 1 .. Len(ts) : i + 1 \in 1 .. Len(tasks) /\ ts[i] = tasks[i + 1]
        /\ \A i \in 1 .. Len(tasks) : i # 1 => i - 1 \in 1 .. Len(ts) /\ ts[i - 1] = tasks[i]
        /\ 1 \in 1 .. Len(tasks) /\ tasks[1] \in Jobs
    <2>1. /\ Len(tasks) \in Nat \ {0} /\ ts \in Seq(Jobs) /\ Len(ts) = Len(tasks) - 1
          /\ \A i \in 1 .. Len(tasks) - 1 : ts[i] = tasks[i + 1]
          /\ tasks[1] \in Jobs
      BY <1>1, <1>2, <1>3, TailFacts
    <2>2. ASSUME NEW i \in 1 .. Len(tasks), i # 1
          PROVE  i - 1 \in 1 .. Len(ts) /\ ts[i - 1] = tasks[i]
      <3>1. i - 1 \in 1 .. Len(tasks) - 1 /\ (i - 1) + 1 = i
        BY <2>1, <2>2
      <3> QED BY <2>1, <3>1
    <2> QED BY <2>1, <2>2
  <1>7. PICK p \in Promises : p = tasks[1].p
    BY <1>6 DEF Jobs
  <1>8. PICK rep : rep = IF heap[p].handled THEN reported ELSE Append(reported, p)
    OBVIOUS
  <1>9. reported' = rep
    BY <1>7, <1>8 DEF CheckUnhandled, Running
  <1>10. /\ rep \in Seq(Promises) /\ Len(reported) \in Nat /\ Len(rep) \in Nat
         /\ heap[p].handled => rep = reported
         /\ ~heap[p].handled => Len(rep) = Len(reported) + 1 /\ rep[Len(rep)] = p
         /\ Len(reported) <= Len(rep)
         /\ \A i \in 1 .. Len(reported) : rep[i] = reported[i]
    <2>1. reported \in Seq(Promises)
      BY <1>1 DEF Plain
    <2>2. CASE heap[p].handled
      BY <1>8, <2>1, <2>2
    <2>3. CASE ~heap[p].handled
      BY <1>8, <2>1, <2>3, AppendProperties
    <2> QED BY <2>2, <2>3
  <1>11. /\ tasks[1].kind = "check" /\ heap[p].state = "rejected"
         /\ \A i \in 1 .. Len(reported) : reported[i] # p
         /\ \A i \in 1 .. Len(tasks) : tasks[i].kind = "check" /\ tasks[i].p = p => i = 1
    BY <1>1, <1>2, <1>6, <1>7 DEF Whole, Checked, Running
  <1>12. \A i \in 1 .. Len(rep) : i \in 1 .. Len(reported) \/ (i = Len(reported) + 1 /\ rep[i] = p)
    BY <1>10
  <1>13. Checked(u, rep)
    <2>1. Checked(World, reported)
      BY <1>1 DEF Whole
    <2>2. ASSUME NEW i \in 1 .. Len(ts), ts[i].kind = "check"
          PROVE  /\ heap[ts[i].p].state = "rejected" /\ \A j \in 1 .. Len(rep) : rep[j] # ts[i].p
                 /\ \A j \in 1 .. Len(ts) : ts[j].kind = "check" /\ ts[i].p = ts[j].p => i = j
      <3>1. /\ i + 1 \in 1 .. Len(tasks) /\ tasks[i + 1] = ts[i] /\ i + 1 # 1
        BY <1>6
      <3>2. ts[i].p # p
        BY <1>11, <2>2, <3>1
      <3>3. /\ heap[ts[i].p].state = "rejected"
            /\ \A j \in 1 .. Len(reported) : reported[j] # ts[i].p
        BY <1>1, <2>1, <2>2, <3>1 DEF Checked
      <3>4. ASSUME NEW j \in 1 .. Len(ts), ts[j].kind = "check", ts[i].p = ts[j].p PROVE i = j
        <4>1. j + 1 \in 1 .. Len(tasks) /\ tasks[j + 1] = ts[j]
          BY <1>6
        <4>2. i + 1 = j + 1
          BY <1>1, <2>1, <2>2, <3>1, <3>4, <4>1 DEF Checked
        <4> QED BY <4>2
      <3> QED BY <1>10, <1>12, <3>2, <3>3, <3>4
    <2>3. ASSUME NEW i \in 1 .. Len(rep), NEW j \in 1 .. Len(rep), rep[i] = rep[j] PROVE i = j
      BY <1>10, <1>11, <1>12, <2>1, <2>3 DEF Checked
    <2>4. ASSUME NEW i \in 1 .. Len(rep) PROVE heap[rep[i]].state = "rejected"
      BY <1>1, <1>10, <1>11, <1>12, <2>1 DEF Checked
    <2>5. ASSUME NEW q \in Promises, heap[q].state = "rejected", ~heap[q].handled
          PROVE  \/ \E i \in 1 .. Len(ts) : ts[i].kind = "check" /\ ts[i].p = q
                 \/ \E i \in 1 .. Len(rep) : rep[i] = q
      <3>1. CASE q = p
        <4>1. Len(rep) \in 1 .. Len(rep) /\ rep[Len(rep)] = p
          BY <1>10, <2>5, <3>1
        <4> QED BY <3>1, <4>1
      <3>2. CASE q # p
        <4>1. CASE \E i \in 1 .. Len(reported) : reported[i] = q
          BY <1>10, <4>1
        <4>2. CASE \E i \in 1 .. Len(tasks) : tasks[i].kind = "check" /\ tasks[i].p = q
          <5>1. PICK i \in 1 .. Len(tasks) : tasks[i].kind = "check" /\ tasks[i].p = q
            BY <4>2
          <5>2. i # 1
            BY <1>7, <3>2, <5>1
          <5> QED BY <1>6, <5>1, <5>2
        <4> QED BY <1>1, <2>1, <2>5, <4>1, <4>2 DEF Checked
      <3> QED BY <3>1, <3>2
    <2> QED BY <1>5, <2>2, <2>3, <2>4, <2>5 DEF Checked
  <1>14. Whole(u, ran, reported')
    BY <1>1, <1>5, <1>9, <1>10, <1>13 DEF Whole
  <1> QED BY <1>2, <1>3, <1>5, <1>14, TasksKeep

-----------------------------------------------------------------------------
(* The invariant is inductive                                               *)

\* The invariant holds at the start.
LEMMA Starts ==
  ASSUME Init
  PROVE  IInv
  <1>1. /\ \A p \in Promises : heap[p] = Unborn /\ origin[p] = "none" /\ inputs[p] = <<>>
             /\ left[p] = 0 /\ got[p] = <<>> /\ attached[p] = <<>> /\ ran[p] = 0
        /\ tasks = <<>> /\ reported = <<>> /\ budget = Budget
    BY DEF Init
  <1>2. /\ Unborn \in Objects /\ Unborn.state = "unborn" /\ Unborn.pending = <<>>
    <2>1. <<>> \in Seq(FollowUps)
      OBVIOUS
    <2> QED BY <2>1 DEF Unborn, Objects, States
  <1>3. /\ World.heap = heap /\ World.tasks = <<>> /\ World.attached = attached
        /\ World \in Worlds
    <2>1. /\ heap \in [Promises -> Objects] /\ attached \in [Promises -> Seq(FollowUps)]
          /\ tasks \in Seq(Jobs)
      BY <1>2 DEF Init
    <2> QED BY <1>1, <2>1 DEF World, Worlds
  <1>4. Len(tasks) = 0 /\ Len(reported) = 0 /\ \A p \in Promises : Len(attached[p]) = 0
    BY <1>1
  <1>5. Ordered(World, ran)
    <2>1. ASSUME NEW p \in Promises
          PROVE  /\ ran[p] \in 0 .. Len(attached[p])
                 /\ Scheduled(p, <<>>) \o heap[p].pending = Rest(attached[p], ran[p])
      <3>1. <<>> \o <<>> = <<>> /\ SubSeq(<<>>, 1, 0) = <<>> /\ 0 \in 0 .. 0 /\ Len(<<>>) = 0
        OBVIOUS
      <3>2. Scheduled(p, <<>>) = <<>>
        BY ScheduledNil
      <3>3. Rest(<<>>, 0) = <<>>
        BY <3>1 DEF Rest
      <3> QED BY <1>1, <1>2, <3>1, <3>2, <3>3
    <2> QED BY <1>3, <2>1 DEF Ordered
  <1>6. Sane(World) /\ Told(World.tasks) /\ Checked(World, reported)
    <2>1. \A i \in 1 .. Len(tasks) : FALSE
      BY <1>4
    <2>2. \A i \in 1 .. Len(reported) : FALSE
      BY <1>4
    <2>3. \A p \in Promises : heap[p].state = "unborn" /\ heap[p].pending = <<>>
      BY <1>1, <1>2
    <2>4. Sane(World)
      BY <1>1, <1>3, <2>1, <2>3 DEF Sane, Ended, Ends
    <2>5. Told(World.tasks)
      BY <1>1, <1>3, <2>1 DEF Told
    <2>6. Checked(World, reported)
      BY <1>1, <1>3, <2>1, <2>2, <2>3 DEF Checked
    <2> QED BY <2>4, <2>5, <2>6
  <1>7. Whole(World, ran, reported)
    BY <1>1, <1>3, <1>5, <1>6 DEF Whole, Init
  <1>8. Typed
    BY QAssumption DEF Init, Typed, Results
  <1>9. Aimed(attached, origin, inputs)
    BY <1>4 DEF Aimed
  <1>10. ASSUME NEW d \in Promises PROVE ShapedAt(d) /\ TruthAt(d) /\ FedAt(d)
    <2>1. Len(inputs[d]) = 0 /\ inputs[d] = <<>> /\ Len(got[d]) = 0 /\ 0 <= MaxInputs
      BY <1>1, QAssumption
    <2>2. Missing(d) = {}
      BY <2>1 DEF Missing
    <2>3. ShapedAt(d)
      BY <1>1, <1>2, <2>1, <2>2, FS_EmptySet DEF ShapedAt
    <2> QED BY <1>1, <2>1, <2>3 DEF TruthAt, FedAt
  <1>11. Combined
    BY <1>4, <1>10 DEF Combined
  <1> QED BY <1>7, <1>8, <1>9, <1>11 DEF IInv, Sound

\* What user code does keeps the invariant.
LEMMA UserOpKeeps ==
  ASSUME IInv, UserOp
  PROVE  Kept
  <1>1. ASSUME Defer PROVE Kept
    BY <1>1, DeferKeeps
  <1>2. ASSUME \E p \in Promises, f, r, pr \in BOOLEAN : Then(p, f, r, pr) PROVE Kept
    BY <1>2, ThenKeeps
  <1>3. ASSUME \E d \in Promises, x \in Vals \cup Promises :
                 (x \in Promises => Born(x)) /\ ResolveWith(d, x)
        PROVE  Kept
    BY <1>3, ResolveWithKeeps
  <1>4. ASSUME \E d \in Promises, e \in Vals : RejectWith(d, e) PROVE Kept
    BY <1>4, RejectWithKeeps
  <1>5. ASSUME \E d \in Promises : Notify(d) PROVE Kept
    BY <1>5, NotifyKeeps
  <1>6. ASSUME \E kind \in Combiners, n \in 0..MaxInputs : \E ps \in [1..n -> Promises] :
                 Combine(kind, ps)
        PROVE  Kept
    BY <1>6, CombineKeeps
  <1> QED BY <1>1, <1>2, <1>3, <1>4, <1>5, <1>6 DEF UserOp

\* A task that runs keeps the invariant.
LEMMA RunTaskKeeps ==
  ASSUME IInv, RunTask
  PROVE  Kept
  <1>1. ASSUME NEW p, NEW cb,
               \/ PassThrough(p, cb) \/ InputCounts(p, cb) \/ InputFails(p, cb)
               \/ \E x \in Vals \cup Promises : HandlerReturns(p, cb, x)
               \/ \E e \in Vals : HandlerThrows(p, cb, e)
        PROVE  Kept
    BY <1>1, PassThroughKeeps, InputCountsKeeps, InputFailsKeeps, HandlerReturnsKeeps,
       HandlerThrowsKeeps
  <1>2. ASSUME Progress PROVE Kept
    BY <1>2, ProgressKeeps
  <1>3. ASSUME CheckUnhandled PROVE Kept
    BY <1>3, CheckUnhandledKeeps
  <1> QED BY <1>1, <1>2, <1>3 DEF RunTask

\* Every step keeps the invariant, and every outcome.
LEMMA NextKeeps ==
  ASSUME IInv, [Next]_vars
  PROVE  Kept
  <1>1. ASSUME UNCHANGED vars PROVE Kept
    <2>1. UNCHANGED <<heap, origin, group, attached, ran>> /\ budget' = budget /\ tasks' = tasks
          /\ reported' = reported
      BY <1>1 DEF vars
    <2>2. /\ Typed /\ World.heap = heap /\ World.tasks = tasks /\ World.attached = attached
          /\ Whole(World, ran, reported)
      BY BornFacts
    <2>3. budget' \in Nat /\ World.tasks = tasks' /\ Whole(World, ran, reported')
      BY <2>1, <2>2 DEF Typed
    <2> QED BY <2>1, <2>2, <2>3, TasksKeep
  <1> QED BY <1>1, UserOpKeeps, RunTaskKeeps DEF Next

\* What the promises, the follow-ups and the tasks are to one another holds always.
THEOREM Invariant == Spec => []IInv
  <1>1. Init => IInv
    BY Starts
  <1>2. IInv /\ [Next]_vars => IInv'
    BY NextKeeps DEF Kept
  <1> QED BY <1>1, <1>2, PTL DEF Spec

-----------------------------------------------------------------------------
(* What the invariant says of the properties                                *)

\* A follow-up that is not processed yet is among the outstanding ones.
LEMMA Outstands ==
  ASSUME IInv, NEW p \in Promises
  PROVE  /\ Outstanding(p) = SubSeq(attached[p], ran[p] + 1, Len(attached[p]))
         /\ \A i \in 1 .. Len(attached[p]) : i > ran[p] =>
              \E j \in DOMAIN Outstanding(p) : Outstanding(p)[j] = attached[p][i]
  <1>1. /\ Plain /\ Whole(World, ran, reported)
        /\ World.heap = heap /\ World.tasks = tasks /\ World.attached = attached
    BY BornFacts
  <1>2. Outstanding(p) = Rest(attached[p], ran[p])
    <2>1. /\ Scheduled(p, tasks) \o heap[p].pending = Rest(attached[p], ran[p])
          /\ heap[p].state # "pending" => heap[p].pending = <<>>
      BY <1>1 DEF Whole, Ordered, Sane
    <2> QED BY <2>1 DEF Outstanding
  <1>3. /\ attached[p] \in Seq(FollowUps) /\ ran[p] \in 0 .. Len(attached[p]) /\ Len(attached[p]) \in Nat
    BY <1>1 DEF Plain
  <1>4. PICK s : s = Rest(attached[p], ran[p])
    OBVIOUS
  <1>7. PICK a \in Seq(FollowUps) : a = attached[p]
    BY <1>3
  <1>8. PICK r \in 0 .. Len(a) : r = ran[p]
    BY <1>3, <1>7
  <1>9. /\ s \in Seq(FollowUps) /\ Len(s) = Len(a) - r
        /\ \A k \in 1 .. Len(a) - r : s[k] = a[r + k]
    <2>1. s = Rest(a, r)
      BY <1>4, <1>7, <1>8
    <2>2. /\ Rest(a, r) \in Seq(FollowUps) /\ Len(Rest(a, r)) = Len(a) - r
          /\ \A k \in 1 .. Len(a) - r : Rest(a, r)[k] = a[r + k]
      BY RestFacts
    <2> QED BY <2>1, <2>2
  <1>5. /\ s \in Seq(FollowUps) /\ Len(s) = Len(attached[p]) - ran[p]
        /\ \A j \in 1 .. Len(s) : s[j] = attached[p][ran[p] + j]
    BY <1>7, <1>8, <1>9
  <1>6. ASSUME NEW i \in 1 .. Len(attached[p]), i > ran[p]
        PROVE  \E j \in DOMAIN s : s[j] = attached[p][i]
    <2>1. PICK j : j = i - ran[p]
      OBVIOUS
    <2>2. j \in 1 .. Len(s) /\ ran[p] + j = i /\ DOMAIN s = 1 .. Len(s)
      BY <1>3, <1>5, <1>6, <2>1
    <2> QED BY <1>5, <2>2
  <1> QED BY <1>2, <1>4, <1>6 DEF Rest

\* The variables have their types.
LEMMA TypesHold ==
  ASSUME IInv
  PROVE  TypeOK
  <1>1. Plain /\ Typed
    BY BornFacts
  <1> QED BY <1>1 DEF Plain, Typed, TypeOK, Objects, States, Jobs, Results

\* A pending promise that the engine feeds has a follow-up to come.
LEMMA FedHolds ==
  ASSUME IInv, NEW d \in Promises, heap[d].state = "pending",
         origin[d] = "derived" \/ (origin[d] \in Combiners /\ inputs[d] # <<>>)
  PROVE  \E p \in Promises : \E i \in DOMAIN Outstanding(p) : Outstanding(p)[i].d = d
  <1>1. Plain /\ Typed /\ Combined
    BY BornFacts
  <1>2. SUFFICES \E p \in Promises : \E i \in 1 .. Len(attached[p]) : i > ran[p] /\ attached[p][i].d = d
    <2>1. ASSUME NEW p \in Promises, NEW i \in 1 .. Len(attached[p]), i > ran[p], attached[p][i].d = d
          PROVE  \E j \in DOMAIN Outstanding(p) : Outstanding(p)[j].d = d
      BY <2>1, Outstands
    <2> QED BY <2>1
  <1>3. CASE origin[d] = "derived"
    BY <1>1, <1>3 DEF Combined, FedAt
  <1>4. CASE origin[d] \in Combiners /\ inputs[d] # <<>>
    <2>1. ShapedAt(d) /\ TruthAt(d)
      BY <1>1 DEF Combined
    <2>2. PICK k \in 1 .. Len(inputs[d]) : origin[d] \in {"all", "allSettled"} => k \in Missing(d)
      <3>1. CASE origin[d] \in {"all", "allSettled"}
        BY <2>1, <3>1 DEF TruthAt, Missing
      <3>2. CASE origin[d] \notin {"all", "allSettled"}
        <4>1. inputs[d] \in Seq(Promises)
          BY <1>1 DEF Typed
        <4>2. 1 \in 1 .. Len(inputs[d])
          BY <1>4, <4>1, EmptySeq
        <4> QED BY <3>2, <4>2
      <3> QED BY <3>1, <3>2
    <2>3. PICK p \in Promises : p = inputs[d][k]
      BY <1>1 DEF Typed
    <2>4. PICK i \in 1 .. Len(attached[p]) :
            attached[p][i].kind = origin[d] /\ attached[p][i].d = d /\ attached[p][i].key = k
      BY <2>1, <2>3 DEF ShapedAt
    <2>5. TalliedAt(p, i)
      BY <1>1 DEF Combined
    <2>6. ~(i <= ran[p])
      <3>1. CASE origin[d] \in {"all", "allSettled"}
        <4>1. got[d][k] = NoResult
          BY <2>2, <3>1 DEF Missing
        <4> QED BY <2>4, <2>5, <3>1, <4>1 DEF TalliedAt
      <3>2. CASE origin[d] = "race"
        BY <2>4, <2>5, <3>2 DEF TalliedAt
      <3> QED BY <1>4, <3>1, <3>2 DEF Combiners
    <2>7. i > ran[p]
      BY <1>1, <2>6 DEF Plain
    <2> QED BY <2>4, <2>7
  <1> QED BY <1>3, <1>4

\* Each follow-up is processed once, in the order of attachment, and no promise the
\* engine feeds is left waiting without one to come (then, settle, processCallback).
THEOREM ChainsAreWhole == Spec => []ChainsWhole
  <1>1. IInv => ChainsWhole
    <2> SUFFICES ASSUME IInv PROVE ChainsWhole
      OBVIOUS
    <2>1. FollowUpsInOrder
      BY Outstands DEF FollowUpsInOrder
    <2>2. FedWhilePending
      BY FedHolds DEF FedWhilePending
    <2> QED BY <2>1, <2>2, TypesHold DEF ChainsWhole
  <1> QED BY <1>1, Invariant, PTL

\* A combined promise tells the truth about its inputs (all, race, allSettled).
THEOREM CombinedTruth == Spec => []CombinedAgrees
  <1>1. IInv => CombinedAgrees
    <2> SUFFICES ASSUME IInv, NEW d \in Promises
                 PROVE  LET ins == inputs[d]
                        IN  /\ origin[d] \in {"all", "allSettled"} /\ heap[d].state = "resolved"
                                 => got[d] = [k \in DOMAIN ins |-> Outcome(ins[k])]
                            /\ origin[d] = "all" /\ heap[d].state = "resolved"
                                 => \A k \in DOMAIN ins : heap[ins[k]].state = "resolved"
                            /\ origin[d] = "all" /\ heap[d].state = "rejected"
                                 => \E k \in DOMAIN ins : Outcome(ins[k]) = Outcome(d)
                            /\ origin[d] = "race" /\ Settled(d)
                                 => \E k \in DOMAIN ins : Outcome(ins[k]) = Outcome(d)
                            /\ origin[d] = "allSettled" => heap[d].state # "rejected"
      BY DEF CombinedAgrees
    <2>1. Typed /\ ShapedAt(d) /\ TruthAt(d)
      BY BornFacts DEF Combined
    <2>2. PICK ins \in Seq(Promises) : ins = inputs[d]
      BY <2>1 DEF Typed
    <2>3. PICK gs \in Seq(Results) : gs = got[d]
      BY <2>1 DEF Typed
    <2>4. DOMAIN ins = 1 .. Len(ins) /\ DOMAIN gs = 1 .. Len(ins)
      BY <2>1, <2>2, <2>3 DEF ShapedAt
    <2>5. ASSUME origin[d] \in {"all", "allSettled"}, heap[d].state = "resolved",
                 NEW k \in 1 .. Len(ins)
          PROVE  /\ gs[k] = Outcome(ins[k])
                 /\ origin[d] = "all" => heap[ins[k]].state = "resolved"
      BY <2>1, <2>2, <2>3, <2>5 DEF TruthAt, Missing
    <2>6. ASSUME origin[d] \in {"all", "allSettled"}, heap[d].state = "resolved"
          PROVE  gs = [k \in DOMAIN ins |-> Outcome(ins[k])]
      <3>1. gs = [k \in DOMAIN ins |-> gs[k]]
        BY <2>4
      <3> QED BY <2>4, <2>5, <2>6, <3>1
    <2> QED BY <2>1, <2>2, <2>3, <2>4, <2>5, <2>6 DEF TruthAt
  <1> QED BY <1>1, Invariant, PTL

\* A set without two elements has one or none.
LEMMA AtMostOne ==
  ASSUME NEW S, \A i, j \in S : i = j
  PROVE  Cardinality(S) = IF S = {} THEN 0 ELSE 1
  <1>1. CASE S = {}
    BY <1>1, FS_EmptySet
  <1>2. CASE S # {}
    <2>1. PICK i : S = {i}
      BY <1>2
    <2>2. Cardinality({i}) = 1
      BY FS_Singleton
    <2> QED BY <1>2, <2>1, <2>2
  <1> QED BY <1>1, <1>2

\* A rejection is reported at most once, and one that nobody handles is reported or
\* its check is queued (scheduleUnhandledCheck).
THEOREM UnhandledOnce == Spec => []UnhandledReportedOnce
  <1>1. IInv => UnhandledReportedOnce
    <2> SUFFICES ASSUME IInv, NEW p \in Promises
                 PROVE  LET checks == Cardinality({i \in DOMAIN tasks : tasks[i].kind = "check" /\ tasks[i].p = p})
                            told   == Cardinality({i \in DOMAIN reported : reported[i] = p})
                        IN  /\ checks + told <= (IF heap[p].state = "rejected" THEN 1 ELSE 0)
                            /\ heap[p].state = "rejected" /\ ~heap[p].handled => checks + told = 1
      BY DEF UnhandledReportedOnce
    <2>1. /\ Plain /\ Whole(World, ran, reported) /\ World.heap = heap /\ World.tasks = tasks
      BY BornFacts
    <2>2. DOMAIN tasks = 1 .. Len(tasks) /\ DOMAIN reported = 1 .. Len(reported)
      BY <2>1 DEF Plain
    <2> DEFINE C == {i \in DOMAIN tasks : tasks[i].kind = "check" /\ tasks[i].p = p}
               R == {i \in DOMAIN reported : reported[i] = p}
    <2>3. Checked(World, reported)
      BY <2>1 DEF Whole
    <2>4. /\ \A i, j \in C : i = j
          /\ \A i, j \in R : i = j
      BY <2>1, <2>2, <2>3 DEF Checked
    <2>5. /\ C # {} => heap[p].state = "rejected" /\ R = {}
          /\ R # {} => heap[p].state = "rejected"
      BY <2>1, <2>2, <2>3 DEF Checked
    <2>6. heap[p].state = "rejected" /\ ~heap[p].handled => C # {} \/ R # {}
      BY <2>1, <2>2, <2>3 DEF Checked
    <2> HIDE DEF C, R
    <2>7. Cardinality(C) = IF C = {} THEN 0 ELSE 1
      BY <2>4, AtMostOne
    <2>8. Cardinality(R) = IF R = {} THEN 0 ELSE 1
      BY <2>4, AtMostOne
    <2>9. /\ Cardinality(C) + Cardinality(R) <= (IF heap[p].state = "rejected" THEN 1 ELSE 0)
          /\ heap[p].state = "rejected" /\ ~heap[p].handled => Cardinality(C) + Cardinality(R) = 1
      BY <2>5, <2>6, <2>7, <2>8
    <2> QED BY <2>9 DEF C, R
  <1> QED BY <1>1, Invariant, PTL

\* An outcome is final, and progress is told before it or not at all (resolve,
\* reject, notify).
THEOREM OutcomesAreFinal == Spec => OutcomesFinal
  <1>1. IInv /\ [Next]_vars =>
          [\A p \in Promises : Settled(p) =>
             heap'[p].state = heap[p].state /\ heap'[p].value = heap[p].value]_vars
    BY NextKeeps DEF Kept, Lasts
  <1>2. IInv => ProgressBeforeOutcome
    <2> SUFFICES ASSUME IInv PROVE ProgressBeforeOutcome
      OBVIOUS
    <2>1. Whole(World, ran, reported) /\ World.tasks = tasks /\ DOMAIN tasks = 1 .. Len(tasks)
      BY BornFacts DEF Plain
    <2> QED BY <2>1 DEF Whole, Told, ProgressBeforeOutcome
  <1> QED BY <1>1, <1>2, Invariant, PTL DEF Spec, OutcomesFinal, FinalOnceSettled
=============================================================================
