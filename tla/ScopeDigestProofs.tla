------------------------- MODULE ScopeDigestProofs -------------------------
(***************************************************************************)
(* Proofs about ScopeDigest, for every tree of scopes, set of watchers and  *)
(* choice of what user code may do: the type invariant, the balance of the  *)
(* phases with the calls on the stack, that $applyAsync work is never       *)
(* stranded and one-time watchers leave; and, for user code that defers     *)
(* nothing from listeners and $applyAsync tasks, that $evalAsync work wakes  *)
(* the engine; and, for listeners that neither defer, digest nor create and *)
(* destroy scopes, that a digest which ends has left every watcher clean.  *)
(***************************************************************************)
EXTENDS ScopeDigest, SequenceTheorems, TLAPS

-----------------------------------------------------------------------------
(* The call stack                                                          *)

\* A sequence without its last element.
LEMMA FrontOfSeq ==
  ASSUME NEW S, NEW seq \in Seq(S), seq # <<>>
  PROVE  /\ SubSeq(seq, 1, Len(seq) - 1) \in Seq(S)
         /\ Len(SubSeq(seq, 1, Len(seq) - 1)) = Len(seq) - 1
         /\ \A i \in 1..(Len(seq) - 1) : SubSeq(seq, 1, Len(seq) - 1)[i] = seq[i]
  <1>1. Len(seq) \in Nat \ {0}
    BY EmptySeq
  <1>2. PICK n \in 0..Len(seq) : n = Len(seq) - 1
    BY <1>1
  <1>3. /\ SubSeq(seq, 1, n) \in Seq(S)
        /\ Len(SubSeq(seq, 1, n)) = n
        /\ \A i \in 1..n : SubSeq(seq, 1, n)[i] = seq[i]
    OBVIOUS
  <1> QED BY <1>2, <1>3

\* Replacing the top frame by anything.
LEMMA WithOps ==
  ASSUME stack \in Seq(Frames), stack # <<>>, NEW f
  PROVE  /\ With(f) \in Seq(Frames \cup {f})
         /\ Len(With(f)) = Len(stack)
         /\ \A i \in 1..Len(stack) : With(f)[i] = IF i = Len(stack) THEN f ELSE stack[i]
  <1>1. stack \in Seq(Frames \cup {f}) /\ Len(stack) \in 1..Len(stack)
    BY SeqMonotonic, EmptySeq
  <1> QED BY <1>1, ExceptSeq DEF With

\* Each frame the code pushes is a frame.
LEMMA FrameTypes ==
  /\ \A at \in Contexts : UserFrame(at) \in Frames
  /\ \A s \in Scopes : DigestFrame(s) \in Frames /\ ApplyFrame(s) \in Frames
  /\ FlushFrame \in Frames
  BY ScopeAssumption, EmptySeq
  DEF UserFrame, DigestFrame, ApplyFrame, FlushFrame, Frame, Frames, Contexts,
      LoopPcs, ScopeAssumption

\* Pushing, popping and replacing the top frame of a stack.
LEMMA StackOps ==
  ASSUME stack \in Seq(Frames)
  PROVE  /\ \A f \in Frames : Append(stack, f) \in Seq(Frames)
         /\ stack # <<>> =>
              /\ Len(stack) \in Nat \ {0}
              /\ Top \in Frames
              /\ Popped \in Seq(Frames)
              /\ Len(Popped) = Len(stack) - 1
              /\ \A i \in 1..Len(Popped) : Popped[i] = stack[i]
              /\ \A f \in Frames : /\ With(f) \in Seq(Frames)
                                   /\ Len(With(f)) = Len(stack)
                                   /\ \A i \in 1..Len(stack) :
                                        With(f)[i] = IF i = Len(stack) THEN f ELSE stack[i]
  <1>1. \A f \in Frames : Append(stack, f) \in Seq(Frames)
    BY AppendProperties
  <1> SUFFICES ASSUME stack # <<>>
               PROVE  /\ Len(stack) \in Nat \ {0}
                      /\ Top \in Frames
                      /\ Popped \in Seq(Frames)
                      /\ Len(Popped) = Len(stack) - 1
                      /\ \A i \in 1..Len(Popped) : Popped[i] = stack[i]
                      /\ \A f \in Frames :
                           /\ With(f) \in Seq(Frames)
                           /\ Len(With(f)) = Len(stack)
                           /\ \A i \in 1..Len(stack) :
                                With(f)[i] = IF i = Len(stack) THEN f ELSE stack[i]
    BY <1>1
  <1>2. Len(stack) \in Nat \ {0}
    BY EmptySeq
  <1>3. Top \in Frames
    BY <1>2 DEF Top
  <1>4. /\ Popped \in Seq(Frames)
        /\ Len(Popped) = Len(stack) - 1
        /\ \A i \in 1..Len(Popped) : Popped[i] = stack[i]
    BY FrontOfSeq DEF Popped
  <1>5. ASSUME NEW f \in Frames
        PROVE  /\ With(f) \in Seq(Frames)
               /\ Len(With(f)) = Len(stack)
               /\ \A i \in 1..Len(stack) :
                    With(f)[i] = IF i = Len(stack) THEN f ELSE stack[i]
    BY <1>2 DEF With
  <1> QED BY <1>2, <1>3, <1>4, <1>5

-----------------------------------------------------------------------------
(* Type correctness                                                        *)

\* An emptied slot leaves the array of a scope an array of watchers.
LEMMA ClearedType ==
  ASSUME TypeOK, NEW w \in Watchers
  PROVE  Cleared(w) \in [Scopes -> Seq(Watchers \cup {Null})]
  <1>1. ASSUME NEW s \in Scopes
        PROVE  [i \in DOMAIN watchers[s] |-> IF watchers[s][i] = w THEN Null ELSE watchers[s][i]]
                 \in Seq(Watchers \cup {Null})
    <2>1. watchers[s] \in Seq(Watchers \cup {Null})
      BY <1>1 DEF TypeOK
    <2>2. PICK n \in Nat : n = Len(watchers[s])
      BY <2>1
    <2>3. DOMAIN watchers[s] = 1..n /\ \A i \in 1..n : watchers[s][i] \in Watchers \cup {Null}
      BY <2>1, <2>2
    <2>4. [i \in 1..n |-> IF watchers[s][i] = w THEN Null ELSE watchers[s][i]]
             \in [1..n -> Watchers \cup {Null}]
      BY <2>3
    <2> QED BY <2>2, <2>3, <2>4, SeqDef
  <1>2. watchers \in [Scopes -> Seq(Watchers \cup {Null})]
    BY DEF TypeOK
  <1> QED BY <1>1, <1>2 DEF Cleared

LEMMA DeregisterType ==
  ASSUME TypeOK, NEW w \in Watchers, NEW ld \in Watchers \cup {Null}, Deregister(w, ld)
  PROVE  /\ watchers' \in [Scopes -> Seq(Watchers \cup {Null})]
         /\ lastDirty' \in Watchers \cup {Null}
  BY ClearedType DEF Deregister, TypeOK

LEMMA BeginPhaseType ==
  ASSUME TypeOK, NEW s \in Scopes, NEW ph \in {"$digest", "$apply"},
         NEW base \in Seq(Frames), NEW frames \in Seq(Frames),
         BeginPhase(s, ph, base, frames)
  PROVE  /\ phase' \in [Scopes -> {"absent", "null", "$digest", "$apply"}]
         /\ stack' \in Seq(Frames) /\ throwing' \in BOOLEAN
  <1>1. base \o frames \in Seq(Frames)
    BY ConcatProperties
  <1> QED BY <1>1 DEF BeginPhase, TypeOK

LEMMA CallDigestType ==
  ASSUME TypeOK, NEW s \in Scopes, NEW base \in Seq(Frames), CallDigest(s, base)
  PROVE  /\ phase' \in [Scopes -> {"absent", "null", "$digest", "$apply"}]
         /\ stack' \in Seq(Frames) /\ throwing' \in BOOLEAN
         /\ lastDirty' = Null
  <1>1. <<DigestFrame(s)>> \in Seq(Frames)
    BY FrameTypes
  <1> QED BY <1>1, BeginPhaseType DEF CallDigest

LEMMA WithoutType ==
  ASSUME NEW S, NEW seq \in Seq(S), NEW c
  PROVE  Without(seq, c) \in Seq(S)
  <1>1. CASE c \in {seq[j] : j \in 1..Len(seq)}
    <2> DEFINE i == CHOOSE j \in 1..Len(seq) : seq[j] = c
    <2>1. i \in 1..Len(seq)
      BY <1>1
    <2> HIDE DEF i
    <2>2. PICK m \in 0..Len(seq) : m = i - 1
      BY <2>1
    <2>3. SubSeq(seq, 1, m) \in Seq(S)
      OBVIOUS
    <2>4. i + 1 \in Int /\ Len(seq) \in Int /\ \A j \in (i+1)..Len(seq) : seq[j] \in S
      BY <2>1
    <2>5. SubSeq(seq, i + 1, Len(seq)) \in Seq(S)
      BY <2>4, SubSeqProperties
    <2>6. SubSeq(seq, 1, i - 1) \o SubSeq(seq, i + 1, Len(seq)) \in Seq(S)
      BY <2>2, <2>3, <2>5, ConcatProperties
    <2> QED BY <1>1, <2>6 DEF Without, i
  <1>2. CASE c \notin {seq[j] : j \in 1..Len(seq)}
    BY <1>2 DEF Without
  <1> QED BY <1>1, <1>2

\* The initial state is well typed.
LEMMA InitType == Init => TypeOK
  <1> SUFFICES ASSUME Init PROVE TypeOK
    OBVIOUS
  <1> USE ScopeAssumption DEF ScopeAssumption
  <1>1. \A i \in DOMAIN InitKids : InitKids[i] \in Scopes
    OBVIOUS
  <1>2. KidSet \subseteq Scopes
    BY <1>1 DEF KidSet
  <1>3. InitKids \in Seq(Scopes)
    BY SeqMonotonic
  <1>4. \A s \in Scopes : InitWatch[s] \in Seq(Watchers \cup {Null})
    BY SeqMonotonic
  <1>5. \A s \in Scopes : <<s, Root>> \in Seq(Scopes) /\ <<s>> \in Seq(Scopes) /\ <<>> \in Seq(Scopes)
    OBVIOUS
  <1>6. children \in [Scopes -> Seq(Scopes)] /\ chain \in [Scopes -> Seq(Scopes)]
    BY <1>3, <1>5 DEF Init
  <1>7. watchers \in [Scopes -> Seq(Watchers \cup {Null})]
    BY <1>4 DEF Init
  <1>8. home \in [Watchers -> Scopes \cup {Null}]
    BY DEF Init
  <1>9. stack \in Seq(Frames) /\ post \in Seq(Watchers \cup {UserFn}) /\ applyTimers \in Seq(Scopes)
    BY DEF Init
  <1> QED BY <1>2, <1>6, <1>7, <1>8, <1>9 DEF Init, TypeOK

\* Every step preserves the types.
LEMMA NextType == TypeOK /\ [Next]_vars => TypeOK'
  <1> SUFFICES ASSUME TypeOK, [Next]_vars PROVE TypeOK'
    OBVIOUS
  <1>sa. /\ Root \in Scopes /\ TTL \in Nat /\ TTL >= 2 /\ Null \notin Watchers \cup Scopes
         /\ UserFn \notin Watchers /\ CellVals \in [Cells -> SUBSET Vals]
         /\ CellOf \in [Watchers -> Cells]
    BY ScopeAssumption DEF ScopeAssumption
  <1> USE <1>sa
  <1>ua. ASSUME NEW op, May(op)
         PROVE  /\ stack # <<>> /\ stack \in Seq(Frames)
                /\ budget' \in Nat /\ Top \in Frames /\ Popped \in Seq(Frames)
    BY <1>ua, StackOps DEF May, InUser, TypeOK
  <1>1. ASSUME BeginTurn PROVE TypeOK'
    BY <1>1, FrameTypes DEF BeginTurn, TypeOK, tree, watch, queues, Contexts
  <1>2. ASSUME EvalAsyncTimeout PROVE TypeOK'
    <2>1. <<>> \in Seq(Frames)
      OBVIOUS
    <2>2. asyncN > 0 => /\ phase' \in [Scopes -> {"absent", "null", "$digest", "$apply"}]
                        /\ stack' \in Seq(Frames) /\ throwing' \in BOOLEAN
                        /\ lastDirty' = Null
      BY <1>2, <2>1, CallDigestType DEF EvalAsyncTimeout
    <2>3. CASE asyncN > 0
      BY <1>2, <2>2, <2>3 DEF EvalAsyncTimeout, TypeOK, tree
    <2>4. CASE ~(asyncN > 0)
      BY <1>2, <2>4 DEF EvalAsyncTimeout, TypeOK, tree
    <2> QED BY <2>3, <2>4
  <1>3. ASSUME ApplyAsyncTimeout PROVE TypeOK'
    <2>1. Head(applyTimers) \in Scopes /\ Tail(applyTimers) \in Seq(Scopes)
      BY <1>3, HeadTailProperties DEF ApplyAsyncTimeout, TypeOK
    <2>2. /\ <<>> \in Seq(Frames)
          /\ <<ApplyFrame(Head(applyTimers)), FlushFrame>> \in Seq(Frames)
      BY <2>1, FrameTypes
    <2>3. /\ phase' \in [Scopes -> {"absent", "null", "$digest", "$apply"}]
          /\ stack' \in Seq(Frames) /\ throwing' \in BOOLEAN
      BY <1>3, <2>1, <2>2, BeginPhaseType DEF ApplyAsyncTimeout
    <2> QED BY <1>3, <2>1, <2>3 DEF ApplyAsyncTimeout, TypeOK, tree, watch
  <1>4. ASSUME Uncaught PROVE TypeOK'
    BY <1>4 DEF Uncaught, TypeOK, tree, watch, queues
  <1>5. ASSUME NEW c \in Cells, NEW v \in Vals, SetCell(c, v) PROVE TypeOK'
    BY <1>5, <1>ua DEF SetCell, TypeOK, tree, watch, queues
  <1>6. ASSUME NEW s \in Scopes, NEW w \in Watchers, Watch(s, w) PROVE TypeOK'
    <2>1. Append(watchers[s], w) \in Seq(Watchers \cup {Null})
      BY AppendProperties DEF TypeOK
    <2>2. CASE s \in dead
      BY <1>6, <1>ua, <2>2 DEF Watch, TypeOK, tree, queues
    <2>3. CASE s \notin dead
      <3>1. watchers' \in [Scopes -> Seq(Watchers \cup {Null})]
        BY <1>6, <2>1, <2>3 DEF Watch, TypeOK
      <3>2. home' \in [Watchers -> Scopes \cup {Null}]
        BY <1>6, <2>3 DEF Watch, TypeOK
      <3>3. last' \in [Watchers -> Vals \cup {NoVal}]
        BY <1>6, <2>3 DEF Watch, TypeOK
      <3>4. lastDirty' \in Watchers \cup {Null}
        BY <1>6, <2>3 DEF Watch
      <3> QED BY <1>6, <1>ua, <3>1, <3>2, <3>3, <3>4 DEF Watch, TypeOK, tree, queues
    <2> QED BY <2>2, <2>3
  <1>7. ASSUME NEW w \in Watchers, Unwatch(w) PROVE TypeOK'
    <2>1. lastDirty \in Watchers \cup {Null}
      BY DEF TypeOK
    <2> QED BY <1>7, <1>ua, <2>1, DeregisterType DEF Unwatch, TypeOK, tree, queues
  <1>8. ASSUME NEW s \in Scopes, NEW p \in Scopes, NEW c \in Scopes, NEW isolated \in BOOLEAN,
               NewScope(s, p, isolated, c)
        PROVE  TypeOK'
    <2>1. Append(children[p], c) \in Seq(Scopes) /\ <<c>> \in Seq(Scopes) /\ <<c>> \o chain[s] \in Seq(Scopes)
      BY AppendProperties, ConcatProperties DEF TypeOK
    <2>2. /\ born' \subseteq Scopes
          /\ children' \in [Scopes -> Seq(Scopes)] /\ chain' \in [Scopes -> Seq(Scopes)]
          /\ phase' \in [Scopes -> {"absent", "null", "$digest", "$apply"}]
      BY <1>8, <2>1 DEF NewScope, TypeOK
    <2> QED BY <1>8, <1>ua, <2>2 DEF NewScope, TypeOK, watch, queues
  <1>9. ASSUME NEW s \in Scopes, Destroy(s) PROVE TypeOK'
    <2>1. children' \in [Scopes -> Seq(Scopes)]
      BY <1>9, WithoutType DEF Destroy, TypeOK
    <2> QED BY <1>9, <1>ua, <2>1 DEF Destroy, TypeOK, watch, queues
  <1>10. ASSUME EvalAsync PROVE TypeOK'
    BY <1>10, <1>ua DEF EvalAsync, TypeOK, tree, watch
  <1>11. ASSUME NEW s \in Scopes, ApplyAsync(s) PROVE TypeOK'
    <2>1. Append(applyTimers, s) \in Seq(Scopes)
      BY AppendProperties DEF TypeOK
    <2>2. applyId' \in {"null", "armed", "spent"} /\ applyTimers' \in Seq(Scopes)
      BY <1>11, <2>1 DEF ApplyAsync, TypeOK
    <2>3. budget' \in Nat /\ applyN' \in Nat
      BY <1>11, <1>ua DEF ApplyAsync, TypeOK
    <2>4. UNCHANGED <<tree, watch, cell, phase, asyncN, post, evalTimers, stack, throwing>>
      BY <1>11 DEF ApplyAsync
    <2> QED BY <2>2, <2>3, <2>4 DEF TypeOK, tree, watch
  <1>12. ASSUME PostDigest PROVE TypeOK'
    <2>1. Append(post, UserFn) \in Seq(Watchers \cup {UserFn})
      BY AppendProperties DEF TypeOK
    <2> QED BY <1>12, <1>ua, <2>1 DEF PostDigest, TypeOK, tree, watch
  <1>13. ASSUME NEW s \in Scopes, Digest(s) PROVE TypeOK'
    <2>1. /\ phase' \in [Scopes -> {"absent", "null", "$digest", "$apply"}]
          /\ stack' \in Seq(Frames) /\ throwing' \in BOOLEAN
          /\ lastDirty' = Null
      BY <1>13, <1>ua, CallDigestType DEF Digest
    <2> QED BY <1>13, <1>ua, <2>1 DEF Digest, TypeOK, tree, queues
  <1>14. ASSUME NEW s \in Scopes, Apply(s) PROVE TypeOK'
    <2>1. <<ApplyFrame(s), UserFrame("apply")>> \in Seq(Frames)
      BY FrameTypes DEF Contexts
    <2>2. /\ phase' \in [Scopes -> {"absent", "null", "$digest", "$apply"}]
          /\ stack' \in Seq(Frames) /\ throwing' \in BOOLEAN
      BY <1>14, <1>ua, <2>1, BeginPhaseType DEF Apply
    <2> QED BY <1>14, <1>ua, <2>2 DEF Apply, TypeOK, tree, watch, queues
  <1>15. ASSUME Throw PROVE TypeOK'
    BY <1>15, <1>ua DEF Throw, TypeOK, tree, watch, queues
  <1>16. ASSUME Return PROVE TypeOK'
    BY <1>16, StackOps DEF Return, InUser, TypeOK, tree, watch, queues
  <1>17. ASSUME Catch PROVE TypeOK'
    BY <1>17 DEF Catch, TypeOK, tree, watch, queues
  <1>18. ASSUME Propagate PROVE TypeOK'
    BY <1>18, StackOps DEF Propagate, Caught, TypeOK, tree, watch, queues
  <1>at. ASSUME NEW k, NEW pc, At(k, pc)
         PROVE  /\ stack # <<>> /\ stack \in Seq(Frames)
                /\ Top \in Frames /\ Popped \in Seq(Frames)
    BY <1>at, StackOps DEF At, TypeOK
  <1>19. ASSUME DrainAsync PROVE TypeOK'
    <2>1. Append(stack, UserFrame("async")) \in Seq(Frames)
      BY <1>19, <1>at, StackOps, FrameTypes DEF DrainAsync, Contexts
    <2> QED BY <1>19, <2>1 DEF DrainAsync, Push, TypeOK, tree, watch
  <1>vis. ASSUME NEW s \in Scopes
          PROVE  Visit(s) \in [s : Scopes, wi : Nat, i : Nat, n : Nat]
    BY DEF Visit, TypeOK
  <1>20. ASSUME StartPass PROVE TypeOK'
    <2>1. <<Visit(Top.s)>> \in Seq([s : Scopes, wi : Nat, i : Nat, n : Nat])
      <3>1. Top.s \in Scopes
        BY <1>20, <1>at DEF StartPass, Frames
      <3>2. PICK v \in [s : Scopes, wi : Nat, i : Nat, n : Nat] : v = Visit(Top.s)
        BY <3>1, <1>vis
      <3>3. <<v>> \in Seq([s : Scopes, wi : Nat, i : Nat, n : Nat])
        OBVIOUS
      <3> QED BY <3>2, <3>3
    <2>2. [Top EXCEPT !.pc = "pass", !.flag = FALSE, !.trav = <<Visit(Top.s)>>] \in Frames
      BY <1>20, <1>at, <2>1 DEF StartPass, Frames, LoopPcs
    <2> QED BY <1>20, <1>at, <2>2, StackOps DEF StartPass, TypeOK, tree, watch, queues
  <1>sc. ASSUME Scanning
         PROVE  /\ stack # <<>> /\ stack \in Seq(Frames) /\ Top \in Frames
                /\ Top.trav \in Seq([s : Scopes, wi : Nat, i : Nat, n : Nat])
                /\ Here \in [s : Scopes, wi : Nat, i : Nat, n : Nat]
                /\ \A v \in [s : Scopes, wi : Nat, i : Nat, n : Nat] :
                     Revisit(v) \in Seq([s : Scopes, wi : Nat, i : Nat, n : Nat])
                /\ \A tr \in Seq([s : Scopes, wi : Nat, i : Nat, n : Nat]) :
                     [Top EXCEPT !.trav = tr] \in Frames
    <2>1. Top \in Frames /\ Top.trav # <<>>
      BY <1>sc, <1>at DEF Scanning
    <2>2. Top.trav \in Seq([s : Scopes, wi : Nat, i : Nat, n : Nat])
      BY <2>1 DEF Frames
    <2>3. Len(Top.trav) \in 1..Len(Top.trav)
      BY <2>1, <2>2, EmptySeq
    <2>4. Here \in [s : Scopes, wi : Nat, i : Nat, n : Nat]
      BY <2>2, <2>3, ElementOfSeq DEF Here
    <2>5. \A v \in [s : Scopes, wi : Nat, i : Nat, n : Nat] :
            Revisit(v) \in Seq([s : Scopes, wi : Nat, i : Nat, n : Nat])
      BY <2>2, <2>3, ExceptSeq DEF Revisit
    <2>6. \A tr \in Seq([s : Scopes, wi : Nat, i : Nat, n : Nat]) :
            [Top EXCEPT !.trav = tr] \in Frames
      BY <2>1 DEF Frames
    <2> QED BY <1>sc, <1>at, <2>1, <2>2, <2>4, <2>5, <2>6 DEF Scanning
  <1>ns. ASSUME Scanning, Here.wi > 0
         PROVE  [Top EXCEPT !.trav = NextSlot] \in Frames
    <2>1. [Here EXCEPT !.wi = @ - 1] \in [s : Scopes, wi : Nat, i : Nat, n : Nat]
      <3>1. PICK h \in [s : Scopes, wi : Nat, i : Nat, n : Nat] : h = Here
        BY <1>ns, <1>sc
      <3>2. h.wi - 1 \in Nat
        BY <1>ns, <3>1
      <3> QED BY <3>1, <3>2
    <2> QED BY <1>ns, <1>sc, <2>1 DEF NextSlot
  <1>21. ASSUME EmptySlot PROVE TypeOK'
    BY <1>21, <1>ns, <1>sc, StackOps DEF EmptySlot, TypeOK, tree, watch, queues
  <1>os. ASSUME NEW w \in Watchers, OneShot(w, lastDirty)
         PROVE  /\ watchers' \in [Scopes -> Seq(Watchers \cup {Null})]
                /\ lastDirty' \in Watchers \cup {Null}
    <2>1. lastDirty \in Watchers \cup {Null}
      BY DEF TypeOK
    <2> QED BY <1>os, <2>1, DeregisterType DEF OneShot, TypeOK
  <1>qu. ASSUME NEW w \in Watchers, NEW v, Queued(w, v)
         PROVE  post' \in Seq(Watchers \cup {UserFn})
    <2>1. Append(post, w) \in Seq(Watchers \cup {UserFn})
      BY AppendProperties DEF TypeOK
    <2> QED BY <1>qu, <2>1 DEF Queued, TypeOK
  <1>22. ASSUME NEW w \in Watchers, WatchFnThrows(w) PROVE TypeOK'
    <2>1. With([Top EXCEPT !.trav = NextSlot]) \in Seq(Frames)
      BY <1>22, <1>ns, <1>sc, StackOps DEF WatchFnThrows, Evaluates
    <2> QED BY <1>22, <1>os, <2>1 DEF WatchFnThrows, TypeOK, tree, queues
  <1>23. ASSUME NEW w \in Watchers, NEW v \in Vals, WatchDirty(w, v) PROVE TypeOK'
    <2>1. Scanning /\ Here.wi > 0
      BY <1>23 DEF WatchDirty, Evaluates
    <2>2. [Top EXCEPT !.trav = NextSlot] \in Frames
      BY <2>1, <1>ns
    <2>3. [Top EXCEPT !.flag = TRUE, !.trav = NextSlot] \in Frames
      BY <2>2, <2>1, <1>sc DEF Frames
    <2>4. With([Top EXCEPT !.flag = TRUE, !.trav = NextSlot]) \in Seq(Frames)
      BY <2>1, <2>3, <1>sc, StackOps
    <2>5. UserFrame("listener") \in Frames
      BY FrameTypes DEF Contexts
    <2>6. stack' \in Seq(Frames)
      BY <1>23, <2>4, <2>5, AppendProperties DEF WatchDirty
    <2>7. watchers' \in [Scopes -> Seq(Watchers \cup {Null})]
      BY <1>23, ClearedType DEF WatchDirty, TypeOK
    <2>8. post' \in Seq(Watchers \cup {UserFn})
      BY <1>23, <1>qu DEF WatchDirty
    <2>9. last' \in [Watchers -> Vals \cup {NoVal}] /\ lastDirty' \in Watchers \cup {Null}
      BY <1>23 DEF WatchDirty, TypeOK
    <2> QED BY <1>23, <2>6, <2>7, <2>8, <2>9 DEF WatchDirty, TypeOK, tree
  <1>24. ASSUME NEW w \in Watchers, NEW v \in Vals, WatchClean(w, v) PROVE TypeOK'
    <2>1. Scanning /\ Here.wi > 0
      BY <1>24 DEF WatchClean, Evaluates
    <2>2. [Top EXCEPT !.trav = NextSlot] \in Frames /\ [Top EXCEPT !.trav = <<>>] \in Frames
      BY <2>1, <1>ns, <1>sc, EmptySeq
    <2>3. stack' \in Seq(Frames)
      BY <1>24, <2>1, <2>2, <1>sc, StackOps DEF WatchClean
    <2>4. post' \in Seq(Watchers \cup {UserFn})
      BY <1>24, <1>qu DEF WatchClean
    <2>5. /\ watchers' \in [Scopes -> Seq(Watchers \cup {Null})]
          /\ lastDirty' \in Watchers \cup {Null}
      BY <1>24, <1>os DEF WatchClean
    <2> QED BY <1>24, <2>3, <2>4, <2>5 DEF WatchClean, TypeOK, tree
  <1>25. ASSUME ReadChildren PROVE TypeOK'
    <2>1. Scanning /\ Here.s \in Scopes
      BY <1>25, <1>sc DEF ReadChildren
    <2>2. PICK n \in Nat : n = Len(children[Here.s])
      BY <2>1 DEF TypeOK
    <2>3. [Here EXCEPT !.i = 1, !.n = n] \in [s : Scopes, wi : Nat, i : Nat, n : Nat]
      BY <2>1, <1>sc
    <2>4. With([Top EXCEPT !.trav = Revisit([Here EXCEPT !.i = 1, !.n = n])]) \in Seq(Frames)
      BY <2>1, <2>3, <1>sc, StackOps
    <2> QED BY <1>25, <2>2, <2>4 DEF ReadChildren, TypeOK, tree, watch, queues
  <1>26. ASSUME EnterChild PROVE TypeOK'
    <2>1. Scanning /\ Here.s \in Scopes /\ Here.i \in 1..Len(children[Here.s])
      BY <1>26, <1>sc DEF EnterChild, HasChild, TypeOK
    <2>2. PICK c \in Scopes : c = children[Here.s][Here.i]
      <3>1. children[Here.s] \in Seq(Scopes)
        BY <2>1 DEF TypeOK
      <3> QED BY <2>1, <3>1, ElementOfSeq
    <2>3. [Here EXCEPT !.i = @ + 1] \in [s : Scopes, wi : Nat, i : Nat, n : Nat]
      <3>1. PICK h \in [s : Scopes, wi : Nat, i : Nat, n : Nat] : h = Here
        BY <2>1, <1>sc
      <3>2. h.i + 1 \in Nat
        OBVIOUS
      <3> QED BY <3>1, <3>2
    <2>4. Append(Revisit([Here EXCEPT !.i = @ + 1]), Visit(c)) \in Seq([s : Scopes, wi : Nat, i : Nat, n : Nat])
      BY <2>1, <2>3, <1>sc, <1>vis, AppendProperties
    <2>5. With([Top EXCEPT !.trav = Append(Revisit([Here EXCEPT !.i = @ + 1]), Visit(c))])
            \in Seq(Frames)
      BY <2>1, <2>4, <1>sc, StackOps
    <2> QED BY <1>26, <2>2, <2>5 DEF EnterChild, TypeOK, tree, watch, queues
  <1>27. ASSUME LeaveScope PROVE TypeOK'
    <2>1. Scanning
      BY <1>27 DEF LeaveScope
    <2>2. SubSeq(Top.trav, 1, Len(Top.trav) - 1) \in Seq([s : Scopes, wi : Nat, i : Nat, n : Nat])
      BY <2>1, <1>sc, FrontOfSeq DEF Scanning
    <2>3. With([Top EXCEPT !.trav = SubSeq(@, 1, Len(@) - 1)]) \in Seq(Frames)
      BY <2>1, <2>2, <1>sc, StackOps
    <2> QED BY <1>27, <2>3 DEF LeaveScope, TypeOK, tree, watch, queues
  <1>po. ASSUME PassOver
         PROVE  /\ stack # <<>> /\ stack \in Seq(Frames) /\ Popped \in Seq(Frames)
                /\ Top \in Frames /\ Top.s \in Scopes /\ Top.ttl \in Nat
                /\ \A pc \in {"flush", "post"} : [Top EXCEPT !.pc = pc] \in Frames
    BY <1>po, <1>at DEF PassOver, Frames, LoopPcs
  <1>28. ASSUME PassAgain PROVE TypeOK'
    <2>1. PICK f \in Frames : f = Top
      BY <1>28, <1>po DEF PassAgain
    <2>2. f.ttl - 1 \in Nat
      BY <1>28, <2>1 DEF PassAgain, Frames
    <2>3. [f EXCEPT !.pc = "async", !.ttl = f.ttl - 1] \in Frames
      BY <2>2 DEF Frames, LoopPcs
    <2>4. With([Top EXCEPT !.pc = "async", !.ttl = @ - 1]) \in Seq(Frames)
      BY <1>28, <1>po, <2>1, <2>3, StackOps DEF PassAgain
    <2> QED BY <1>28, <2>4 DEF PassAgain, TypeOK, tree, watch, queues
  <1>cp. ASSUME NEW s \in Scopes, ClearPhase(s)
         PROVE  phase' \in [Scopes -> {"absent", "null", "$digest", "$apply"}]
    BY <1>cp DEF ClearPhase, TypeOK
  <1>29. ASSUME TtlAbort PROVE TypeOK'
    BY <1>29, <1>po, <1>cp DEF TtlAbort, TypeOK, tree, watch, queues
  <1>30. ASSUME BeginFlush PROVE TypeOK'
    <2>1. Append(With([Top EXCEPT !.pc = "flush"]), FlushFrame) \in Seq(Frames)
      BY <1>30, <1>po, StackOps, FrameTypes, AppendProperties DEF BeginFlush
    <2>2. applyTimers' \in Seq(Scopes)
      <3>1. CASE applyTimers = <<>>
        <4>1. SubSeq(applyTimers, 1, Len(applyTimers) - 1) = <<>>
          BY <3>1, EmptySeq, SubSeqEmpty
        <4> QED BY <1>30, <3>1, <4>1 DEF BeginFlush
      <3>2. CASE applyTimers # <<>>
        BY <1>30, <3>2, FrontOfSeq DEF BeginFlush, TypeOK
      <3> QED BY <3>1, <3>2
    <2> QED BY <1>30, <2>1, <2>2 DEF BeginFlush, TypeOK, tree, watch
  <1>31. ASSUME Settle PROVE TypeOK'
    <2>1. stack # <<>> /\ stack \in Seq(Frames) /\ Top \in Frames
      BY <1>31, <1>po, <1>at DEF Settle
    <2>2. Top.s \in Scopes /\ [Top EXCEPT !.pc = "post"] \in Frames
      BY <2>1 DEF Frames
    <2> QED BY <1>31, <1>cp, <2>1, <2>2, StackOps DEF Settle, Become, TypeOK, tree, watch, queues
  <1>32. ASSUME DrainPost PROVE TypeOK'
    <2>1. Head(post) \in Watchers \cup {UserFn} /\ post' \in Seq(Watchers \cup {UserFn})
      BY <1>32, HeadTailProperties DEF DrainPost, TypeOK
    <2>2. stack \in Seq(Frames) /\ Append(stack, UserFrame("post")) \in Seq(Frames)
      BY <1>32, <1>at, StackOps, FrameTypes DEF DrainPost, Contexts
    <2>3. stack' \in Seq(Frames)
      BY <1>32, <2>2 DEF DrainPost, Push
    <2>4. /\ watchers' \in [Scopes -> Seq(Watchers \cup {Null})]
          /\ lastDirty' \in Watchers \cup {Null}
      <3>1. /\ watchers \in [Scopes -> Seq(Watchers \cup {Null})]
            /\ lastDirty \in Watchers \cup {Null}
        BY DEF TypeOK
      <3> QED BY <1>32, <2>1, <3>1, DeregisterType DEF DrainPost
    <2> QED BY <1>32, <2>1, <2>3, <2>4 DEF DrainPost, TypeOK, tree
  <1>33. ASSUME DigestDone PROVE TypeOK'
    BY <1>33, <1>at, StackOps DEF DigestDone, TypeOK, tree, watch, queues
  <1>34. ASSUME Report PROVE TypeOK'
    BY <1>34 DEF Report, TypeOK, tree, watch, queues
  <1>35. ASSUME FlushTask PROVE TypeOK'
    <2>1. Append(stack, UserFrame("task")) \in Seq(Frames)
      BY <1>35, <1>at, StackOps, FrameTypes DEF FlushTask, Contexts
    <2>2. applyN' \in Nat
      BY <1>35 DEF FlushTask, TypeOK
    <2> QED BY <1>35, <2>1, <2>2 DEF FlushTask, Push, TypeOK, tree, watch
  <1>36. ASSUME FlushDone PROVE TypeOK'
    BY <1>36, <1>at, StackOps DEF FlushDone, TypeOK, tree, watch
  <1>37. ASSUME ApplyEvaluated PROVE TypeOK'
    <2>1. stack # <<>> /\ stack \in Seq(Frames) /\ Top \in Frames /\ throwing \in BOOLEAN
      BY <1>37, StackOps DEF ApplyEvaluated, TypeOK
    <2>2. Top.s \in Scopes /\ [Top EXCEPT !.pc = "finally", !.flag = throwing] \in Frames
      BY <2>1 DEF Frames
    <2> QED BY <1>37, <1>cp, <2>1, <2>2, StackOps DEF ApplyEvaluated, TypeOK, tree, watch, queues
  <1>38. ASSUME ApplyDigests PROVE TypeOK'
    <2>1. [Top EXCEPT !.pc = "digest"] \in Frames
      BY <1>38, <1>at DEF ApplyDigests, Frames
    <2>2. With([Top EXCEPT !.pc = "digest"]) \in Seq(Frames)
      BY <1>38, <1>at, <2>1, StackOps DEF ApplyDigests
    <2>3. /\ phase' \in [Scopes -> {"absent", "null", "$digest", "$apply"}]
          /\ stack' \in Seq(Frames) /\ throwing' \in BOOLEAN
          /\ lastDirty' = Null
      BY <1>38, <2>2, CallDigestType DEF ApplyDigests
    <2> QED BY <1>38, <2>3 DEF ApplyDigests, TypeOK, tree, queues
  <1>39. ASSUME ApplyDone PROVE TypeOK'
    BY <1>39, StackOps DEF ApplyDone, TypeOK, tree, watch, queues
  <1>40. ASSUME UNCHANGED vars PROVE TypeOK'
    BY <1>40 DEF vars, TypeOK, tree, watch, queues
  <1>uo. ASSUME UserOp PROVE TypeOK'
    <2>1. CASE \E s \in Scopes : Destroy(s) \/ ApplyAsync(s) \/ Digest(s) \/ Apply(s)
      BY <2>1, <1>9, <1>11, <1>13, <1>14
    <2>2. CASE \E s, p, c \in Scopes, isolated \in BOOLEAN : NewScope(s, p, isolated, c)
      BY <2>2, <1>8
    <2>3. CASE \/ \E c \in Cells, v \in Vals : SetCell(c, v)
               \/ \E s \in Scopes, w \in Watchers : Watch(s, w)
               \/ \E w \in Watchers : Unwatch(w)
      BY <2>3, <1>5, <1>6, <1>7
    <2> QED BY <1>uo, <2>1, <2>2, <2>3, <1>10, <1>12, <1>15, Zenon DEF UserOp
  <1>ps. ASSUME Pass PROVE TypeOK'
    BY <1>ps, <1>20, <1>21, <1>22, <1>23, <1>24, <1>25, <1>26, <1>27, Zenon DEF Pass
  <1> QED
    BY <1>1, <1>2, <1>3, <1>4, <1>16, <1>17, <1>18, <1>19, <1>28, <1>29, <1>30, <1>31, <1>32,
       <1>33, <1>34, <1>35, <1>36, <1>37, <1>38, <1>39, <1>40, <1>uo, <1>ps, Zenon
    DEF Next, Engine, Timeout

\* Every variable always has its type.
THEOREM TypeCorrect == Spec => []TypeOK
  BY InitType, NextType, PTL DEF Spec

-----------------------------------------------------------------------------
(* Phases and calls                                                        *)

Active == {"$digest", "$apply"}

\* At most one call holds the phase of a scope.
OneHolder(stk) ==
  \A i, j \in 1..Len(stk) : \A p, q \in Active :
    Holds(stk[i], p) /\ Holds(stk[j], q) /\ stk[i].s = stk[j].s => i = j

\* The phases are those the calls hold.
Agree(stk, phs) ==
  \A s \in Scopes, p \in Active :
    phs[s] = p <=> \E i \in 1..Len(stk) : stk[i].s = s /\ Holds(stk[i], p)

Balanced(stk, phs) == OneHolder(stk) /\ Agree(stk, phs)

\* A frame that holds no phase.
NoHold(f) == \A p \in Active : ~Holds(f, p)

\* A frame holds one phase at most.
LEMMA HoldsOne ==
  ASSUME NEW f, NEW p \in Active, NEW q \in Active, Holds(f, p), Holds(f, q)
  PROVE  p = q
  BY DEF Holds

\* Pushing a frame that holds no phase.
LEMMA PushNoHold ==
  ASSUME NEW S, NEW stk \in Seq(S), NEW phs, NEW f \in S, NoHold(f), Balanced(stk, phs)
  PROVE  Balanced(Append(stk, f), phs)
  <1>1. /\ Len(Append(stk, f)) = Len(stk) + 1 /\ Len(stk) \in Nat
        /\ \A i \in 1..Len(stk) : Append(stk, f)[i] = stk[i]
        /\ Append(stk, f)[Len(stk) + 1] = f
    BY AppendProperties
  <1>2. ASSUME NEW i \in 1..Len(Append(stk, f)), NEW p \in Active, Holds(Append(stk, f)[i], p)
        PROVE  i \in 1..Len(stk) /\ Append(stk, f)[i] = stk[i]
    BY <1>1, <1>2 DEF NoHold
  <1>3. OneHolder(Append(stk, f))
    BY <1>2 DEF OneHolder, Balanced
  <1>4. Agree(Append(stk, f), phs)
    <2> SUFFICES ASSUME NEW s \in Scopes, NEW p \in Active
                 PROVE  (\E i \in 1..Len(Append(stk, f)) :
                           Append(stk, f)[i].s = s /\ Holds(Append(stk, f)[i], p))
                        <=> (\E i \in 1..Len(stk) : stk[i].s = s /\ Holds(stk[i], p))
      BY DEF Agree, Balanced
    <2>1. \A i \in 1..Len(stk) : i \in 1..Len(Append(stk, f))
      BY <1>1
    <2> QED BY <1>1, <1>2, <2>1
  <1> QED BY <1>3, <1>4 DEF Balanced

\* $beginPhase on a scope in no phase, pushing the call that holds it.
LEMMA PushHolder ==
  ASSUME NEW stk \in Seq(Frames), NEW phs \in [Scopes -> {"absent", "null", "$digest", "$apply"}],
         NEW f \in Frames, NEW p \in Active, Holds(f, p), phs[f.s] \notin Active,
         Balanced(stk, phs)
  PROVE  Balanced(Append(stk, f), [phs EXCEPT ![f.s] = p])
  <1> DEFINE st2 == Append(stk, f)
             ph2 == [phs EXCEPT ![f.s] = p]
  <1>1. /\ Len(st2) = Len(stk) + 1 /\ Len(stk) \in Nat
        /\ \A i \in 1..Len(stk) : st2[i] = stk[i]
        /\ st2[Len(stk) + 1] = f
    BY AppendProperties
  <1>2. f.s \in Scopes /\ ph2[f.s] = p /\ \A s \in Scopes : s # f.s => ph2[s] = phs[s]
    BY DEF Frames
  <1>3. \A i \in 1..Len(stk), q \in Active : Holds(stk[i], q) => stk[i].s # f.s
    BY <1>2 DEF Balanced, Agree
  <1>4. \A q \in Active : Holds(f, q) => q = p
    BY HoldsOne
  <1> HIDE DEF st2, ph2
  <1>5. OneHolder(st2)
    <2> SUFFICES ASSUME NEW i \in 1..Len(st2), NEW j \in 1..Len(st2),
                        NEW q \in Active, NEW r \in Active,
                        Holds(st2[i], q), Holds(st2[j], r), st2[i].s = st2[j].s
                 PROVE  i = j
      BY DEF OneHolder
    <2>1. (i \in 1..Len(stk) \/ i = Len(stk) + 1) /\ (j \in 1..Len(stk) \/ j = Len(stk) + 1)
      BY <1>1
    <2>2. CASE i \in 1..Len(stk) /\ j \in 1..Len(stk)
      BY <1>1, <2>2 DEF Balanced, OneHolder
    <2>3. CASE i \in 1..Len(stk) /\ j = Len(stk) + 1
      BY <1>1, <1>3, <2>3
    <2>4. CASE i = Len(stk) + 1 /\ j \in 1..Len(stk)
      BY <1>1, <1>3, <2>4
    <2> QED BY <2>1, <2>2, <2>3, <2>4
  <1>6. ASSUME NEW s \in Scopes, NEW q \in Active
        PROVE  ph2[s] = q <=> \E i \in 1..Len(st2) : st2[i].s = s /\ Holds(st2[i], q)
    <2>1. CASE s = f.s
      <3>1. Len(st2) \in 1..Len(st2) /\ st2[Len(st2)] = f
        BY <1>1
      <3>2. \A i \in 1..Len(st2) : st2[i].s = s /\ Holds(st2[i], q) => st2[i] = f
        BY <1>1, <1>3, <2>1
      <3> QED BY <1>2, <1>4, <2>1, <3>1, <3>2
    <2>2. CASE s # f.s
      <3>1. (\E i \in 1..Len(st2) : st2[i].s = s /\ Holds(st2[i], q))
              <=> (\E i \in 1..Len(stk) : stk[i].s = s /\ Holds(stk[i], q))
        <4>1. \A i \in 1..Len(st2) : i \in 1..Len(stk) \/ st2[i] = f
          BY <1>1
        <4>2. \A i \in 1..Len(stk) : i \in 1..Len(st2)
          BY <1>1
        <4> QED BY <1>1, <2>2, <4>1, <4>2
      <3> QED BY <1>2, <2>2, <3>1 DEF Balanced, Agree
    <2> QED BY <2>1, <2>2
  <1> QED BY <1>5, <1>6 DEF Balanced, Agree, st2, ph2

\* Popping a frame that holds no phase.
LEMMA PopNoHold ==
  ASSUME stack \in Seq(Frames), stack # <<>>, NEW phs, NoHold(Top), Balanced(stack, phs)
  PROVE  Balanced(Popped, phs)
  <1>1. /\ Len(stack) \in Nat \ {0} /\ Len(Popped) = Len(stack) - 1
        /\ \A i \in 1..Len(Popped) : Popped[i] = stack[i]
    BY StackOps
  <1>2. /\ \A i \in 1..Len(Popped) : i \in 1..Len(stack)
        /\ \A i \in 1..Len(stack) : i \in 1..Len(Popped) \/ stack[i] = Top
    BY <1>1 DEF Top
  <1>3. OneHolder(Popped)
    BY <1>1, <1>2 DEF OneHolder, Balanced
  <1>4. ASSUME NEW s \in Scopes, NEW p \in Active
        PROVE  (\E i \in 1..Len(Popped) : Popped[i].s = s /\ Holds(Popped[i], p))
               <=> (\E i \in 1..Len(stack) : stack[i].s = s /\ Holds(stack[i], p))
    BY <1>1, <1>2 DEF NoHold
  <1> QED BY <1>3, <1>4 DEF Balanced, Agree

\* Replacing the top frame by one of the same scope that holds the same phases.
LEMMA SwapSame ==
  ASSUME stack \in Seq(Frames), stack # <<>>, NEW phs, NEW f, f.s = Top.s,
         \A p \in Active : Holds(f, p) <=> Holds(Top, p), Balanced(stack, phs)
  PROVE  Balanced(With(f), phs)
  <1>1. /\ Len(With(f)) = Len(stack)
        /\ \A i \in 1..Len(stack) : With(f)[i] = IF i = Len(stack) THEN f ELSE stack[i]
    BY WithOps
  <1>2. ASSUME NEW i \in 1..Len(stack)
        PROVE  /\ With(f)[i].s = stack[i].s
               /\ \A p \in Active : Holds(With(f)[i], p) <=> Holds(stack[i], p)
    BY <1>1 DEF Top
  <1> QED BY <1>1, <1>2 DEF Balanced, OneHolder, Agree

\* $clearPhase on the scope of the top call, which stops holding its phase.
LEMMA SwapRelease ==
  ASSUME stack \in Seq(Frames), stack # <<>>,
         NEW phs \in [Scopes -> {"absent", "null", "$digest", "$apply"}],
         NEW f, f.s = Top.s, NoHold(f),
         \E p \in Active : Holds(Top, p), Balanced(stack, phs)
  PROVE  Balanced(With(f), [phs EXCEPT ![Top.s] = "null"])
  <1> DEFINE ph2 == [phs EXCEPT ![Top.s] = "null"]
  <1>1. /\ Len(With(f)) = Len(stack) /\ Len(stack) \in 1..Len(stack)
        /\ With(f)[Len(stack)] = f /\ Top.s \in Scopes
        /\ \A i \in 1..Len(stack) : i # Len(stack) => With(f)[i] = stack[i]
    <2>1. /\ Len(stack) \in Nat \ {0} /\ Top \in Frames /\ Len(With(f)) = Len(stack)
          /\ \A i \in 1..Len(stack) : With(f)[i] = IF i = Len(stack) THEN f ELSE stack[i]
      BY StackOps, WithOps
    <2>2. Len(stack) \in 1..Len(stack)
      BY <2>1
    <2> QED BY <2>1, <2>2 DEF Frames
  <1>2. ph2[Top.s] = "null" /\ \A s \in Scopes : s # Top.s => ph2[s] = phs[s]
    BY <1>1
  <1>3. \A i \in 1..Len(stack), q \in Active :
          i # Len(stack) /\ Holds(stack[i], q) => stack[i].s # Top.s
    BY <1>1 DEF Balanced, OneHolder, Top
  <1> HIDE DEF ph2
  <1>4. OneHolder(With(f))
    BY <1>1 DEF OneHolder, Balanced, NoHold
  <1>5. ASSUME NEW s \in Scopes, NEW q \in Active
        PROVE  ph2[s] = q <=> \E i \in 1..Len(With(f)) : With(f)[i].s = s /\ Holds(With(f)[i], q)
    <2>1. CASE s = Top.s
      <3>1. ph2[s] # q
        BY <1>2, <2>1 DEF Active
      <3>2. \A i \in 1..Len(stack) : ~(With(f)[i].s = s /\ Holds(With(f)[i], q))
        BY <1>1, <1>3, <2>1 DEF NoHold
      <3> QED BY <1>1, <3>1, <3>2
    <2>2. CASE s # Top.s
      <3>1. \A i \in 1..Len(stack) : (With(f)[i].s = s /\ Holds(With(f)[i], q))
                                      <=> (stack[i].s = s /\ Holds(stack[i], q))
        BY <1>1, <2>2 DEF Top
      <3> QED BY <1>1, <1>2, <2>2, <3>1 DEF Balanced, Agree
    <2> QED BY <2>1, <2>2
  <1> QED BY <1>4, <1>5 DEF Balanced, Agree, ph2

\* A call that holds no phase any more is popped: the abort of a digest.
LEMMA PopRelease ==
  ASSUME stack \in Seq(Frames), stack # <<>>,
         NEW phs \in [Scopes -> {"absent", "null", "$digest", "$apply"}],
         \E p \in Active : Holds(Top, p), Balanced(stack, phs)
  PROVE  Balanced(Popped, [phs EXCEPT ![Top.s] = "null"])
  <1> DEFINE ph2 == [phs EXCEPT ![Top.s] = "null"]
  <1>1. /\ Len(stack) \in Nat \ {0} /\ Len(Popped) = Len(stack) - 1 /\ Top.s \in Scopes
        /\ \A i \in 1..Len(Popped) : Popped[i] = stack[i]
    BY StackOps DEF Frames
  <1>2. /\ \A i \in 1..Len(Popped) : i \in 1..Len(stack) /\ i # Len(stack)
        /\ \A i \in 1..Len(stack) : i \in 1..Len(Popped) \/ i = Len(stack)
    BY <1>1
  <1>3. ph2[Top.s] = "null" /\ \A s \in Scopes : s # Top.s => ph2[s] = phs[s]
    BY <1>1
  <1>4. \A i \in 1..Len(Popped), q \in Active : Holds(Popped[i], q) => Popped[i].s # Top.s
    <2>1. Len(stack) \in 1..Len(stack)
      BY <1>1
    <2> QED BY <1>1, <1>2, <2>1 DEF Balanced, OneHolder, Top
  <1> HIDE DEF ph2
  <1>5. OneHolder(Popped)
    BY <1>1, <1>2 DEF OneHolder, Balanced
  <1>6. ASSUME NEW s \in Scopes, NEW q \in Active
        PROVE  ph2[s] = q <=> \E i \in 1..Len(Popped) : Popped[i].s = s /\ Holds(Popped[i], q)
    <2>1. CASE s = Top.s
      BY <1>3, <1>4, <2>1 DEF Active
    <2>2. CASE s # Top.s
      <3>1. (\E i \in 1..Len(Popped) : Popped[i].s = s /\ Holds(Popped[i], q))
              <=> (\E i \in 1..Len(stack) : stack[i].s = s /\ Holds(stack[i], q))
        BY <1>1, <1>2, <2>2 DEF Top
      <3> QED BY <1>3, <2>2, <3>1 DEF Balanced, Agree
    <2> QED BY <2>1, <2>2
  <1> QED BY <1>5, <1>6 DEF Balanced, Agree, ph2

\* A call of $digest or $apply: begun on a scope in no phase, or refused.
LEMMA BeginBalanced ==
  ASSUME NEW base \in Seq(Frames), NEW s \in Scopes, NEW p \in Active, NEW f \in Frames,
         f.s = s, Holds(f, p), phase \in [Scopes -> {"absent", "null", "$digest", "$apply"}],
         chain[s] \in Seq(Scopes), chain[s] # <<>>, chain[s][1] = s,
         Balanced(base, phase), BeginPhase(s, p, base, <<f>>)
  PROVE  Balanced(stack', phase')
  <1>1. CASE InPhase(s)
    BY <1>1 DEF BeginPhase
  <1>2. CASE ~InPhase(s)
    <2>1. phase[s] \notin Active
      <3>1. 1 \in DOMAIN chain[s] /\ 1..(1 - 1) = {}
        BY EmptySeq
      <3> QED BY <1>2, <3>1 DEF InPhase, Active
    <2>2. stack' = Append(base, f) /\ phase' = [phase EXCEPT ![s] = p]
      BY <1>2, AppendIsConcat DEF BeginPhase
    <2> QED BY <2>1, <2>2, PushHolder
  <1> QED BY <1>1, <1>2

\* The prototype chain of a scope starts with the scope.
ChainOK == \A s \in Scopes : chain[s] # <<>> /\ chain[s][1] = s

BalanceInv == ChainOK /\ Balanced(stack, phase)

LEMMA InitBalance == Init => BalanceInv
  <1> SUFFICES ASSUME Init PROVE BalanceInv
    OBVIOUS
  <1>1. ChainOK
    BY DEF Init, ChainOK
  <1>2. stack = <<>> /\ 1..Len(stack) = {} /\ \A s \in Scopes : phase[s] \notin Active
    BY DEF Init, Active
  <1> QED BY <1>1, <1>2 DEF BalanceInv, Balanced, OneHolder, Agree

\* Only scopes that exist are in a phase or awaited by a timeout.
BornOK ==
  /\ Root \in born /\ applyTimers \in Seq(born)
  /\ \A s \in Scopes \ born : phase[s] \notin Active

LEMMA InitBorn == Init => BornOK
  <1> SUFFICES ASSUME Init PROVE BornOK
    OBVIOUS
  <1>1. Root \in born /\ applyTimers \in Seq(born)
    BY DEF Init
  <1>2. \A s \in Scopes : phase[s] \notin Active
    BY DEF Init, Active
  <1> QED BY <1>1, <1>2 DEF BornOK

\* Scopes are never forgotten, and a phase begins on one that exists.
LEMMA NextBorn == TypeOK /\ BornOK /\ [Next]_vars => BornOK'
  <1> SUFFICES ASSUME TypeOK, BornOK, [Next]_vars PROVE BornOK'
    OBVIOUS
  \* A step that begins a phase on a scope that exists, clears one, or neither.
  <1>1. ASSUME UNCHANGED <<born, applyTimers>>,
               \/ UNCHANGED phase
               \/ \E s \in born, ph \in Active : \E base, frames : BeginPhase(s, ph, base, frames)
               \/ \E s \in Scopes : ClearPhase(s)
        PROVE  BornOK'
    <2>1. \A s \in Scopes \ born : phase'[s] \notin Active
      <3>1. CASE UNCHANGED phase
        BY <3>1 DEF BornOK
      <3>2. CASE \E s \in born, ph \in Active : \E base, frames : BeginPhase(s, ph, base, frames)
        BY <3>2 DEF BornOK, BeginPhase, TypeOK
      <3>3. CASE \E s \in Scopes : ClearPhase(s)
        BY <3>3 DEF BornOK, ClearPhase, TypeOK, Active
      <3> QED BY <1>1, <3>1, <3>2, <3>3
    <2> QED BY <1>1, <2>1 DEF BornOK
  \* A step that changes the pending timeouts and no phase.
  <1>2. ASSUME UNCHANGED <<born, phase>>, applyTimers' \in Seq(born) PROVE BornOK'
    BY <1>2 DEF BornOK
  <1>3. ASSUME ApplyAsyncTimeout PROVE BornOK'
    <2>1. Head(applyTimers) \in born /\ Tail(applyTimers) \in Seq(born)
      BY <1>3, HeadTailProperties DEF ApplyAsyncTimeout, BornOK
    <2>2. /\ applyTimers' = Tail(applyTimers) /\ born' = born
          /\ BeginPhase(Head(applyTimers), "$apply", <<>>,
                        <<ApplyFrame(Head(applyTimers)), FlushFrame>>)
      BY <1>3 DEF ApplyAsyncTimeout, tree
    <2>3. \A s \in Scopes \ born : phase'[s] \notin Active
      BY <2>1, <2>2 DEF BornOK, BeginPhase, TypeOK
    <2> QED BY <2>1, <2>2, <2>3 DEF BornOK
  <1>4. ASSUME NEW s \in Scopes, NEW p, NEW c, NEW isolated, NewScope(s, p, isolated, c)
        PROVE  BornOK'
    <2>1. /\ born \subseteq born' /\ applyTimers' = applyTimers
          /\ phase' = [phase EXCEPT ![c] = IF isolated THEN "null" ELSE "absent"]
      BY <1>4 DEF NewScope, queues
    <2>2. applyTimers' \in Seq(born')
      BY <2>1, SeqMonotonic DEF BornOK
    <2> QED BY <2>1, <2>2 DEF BornOK, TypeOK, Active
  <1>5. ASSUME NEW s \in Scopes, ApplyAsync(s) PROVE BornOK'
    <2>1. Append(applyTimers, s) \in Seq(born)
      BY <1>5, AppendProperties DEF ApplyAsync, BornOK
    <2> QED BY <1>5, <1>2, <2>1 DEF ApplyAsync, BornOK, tree
  <1>6. ASSUME BeginFlush PROVE BornOK'
    <2>1. SubSeq(applyTimers, 1, Len(applyTimers) - 1) \in Seq(born)
      <3>1. CASE applyTimers = <<>>
        BY <3>1, EmptySeq, SubSeqEmpty
      <3>2. CASE applyTimers # <<>>
        BY <3>2, FrontOfSeq DEF BornOK
      <3> QED BY <3>1, <3>2
    <2> QED BY <1>6, <1>2, <2>1 DEF BeginFlush, BornOK, tree
  <1>7. ASSUME \/ EvalAsyncTimeout \/ ApplyDigests
               \/ \E s \in Scopes : Digest(s) \/ Apply(s)
        PROVE  BornOK'
    <2>1. UNCHANGED <<born, applyTimers>>
      BY <1>7 DEF EvalAsyncTimeout, ApplyDigests, Digest, Apply, tree, queues
    <2>2. CASE EvalAsyncTimeout
      BY <1>1, <2>1, <2>2 DEF EvalAsyncTimeout, CallDigest, BornOK, Active
    <2>3. CASE ApplyDigests
      BY <1>1, <2>1, <2>3 DEF ApplyDigests, CallDigest, BornOK, Active
    <2>4. CASE \E s \in Scopes : Digest(s) \/ Apply(s)
      BY <1>1, <2>1, <2>4 DEF Digest, Apply, CallDigest, Active
    <2> QED BY <1>7, <2>2, <2>3, <2>4
  <1>8. ASSUME TtlAbort \/ Settle \/ ApplyEvaluated PROVE BornOK'
    <2>1. UNCHANGED <<born, applyTimers>> /\ ClearPhase(Top.s)
      BY <1>8 DEF TtlAbort, Settle, ApplyEvaluated, tree, queues
    <2>2. Top.s \in Scopes
      <3>1. stack # <<>> /\ stack \in Seq(Frames)
        BY <1>8 DEF TtlAbort, Settle, ApplyEvaluated, PassOver, At, TypeOK
      <3> QED BY <3>1, StackOps DEF Frames
    <2> QED BY <1>1, <2>1, <2>2
  <1>9. ASSUME \/ BeginTurn \/ Uncaught \/ EvalAsync \/ PostDigest \/ Throw
               \/ Return \/ Catch \/ Propagate \/ DrainAsync \/ PassAgain
               \/ DrainPost \/ DigestDone \/ Report \/ FlushTask \/ FlushDone \/ ApplyDone
               \/ \E c \in Cells, v \in Vals : SetCell(c, v)
               \/ \E s \in Scopes, w \in Watchers : Watch(s, w)
               \/ \E w \in Watchers : Unwatch(w)
               \/ \E s \in Scopes : Destroy(s)
               \/ UNCHANGED vars
        PROVE  BornOK'
    <2>1. UNCHANGED <<born, applyTimers, phase>>
      BY <1>9 DEF BeginTurn, Uncaught, EvalAsync, PostDigest, Throw, Return, Catch, Propagate,
                  DrainAsync, PassAgain, DrainPost, DigestDone, Report, FlushTask, FlushDone,
                  ApplyDone, SetCell, Watch, Unwatch, Destroy, vars, tree, queues
    <2> QED BY <1>1, <2>1
  <1>10. ASSUME Pass PROVE BornOK'
    <2>1. UNCHANGED <<born, applyTimers, phase>>
      BY <1>10 DEF Pass, StartPass, EmptySlot, WatchFnThrows, WatchDirty, WatchClean,
                   ReadChildren, EnterChild, LeaveScope, tree, queues
    <2> QED BY <1>1, <2>1
  <1>uo. ASSUME UserOp PROVE BornOK'
    <2>1. CASE \E s \in Scopes : Destroy(s) \/ ApplyAsync(s) \/ Digest(s) \/ Apply(s)
      BY <2>1, <1>5, <1>7, <1>9
    <2>2. CASE \E s, p, c \in Scopes, isolated \in BOOLEAN : NewScope(s, p, isolated, c)
      BY <2>2, <1>4
    <2> QED BY <1>uo, <1>9, <2>1, <2>2, Zenon DEF UserOp
  <1> QED BY <1>3, <1>6, <1>7, <1>8, <1>9, <1>10, <1>uo, Zenon DEF Next, Engine, Timeout

\* Every step keeps the phases in balance with the calls.
LEMMA NextBalance == TypeOK /\ BornOK /\ BalanceInv /\ [Next]_vars => BalanceInv'
  <1> SUFFICES ASSUME TypeOK, BornOK, BalanceInv, [Next]_vars PROVE BalanceInv'
    OBVIOUS
  <1>t. /\ stack \in Seq(Frames) /\ \A s \in Scopes : chain[s] \in Seq(Scopes)
        /\ phase \in [Scopes -> {"absent", "null", "$digest", "$apply"}]
        /\ ChainOK /\ Balanced(stack, phase)
    BY DEF TypeOK, BalanceInv
  <1>f. /\ \A at : NoHold(UserFrame(at))
        /\ NoHold(FlushFrame)
        /\ \A s : /\ Holds(DigestFrame(s), "$digest") /\ DigestFrame(s).s = s
                  /\ Holds(ApplyFrame(s), "$apply") /\ ApplyFrame(s).s = s
    BY DEF NoHold, Holds, Active, UserFrame, FlushFrame, DigestFrame, ApplyFrame, Frame, LoopPcs
  <1>c. ASSUME UNCHANGED chain, Balanced(stack', phase') PROVE BalanceInv'
    BY <1>c, <1>t DEF BalanceInv, ChainOK
  \* Steps that leave the stack and the phases alone.
  <1>1. ASSUME UNCHANGED <<chain, stack, phase>> PROVE BalanceInv'
    BY <1>1, <1>c, <1>t
  \* Steps that push user code.
  <1>2. ASSUME UNCHANGED <<chain, phase>>, NEW at \in Contexts, stack' = Append(stack, UserFrame(at))
        PROVE  BalanceInv'
    BY <1>2, <1>c, <1>t, <1>f, PushNoHold, FrameTypes
  \* Steps that pop a frame which holds nothing.
  <1>3. ASSUME UNCHANGED <<chain, phase>>, stack # <<>>, NoHold(Top), stack' = Popped
        PROVE  BalanceInv'
    BY <1>3, <1>c, <1>t, PopNoHold
  \* Steps of a pass: the digest goes on holding its phase.
  <1>4. ASSUME UNCHANGED <<chain, phase>>, stack # <<>>, Top.k = "digest", Top.pc \in LoopPcs,
               NEW f, f.k = "digest", f.s = Top.s, f.pc \in LoopPcs
        PROVE  /\ stack' = With(f) => BalanceInv'
               /\ \A g \in Frames : NoHold(g) /\ stack' = Append(With(f), g) => BalanceInv'
    <2>1. \A p \in Active : Holds(f, p) <=> Holds(Top, p)
      BY <1>4 DEF Holds
    <2>2. Balanced(With(f), phase)
      BY <1>4, <1>t, <2>1, SwapSame
    <2>3. ASSUME NEW g \in Frames, NoHold(g)
          PROVE  Balanced(Append(With(f), g), phase)
      <3>1. With(f) \in Seq(Frames \cup {f}) /\ g \in Frames \cup {f}
        BY <1>4, <1>t, WithOps
      <3> QED BY <2>2, <2>3, <3>1, PushNoHold
    <2> QED BY <1>4, <1>c, <2>2, <2>3
  \* A call of $digest.
  <1>5. ASSUME UNCHANGED chain, NEW s \in Scopes, NEW base \in Seq(Frames),
               Balanced(base, phase), CallDigest(s, base)
        PROVE  BalanceInv'
    <2>1. BeginPhase(s, "$digest", base, <<DigestFrame(s)>>)
      BY <1>5 DEF CallDigest
    <2>2. Balanced(stack', phase')
      BY <1>5, <1>t, <1>f, <2>1, BeginBalanced, FrameTypes DEF ChainOK, Active
    <2> QED BY <1>5, <1>c, <2>2
  \* A call of $apply, with the frame of what it evaluates.
  <1>6. ASSUME UNCHANGED chain, NEW s \in Scopes, NEW g \in Frames, NoHold(g),
               BeginPhase(s, "$apply", stack, <<ApplyFrame(s), g>>)
        PROVE  BalanceInv'
    <2>1. CASE InPhase(s)
      BY <1>6, <1>c, <1>t, <2>1 DEF BeginPhase
    <2>2. CASE ~InPhase(s)
      <3>1. phase' = [phase EXCEPT ![s] = "$apply"] /\ stack' = stack \o <<ApplyFrame(s), g>>
        BY <1>6, <2>2 DEF BeginPhase
      <3>2. ApplyFrame(s) \in Frames /\ Append(stack, ApplyFrame(s)) \in Seq(Frames)
        BY <1>t, FrameTypes, StackOps
      <3>3. stack \o <<ApplyFrame(s), g>> = Append(Append(stack, ApplyFrame(s)), g)
        BY <1>t, <3>2
      <3>4. phase[s] \notin Active
        <4>1. chain[s] \in Seq(Scopes) /\ chain[s] # <<>> /\ chain[s][1] = s
          BY <1>t DEF ChainOK
        <4>2. 1 \in DOMAIN chain[s] /\ 1..(1 - 1) = {}
          BY <4>1, EmptySeq
        <4> QED BY <2>2, <4>1, <4>2 DEF InPhase, Active
      <3>5. Balanced(Append(stack, ApplyFrame(s)), phase')
        BY <1>t, <1>f, <3>1, <3>2, <3>4, PushHolder DEF Active
      <3>6. Balanced(stack', phase')
        BY <1>6, <3>1, <3>2, <3>3, <3>5, PushNoHold
      <3> QED BY <1>6, <1>c, <3>6
    <2> QED BY <2>1, <2>2
  <1>7. ASSUME \/ Uncaught \/ EvalAsync \/ PostDigest \/ Catch \/ Report
               \/ \E c \in Cells, v \in Vals : SetCell(c, v)
               \/ \E s \in Scopes, w \in Watchers : Watch(s, w)
               \/ \E w \in Watchers : Unwatch(w)
               \/ \E s \in Scopes : Destroy(s) \/ ApplyAsync(s)
               \/ UNCHANGED vars
        PROVE  BalanceInv'
    <2>1. UNCHANGED <<chain, stack, phase>>
      BY <1>7 DEF Uncaught, EvalAsync, PostDigest, Catch, Report, SetCell, Watch, Unwatch,
                  Destroy, ApplyAsync, vars, tree
    <2> QED BY <2>1, <1>1
  <1>8. ASSUME NEW s \in Scopes, NEW p, NEW c, NEW isolated, NewScope(s, p, isolated, c)
        PROVE  BalanceInv'
    <2>1. /\ c \in Scopes /\ stack' = stack
          /\ chain' = [chain EXCEPT ![c] = IF isolated THEN <<c>> ELSE <<c>> \o chain[s]]
          /\ phase' = [phase EXCEPT ![c] = IF isolated THEN "null" ELSE "absent"]
      BY <1>8 DEF NewScope
    <2>2. <<c>> \o chain[s] # <<>> /\ (<<c>> \o chain[s])[1] = c
      <3>1. chain[s] \in Seq(Scopes) /\ <<c>> \in Seq(Scopes)
        BY <1>t, <2>1
      <3> QED BY <3>1, ConcatProperties
    <2>3. <<c>> # <<>> /\ <<c>>[1] = c
      OBVIOUS
    <2>4. ChainOK'
      BY <1>t, <2>1, <2>2, <2>3 DEF ChainOK, TypeOK
    <2>5. phase[c] \notin Active /\ phase'[c] \notin Active
      BY <1>8, <2>1, <1>t DEF NewScope, BornOK, Active
    <2>6. \A t \in Scopes, q \in Active : phase'[t] = q <=> phase[t] = q
      BY <1>t, <2>1, <2>5
    <2>7. Balanced(stack', phase')
      BY <1>t, <2>1, <2>6 DEF Balanced, Agree
    <2> QED BY <2>4, <2>7 DEF BalanceInv
  <1>9. ASSUME BeginTurn PROVE BalanceInv'
    <2>1. stack' = Append(stack, UserFrame("turn"))
      BY <1>9 DEF BeginTurn
    <2> QED BY <1>9, <1>2, <2>1 DEF BeginTurn, tree, Contexts
  <1>10. ASSUME DrainAsync PROVE BalanceInv'
    BY <1>10, <1>2 DEF DrainAsync, Push, tree, Contexts
  <1>11. ASSUME FlushTask PROVE BalanceInv'
    BY <1>11, <1>2 DEF FlushTask, Push, tree, Contexts
  <1>12. ASSUME DrainPost PROVE BalanceInv'
    <2>1. UNCHANGED <<chain, phase>>
      BY <1>12 DEF DrainPost, tree
    <2>2. UNCHANGED stack \/ stack' = Append(stack, UserFrame("post"))
      BY <1>12 DEF DrainPost, Push
    <2> QED BY <1>1, <1>2, <2>1, <2>2 DEF Contexts
  <1>13. ASSUME Return \/ Throw \/ Propagate \/ DigestDone \/ FlushDone \/ ApplyDone
         PROVE  BalanceInv'
    <2>1. UNCHANGED <<chain, phase>> /\ stack # <<>> /\ stack' = Popped
      BY <1>13 DEF Return, Throw, Propagate, DigestDone, FlushDone, ApplyDone, May, InUser,
                   Caught, At, tree
    <2>2. NoHold(Top)
      BY <1>13 DEF Return, Throw, Propagate, DigestDone, FlushDone, ApplyDone, May, InUser,
                   Caught, At, NoHold, Holds, LoopPcs
    <2> QED BY <1>3, <2>1, <2>2
  <1>fr. stack # <<>> => Top \in Frames
    BY <1>t, StackOps
  <1>14. ASSUME \/ StartPass \/ EmptySlot \/ PassAgain
                \/ \E w \in Watchers : WatchFnThrows(w)
                \/ \E w \in Watchers, v \in Vals : WatchClean(w, v)
                \/ ReadChildren \/ EnterChild \/ LeaveScope
         PROVE  BalanceInv'
    <2>1. /\ UNCHANGED <<chain, phase>> /\ stack # <<>>
          /\ Top.k = "digest" /\ Top.pc \in LoopPcs
      BY <1>14 DEF StartPass, EmptySlot, PassAgain, WatchFnThrows, WatchClean, Evaluates,
                   ReadChildren, EnterChild, LeaveScope, Scanning, PassOver, At, tree, LoopPcs
    <2>2. \E f : f.k = "digest" /\ f.s = Top.s /\ f.pc \in LoopPcs /\ stack' = With(f)
      <3>1. Top \in Frames
        BY <1>fr, <2>1
      <3>2. CASE StartPass
        BY <3>1, <3>2, <2>1 DEF StartPass, Frames, LoopPcs
      <3>3. CASE PassAgain
        BY <3>1, <3>3, <2>1 DEF PassAgain, Frames, LoopPcs
      <3>4. \A tr : /\ [Top EXCEPT !.trav = tr].k = "digest" /\ [Top EXCEPT !.trav = tr].s = Top.s
                    /\ [Top EXCEPT !.trav = tr].pc \in LoopPcs
        BY <3>1, <2>1 DEF Frames
      <3>5. CASE \/ EmptySlot \/ \E w \in Watchers : WatchFnThrows(w)
                 \/ \E w \in Watchers, v \in Vals : WatchClean(w, v)
                 \/ ReadChildren \/ EnterChild \/ LeaveScope
        <4>1. \E tr : stack' = With([Top EXCEPT !.trav = tr])
          BY <3>5, Zenon DEF EmptySlot, WatchFnThrows, WatchClean, ReadChildren, EnterChild, LeaveScope
        <4> QED BY <3>4, <4>1
      <3> QED BY <1>14, <3>2, <3>3, <3>5
    <2> QED BY <1>4, <2>1, <2>2
  <1>15. ASSUME NEW w \in Watchers, NEW v \in Vals, WatchDirty(w, v) PROVE BalanceInv'
    <2>1. /\ UNCHANGED <<chain, phase>> /\ stack # <<>>
          /\ Top.k = "digest" /\ Top.pc \in LoopPcs
          /\ stack' = Append(With([Top EXCEPT !.flag = TRUE, !.trav = NextSlot]),
                             UserFrame("listener"))
      BY <1>15 DEF WatchDirty, Evaluates, Scanning, At, tree, LoopPcs
    <2>2. /\ [Top EXCEPT !.flag = TRUE, !.trav = NextSlot].k = "digest"
          /\ [Top EXCEPT !.flag = TRUE, !.trav = NextSlot].s = Top.s
          /\ [Top EXCEPT !.flag = TRUE, !.trav = NextSlot].pc \in LoopPcs
      BY <1>fr, <2>1 DEF Frames
    <2>3. UserFrame("listener") \in Frames
      BY FrameTypes DEF Contexts
    <2> QED BY <1>4, <1>f, <2>1, <2>2, <2>3
  <1>16. ASSUME BeginFlush PROVE BalanceInv'
    <2>1. /\ UNCHANGED <<chain, phase>> /\ stack # <<>>
          /\ Top.k = "digest" /\ Top.pc \in LoopPcs
          /\ stack' = Append(With([Top EXCEPT !.pc = "flush"]), FlushFrame)
      BY <1>16 DEF BeginFlush, PassOver, At, tree, LoopPcs
    <2>2. /\ [Top EXCEPT !.pc = "flush"].k = "digest" /\ [Top EXCEPT !.pc = "flush"].s = Top.s
          /\ [Top EXCEPT !.pc = "flush"].pc \in LoopPcs
      BY <1>fr, <2>1 DEF Frames, LoopPcs
    <2> QED BY <1>4, <1>f, <2>1, <2>2, FrameTypes
  <1>17. ASSUME Settle PROVE BalanceInv'
    <2>1. /\ UNCHANGED chain /\ stack # <<>> /\ Top.k = "digest" /\ Top.pc \in LoopPcs
          /\ phase' = [phase EXCEPT ![Top.s] = "null"]
          /\ stack' = With([Top EXCEPT !.pc = "post"])
      BY <1>17 DEF Settle, PassOver, At, Become, ClearPhase, tree, LoopPcs
    <2>2. /\ [Top EXCEPT !.pc = "post"].s = Top.s /\ NoHold([Top EXCEPT !.pc = "post"])
      BY <1>fr, <2>1 DEF Frames, NoHold, Holds, LoopPcs
    <2>3. \E p \in Active : Holds(Top, p)
      BY <2>1 DEF Holds, Active
    <2> QED BY <1>c, <1>t, <2>1, <2>2, <2>3, SwapRelease
  <1>18. ASSUME ApplyEvaluated PROVE BalanceInv'
    <2>1. /\ UNCHANGED chain /\ stack # <<>> /\ Top.k = "apply" /\ Top.pc = "eval"
          /\ phase' = [phase EXCEPT ![Top.s] = "null"]
          /\ stack' = With([Top EXCEPT !.pc = "finally", !.flag = throwing])
      BY <1>18 DEF ApplyEvaluated, ClearPhase, tree
    <2>2. /\ [Top EXCEPT !.pc = "finally", !.flag = throwing].s = Top.s
          /\ NoHold([Top EXCEPT !.pc = "finally", !.flag = throwing])
      BY <1>fr, <2>1 DEF Frames, NoHold, Holds, LoopPcs
    <2>3. \E p \in Active : Holds(Top, p)
      BY <2>1 DEF Holds, Active
    <2> QED BY <1>c, <1>t, <2>1, <2>2, <2>3, SwapRelease
  <1>19. ASSUME TtlAbort PROVE BalanceInv'
    <2>1. /\ UNCHANGED chain /\ stack # <<>> /\ Top.k = "digest" /\ Top.pc \in LoopPcs
          /\ phase' = [phase EXCEPT ![Top.s] = "null"] /\ stack' = Popped
      BY <1>19 DEF TtlAbort, PassOver, At, ClearPhase, tree, LoopPcs
    <2>2. \E p \in Active : Holds(Top, p)
      BY <2>1 DEF Holds, Active
    <2> QED BY <1>c, <1>t, <2>1, <2>2, PopRelease
  <1>20. ASSUME EvalAsyncTimeout PROVE BalanceInv'
    <2>1. UNCHANGED chain /\ (UNCHANGED <<phase, stack>> \/ CallDigest(Root, stack))
      BY <1>20 DEF EvalAsyncTimeout, tree
    <2> QED BY <1>1, <1>5, <1>t, <2>1, ScopeAssumption DEF ScopeAssumption
  <1>21. ASSUME NEW s \in Scopes, Digest(s) PROVE BalanceInv'
    BY <1>21, <1>5, <1>t DEF Digest, tree
  <1>22. ASSUME ApplyDigests PROVE BalanceInv'
    <2> DEFINE f == [Top EXCEPT !.pc = "digest"]
    <2>1. UNCHANGED chain /\ stack # <<>> /\ Top.k = "apply" /\ Top.pc = "finally"
          /\ CallDigest(Root, With(f))
      BY <1>22 DEF ApplyDigests, At, tree
    <2>2. f \in Frames /\ f.s = Top.s /\ \A p \in Active : ~Holds(f, p) /\ ~Holds(Top, p)
      BY <1>fr, <2>1 DEF Frames, Holds, LoopPcs
    <2>3. With(f) \in Seq(Frames)
      BY <1>t, <2>1, <2>2, StackOps
    <2> HIDE DEF f
    <2>4. Balanced(With(f), phase)
      BY <1>t, <2>1, <2>2, SwapSame
    <2> QED BY <1>5, <2>1, <2>3, <2>4, ScopeAssumption DEF ScopeAssumption
  <1>23. ASSUME NEW s \in Scopes, Apply(s) PROVE BalanceInv'
    <2>1. UserFrame("apply") \in Frames
      BY FrameTypes DEF Contexts
    <2> QED BY <1>23, <1>6, <1>f, <2>1 DEF Apply, tree
  <1>24. ASSUME ApplyAsyncTimeout PROVE BalanceInv'
    <2>1. Head(applyTimers) \in Scopes /\ UNCHANGED chain
      BY <1>24, HeadTailProperties DEF ApplyAsyncTimeout, TypeOK, tree
    <2>2. BeginPhase(Head(applyTimers), "$apply", stack,
                     <<ApplyFrame(Head(applyTimers)), FlushFrame>>)
      BY <1>24 DEF ApplyAsyncTimeout
    <2> QED BY <1>6, <1>f, <2>1, <2>2, FrameTypes
  <1>uo. ASSUME UserOp PROVE BalanceInv'
    <2>1. CASE \E s \in Scopes : Destroy(s) \/ ApplyAsync(s) \/ Digest(s) \/ Apply(s)
      BY <2>1, <1>7, <1>21, <1>23
    <2>2. CASE \E s, p, c \in Scopes, isolated \in BOOLEAN : NewScope(s, p, isolated, c)
      BY <2>2, <1>8
    <2> QED BY <1>uo, <1>7, <1>13, <2>1, <2>2, Zenon DEF UserOp
  <1>ps. ASSUME Pass PROVE BalanceInv'
    BY <1>ps, <1>14, <1>15, Zenon DEF Pass
  <1> QED
    BY <1>7, <1>9, <1>10, <1>11, <1>12, <1>13, <1>14, <1>16, <1>17, <1>18, <1>19, <1>20, <1>22,
       <1>24, <1>uo, <1>ps, Zenon DEF Next, Engine, Timeout

\* A scope is in a phase exactly while a call of $digest or $apply on it is on
\* the stack: no way out of $digest, $apply or the timeouts leaks a phase.
THEOREM PhasesAgreeWithCalls == Spec => []PhaseBalanced
  <1>1. Init => TypeOK /\ BornOK /\ BalanceInv
    BY InitType, InitBorn, InitBalance
  <1>2. TypeOK /\ BornOK /\ BalanceInv /\ [Next]_vars => (TypeOK /\ BornOK /\ BalanceInv)'
    BY NextType, NextBorn, NextBalance
  <1>3. TypeOK /\ BalanceInv => PhaseBalanced
    <2> SUFFICES ASSUME TypeOK, BalanceInv PROVE PhaseBalanced
      OBVIOUS
    <2>1. DOMAIN stack = 1..Len(stack)
      BY DEF TypeOK
    <2> QED BY <2>1 DEF BalanceInv, Balanced, Agree, PhaseBalanced, Active
  <1> QED BY <1>1, <1>2, <1>3, PTL DEF Spec

-----------------------------------------------------------------------------
(* $applyAsync work                                                        *)

HasFlush(stk) == \E i \in 1..Len(stk) : stk[i].k = "flush"

\* Why no $applyAsync work is stranded: the id tells a pending timeout or a
\* running flush, and no task is queued without an id.
ServeInv ==
  /\ applyId = "spent" => HasFlush(stack)
  /\ applyId = "armed" => applyTimers # <<>>
  /\ applyN > 0 => applyId # "null"

\* A running flush goes on when frames are pushed, replaced in kind, or popped
\* above it.
LEMMA FlushKept ==
  ASSUME stack \in Seq(Frames), HasFlush(stack)
  PROVE  /\ \A stk : stack # <<>> /\ Top.k # "flush" /\ stk = Popped => HasFlush(stk)
         /\ \A f : f.k = Top.k => HasFlush(With(f))
  <1>1. stack # <<>> /\ Len(stack) \in Nat \ {0}
    BY EmptySeq DEF HasFlush
  <1>2. PICK i \in 1..Len(stack) : stack[i].k = "flush"
    BY DEF HasFlush
  <1>3. ASSUME Top.k # "flush" PROVE HasFlush(Popped)
    <2>1. i \in 1..Len(Popped) /\ Popped[i] = stack[i]
      BY SMTT(30), <1>1, <1>2, <1>3, StackOps DEF Top
    <2> QED BY <1>2, <2>1 DEF HasFlush
  <1>4. ASSUME NEW f, f.k = Top.k PROVE HasFlush(With(f))
    <2>1. /\ Len(With(f)) = Len(stack)
          /\ With(f)[i] = IF i = Len(stack) THEN f ELSE stack[i]
      BY <1>1, <1>2, WithOps
    <2>2. With(f)[i].k = "flush"
      BY <1>2, <1>4, <2>1 DEF Top
    <2> QED BY <1>2, <2>1, <2>2 DEF HasFlush
  <1> QED BY <1>3, <1>4

LEMMA FlushUnder ==
  ASSUME NEW S, NEW stk \in Seq(S), NEW f \in S, HasFlush(stk) \/ f.k = "flush"
  PROVE  HasFlush(Append(stk, f))
  <1>1. /\ Len(Append(stk, f)) = Len(stk) + 1 /\ Len(stk) \in Nat
        /\ \A i \in 1..Len(stk) : Append(stk, f)[i] = stk[i]
        /\ Append(stk, f)[Len(stk) + 1] = f
    BY AppendProperties
  <1>2. Len(stk) + 1 \in 1..Len(Append(stk, f))
        /\ \A i \in 1..Len(stk) : i \in 1..Len(Append(stk, f))
    BY <1>1
  <1> QED BY <1>1, <1>2 DEF HasFlush

\* Beginning a call keeps what the base holds.
LEMMA FlushBelowCall ==
  ASSUME NEW base \in Seq(Frames), NEW s, NEW ph, NEW frames \in Seq(Frames),
         HasFlush(base), BeginPhase(s, ph, base, frames)
  PROVE  HasFlush(stack')
  <1>1. /\ base \o frames \in Seq(Frames)
        /\ Len(base \o frames) = Len(base) + Len(frames)
        /\ Len(base) \in Nat /\ Len(frames) \in Nat
        /\ \A i \in 1..Len(base) : (base \o frames)[i] = base[i]
    BY ConcatProperties
  <1>2. HasFlush(base \o frames)
    BY <1>1 DEF HasFlush
  <1> QED BY <1>2 DEF BeginPhase

LEMMA InitServe == Init => ServeInv
  BY DEF Init, ServeInv

\* An engine at rest is in no phase, so no timeout's $apply is refused.
LEMMA IdleInNoPhase ==
  ASSUME TypeOK, BalanceInv, stack = <<>>, NEW s \in Scopes
  PROVE  ~InPhase(s)
  <1>1. 1..Len(stack) = {}
    OBVIOUS
  <1>2. \A t \in Scopes : phase[t] \notin Active
    BY <1>1 DEF BalanceInv, Balanced, Agree
  <1>3. \A i \in DOMAIN chain[s] : chain[s][i] \in Scopes
    BY DEF TypeOK
  <1> QED BY <1>2, <1>3 DEF InPhase, Active

\* Every step keeps $applyAsync work served.
LEMMA NextServe == TypeOK /\ BalanceInv /\ ServeInv /\ [Next]_vars => ServeInv'
  <1> SUFFICES ASSUME TypeOK, BalanceInv, ServeInv, [Next]_vars PROVE ServeInv'
    OBVIOUS
  <1>t. stack \in Seq(Frames) /\ \A at \in Contexts : UserFrame(at) \in Frames
    BY FrameTypes DEF TypeOK
  <1>fr. stack # <<>> => Top \in Frames
    BY <1>t, StackOps
  \* Steps that leave the $applyAsync state alone, and every flush running.
  <1>1. ASSUME UNCHANGED <<applyN, applyId, applyTimers>>, HasFlush(stack) => HasFlush(stack')
        PROVE  ServeInv'
    BY <1>1 DEF ServeInv
  <1>2. ASSUME \/ Uncaught \/ EvalAsync \/ PostDigest \/ Catch \/ Report
               \/ \E c \in Cells, v \in Vals : SetCell(c, v)
               \/ \E s \in Scopes, w \in Watchers : Watch(s, w)
               \/ \E w \in Watchers : Unwatch(w)
               \/ \E s, p, c \in Scopes, isolated \in BOOLEAN : NewScope(s, p, isolated, c)
               \/ \E s \in Scopes : Destroy(s)
               \/ UNCHANGED vars
        PROVE  ServeInv'
    <2>1. UNCHANGED <<applyN, applyId, applyTimers, stack>>
      BY <1>2 DEF Uncaught, EvalAsync, PostDigest, Catch, Report, SetCell, Watch, Unwatch,
                  NewScope, Destroy, vars, queues
    <2> QED BY <1>1, <2>1
  <1>3. ASSUME NEW s \in Scopes, ApplyAsync(s) PROVE ServeInv'
    <2>1. Append(applyTimers, s) # <<>>
      <3>1. applyTimers \in Seq(Scopes)
        BY DEF TypeOK
      <3> QED BY <3>1, AppendProperties
    <2> QED BY <1>3, <2>1 DEF ApplyAsync, ServeInv, TypeOK
  <1>4. ASSUME BeginTurn \/ DrainAsync PROVE ServeInv'
    <2>1. UNCHANGED <<applyN, applyId, applyTimers>>
      BY <1>4 DEF BeginTurn, DrainAsync, queues
    <2>2. \/ stack' = Append(stack, UserFrame("turn"))
          \/ stack' = Append(stack, UserFrame("async"))
      <3>1. CASE BeginTurn
        BY <3>1 DEF BeginTurn
      <3>2. CASE DrainAsync
        BY <3>2 DEF DrainAsync, Push
      <3> QED BY <1>4, <3>1, <3>2
    <2> QED BY <1>1, <1>t, <2>1, <2>2, FlushUnder DEF Contexts
  <1>5. ASSUME FlushTask PROVE ServeInv'
    <2>1. UNCHANGED <<applyId, applyTimers>> /\ applyN > 0 /\ applyN' = applyN - 1
          /\ stack' = Append(stack, UserFrame("task"))
      BY <1>5 DEF FlushTask, Push
    <2>2. HasFlush(stack) => HasFlush(stack')
      BY <1>t, <2>1, FlushUnder DEF Contexts
    <2> QED BY <2>1, <2>2 DEF ServeInv
  <1>6. ASSUME DrainPost PROVE ServeInv'
    <2>1. UNCHANGED <<applyN, applyId, applyTimers>>
          /\ (UNCHANGED stack \/ stack' = Append(stack, UserFrame("post")))
      BY <1>6 DEF DrainPost, Push
    <2> QED BY <1>1, <1>t, <2>1, FlushUnder DEF Contexts
  <1>7. ASSUME Return \/ Throw \/ Propagate \/ DigestDone \/ ApplyDone \/ TtlAbort PROVE ServeInv'
    <2>1. UNCHANGED <<applyN, applyId, applyTimers>> /\ stack # <<>> /\ stack' = Popped
      BY <1>7 DEF Return, Throw, Propagate, DigestDone, ApplyDone, TtlAbort, PassOver, May,
                  InUser, Caught, At, queues
    <2>2. Top.k # "flush"
      BY <1>7 DEF Return, Throw, Propagate, DigestDone, ApplyDone, TtlAbort, PassOver, May,
                  InUser, Caught, At
    <2> QED BY <1>1, <1>t, <2>1, <2>2, FlushKept
  <1>8. ASSUME FlushDone PROVE ServeInv'
    BY <1>8 DEF FlushDone, ServeInv
  <1>9. ASSUME \/ StartPass \/ EmptySlot \/ PassAgain \/ Settle \/ ApplyEvaluated
               \/ \E w \in Watchers : WatchFnThrows(w)
               \/ \E w \in Watchers, v \in Vals : WatchClean(w, v)
               \/ ReadChildren \/ EnterChild \/ LeaveScope
        PROVE  ServeInv'
    <2>1. UNCHANGED <<applyN, applyId, applyTimers>> /\ stack # <<>>
      BY <1>9 DEF StartPass, EmptySlot, PassAgain, WatchFnThrows, WatchClean, Evaluates, Settle,
                  ApplyEvaluated, ReadChildren, EnterChild, LeaveScope, Scanning, PassOver, At,
                  queues
    <2>2. \E f : f.k = Top.k /\ stack' = With(f)
      <3>1. Top \in Frames
        BY <1>fr, <2>1
      <3>2. CASE StartPass
        BY <3>1, <3>2 DEF StartPass, Frames
      <3>3. CASE PassAgain
        BY <3>1, <3>3 DEF PassAgain, Frames
      <3>4. CASE Settle
        BY <3>1, <3>4 DEF Settle, Become, Frames
      <3>5. CASE ApplyEvaluated
        BY <3>1, <3>5 DEF ApplyEvaluated, Frames
      <3>6. \A tr : [Top EXCEPT !.trav = tr].k = Top.k
        BY <3>1 DEF Frames
      <3>7. CASE \/ EmptySlot \/ \E w \in Watchers : WatchFnThrows(w)
                 \/ \E w \in Watchers, v \in Vals : WatchClean(w, v)
                 \/ ReadChildren \/ EnterChild \/ LeaveScope
        <4>1. \E tr : stack' = With([Top EXCEPT !.trav = tr])
          BY <3>7, Zenon DEF EmptySlot, WatchFnThrows, WatchClean, ReadChildren, EnterChild, LeaveScope
        <4> QED BY <3>6, <4>1
      <3> QED BY <1>9, <3>2, <3>3, <3>4, <3>5, <3>7
    <2> QED BY <1>1, <1>t, <2>1, <2>2, FlushKept
  <1>10. ASSUME NEW w \in Watchers, NEW v \in Vals, WatchDirty(w, v) PROVE ServeInv'
    <2> DEFINE f == [Top EXCEPT !.flag = TRUE, !.trav = NextSlot]
    <2>1. /\ UNCHANGED <<applyN, applyId, applyTimers>> /\ stack # <<>>
          /\ stack' = Append(With(f), UserFrame("listener"))
      BY <1>10 DEF WatchDirty, Evaluates, Scanning, At
    <2>2. f.k = Top.k
      BY <1>fr, <2>1 DEF Frames
    <2> HIDE DEF f
    <2>3. With(f) \in Seq(Frames \cup {f}) /\ UserFrame("listener") \in Frames \cup {f}
      BY <1>t, <2>1, WithOps DEF Contexts
    <2>4. HasFlush(stack) => HasFlush(stack')
      BY <1>t, <2>1, <2>2, <2>3, FlushKept, FlushUnder
    <2> QED BY <1>1, <2>1, <2>4
  <1>11. ASSUME BeginFlush PROVE ServeInv'
    <2> DEFINE f == [Top EXCEPT !.pc = "flush"]
    <2>1. /\ applyId' = "spent" /\ stack # <<>>
          /\ stack' = Append(With(f), FlushFrame)
      BY <1>11 DEF BeginFlush, PassOver, At
    <2> HIDE DEF f
    <2>2. With(f) \in Seq(Frames \cup {f}) /\ FlushFrame \in Frames \cup {f}
      BY <1>t, <2>1, WithOps, FrameTypes
    <2>3. HasFlush(stack')
      BY <2>1, <2>2, FlushUnder DEF FlushFrame, Frame
    <2> QED BY <2>1, <2>3 DEF ServeInv
  <1>12. ASSUME NEW s \in Scopes, NEW base \in Seq(Frames), HasFlush(stack) => HasFlush(base),
                CallDigest(s, base), UNCHANGED <<applyN, applyId, applyTimers>>
         PROVE  ServeInv'
    <2>1. <<DigestFrame(s)>> \in Seq(Frames)
      BY FrameTypes
    <2> QED BY <1>1, <1>12, <2>1, FlushBelowCall DEF CallDigest
  <1>13. ASSUME EvalAsyncTimeout PROVE ServeInv'
    <2>1. /\ UNCHANGED <<applyN, applyId, applyTimers>>
          /\ UNCHANGED stack \/ CallDigest(Root, stack)
      BY <1>13 DEF EvalAsyncTimeout
    <2> QED BY <1>1, <1>12, <1>t, <2>1, ScopeAssumption DEF ScopeAssumption
  <1>14. ASSUME NEW s \in Scopes, Digest(s) PROVE ServeInv'
    BY <1>14, <1>12, <1>t DEF Digest, queues
  <1>15. ASSUME ApplyDigests PROVE ServeInv'
    <2> DEFINE f == [Top EXCEPT !.pc = "digest"]
    <2>1. stack # <<>> /\ CallDigest(Root, With(f)) /\ UNCHANGED <<applyN, applyId, applyTimers>>
      BY <1>15 DEF ApplyDigests, At, queues
    <2>2. f \in Frames /\ f.k = Top.k
      BY <1>fr, <2>1 DEF Frames
    <2> HIDE DEF f
    <2>3. With(f) \in Seq(Frames) /\ (HasFlush(stack) => HasFlush(With(f)))
      BY <1>t, <2>1, <2>2, StackOps, FlushKept
    <2> QED BY <1>12, <2>1, <2>3, ScopeAssumption DEF ScopeAssumption
  <1>16. ASSUME NEW s \in Scopes, Apply(s) PROVE ServeInv'
    <2>1. <<ApplyFrame(s), UserFrame("apply")>> \in Seq(Frames)
      BY FrameTypes DEF Contexts
    <2> QED BY <1>1, <1>16, <1>t, <2>1, FlushBelowCall DEF Apply, queues
  <1>17. ASSUME ApplyAsyncTimeout PROVE ServeInv'
    <2>1. Head(applyTimers) \in Scopes /\ stack = <<>>
      BY <1>17, HeadTailProperties DEF ApplyAsyncTimeout, TypeOK
    <2>2. stack' = <<>> \o <<ApplyFrame(Head(applyTimers)), FlushFrame>>
      BY <1>17, <2>1, IdleInNoPhase DEF ApplyAsyncTimeout, BeginPhase
    <2>3. <<ApplyFrame(Head(applyTimers))>> \in Seq(Frames) /\ FlushFrame \in Frames
          /\ ApplyFrame(Head(applyTimers)) \in Frames
      BY <2>1, FrameTypes
    <2>4. stack' = Append(<<ApplyFrame(Head(applyTimers))>>, FlushFrame)
      BY <2>2, <2>3
    <2>5. HasFlush(stack')
      BY <2>3, <2>4, FlushUnder DEF FlushFrame, Frame
    <2> QED BY <1>17, <2>5 DEF ApplyAsyncTimeout, ServeInv
  <1>uo. ASSUME UserOp PROVE ServeInv'
    <2>1. CASE \E s \in Scopes : Destroy(s) \/ ApplyAsync(s) \/ Digest(s) \/ Apply(s)
      BY <2>1, <1>2, <1>3, <1>14, <1>16
    <2> QED BY <1>uo, <1>2, <1>7, <2>1, Zenon DEF UserOp
  <1>ps. ASSUME Pass PROVE ServeInv'
    BY <1>ps, <1>9, <1>10, Zenon DEF Pass
  <1> QED
    BY <1>2, <1>4, <1>5, <1>6, <1>7, <1>8, <1>9, <1>11, <1>13, <1>15, <1>17, <1>uo, <1>ps, Zenon
    DEF Next, Engine, Timeout

\* $applyAsync work is never stranded: while a task is queued, or an id keeps
\* later calls from arming a timeout, a timeout is pending or a flush runs.
THEOREM TasksNeverStranded == Spec => []TasksServed
  <1>1. Init => TypeOK /\ BornOK /\ BalanceInv /\ ServeInv
    BY InitType, InitBorn, InitBalance, InitServe
  <1>2. TypeOK /\ BornOK /\ BalanceInv /\ ServeInv /\ [Next]_vars
          => (TypeOK /\ BornOK /\ BalanceInv /\ ServeInv)'
    BY NextType, NextBorn, NextBalance, NextServe
  <1>3. TypeOK /\ ServeInv => TasksServed
    BY DEF ServeInv, TasksServed, HasFlush, TypeOK
  <1> QED BY <1>1, <1>2, <1>3, PTL DEF Spec

-----------------------------------------------------------------------------
(* One-time watchers                                                       *)

\* What a one-time watcher still lacks before it may rest: it is gone, it has
\* produced nothing, or its deregistration is queued.
Settled(w) == \/ home[w] = Null \/ Detached(w)
              \/ last[w] \in {Undef, NoVal}
              \/ \E i \in DOMAIN post : post[i] = w

LEMMA DetachesIsSettled ==
  OneTimeDetaches <=> \A w \in Watchers : Kind[w] = "oneTime" => Settled(w)
  BY DEF OneTimeDetaches, Settled

\* Emptying the slots of a watcher takes it out of the array of its scope and
\* puts none back.
LEMMA ClearedDetaches ==
  ASSUME TypeOK, NEW w \in Watchers, watchers' = Cleared(w), UNCHANGED <<dead, home>>
  PROVE  /\ home[w] # Null => Detached(w)'
         /\ \A u \in Watchers : home[u] # Null /\ Detached(u) => Detached(u)'
  <1>1. \A u \in Watchers : home[u] # Null => home[u] \in Scopes
    BY DEF TypeOK
  <1>2. \A s \in Scopes : DOMAIN watchers'[s] = DOMAIN watchers[s]
    BY DEF Cleared, TypeOK
  <1>3. \A s \in Scopes : \A i \in DOMAIN watchers[s] :
          watchers'[s][i] = IF s = home[w] /\ watchers[s][i] = w THEN Null ELSE watchers[s][i]
    BY DEF Cleared, TypeOK
  <1>4. Null \notin Watchers
    BY ScopeAssumption DEF ScopeAssumption
  <1>5. home[w] # Null => Detached(w)'
    BY <1>1, <1>2, <1>3, <1>4 DEF Detached
  <1>6. ASSUME NEW u \in Watchers, home[u] # Null, Detached(u) PROVE Detached(u)'
    BY <1>1, <1>2, <1>3, <1>4, <1>6 DEF Detached
  <1> QED BY <1>5, <1>6

\* A watcher taken out of the array of its scope never comes back, and the
\* deregistration function takes its watcher out (registrations only append
\* watchers that were never registered).
LEMMA DeregisterDetaches ==
  ASSUME TypeOK, NEW w \in Watchers, NEW ld, Deregister(w, ld),
         UNCHANGED <<dead, home>>
  PROVE  /\ home[w] # Null => Detached(w)'
         /\ \A u \in Watchers : home[u] # Null /\ Detached(u) => Detached(u)'
  <1>1. CASE Detached(w)
    BY <1>1 DEF Deregister, Detached
  <1>2. CASE ~Detached(w)
    BY <1>2, ClearedDetaches DEF Deregister
  <1> QED BY <1>1, <1>2

\* A watcher stays settled while the arrays lose it, its scope dies, or the
\* queue grows, provided it keeps the value it last produced.
LEMMA SettledStays ==
  ASSUME NEW w \in Watchers, Settled(w),
         home'[w] = home[w], last'[w] = last[w],
         home[w] # Null /\ Detached(w) => Detached(w)',
         \A i \in DOMAIN post : \E j \in DOMAIN post' : post'[j] = post[i]
  PROVE  Settled(w)'
  BY DEF Settled

LEMMA InitDetaches == Init => OneTimeDetaches
  BY DEF Init, OneTimeDetaches

\* Appending to the post-digest queue leaves its entries in it.
LEMMA PostGrows ==
  ASSUME post \in Seq(Watchers \cup {UserFn}), NEW e \in Watchers \cup {UserFn},
         post' = Append(post, e)
  PROVE  /\ \A i \in DOMAIN post : \E j \in DOMAIN post' : post'[j] = post[i]
         /\ \E j \in DOMAIN post' : post'[j] = e
  <1>1. /\ DOMAIN post = 1..Len(post) /\ Len(post) \in Nat
        /\ DOMAIN post' = 1..(Len(post) + 1)
        /\ \A i \in 1..Len(post) : post'[i] = post[i]
        /\ post'[Len(post) + 1] = e
    BY AppendProperties
  <1>2. Len(post) + 1 \in 1..(Len(post) + 1)
        /\ \A i \in 1..Len(post) : i \in 1..(Len(post) + 1)
    BY <1>1
  <1> QED BY <1>1, <1>2

\* Every step keeps the one-time watchers settled.
LEMMA NextDetaches == TypeOK /\ OneTimeDetaches /\ [Next]_vars => OneTimeDetaches'
  <1> SUFFICES ASSUME TypeOK, [Next]_vars,
                      \A u \in Watchers : Kind[u] = "oneTime" => Settled(u)
               PROVE  \A u \in Watchers : Kind[u] = "oneTime" => Settled(u)'
    BY DetachesIsSettled DEF OneTimeDetaches, Settled
  <1>p. post \in Seq(Watchers \cup {UserFn}) /\ UserFn \notin Watchers
    BY ScopeAssumption DEF TypeOK, ScopeAssumption
  <1> DEFINE Goal == \A u \in Watchers : Kind[u] = "oneTime" => Settled(u)'
             Grows == \A i \in DOMAIN post : \E j \in DOMAIN post' : post'[j] = post[i]
             Gone == \A u \in Watchers : home[u] # Null /\ Detached(u) => Detached(u)'
  <1>1. ASSUME UNCHANGED <<home, last>>, Grows, Gone PROVE Goal
    BY <1>1, SettledStays
  <1>2. ASSUME UNCHANGED <<home, dead, watchers>> PROVE Gone
    BY <1>2 DEF Detached
  <1>3. ASSUME UNCHANGED post PROVE Grows
    BY <1>3
  <1>q. ASSUME NEW w \in Watchers, NEW v, Queued(w, v)
        PROVE  /\ Grows
               /\ Kind[w] = "oneTime" /\ v # Undef => \E j \in DOMAIN post' : post'[j] = w
    BY <1>p, <1>q, PostGrows DEF Queued
  <1>o. ASSUME NEW w \in Watchers, NEW ld, OneShot(w, ld), UNCHANGED <<dead, home>> PROVE Gone
    <2>1. CASE Kind[w] = "constant"
      BY <1>o, <2>1, DeregisterDetaches DEF OneShot
    <2>2. CASE Kind[w] # "constant"
      BY <1>o, <2>2 DEF OneShot, Detached
    <2> QED BY <2>1, <2>2
  <1> HIDE DEF Goal, Grows, Gone
  \* Steps that leave the watchers, their homes and the queue alone.
  <1>4. ASSUME UNCHANGED <<dead, watchers, home, last, post>> PROVE Goal
    BY <1>4, <1>1, <1>2, <1>3
  <1>5. ASSUME \/ BeginTurn \/ Timeout \/ EvalAsync \/ Throw
               \/ \E c \in Cells, v \in Vals : SetCell(c, v)
               \/ \E s, p, c \in Scopes, isolated \in BOOLEAN : NewScope(s, p, isolated, c)
               \/ \E s \in Scopes : ApplyAsync(s) \/ Digest(s) \/ Apply(s)
        PROVE  Goal
    <2>1. UNCHANGED <<dead, watchers, home, last, post>>
      BY <1>5 DEF BeginTurn, Timeout, EvalAsyncTimeout, ApplyAsyncTimeout, EvalAsync, Throw,
                  SetCell, NewScope, ApplyAsync, Digest, Apply, tree, watch, queues
    <2> QED BY <2>1, <1>4
  <1>6. ASSUME \/ Return \/ Catch \/ Propagate \/ Uncaught \/ DrainAsync \/ PassAgain
               \/ TtlAbort \/ BeginFlush \/ Settle \/ DigestDone \/ Report \/ FlushTask
               \/ FlushDone \/ ApplyEvaluated \/ ApplyDigests \/ ApplyDone
        PROVE  Goal
    <2>1. UNCHANGED <<dead, watchers, home, last, post>>
      BY <1>6 DEF Return, Catch, Propagate, Uncaught, DrainAsync, PassAgain, TtlAbort,
                  BeginFlush, Settle, DigestDone, Report, FlushTask, FlushDone,
                  ApplyEvaluated, ApplyDigests, ApplyDone, tree, watch, queues
    <2> QED BY <2>1, <1>4
  <1>7. ASSUME StartPass \/ EmptySlot \/ ReadChildren \/ EnterChild \/ LeaveScope PROVE Goal
    <2>1. UNCHANGED <<dead, watchers, home, last, post>>
      BY <1>7 DEF StartPass, EmptySlot, ReadChildren, EnterChild, LeaveScope, tree, watch, queues
    <2> QED BY <2>1, <1>4
  <1>8. ASSUME NEW s \in Scopes, NEW w \in Watchers, Watch(s, w) PROVE Goal
    <2>1. CASE s \in dead
      BY <1>8, <2>1, <1>4 DEF Watch, tree, queues
    <2>2. CASE s \notin dead
      <3>1. /\ watchers' = [watchers EXCEPT ![s] = Append(@, w)]
            /\ home' = [home EXCEPT ![w] = s] /\ last' = [last EXCEPT ![w] = NoVal]
            /\ UNCHANGED <<dead, post>>
        BY <1>8, <2>2 DEF Watch, tree, queues
      <3>2. Settled(w)'
        BY <3>1 DEF Settled, TypeOK
      <3>3. ASSUME NEW u \in Watchers, u # w, Kind[u] = "oneTime" PROVE Settled(u)'
        <4>1. home'[u] = home[u] /\ last'[u] = last[u]
          BY <3>1, <3>3 DEF TypeOK
        <4>2. ASSUME home[u] # Null, Detached(u) PROVE Detached(u)'
          <5>1. home[u] \in Scopes /\ watchers[s] \in Seq(Watchers \cup {Null})
            BY <4>2 DEF TypeOK
          <5>2. CASE home[u] = s
            <6>1. watchers'[s] = Append(watchers[s], w)
              BY <3>1 DEF TypeOK
            <6>2. \A i \in DOMAIN watchers'[s] : \/ i \in DOMAIN watchers[s] /\ watchers'[s][i] = watchers[s][i]
                                                 \/ watchers'[s][i] = w
              BY <5>1, <6>1
            <6> QED BY <3>1, <3>3, <4>1, <4>2, <5>2, <6>2 DEF Detached
          <5>3. CASE home[u] # s
            BY <3>1, <4>1, <4>2, <5>1, <5>3 DEF Detached, TypeOK
          <5> QED BY <5>2, <5>3
        <4> QED BY <3>1, <3>3, <4>1, <4>2, SettledStays
      <3> QED BY <3>2, <3>3 DEF Goal
    <2> QED BY <2>1, <2>2
  <1>9. ASSUME NEW w \in Watchers, Unwatch(w) PROVE Goal
    BY <1>9, <1>1, <1>3, DeregisterDetaches DEF Unwatch, Gone, tree, queues
  <1>10. ASSUME NEW s \in Scopes, Destroy(s) PROVE Goal
    BY <1>10, <1>1, <1>3 DEF Destroy, Gone, Detached, watch, queues
  <1>11. ASSUME PostDigest PROVE Goal
    BY <1>11, <1>1, <1>2, <1>p, PostGrows DEF PostDigest, Grows, tree, watch
  <1>12. ASSUME NEW w \in Watchers, WatchFnThrows(w) PROVE Goal
    BY <1>12, <1>1, <1>3, <1>o DEF WatchFnThrows, tree, queues
  <1>13. ASSUME NEW w \in Watchers, NEW v \in Vals, WatchClean(w, v) PROVE Goal
    BY <1>13, <1>1, <1>q, <1>o DEF WatchClean, tree
  <1>14. ASSUME NEW w \in Watchers, NEW v \in Vals, WatchDirty(w, v) PROVE Goal
    <2>1. /\ last' = [last EXCEPT ![w] = v] /\ UNCHANGED <<dead, home>> /\ Queued(w, v)
          /\ \/ UNCHANGED watchers
             \/ watchers' = Cleared(w) /\ ~Detached(w)
      BY <1>14 DEF WatchDirty, tree
    <2>2. Gone
      <3>1. CASE UNCHANGED watchers
        BY <2>1, <3>1, <1>2
      <3>2. CASE watchers' = Cleared(w) /\ ~Detached(w)
        BY <2>1, <3>2, ClearedDetaches DEF Gone
      <3> QED BY <2>1, <3>1, <3>2
    <2>3. Kind[w] = "oneTime" => Settled(w)'
      BY <2>1, <1>q DEF Settled, TypeOK
    <2>4. ASSUME NEW u \in Watchers, u # w, Kind[u] = "oneTime" PROVE Settled(u)'
      BY <2>1, <2>2, <2>4, <1>q, SettledStays DEF Gone, Grows, TypeOK
    <2> QED BY <2>3, <2>4 DEF Goal
  <1>15. ASSUME DrainPost PROVE Goal
    <2>1. PICK e \in Watchers \cup {UserFn} :
            /\ post # <<>> /\ post' = Tail(post) /\ UNCHANGED <<dead, home, last>>
            /\ e = Head(post)
            /\ \/ UNCHANGED watchers /\ (e = UserFn \/ last[e] = Undef)
               \/ e # UserFn /\ Deregister(e, lastDirty)
      BY <1>15, <1>p, HeadTailProperties DEF DrainPost, tree
    <2>2. \A i \in DOMAIN post : post[i] = e \/ \E j \in DOMAIN post' : post'[j] = post[i]
      <3>1. /\ DOMAIN post = 1..Len(post) /\ DOMAIN post' = 1..(Len(post) - 1)
            /\ Len(post) \in Nat \ {0} /\ e = post[1]
            /\ \A j \in 1..(Len(post) - 1) : post'[j] = post[j + 1]
        BY <1>p, <2>1, HeadTailProperties, EmptySeq
      <3>2. ASSUME NEW i \in DOMAIN post, i # 1
            PROVE  i - 1 \in DOMAIN post' /\ post'[i - 1] = post[i]
        BY <3>1, <3>2
      <3> QED BY <3>1, <3>2
    <2>3. CASE UNCHANGED watchers /\ (e = UserFn \/ last[e] = Undef)
      <3>1. Gone
        BY <1>2, <2>1, <2>3
      <3>2. ASSUME NEW u \in Watchers, Kind[u] = "oneTime", Settled(u) PROVE Settled(u)'
        <4>1. CASE \E i \in DOMAIN post : post[i] = u
          BY <1>p, <2>1, <2>2, <2>3, <4>1 DEF Settled
        <4>2. CASE ~\E i \in DOMAIN post : post[i] = u
          BY <2>1, <3>1, <3>2, <4>2 DEF Settled, Gone
        <4> QED BY <4>1, <4>2
      <3> QED BY <3>2 DEF Goal
    <2>4. CASE e # UserFn /\ Deregister(e, lastDirty)
      <3>1. Gone /\ (home[e] # Null => Detached(e)')
        BY <2>1, <2>4, DeregisterDetaches DEF Gone
      <3>2. ASSUME NEW u \in Watchers, Kind[u] = "oneTime", Settled(u) PROVE Settled(u)'
        <4>1. CASE u = e
          BY <2>1, <3>1, <4>1 DEF Settled
        <4>2. CASE u # e
          BY <2>1, <2>2, <3>1, <3>2, <4>2 DEF Settled, Gone
        <4> QED BY <4>1, <4>2
      <3> QED BY <3>2 DEF Goal
    <2> QED BY <2>1, <2>3, <2>4
  <1>16. ASSUME UNCHANGED vars PROVE Goal
    BY <1>16, <1>4 DEF vars, tree, watch, queues
  <1>uo. ASSUME UserOp PROVE Goal
    BY <1>uo, <1>5, <1>8, <1>9, <1>10, <1>11, Zenon DEF UserOp
  <1>ps. ASSUME Pass PROVE Goal
    BY <1>ps, <1>7, <1>12, <1>13, <1>14, Zenon DEF Pass
  <1>en. ASSUME Engine PROVE Goal
    BY <1>en, <1>ps, <1>6, <1>15, Zenon DEF Engine
  <1>g. Goal
    BY <1>5, <1>16, <1>uo, <1>en, Zenon DEF Next
  <1> QED BY <1>g DEF Goal

\* A one-time watcher that has produced a defined value and is still registered
\* is queued for its deregistration, whatever user code does meanwhile.
THEOREM OneTimeWatchersLeave == Spec => []OneTimeDetaches
  <1>1. Init => TypeOK /\ OneTimeDetaches
    BY InitType, InitDetaches
  <1>2. TypeOK /\ OneTimeDetaches /\ [Next]_vars => (TypeOK /\ OneTimeDetaches)'
    BY NextType, NextDetaches
  <1> QED BY <1>1, <1>2, PTL DEF Spec

-----------------------------------------------------------------------------
(* $evalAsync work                                                         *)

\* What may be called from what: a pass calls listeners, a flush is called by
\* a digest that flushes, and its tasks by it; listeners and tasks call nothing.
Fits(f, g) ==
  /\ f.k = "digest" /\ f.pc = "pass" => g.k = "user" /\ g.pc = "listener"
  /\ f.k = "digest" /\ f.pc = "flush" => g.k = "flush"
  /\ f.k = "flush" => g.k = "user" /\ g.pc = "task"
  /\ ~(f.k = "user" /\ f.pc \in {"listener", "task"})

Shaped(stk) == \A i \in 1..(Len(stk) - 1) : Fits(stk[i], stk[i + 1])

\* A call that will yet come to the async queue: a digest that drains it, an
\* $apply whose digest is still to be called.
Covers(f) == \/ f.k = "digest" /\ f.pc = "async"
             \/ f.k = "apply" /\ f.pc \in {"eval", "finally"}

Covered(stk) == \E i \in 1..Len(stk) : Covers(stk[i])

\* Why queued $evalAsync work is run: a timeout is pending or a call covers it.
WakeInv ==
  /\ phase[Root] # "absent"
  /\ asyncN > 0 => evalTimers > 0 \/ applyTimers # <<>> \/ Covered(stack)

\* Neither listeners nor $applyAsync tasks defer with $evalAsync or start a
\* digest: both run when the async queue of their digest is already empty.
Quiet == {"evalAsync", "digest", "apply"} \cap (Ops["listener"] \cup Ops["task"]) = {}

LEMMA PushShaped ==
  ASSUME NEW S, NEW stk \in Seq(S), NEW f \in S, Shaped(stk),
         stk # <<>> => Fits(stk[Len(stk)], f)
  PROVE  Shaped(Append(stk, f))
  <1>1. /\ Len(Append(stk, f)) = Len(stk) + 1 /\ Len(stk) \in Nat
        /\ \A i \in 1..Len(stk) : Append(stk, f)[i] = stk[i]
        /\ Append(stk, f)[Len(stk) + 1] = f
    BY AppendProperties
  <1>2. ASSUME NEW i \in 1..(Len(Append(stk, f)) - 1)
        PROVE  Fits(Append(stk, f)[i], Append(stk, f)[i + 1])
    <2>1. CASE i = Len(stk)
      <3>1. stk # <<>> /\ i \in 1..Len(stk)
        BY <1>1, <1>2, <2>1
      <3> QED BY <1>1, <2>1, <3>1
    <2>2. CASE i # Len(stk)
      <3>1. i \in 1..(Len(stk) - 1) /\ i \in 1..Len(stk) /\ i + 1 \in 1..Len(stk)
        BY <1>1, <1>2, <2>2
      <3> QED BY <1>1, <3>1 DEF Shaped
    <2> QED BY <2>1, <2>2
  <1> QED BY <1>2 DEF Shaped

LEMMA PopShaped ==
  ASSUME stack \in Seq(Frames), stack # <<>>, Shaped(stack)
  PROVE  Shaped(Popped)
  <1>1. /\ Len(stack) \in Nat \ {0} /\ Len(Popped) = Len(stack) - 1
        /\ \A i \in 1..Len(Popped) : Popped[i] = stack[i]
    BY StackOps
  <1>2. ASSUME NEW i \in 1..(Len(Popped) - 1)
        PROVE  /\ i \in 1..Len(Popped) /\ i + 1 \in 1..Len(Popped)
               /\ i \in 1..(Len(stack) - 1)
    BY <1>1, <1>2
  <1> QED BY <1>1, <1>2 DEF Shaped

\* The top call moves on without becoming a call of another kind.
LEMMA SwapShaped ==
  ASSUME stack \in Seq(Frames), stack # <<>>, Shaped(stack), Top.k # "user",
         NEW f, f.k = Top.k
  PROVE  Shaped(With(f))
  <1>1. /\ Len(With(f)) = Len(stack) /\ Len(stack) \in Nat \ {0}
        /\ \A i \in 1..Len(stack) : With(f)[i] = IF i = Len(stack) THEN f ELSE stack[i]
    BY WithOps, StackOps
  <1>2. ASSUME NEW i \in 1..(Len(With(f)) - 1)
        PROVE  Fits(With(f)[i], With(f)[i + 1])
    <2>1. /\ i \in 1..(Len(stack) - 1) /\ i \in 1..Len(stack) /\ i + 1 \in 1..Len(stack)
          /\ i # Len(stack)
      BY <1>1, <1>2
    <2>2. Fits(stack[i], stack[i + 1]) /\ With(f)[i] = stack[i]
          /\ With(f)[i + 1] = IF i + 1 = Len(stack) THEN f ELSE stack[i + 1]
      BY <1>1, <2>1 DEF Shaped
    <2>3. CASE i + 1 = Len(stack)
      BY <2>2, <2>3 DEF Fits, Top
    <2>4. CASE i + 1 # Len(stack)
      BY <2>2, <2>4
    <2> QED BY <2>3, <2>4
  <1> QED BY <1>2 DEF Shaped

\* Beginning a call keeps the shape if the call fits on top of the base.
LEMMA CallShaped ==
  ASSUME NEW base \in Seq(Frames), Shaped(base), NEW s, NEW ph, NEW f \in Frames,
         base # <<>> => Fits(base[Len(base)], f)
  PROVE  /\ BeginPhase(s, ph, base, <<f>>) => Shaped(stack')
         /\ \A g \in Frames : Fits(f, g) /\ BeginPhase(s, ph, base, <<f, g>>) => Shaped(stack')
  <1>1. Append(base, f) \in Seq(Frames) /\ Shaped(Append(base, f))
    BY PushShaped, AppendProperties
  <1>2. base \o <<f>> = Append(base, f)
    OBVIOUS
  <1>3. ASSUME NEW g \in Frames, Fits(f, g) PROVE Shaped(base \o <<f, g>>)
    <2>1. base \o <<f, g>> = Append(Append(base, f), g)
      OBVIOUS
    <2>2. /\ Append(base, f) # <<>>
          /\ Append(base, f)[Len(Append(base, f))] = f
      BY AppendProperties
    <2> QED BY <1>1, <1>3, <2>1, <2>2, PushShaped
  <1> QED BY <1>1, <1>2, <1>3 DEF BeginPhase

\* Every step keeps the shape, as long as listeners and tasks start no digest.
LEMMA NextShaped ==
  ASSUME Quiet
  PROVE  TypeOK /\ BalanceInv /\ Shaped(stack) /\ [Next]_vars => Shaped(stack)'
  <1> SUFFICES ASSUME TypeOK, BalanceInv, Shaped(stack), [Next]_vars PROVE Shaped(stack')
    OBVIOUS
  <1>t. /\ stack \in Seq(Frames) /\ \A at \in Contexts : UserFrame(at) \in Frames
        /\ FlushFrame \in Frames
        /\ \A s \in Scopes : DigestFrame(s) \in Frames /\ ApplyFrame(s) \in Frames
    BY FrameTypes DEF TypeOK
  <1>fr. stack # <<>> => Top \in Frames /\ Top = stack[Len(stack)]
    BY <1>t, StackOps DEF Top
  <1>us. ASSUME May("digest") \/ May("apply")
         PROVE  /\ stack # <<>>
                /\ \A g : Fits(Top, g)
    BY <1>us DEF May, InUser, Quiet, Fits
  \* Steps that leave the stack alone.
  <1>1. ASSUME UNCHANGED stack PROVE Shaped(stack')
    BY <1>1
  <1>2. ASSUME \/ Uncaught \/ EvalAsync \/ PostDigest \/ Catch \/ Report
               \/ \E c \in Cells, v \in Vals : SetCell(c, v)
               \/ \E s \in Scopes, w \in Watchers : Watch(s, w)
               \/ \E w \in Watchers : Unwatch(w)
               \/ \E s, p, c \in Scopes, isolated \in BOOLEAN : NewScope(s, p, isolated, c)
               \/ \E s \in Scopes : Destroy(s) \/ ApplyAsync(s)
               \/ UNCHANGED vars
        PROVE  Shaped(stack')
    <2>1. UNCHANGED stack
      BY <1>2 DEF Uncaught, EvalAsync, PostDigest, Catch, Report, SetCell, Watch, Unwatch,
                  NewScope, Destroy, ApplyAsync, vars
    <2> QED BY <1>1, <2>1
  \* Steps that call user code.
  <1>4. ASSUME BeginTurn \/ DrainAsync \/ FlushTask \/ DrainPost PROVE Shaped(stack')
    <2>1. CASE BeginTurn
      <3>1. stack = <<>> /\ stack' = Append(stack, UserFrame("turn"))
        BY <2>1 DEF BeginTurn
      <3> QED BY <1>t, <3>1, PushShaped DEF Contexts
    <2>2. CASE DrainAsync
      <3>1. stack' = Append(stack, UserFrame("async")) /\ Fits(Top, UserFrame("async"))
        BY <2>2 DEF DrainAsync, Push, At, Fits
      <3> QED BY <1>t, <1>fr, <3>1, PushShaped DEF Contexts
    <2>3. CASE FlushTask
      <3>1. stack' = Append(stack, UserFrame("task")) /\ Fits(Top, UserFrame("task"))
        BY <2>3 DEF FlushTask, Push, At, Fits, UserFrame, Frame
      <3> QED BY <1>t, <1>fr, <3>1, PushShaped DEF Contexts
    <2>4. CASE DrainPost
      <3>1. /\ \/ UNCHANGED stack
               \/ stack' = Append(stack, UserFrame("post"))
            /\ Fits(Top, UserFrame("post"))
        BY <2>4 DEF DrainPost, Push, At, Fits
      <3> QED BY <1>1, <1>t, <1>fr, <3>1, PushShaped DEF Contexts
    <2> QED BY <1>4, <2>1, <2>2, <2>3, <2>4
  <1>7. ASSUME \/ Return \/ Throw \/ Propagate \/ DigestDone \/ ApplyDone \/ TtlAbort
               \/ FlushDone
        PROVE  Shaped(stack')
    <2>1. stack # <<>> /\ stack' = Popped
      BY <1>7 DEF Return, Throw, Propagate, DigestDone, ApplyDone, TtlAbort, FlushDone, PassOver,
                  May, InUser, Caught, At
    <2> QED BY <1>t, <2>1, PopShaped
  <1>9. ASSUME \/ StartPass \/ EmptySlot \/ PassAgain \/ Settle \/ ApplyEvaluated
               \/ \E w \in Watchers : WatchFnThrows(w)
               \/ \E w \in Watchers, v \in Vals : WatchClean(w, v)
               \/ ReadChildren \/ EnterChild \/ LeaveScope
        PROVE  Shaped(stack')
    <2>1. stack # <<>> /\ Top.k # "user"
      BY <1>9 DEF StartPass, EmptySlot, PassAgain, WatchFnThrows, WatchClean, Evaluates, Settle,
                  ApplyEvaluated, ReadChildren, EnterChild, LeaveScope, Scanning, PassOver, At
    <2>2. \E f : f.k = Top.k /\ stack' = With(f)
      <3>1. Top \in Frames
        BY <1>fr, <2>1
      <3>2. CASE StartPass
        BY <3>1, <3>2 DEF StartPass, Frames
      <3>3. CASE PassAgain
        BY <3>1, <3>3 DEF PassAgain, Frames
      <3>4. CASE Settle
        BY <3>1, <3>4 DEF Settle, Become, Frames
      <3>5. CASE ApplyEvaluated
        BY <3>1, <3>5 DEF ApplyEvaluated, Frames
      <3>6. \A tr : [Top EXCEPT !.trav = tr].k = Top.k
        BY <3>1 DEF Frames
      <3>7. CASE \/ EmptySlot \/ \E w \in Watchers : WatchFnThrows(w)
                 \/ \E w \in Watchers, v \in Vals : WatchClean(w, v)
                 \/ ReadChildren \/ EnterChild \/ LeaveScope
        <4>1. \E tr : stack' = With([Top EXCEPT !.trav = tr])
          BY <3>7, Zenon DEF EmptySlot, WatchFnThrows, WatchClean, ReadChildren, EnterChild, LeaveScope
        <4> QED BY <3>6, <4>1
      <3> QED BY <1>9, <3>2, <3>3, <3>4, <3>5, <3>7
    <2> QED BY <1>t, <2>1, <2>2, SwapShaped
  \* Steps that move the top call on and push what it calls.
  <1>10. ASSUME NEW f, f.k = Top.k, stack # <<>>, Top.k # "user", NEW g \in Frames, Fits(f, g),
                stack' = Append(With(f), g)
         PROVE  Shaped(stack')
    <2>1. /\ With(f) \in Seq(Frames \cup {f}) /\ g \in Frames \cup {f}
          /\ Len(With(f)) = Len(stack) /\ Len(stack) \in 1..Len(stack)
          /\ With(f)[Len(stack)] = f
      <3>1. Len(stack) \in 1..Len(stack)
        BY <1>10, <1>t, EmptySeq
      <3>2. /\ With(f) \in Seq(Frames \cup {f}) /\ Len(With(f)) = Len(stack)
            /\ \A i \in 1..Len(stack) : With(f)[i] = IF i = Len(stack) THEN f ELSE stack[i]
        BY <1>10, <1>t, WithOps
      <3> QED BY <3>1, <3>2
    <2>2. Shaped(With(f))
      BY <1>10, <1>t, SwapShaped
    <2> QED BY <1>10, <2>1, <2>2, PushShaped
  <1>11. ASSUME NEW w \in Watchers, NEW v \in Vals, WatchDirty(w, v) PROVE Shaped(stack')
    <2> DEFINE f == [Top EXCEPT !.flag = TRUE, !.trav = NextSlot]
    <2>1. /\ stack # <<>> /\ Top.k = "digest" /\ Top.pc = "pass"
          /\ stack' = Append(With(f), UserFrame("listener"))
      BY <1>11 DEF WatchDirty, Evaluates, Scanning, At
    <2>2. f.k = Top.k /\ f.pc = "pass"
      BY <1>fr, <2>1 DEF Frames
    <2> HIDE DEF f
    <2>3. Fits(f, UserFrame("listener")) /\ UserFrame("listener") \in Frames
      BY <1>t, <2>1, <2>2 DEF Fits, UserFrame, Frame, Contexts
    <2> QED BY <1>10, <2>1, <2>2, <2>3
  <1>12. ASSUME BeginFlush PROVE Shaped(stack')
    <2> DEFINE f == [Top EXCEPT !.pc = "flush"]
    <2>1. /\ stack # <<>> /\ Top.k = "digest" /\ stack' = Append(With(f), FlushFrame)
      BY <1>12 DEF BeginFlush, PassOver, At
    <2>2. f.k = Top.k /\ f.pc = "flush"
      BY <1>fr, <2>1 DEF Frames
    <2> HIDE DEF f
    <2>3. Fits(f, FlushFrame)
      BY <2>1, <2>2 DEF Fits, FlushFrame, Frame
    <2> QED BY <1>10, <1>t, <2>1, <2>2, <2>3
  \* Calls of $digest and $apply.
  <1>13. ASSUME EvalAsyncTimeout PROVE Shaped(stack')
    <2>1. stack = <<>> /\ (UNCHANGED stack \/ CallDigest(Root, stack))
      BY <1>13 DEF EvalAsyncTimeout
    <2> QED BY <1>1, <1>t, <2>1, CallShaped, ScopeAssumption DEF CallDigest, ScopeAssumption
  <1>14. ASSUME NEW s \in Scopes, Digest(s) PROVE Shaped(stack')
    <2>1. CallDigest(s, stack) /\ May("digest")
      BY <1>14 DEF Digest
    <2> QED BY <1>t, <1>fr, <1>us, <2>1, CallShaped DEF CallDigest
  <1>15. ASSUME ApplyDigests PROVE Shaped(stack')
    <2> DEFINE f == [Top EXCEPT !.pc = "digest"]
    <2>1. stack # <<>> /\ Top.k = "apply" /\ CallDigest(Root, With(f))
      BY <1>15 DEF ApplyDigests, At
    <2>2. f \in Frames /\ f.k = Top.k
      BY <1>fr, <2>1 DEF Frames
    <2> HIDE DEF f
    <2>3. /\ With(f) \in Seq(Frames) /\ Shaped(With(f)) /\ Len(With(f)) = Len(stack)
          /\ Len(stack) \in 1..Len(stack) /\ With(f)[Len(stack)] = f
      <3>1. Shaped(With(f))
        BY <1>t, <2>1, <2>2, SwapShaped
      <3>2. Len(stack) \in 1..Len(stack)
        BY <1>t, <2>1, EmptySeq
      <3>3. /\ With(f) \in Seq(Frames) /\ Len(With(f)) = Len(stack)
            /\ \A i \in 1..Len(stack) : With(f)[i] = IF i = Len(stack) THEN f ELSE stack[i]
        BY <1>t, <2>1, <2>2, StackOps
      <3> QED BY <3>1, <3>2, <3>3
    <2>4. Fits(f, DigestFrame(Root))
      BY <2>1, <2>2 DEF Fits
    <2> QED BY <1>t, <2>1, <2>3, <2>4, CallShaped, ScopeAssumption DEF CallDigest, ScopeAssumption
  <1>16. ASSUME NEW s \in Scopes, Apply(s) PROVE Shaped(stack')
    <2>1. BeginPhase(s, "$apply", stack, <<ApplyFrame(s), UserFrame("apply")>>) /\ May("apply")
      BY <1>16 DEF Apply
    <2>2. Fits(ApplyFrame(s), UserFrame("apply"))
      BY DEF Fits, ApplyFrame, Frame
    <2>3. UserFrame("apply") \in Frames
      BY <1>t DEF Contexts
    <2> QED BY <1>t, <1>fr, <1>us, <2>1, <2>2, <2>3, CallShaped
  <1>17. ASSUME ApplyAsyncTimeout PROVE Shaped(stack')
    <2>1. PICK s \in Scopes : /\ stack = <<>>
                              /\ BeginPhase(s, "$apply", stack, <<ApplyFrame(s), FlushFrame>>)
      BY <1>17, HeadTailProperties DEF ApplyAsyncTimeout, TypeOK
    <2>2. Fits(ApplyFrame(s), FlushFrame)
      BY DEF Fits, ApplyFrame, Frame
    <2> QED BY <1>t, <2>1, <2>2, CallShaped
  <1>uo. ASSUME UserOp PROVE Shaped(stack')
    <2>1. CASE \E s \in Scopes : Destroy(s) \/ ApplyAsync(s) \/ Digest(s) \/ Apply(s)
      BY <2>1, <1>2, <1>14, <1>16
    <2> QED BY <1>uo, <1>2, <1>7, <2>1, Zenon DEF UserOp
  <1>ps. ASSUME Pass PROVE Shaped(stack')
    BY <1>ps, <1>9, <1>11, Zenon DEF Pass
  <1> QED
    BY <1>2, <1>4, <1>7, <1>9, <1>12, <1>13, <1>15, <1>17, <1>uo, <1>ps, Zenon
    DEF Next, Engine, Timeout

\* A covering call goes on when frames are pushed, replaced by covering ones,
\* or popped above it.
LEMMA CoverKept ==
  ASSUME stack \in Seq(Frames), Covered(stack)
  PROVE  /\ \A stk : stack # <<>> /\ ~Covers(Top) /\ stk = Popped => Covered(stk)
         /\ \A f : (Covers(Top) => Covers(f)) => Covered(With(f))
  <1>1. stack # <<>> /\ Len(stack) \in Nat \ {0}
    BY EmptySeq DEF Covered
  <1>2. PICK i \in 1..Len(stack) : Covers(stack[i])
    BY DEF Covered
  <1>3. ASSUME ~Covers(Top) PROVE Covered(Popped)
    <2>1. i \in 1..Len(Popped) /\ Popped[i] = stack[i]
      BY <1>1, <1>2, <1>3, StackOps DEF Top
    <2> QED BY <1>2, <2>1 DEF Covered
  <1>4. ASSUME NEW f, Covers(Top) => Covers(f) PROVE Covered(With(f))
    <2>1. /\ Len(With(f)) = Len(stack)
          /\ With(f)[i] = IF i = Len(stack) THEN f ELSE stack[i]
      BY <1>1, <1>2, WithOps
    <2>2. Covers(With(f)[i])
      BY <1>2, <1>4, <2>1 DEF Top
    <2> QED BY <1>2, <2>1, <2>2 DEF Covered
  <1> QED BY <1>3, <1>4

LEMMA CoverUnder ==
  ASSUME NEW S, NEW stk \in Seq(S), NEW f \in S, Covered(stk) \/ Covers(f)
  PROVE  Covered(Append(stk, f))
  <1>1. /\ Len(Append(stk, f)) = Len(stk) + 1 /\ Len(stk) \in Nat
        /\ \A i \in 1..Len(stk) : Append(stk, f)[i] = stk[i]
        /\ Append(stk, f)[Len(stk) + 1] = f
    BY AppendProperties
  <1>2. Len(stk) + 1 \in 1..Len(Append(stk, f))
        /\ \A i \in 1..Len(stk) : i \in 1..Len(Append(stk, f))
    BY <1>1
  <1> QED BY <1>1, <1>2 DEF Covered

\* Beginning a call keeps what covers below it.
LEMMA CoverBelowCall ==
  ASSUME NEW base \in Seq(Frames), NEW s, NEW ph, NEW frames \in Seq(Frames),
         Covered(base), BeginPhase(s, ph, base, frames)
  PROVE  Covered(stack')
  <1>1. /\ base \o frames \in Seq(Frames)
        /\ Len(base \o frames) = Len(base) + Len(frames)
        /\ Len(base) \in Nat /\ Len(frames) \in Nat
        /\ \A i \in 1..Len(base) : (base \o frames)[i] = base[i]
    BY ConcatProperties
  <1>2. Covered(base \o frames)
    BY <1>1 DEF Covered
  <1> QED BY <1>2 DEF BeginPhase

\* While the root is in a phase and what runs is neither a listener nor part of
\* a flush, the call that holds the phase covers the async queue.
LEMMA RootHolderCovers ==
  ASSUME TypeOK, BalanceInv, Shaped(stack), phase[Root] \in Active, stack # <<>>,
         \/ Top.k = "user" /\ Top.pc \notin {"listener", "task"}
         \/ Top.k = "apply"
  PROVE  \E i \in 1..Len(stack) : Holds(stack[i], phase[Root]) /\ Covers(stack[i])
  <1>r. Root \in Scopes
    BY ScopeAssumption DEF ScopeAssumption
  <1>n. Len(stack) \in Nat \ {0}
    BY StackOps DEF TypeOK
  <1>1. PICK i \in 1..Len(stack) : Holds(stack[i], phase[Root])
    BY <1>r DEF BalanceInv, Balanced, Agree
  <1>2. CASE Covers(stack[i])
    BY <1>1, <1>2
  <1>3. CASE ~Covers(stack[i])
    <2>1. stack[i].k = "digest" /\ stack[i].pc \in {"pass", "flush"}
      BY <1>1, <1>3 DEF Holds, Covers, LoopPcs
    <2>2. i # Len(stack) /\ i \in 1..(Len(stack) - 1)
      BY <1>n, <2>1 DEF Top
    <2>3. Fits(stack[i], stack[i + 1])
      BY <2>2 DEF Shaped
    <2>4. CASE stack[i].pc = "pass"
      <3>1. stack[i + 1].k = "user" /\ stack[i + 1].pc = "listener"
        BY <2>1, <2>3, <2>4 DEF Fits
      <3>2. i + 1 # Len(stack)
        BY <3>1 DEF Top
      <3>3. i + 1 \in 1..(Len(stack) - 1)
        BY <1>n, <2>2, <3>2
      <3>4. Fits(stack[i + 1], stack[(i + 1) + 1])
        BY <3>3 DEF Shaped
      <3> QED BY <3>1, <3>4 DEF Fits
    <2>5. CASE stack[i].pc = "flush"
      <3>1. stack[i + 1].k = "flush"
        BY <2>1, <2>3, <2>5 DEF Fits
      <3>2. i + 1 # Len(stack)
        BY <3>1 DEF Top
      <3>3. i + 1 \in 1..(Len(stack) - 1)
        BY <1>n, <2>2, <3>2
      <3>4. Fits(stack[i + 1], stack[(i + 1) + 1])
        BY <3>3 DEF Shaped
      <3>5. stack[(i + 1) + 1].k = "user" /\ stack[(i + 1) + 1].pc = "task"
        BY <3>1, <3>4 DEF Fits
      <3>6. (i + 1) + 1 # Len(stack)
        BY <3>5 DEF Top
      <3>7. (i + 1) + 1 \in 1..(Len(stack) - 1)
        BY <1>n, <3>3, <3>6
      <3>8. Fits(stack[(i + 1) + 1], stack[((i + 1) + 1) + 1])
        BY <3>7 DEF Shaped
      <3> QED BY <3>5, <3>8 DEF Fits
    <2> QED BY <2>1, <2>4, <2>5
  <1> QED BY <1>2, <1>3

\* $beginPhase on the root is refused only when the root itself is in a phase.
LEMMA RootRefuses ==
  ASSUME TypeOK, BalanceInv, phase[Root] # "absent", InPhase(Root)
  PROVE  phase[Root] \in Active
  <1>1. Root \in Scopes /\ chain[Root] \in Seq(Scopes) /\ chain[Root] # <<>> /\ chain[Root][1] = Root
    BY ScopeAssumption DEF ScopeAssumption, TypeOK, BalanceInv, ChainOK
  <1>2. PICK i \in DOMAIN chain[Root] :
          /\ phase[chain[Root][i]] \in Active
          /\ \A j \in 1..(i - 1) : phase[chain[Root][j]] = "absent"
    BY DEF InPhase, Active
  <1>3. i \in Nat \ {0}
    BY <1>1, <1>2
  <1>4. i = 1
    <2> SUFFICES ASSUME i # 1 PROVE FALSE
      OBVIOUS
    <2>1. 1 \in 1..(i - 1)
      BY <1>3
    <2> QED BY <1>1, <1>2, <2>1
  <1> QED BY <1>1, <1>2, <1>4

LEMMA InitWake == Init => Shaped(stack) /\ WakeInv
  <1> SUFFICES ASSUME Init PROVE Shaped(stack) /\ WakeInv
    OBVIOUS
  <1>1. stack = <<>> /\ 1..(Len(stack) - 1) = {} /\ asyncN = 0
    BY DEF Init
  <1>2. Root \in Scopes /\ Root \notin KidSet
    BY ScopeAssumption DEF ScopeAssumption, KidSet
  <1>3. phase[Root] = "null"
    BY <1>2 DEF Init
  <1> QED BY <1>1, <1>3 DEF Shaped, WakeInv

\* The root never reads its phase through the prototype chain.
LEMMA NextRootOwns ==
  TypeOK /\ BornOK /\ phase[Root] # "absent" /\ [Next]_vars => phase'[Root] # "absent"
  <1> SUFFICES ASSUME TypeOK, BornOK, phase[Root] # "absent", [Next]_vars
               PROVE  phase'[Root] # "absent"
    OBVIOUS
  <1>r. Root \in Scopes /\ Root \in born
    BY ScopeAssumption DEF ScopeAssumption, BornOK
  <1>1. ASSUME \/ UNCHANGED phase
               \/ \E s, base, frames : \E ph \in Active : BeginPhase(s, ph, base, frames)
               \/ \E s : ClearPhase(s)
        PROVE  phase'[Root] # "absent"
    BY <1>1, <1>r DEF BeginPhase, ClearPhase, TypeOK, Active
  <1>2. ASSUME \/ BeginTurn \/ Throw \/ EvalAsync \/ PostDigest
               \/ \E c \in Cells, v \in Vals : SetCell(c, v)
               \/ \E s \in Scopes, w \in Watchers : Watch(s, w)
               \/ \E w \in Watchers : Unwatch(w)
               \/ \E s \in Scopes : Destroy(s) \/ ApplyAsync(s)
               \/ UNCHANGED vars
        PROVE  phase'[Root] # "absent"
    <2>1. UNCHANGED phase
      BY <1>2 DEF BeginTurn, Throw, EvalAsync, PostDigest, SetCell, Watch, Unwatch, Destroy,
                  ApplyAsync, vars
    <2> QED BY <1>1, <2>1
  <1>3. ASSUME NEW s \in Scopes, NEW p \in Scopes, NEW c \in Scopes, NEW isolated \in BOOLEAN,
               NewScope(s, p, isolated, c)
        PROVE  phase'[Root] # "absent"
    BY <1>3, <1>r DEF NewScope, TypeOK
  <1>4. ASSUME NEW s \in Scopes, Digest(s) \/ Apply(s) PROVE phase'[Root] # "absent"
    <2>1. \/ BeginPhase(s, "$digest", stack, <<DigestFrame(s)>>)
          \/ BeginPhase(s, "$apply", stack, <<ApplyFrame(s), UserFrame("apply")>>)
      BY <1>4 DEF Digest, Apply, CallDigest
    <2> QED BY <1>1, <2>1 DEF Active
  <1>5. ASSUME EvalAsyncTimeout \/ ApplyAsyncTimeout \/ ApplyDigests
        PROVE  phase'[Root] # "absent"
    <2>1. CASE EvalAsyncTimeout
      BY <1>1, <2>1 DEF EvalAsyncTimeout, CallDigest, Active
    <2>2. CASE ApplyAsyncTimeout
      BY <1>1, <2>2 DEF ApplyAsyncTimeout, Active
    <2>3. CASE ApplyDigests
      BY <1>1, <2>3 DEF ApplyDigests, CallDigest, Active
    <2> QED BY <1>5, <2>1, <2>2, <2>3
  <1>6. ASSUME TtlAbort \/ Settle \/ ApplyEvaluated PROVE phase'[Root] # "absent"
    <2>1. ClearPhase(Top.s)
      BY <1>6 DEF TtlAbort, Settle, ApplyEvaluated
    <2> QED BY <1>1, <2>1
  <1>7. ASSUME \/ Return \/ Catch \/ Propagate \/ Uncaught \/ DrainAsync \/ PassAgain
               \/ BeginFlush \/ DrainPost \/ DigestDone \/ Report \/ FlushTask \/ FlushDone
               \/ ApplyDone
        PROVE  phase'[Root] # "absent"
    <2>1. UNCHANGED phase
      BY <1>7 DEF Return, Catch, Propagate, Uncaught, DrainAsync, PassAgain, BeginFlush,
                  DrainPost, DigestDone, Report, FlushTask, FlushDone, ApplyDone
    <2> QED BY <1>1, <2>1
  <1>8. ASSUME \/ StartPass \/ EmptySlot \/ ReadChildren \/ EnterChild \/ LeaveScope
               \/ \E w \in Watchers : WatchFnThrows(w)
               \/ \E w \in Watchers, v \in Vals : WatchDirty(w, v) \/ WatchClean(w, v)
        PROVE  phase'[Root] # "absent"
    <2>1. UNCHANGED phase
      BY <1>8 DEF StartPass, EmptySlot, ReadChildren, EnterChild, LeaveScope, WatchFnThrows,
                  WatchDirty, WatchClean
    <2> QED BY <1>1, <2>1
  <1>uo. ASSUME UserOp PROVE phase'[Root] # "absent"
    <2>1. CASE \E s \in Scopes : Destroy(s) \/ ApplyAsync(s) \/ Digest(s) \/ Apply(s)
      BY <2>1, <1>2, <1>4
    <2> QED BY <1>uo, <1>2, <1>3, <2>1, Zenon DEF UserOp
  <1> QED
    BY <1>2, <1>5, <1>6, <1>7, <1>8, <1>uo, Zenon DEF Next, Engine, Timeout, Pass

\* Every step keeps the async queue served.
LEMMA NextWake ==
  ASSUME Quiet
  PROVE  TypeOK /\ BornOK /\ BalanceInv /\ Shaped(stack) /\ WakeInv /\ [Next]_vars => WakeInv'
  <1> SUFFICES ASSUME TypeOK, BornOK, BalanceInv, Shaped(stack), WakeInv, [Next]_vars
               PROVE  WakeInv'
    OBVIOUS
  <1>t. /\ stack \in Seq(Frames) /\ \A at \in Contexts : UserFrame(at) \in Frames
        /\ asyncN \in Nat /\ evalTimers \in Nat /\ Root \in Scopes
    BY FrameTypes, ScopeAssumption DEF TypeOK, ScopeAssumption
  <1>fr. stack # <<>> => Top \in Frames
    BY <1>t, StackOps
  <1>w. phase'[Root] # "absent"
    BY NextRootOwns DEF WakeInv
  <1>c. /\ \A at : ~Covers(UserFrame(at)) /\ ~Covers(FlushFrame)
        /\ \A s : Covers(DigestFrame(s)) /\ Covers(ApplyFrame(s))
    BY DEF Covers, UserFrame, FlushFrame, DigestFrame, ApplyFrame, Frame
  \* Steps that queue nothing, leave the timeouts alone and end no covering call.
  <1>0. ASSUME asyncN' = 0 \/ Covered(stack') PROVE WakeInv'
    BY <1>0, <1>w DEF WakeInv
  <1>1. ASSUME UNCHANGED <<evalTimers, applyTimers>>, asyncN' > 0 => asyncN > 0,
               Covered(stack) => Covered(stack')
        PROVE  WakeInv'
    BY <1>1, <1>w DEF WakeInv
  <1>2. ASSUME \/ Uncaught \/ PostDigest \/ Catch \/ Report
               \/ \E c \in Cells, v \in Vals : SetCell(c, v)
               \/ \E s \in Scopes, w \in Watchers : Watch(s, w)
               \/ \E w \in Watchers : Unwatch(w)
               \/ \E s, p, c \in Scopes, isolated \in BOOLEAN : NewScope(s, p, isolated, c)
               \/ \E s \in Scopes : Destroy(s)
               \/ UNCHANGED vars
        PROVE  WakeInv'
    <2>1. UNCHANGED <<asyncN, evalTimers, applyTimers, stack>>
      BY <1>2 DEF Uncaught, PostDigest, Catch, Report, SetCell, Watch, Unwatch,
                  NewScope, Destroy, vars, queues
    <2> QED BY <1>1, <2>1
  <1>3. ASSUME EvalAsync PROVE WakeInv'
    <2>1. /\ asyncN' = asyncN + 1 /\ UNCHANGED <<stack, applyTimers>>
          /\ evalTimers' = IF phase[Root] = "null" /\ asyncN = 0 THEN evalTimers + 1 ELSE evalTimers
          /\ stack # <<>> /\ Top.k = "user" /\ Top.pc \notin {"listener", "task"}
      BY <1>3 DEF EvalAsync, May, InUser, Quiet
    <2>2. CASE asyncN > 0
      BY <1>1, <2>1, <2>2
    <2>3. CASE asyncN = 0 /\ phase[Root] = "null"
      <3>1. evalTimers' > 0
        BY <1>t, <2>1, <2>3
      <3> QED BY <1>w, <3>1 DEF WakeInv
    <2>4. CASE phase[Root] # "null"
      <3>1. phase[Root] \in Active
        BY <1>t, <2>4 DEF WakeInv, TypeOK, Active
      <3> QED BY <1>0, <2>1, <3>1, RootHolderCovers DEF Covered
    <2> QED BY <1>t, <2>2, <2>3, <2>4
  <1>4. ASSUME NEW s \in Scopes, ApplyAsync(s) PROVE WakeInv'
    <2>1. /\ UNCHANGED <<asyncN, evalTimers, stack>>
          /\ applyTimers' = applyTimers \/ applyTimers' = Append(applyTimers, s)
      BY <1>4 DEF ApplyAsync
    <2>2. Append(applyTimers, s) # <<>>
      <3>1. applyTimers \in Seq(Scopes)
        BY DEF TypeOK
      <3> QED BY <3>1, AppendProperties
    <2> QED BY <1>w, <2>1, <2>2 DEF WakeInv
  <1>5. ASSUME NEW at \in Contexts, stack' = Append(stack, UserFrame(at)),
               UNCHANGED <<evalTimers, applyTimers>>, asyncN' > 0 => asyncN > 0
        PROVE  WakeInv'
    BY <1>1, <1>5, <1>t, CoverUnder
  <1>6. ASSUME BeginTurn \/ DrainAsync \/ FlushTask \/ DrainPost PROVE WakeInv'
    <2>1. CASE BeginTurn
      <3>1. stack' = Append(stack, UserFrame("turn"))
        BY <2>1 DEF BeginTurn
      <3> QED BY <1>5, <2>1, <3>1 DEF BeginTurn, queues, Contexts
    <2>2. CASE DrainAsync
      BY <1>5, <2>2 DEF DrainAsync, Push, Contexts
    <2>3. CASE FlushTask
      BY <1>5, <2>3 DEF FlushTask, Push, Contexts
    <2>4. CASE DrainPost
      BY <1>1, <1>5, <2>4 DEF DrainPost, Push, Contexts
    <2> QED BY <1>6, <2>1, <2>2, <2>3, <2>4
  <1>7. ASSUME \/ Return \/ Throw \/ Propagate \/ DigestDone \/ ApplyDone \/ TtlAbort
               \/ FlushDone
        PROVE  WakeInv'
    <2>1. UNCHANGED <<asyncN, evalTimers, applyTimers>> /\ stack # <<>> /\ stack' = Popped
      BY <1>7 DEF Return, Throw, Propagate, DigestDone, ApplyDone, TtlAbort, FlushDone, PassOver,
                  May, InUser, Caught, At, queues
    <2>2. ~Covers(Top)
      BY <1>7 DEF Return, Throw, Propagate, DigestDone, ApplyDone, TtlAbort, FlushDone, PassOver,
                  May, InUser, Caught, At, Covers
    <2> QED BY <1>1, <1>t, <2>1, <2>2, CoverKept
  <1>8. ASSUME StartPass \/ BeginFlush PROVE WakeInv'
    <2>1. asyncN' = 0
      BY <1>8, <1>t DEF StartPass, BeginFlush, Unstable, queues
    <2> QED BY <1>0, <2>1
  <1>9. ASSUME \/ EmptySlot \/ PassAgain \/ Settle
               \/ \E w \in Watchers : WatchFnThrows(w)
               \/ \E w \in Watchers, v \in Vals : WatchClean(w, v)
               \/ ReadChildren \/ EnterChild \/ LeaveScope
        PROVE  WakeInv'
    <2>1. UNCHANGED <<asyncN, evalTimers, applyTimers>> /\ stack # <<>>
          /\ \E f : stack' = With(f)
      BY <1>9, Zenon DEF EmptySlot, PassAgain, WatchFnThrows, WatchClean, Evaluates, Settle,
                  ReadChildren, EnterChild, LeaveScope, Scanning, PassOver, At, Become, queues
    <2>2. ~Covers(Top)
      BY <1>9 DEF EmptySlot, PassAgain, WatchFnThrows, WatchClean, Evaluates, Settle,
                  ReadChildren, EnterChild, LeaveScope, Scanning, PassOver, At, Covers
    <2> QED BY <1>1, <1>t, <2>1, <2>2, CoverKept
  <1>10. ASSUME ApplyEvaluated PROVE WakeInv'
    <2> DEFINE f == [Top EXCEPT !.pc = "finally", !.flag = throwing]
    <2>1. /\ UNCHANGED <<asyncN, evalTimers, applyTimers>> /\ stack # <<>>
          /\ Top.k = "apply" /\ stack' = With(f)
      BY <1>10 DEF ApplyEvaluated, queues
    <2>2. Covers(f)
      BY <1>fr, <2>1 DEF Frames, Covers
    <2> HIDE DEF f
    <2> QED BY <1>1, <1>t, <2>1, <2>2, CoverKept
  <1>11. ASSUME NEW w \in Watchers, NEW v \in Vals, WatchDirty(w, v) PROVE WakeInv'
    <2>1. PICK f : stack' = Append(With(f), UserFrame("listener"))
      BY <1>11 DEF WatchDirty
    <2>2. /\ UNCHANGED <<asyncN, evalTimers, applyTimers>> /\ stack # <<>> /\ ~Covers(Top)
      BY <1>11 DEF WatchDirty, Evaluates, Scanning, At, Covers
    <2>3. With(f) \in Seq(Frames \cup {f}) /\ UserFrame("listener") \in Frames \cup {f}
      BY <1>t, <2>2, WithOps DEF Contexts
    <2>4. Covered(stack) => Covered(stack')
      BY <1>t, <2>1, <2>2, <2>3, CoverKept, CoverUnder
    <2> QED BY <1>1, <2>2, <2>4
  \* Calls of $digest and $apply cover the queue unless they are refused.
  <1>12. ASSUME NEW s \in Scopes, NEW base \in Seq(Frames), NEW ph,
                NEW frames \in Seq(Frames), frames # <<>>, Covers(frames[1]),
                BeginPhase(s, ph, base, frames), ~InPhase(s)
         PROVE  WakeInv'
    <2>1. stack' = base \o frames
      BY <1>12 DEF BeginPhase
    <2>2. /\ Len(base \o frames) = Len(base) + Len(frames)
          /\ Len(base) \in Nat /\ Len(frames) \in Nat \ {0}
          /\ \A i \in 1..Len(frames) : (base \o frames)[Len(base) + i] = frames[i]
      BY <1>12, EmptySeq, ConcatProperties
    <2>3. 1 \in 1..Len(frames) /\ Len(base) + 1 \in 1..Len(base \o frames)
      BY <2>2
    <2>4. Covered(base \o frames)
      BY <1>12, <2>2, <2>3 DEF Covered
    <2> QED BY <1>0, <2>1, <2>4
  <1>d. \A s \in Scopes : DigestFrame(s) \in Frames /\ ApplyFrame(s) \in Frames
    BY FrameTypes
  <1>13. ASSUME EvalAsyncTimeout PROVE WakeInv'
    <2>1. CASE asyncN > 0
      <3>1. BeginPhase(Root, "$digest", <<>>, <<DigestFrame(Root)>>) /\ ~InPhase(Root)
        BY <1>13, <1>t, <2>1, IdleInNoPhase DEF EvalAsyncTimeout, CallDigest
      <3>2. /\ <<DigestFrame(Root)>> \in Seq(Frames) /\ <<DigestFrame(Root)>> # <<>>
            /\ <<DigestFrame(Root)>>[1] = DigestFrame(Root)
        BY <1>d, <1>t
      <3>3. <<>> \in Seq(Frames)
        OBVIOUS
      <3> QED BY <1>12, <1>c, <1>t, <3>1, <3>2, <3>3
    <2>2. CASE ~(asyncN > 0)
      BY <1>0, <1>13, <1>t, <2>2 DEF EvalAsyncTimeout
    <2> QED BY <2>1, <2>2
  <1>14. ASSUME NEW s \in Scopes, Digest(s) \/ Apply(s) PROVE WakeInv'
    <2>1. /\ UNCHANGED <<asyncN, evalTimers, applyTimers>>
          /\ \/ BeginPhase(s, "$digest", stack, <<DigestFrame(s)>>)
             \/ BeginPhase(s, "$apply", stack, <<ApplyFrame(s), UserFrame("apply")>>)
      BY <1>14 DEF Digest, Apply, CallDigest, queues
    <2>2. <<DigestFrame(s)>> \in Seq(Frames) /\ <<ApplyFrame(s), UserFrame("apply")>> \in Seq(Frames)
      BY <1>d, <1>t DEF Contexts
    <2> QED BY <1>1, <1>t, <2>1, <2>2, CoverBelowCall
  <1>15. ASSUME ApplyDigests PROVE WakeInv'
    <2> DEFINE g == [Top EXCEPT !.pc = "digest"]
    <2>1. /\ stack # <<>> /\ Top.k = "apply" /\ CallDigest(Root, With(g))
          /\ UNCHANGED <<asyncN, evalTimers, applyTimers>>
      BY <1>15 DEF ApplyDigests, At, queues
    <2>2. g \in Frames
      BY <1>fr, <2>1 DEF Frames
    <2>3. PICK f \in Frames : BeginPhase(Root, "$digest", With(f), <<DigestFrame(Root)>>)
      BY <2>1, <2>2 DEF CallDigest
    <2>4. With(f) \in Seq(Frames)
      BY <1>t, <2>1, StackOps
    <2>5. CASE ~InPhase(Root)
      <3>1. /\ <<DigestFrame(Root)>> \in Seq(Frames) /\ <<DigestFrame(Root)>> # <<>>
            /\ <<DigestFrame(Root)>>[1] = DigestFrame(Root)
        BY <1>d, <1>t
      <3> QED BY <1>12, <1>c, <1>d, <1>t, <2>3, <2>4, <2>5, <3>1
    \* Refused, so another call holds the root: it covers in place of this one.
    <2>6. CASE InPhase(Root)
      <3>1. phase[Root] \in Active
        BY <2>6, RootRefuses DEF WakeInv
      <3>2. PICK i \in 1..Len(stack) : Holds(stack[i], phase[Root]) /\ Covers(stack[i])
        BY <2>1, <3>1, RootHolderCovers
      <3>3. i # Len(stack)
        BY <1>15, <3>2 DEF ApplyDigests, At, Holds, Top
      <3>4. With(f)[i] = stack[i] /\ Len(With(f)) = Len(stack)
        BY <1>t, <2>1, <3>2, <3>3, StackOps
      <3>5. stack' = With(f)
        BY <2>3, <2>6 DEF BeginPhase
      <3> QED BY <1>0, <3>2, <3>4, <3>5 DEF Covered
    <2> QED BY <2>5, <2>6
  <1>17. ASSUME ApplyAsyncTimeout PROVE WakeInv'
    <2>1. PICK s \in Scopes : /\ stack = <<>>
                              /\ BeginPhase(s, "$apply", <<>>, <<ApplyFrame(s), FlushFrame>>)
      BY <1>17, HeadTailProperties DEF ApplyAsyncTimeout, TypeOK
    <2>2. ~InPhase(s)
      BY <2>1, IdleInNoPhase
    <2>3. /\ <<ApplyFrame(s), FlushFrame>> \in Seq(Frames)
          /\ <<ApplyFrame(s), FlushFrame>> # <<>>
          /\ <<ApplyFrame(s), FlushFrame>>[1] = ApplyFrame(s)
      BY <1>d, FrameTypes
    <2>4. <<>> \in Seq(Frames)
      OBVIOUS
    <2> QED BY <1>12, <1>c, <2>1, <2>2, <2>3, <2>4
  <1>uo. ASSUME UserOp PROVE WakeInv'
    <2>1. CASE \E s \in Scopes : Destroy(s) \/ ApplyAsync(s) \/ Digest(s) \/ Apply(s)
      BY <2>1, <1>2, <1>4, <1>14
    <2> QED BY <1>uo, <1>2, <1>3, <1>7, <2>1, Zenon DEF UserOp
  <1>ps. ASSUME Pass PROVE WakeInv'
    BY <1>ps, <1>8, <1>9, <1>11, Zenon DEF Pass
  <1> QED
    BY <1>2, <1>6, <1>7, <1>8, <1>9, <1>10, <1>13, <1>15, <1>17, <1>uo, <1>ps, Zenon
    DEF Next, Engine, Timeout

\* As long as listeners and $applyAsync tasks neither call $evalAsync nor start
\* a digest, an engine at rest with $evalAsync work queued has a timeout to wake
\* it up: every other place a task may be queued from is covered by a digest yet
\* to drain the queue.
THEOREM AsyncWorkWakes ==
  ASSUME {"evalAsync", "digest", "apply"} \cap (Ops["listener"] \cup Ops["task"]) = {}
  PROVE  Spec => []AsyncQueueWakes
  <1>q. Quiet
    BY DEF Quiet
  <1>1. Init => TypeOK /\ BornOK /\ BalanceInv /\ Shaped(stack) /\ WakeInv
    BY InitType, InitBorn, InitBalance, InitWake
  <1>2. TypeOK /\ BornOK /\ BalanceInv /\ Shaped(stack) /\ WakeInv /\ [Next]_vars
          => (TypeOK /\ BornOK /\ BalanceInv /\ Shaped(stack) /\ WakeInv)'
    BY <1>q, NextType, NextBorn, NextBalance, NextShaped, NextWake
  <1>3. WakeInv => AsyncQueueWakes
    <2> SUFFICES ASSUME WakeInv, stack = <<>>, asyncN > 0
                 PROVE  evalTimers > 0 \/ applyTimers # <<>>
      BY DEF AsyncQueueWakes
    <2>1. 1..Len(stack) = {}
      OBVIOUS
    <2> QED BY <2>1 DEF WakeInv, Covered
  <1> QED BY <1>1, <1>2, <1>3, PTL DEF Spec

-----------------------------------------------------------------------------
(* The order of a pass.  A pass visits a scope before the scopes below it,   *)
(* and those below one child before those below the next.                    *)

Below(p, i) == Under(children[p][i])

Before(t, u) == \E p \in Scopes : \E i, j \in DOMAIN children[p] :
                  i < j /\ t \in Below(p, i) /\ u \in Below(p, j)

\* A scope is the child of one scope, once, and no scope is below itself.
TreeOK ==
  /\ \A p, q \in Scopes : \A i \in DOMAIN children[p], j \in DOMAIN children[q] :
       children[p][i] = children[q][j] => p = q /\ i = j
  /\ \E rank \in [Scopes -> Nat] : \A p \in Scopes : \A i \in DOMAIN children[p] :
       rank[children[p][i]] > rank[p]
  /\ \A p \in Scopes : \A i \in DOMAIN children[p] : {p, children[p][i]} \subseteq born

\* What a pass reaches from s is s, the children of what it reaches, and no more.
LEMMA UnderFacts ==
  ASSUME TypeOK, NEW s \in Scopes
  PROVE  /\ Under(s) \subseteq Scopes /\ s \in Under(s) /\ Closed(Under(s))
         /\ \A U \in SUBSET Scopes : s \in U /\ Closed(U) => Under(s) \subseteq U
         /\ \A t \in Under(s) : Under(t) \subseteq Under(s)
  <1>1. Under(s) \subseteq Scopes /\ s \in Under(s)
    BY DEF Under
  <1>2. Closed(Under(s))
    <2> SUFFICES ASSUME NEW u \in Under(s), NEW i \in DOMAIN children[u]
                 PROVE  children[u][i] \in Under(s)
      BY DEF Closed
    <2>1. children[u][i] \in Scopes
      BY <1>1 DEF TypeOK
    <2>2. ASSUME NEW U \in SUBSET Scopes, s \in U, Closed(U) PROVE children[u][i] \in U
      BY <2>2 DEF Under, Closed
    <2> QED BY <2>1, <2>2 DEF Under
  <1>3. \A U \in SUBSET Scopes : s \in U /\ Closed(U) => Under(s) \subseteq U
    BY DEF Under
  <1>4. ASSUME NEW t \in Under(s) PROVE Under(t) \subseteq Under(s)
    BY <1>1, <1>2, <1>4 DEF Under
  <1> QED BY <1>1, <1>2, <1>3, <1>4

\* The children of a scope are scopes below it.
LEMMA KidFacts ==
  ASSUME TypeOK, NEW q \in Scopes
  PROVE  /\ children[q] \in Seq(Scopes) /\ Len(children[q]) \in Nat
         /\ DOMAIN children[q] = 1 .. Len(children[q])
         /\ \A k \in DOMAIN children[q] :
              /\ k \in Nat \ {0} /\ children[q][k] \in Scopes
              /\ children[q][k] \in Under(q) /\ children[q][k] \in Below(q, k)
  <1>1. children[q] \in Seq(Scopes)
    BY DEF TypeOK
  <1>2. Len(children[q]) \in Nat /\ DOMAIN children[q] = 1 .. Len(children[q])
    BY <1>1
  <1>3. \A k \in DOMAIN children[q] : k \in Nat \ {0} /\ children[q][k] \in Scopes
    BY <1>1, <1>2
  <1> QED BY <1>1, <1>2, <1>3, UnderFacts DEF Closed, Below

\* A scope below s is s or is below one of its children, and is a child of a
\* scope below s unless it is s.
LEMMA UnderCases ==
  ASSUME TypeOK, NEW s \in Scopes, NEW t \in Under(s), t # s
  PROVE  /\ \E i \in DOMAIN children[s] : children[s][i] \in Scopes /\ t \in Below(s, i)
         /\ \E p \in Under(s) : \E i \in DOMAIN children[p] : t = children[p][i]
  <1>k. \A p \in Scopes : \A i \in DOMAIN children[p] : children[p][i] \in Scopes
    BY KidFacts
  <1>1. \E i \in DOMAIN children[s] : children[s][i] \in Scopes /\ t \in Below(s, i)
    <2> DEFINE U == {u \in Scopes : u = s \/ \E i \in DOMAIN children[s] : u \in Below(s, i)}
    <2>1. s \in U /\ U \subseteq Scopes
      OBVIOUS
    <2>2. Closed(U)
      <3> SUFFICES ASSUME NEW u \in U, NEW j \in DOMAIN children[u] PROVE children[u][j] \in U
        BY DEF Closed
      <3>1. CASE u = s
        <4>1. children[s][j] \in Below(s, j)
          BY <1>k, <3>1, UnderFacts DEF Below
        <4> QED BY <1>k, <3>1, <4>1
      <3>2. ASSUME NEW i \in DOMAIN children[s], u \in Below(s, i) PROVE children[u][j] \in U
        <4>1. Closed(Below(s, i))
          BY <1>k, <3>2, UnderFacts DEF Below
        <4>2. children[u][j] \in Below(s, i)
          BY <3>2, <4>1 DEF Closed
        <4> QED BY <1>k, <3>2, <4>2
      <3> QED BY <3>1, <3>2
    <2>3. Under(s) \subseteq U
      BY <2>1, <2>2, UnderFacts
    <2> QED BY <1>k, <2>3
  <1>2. \E p \in Under(s) : \E i \in DOMAIN children[p] : t = children[p][i]
    <2> DEFINE U == {u \in Under(s) : u = s \/ \E p \in Under(s) : \E i \in DOMAIN children[p] : u = children[p][i]}
    <2>1. s \in U /\ U \subseteq Scopes /\ U \subseteq Under(s)
      BY UnderFacts
    <2>2. Closed(U)
      <3> SUFFICES ASSUME NEW u \in U, NEW j \in DOMAIN children[u] PROVE children[u][j] \in U
        BY DEF Closed
      <3>1. children[u][j] \in Under(s)
        BY UnderFacts DEF Closed
      <3> QED BY <3>1
    <2>3. Under(s) \subseteq U
      BY <2>1, <2>2, UnderFacts
    <2> QED BY <2>3
  <1> QED BY <1>1, <1>2

\* Two scopes are not below each other.
LEMMA UnderOneWay ==
  ASSUME TypeOK, TreeOK, NEW s \in Scopes, NEW t \in Under(s)
  PROVE  /\ s \in Under(t) => s = t
         /\ \A i \in DOMAIN children[t] : s \notin Below(t, i)
  <1>k. \A p \in Scopes : \A i \in DOMAIN children[p] : children[p][i] \in Scopes
    BY KidFacts
  <1>r. PICK rank \in [Scopes -> Nat] : \A p \in Scopes : \A i \in DOMAIN children[p] :
                                          rank[children[p][i]] > rank[p]
    BY DEF TreeOK
  <1>1. ASSUME NEW a \in Scopes, NEW b \in Under(a) PROVE b \in Scopes /\ rank[b] >= rank[a]
    <2> DEFINE U == {u \in Scopes : rank[u] >= rank[a]}
    <2>1. a \in U /\ U \subseteq Scopes
      BY <1>r
    <2>2. Closed(U)
      <3> SUFFICES ASSUME NEW u \in U, NEW j \in DOMAIN children[u] PROVE children[u][j] \in U
        BY DEF Closed
      <3>1. rank[children[u][j]] > rank[u] /\ children[u][j] \in Scopes
        BY <1>k, <1>r
      <3>2. rank[children[u][j]] \in Nat /\ rank[u] \in Nat /\ rank[a] \in Nat
        BY <3>1
      <3> QED BY <3>1, <3>2
    <2> QED BY <2>1, <2>2, UnderFacts
  <1>2. t \in Scopes
    BY <1>1
  <1>3. ASSUME NEW i \in DOMAIN children[t], s \in Below(t, i) PROVE FALSE
    <2>1. children[t][i] \in Scopes /\ rank[children[t][i]] > rank[t]
      BY <1>k, <1>r, <1>2
    <2>2. rank[s] >= rank[children[t][i]]
      BY <1>1, <1>3, <2>1 DEF Below
    <2>3. rank[t] >= rank[s]
      BY <1>1
    <2> QED BY <1>2, <2>1, <2>2, <2>3
  <1>4. ASSUME s \in Under(t), s # t PROVE FALSE
    BY <1>2, <1>3, <1>4, UnderCases
  <1> QED BY <1>3, <1>4

\* The scopes above a scope are above one another.
LEMMA AboveChain ==
  ASSUME TypeOK, TreeOK, NEW a \in Scopes, NEW b \in Scopes, NEW t \in Under(a), t \in Under(b)
  PROVE  a \in Under(b) \/ b \in Under(a)
  <1> DEFINE U == {u \in Under(a) : u \in Under(b) => a \in Under(b) \/ b \in Under(a)}
  <1>1. a \in U /\ U \subseteq Scopes /\ U \subseteq Under(a)
    BY UnderFacts
  <1>2. Closed(U)
    <2> SUFFICES ASSUME NEW u \in U, NEW j \in DOMAIN children[u] PROVE children[u][j] \in U
      BY DEF Closed
    <2>1. children[u][j] \in Under(a) /\ u \in Scopes
      BY UnderFacts DEF Closed
    <2>2. ASSUME children[u][j] \in Under(b) PROVE a \in Under(b) \/ b \in Under(a)
      <3>1. CASE children[u][j] = b
        BY <2>1, <3>1
      <3>2. CASE children[u][j] # b
        <4>1. PICK p \in Under(b) : \E i \in DOMAIN children[p] : children[u][j] = children[p][i]
          BY <2>2, <3>2, UnderCases
        <4>2. p = u
          BY <2>1, <4>1, UnderFacts DEF TreeOK
        <4> QED BY <4>1, <4>2
      <3> QED BY <3>1, <3>2
    <2> QED BY <2>1, <2>2
  <1> QED BY <1>1, <1>2, UnderFacts

\* No scope is below two children of a scope.
LEMMA BelowOne ==
  ASSUME TypeOK, TreeOK, NEW p \in Scopes, NEW i \in DOMAIN children[p], NEW j \in DOMAIN children[p],
         NEW t \in Below(p, i), t \in Below(p, j)
  PROVE  i = j
  <1>k. \A k \in DOMAIN children[p] : children[p][k] \in Scopes /\ children[p][k] \in Under(p)
    BY KidFacts
  <1>1. ASSUME NEW x \in DOMAIN children[p], NEW y \in DOMAIN children[p], children[p][x] \in Below(p, y)
        PROVE  x = y
    <2>1. CASE children[p][x] = children[p][y]
      BY <2>1 DEF TreeOK
    <2>2. CASE children[p][x] # children[p][y]
      <3>1. PICK q \in Below(p, y) : \E k \in DOMAIN children[q] : children[p][x] = children[q][k]
        BY <1>k, <1>1, <2>2, UnderCases DEF Below
      <3>2. q \in Scopes
        BY <1>k, <3>1, UnderFacts DEF Below
      <3>3. q = p
        BY <3>1, <3>2 DEF TreeOK
      <3>4. p \notin Below(p, y)
        BY UnderFacts, UnderOneWay
      <3> QED BY <3>1, <3>3, <3>4
    <2> QED BY <2>1, <2>2
  <1>2. children[p][i] \in Below(p, j) \/ children[p][j] \in Below(p, i)
    BY <1>k, AboveChain DEF Below
  <1> QED BY <1>1, <1>2

\* Of two scopes one of which comes before the other, neither is below the other,
\* and the other does not come before it.
LEMMA BeforeIsStrict ==
  ASSUME TypeOK, TreeOK, NEW t \in Scopes, NEW u \in Scopes, Before(t, u)
  PROVE  t \notin Under(u) /\ u \notin Under(t) /\ ~Before(u, t)
  <1>k. \A q \in Scopes : \A k \in DOMAIN children[q] :
          k \in Nat /\ children[q][k] \in Scopes /\ children[q][k] \in Under(q)
    BY KidFacts
  <1>1. PICK p \in Scopes : \E i, j \in DOMAIN children[p] :
                             i < j /\ t \in Below(p, i) /\ u \in Below(p, j)
    BY DEF Before
  <1>2. PICK i \in DOMAIN children[p], j \in DOMAIN children[p] :
               i < j /\ t \in Below(p, i) /\ u \in Below(p, j)
    BY <1>1
  <1>3. i # j /\ i \in Nat /\ j \in Nat
    BY <1>2, <1>k
  <1>4. t \notin Under(u) /\ u \notin Under(t)
    <2>1. \A k \in DOMAIN children[p] : \A x \in Below(p, k) : Under(x) \subseteq Below(p, k)
      BY <1>k, UnderFacts DEF Below
    <2> QED BY <1>2, <1>3, <2>1, BelowOne
  <1>5. ASSUME Before(u, t) PROVE FALSE
    <2>1. PICK q \in Scopes : \E x, y \in DOMAIN children[q] :
                               x < y /\ u \in Below(q, x) /\ t \in Below(q, y)
      BY <1>5 DEF Before
    <2>2. PICK x \in DOMAIN children[q], y \in DOMAIN children[q] :
                 x < y /\ u \in Below(q, x) /\ t \in Below(q, y)
      BY <2>1
    <2>3. x # y /\ x \in Nat /\ y \in Nat
      BY <2>2, <1>k
    <2>4. \/ children[p][i] \in Below(q, y)
          \/ children[q][y] \in Below(p, i)
      BY <1>k, <1>2, <2>2, AboveChain DEF Below
    \* The part one order tells apart is inside a part of the other.
    <2>5. ASSUME NEW a \in Scopes, NEW b \in Scopes, NEW k \in DOMAIN children[a],
                 NEW l \in DOMAIN children[b], children[a][k] \in Below(b, l)
          PROVE  (a = b /\ k = l) \/ a \in Below(b, l)
      <3>1. CASE children[a][k] = children[b][l]
        BY <3>1 DEF TreeOK
      <3>2. CASE children[a][k] # children[b][l]
        <4>1. PICK c \in Below(b, l) : \E m \in DOMAIN children[c] : children[a][k] = children[c][m]
          BY <1>k, <2>5, <3>2, UnderCases DEF Below
        <4>2. c \in Scopes
          BY <1>k, <4>1, UnderFacts DEF Below
        <4>3. c = a
          BY <4>1, <4>2 DEF TreeOK
        <4> QED BY <4>1, <4>3
      <3> QED BY <3>1, <3>2
    <2>6. \A a \in Scopes : \A k \in DOMAIN children[a] : Below(a, k) \subseteq Under(a)
      BY <1>k, UnderFacts DEF Below
    <2>7. CASE p = q /\ i = y
      BY <1>2, <1>3, <2>2, <2>3, <2>7, BelowOne
    <2>8. CASE p \in Below(q, y)
      <3>1. Under(p) \subseteq Below(q, y)
        BY <1>k, <2>8, UnderFacts DEF Below
      <3> QED BY <1>2, <2>2, <2>3, <2>6, <3>1, BelowOne
    <2>9. CASE q \in Below(p, i)
      <3>1. Under(q) \subseteq Below(p, i)
        BY <1>k, <2>9, UnderFacts DEF Below
      <3> QED BY <1>2, <1>3, <2>2, <2>6, <3>1, BelowOne
    <2> QED BY <2>4, <2>5, <2>7, <2>8, <2>9
  <1> QED BY <1>4, <1>5

\* Of two scopes a pass reaches, one is below the other or comes before it.
LEMMA BeforeIsTotal ==
  ASSUME TypeOK, NEW s \in Scopes, NEW t \in Under(s), NEW h \in Under(s)
  PROVE  t \in Under(h) \/ h \in Under(t) \/ Before(t, h) \/ Before(h, t)
  <1>k. \A q \in Scopes : \A k \in DOMAIN children[q] :
          k \in Nat /\ children[q][k] \in Scopes /\ children[q][k] \in Under(q)
    BY KidFacts
  <1>h. h \in Scopes
    BY UnderFacts
  <1> DEFINE U == {u \in Scopes : u \in Under(h) \/ h \in Under(u) \/ Before(u, h) \/ Before(h, u)}
  <1>1. s \in U /\ U \subseteq Scopes
    OBVIOUS
  <1>2. Closed(U)
    <2> SUFFICES ASSUME NEW u \in U, NEW j \in DOMAIN children[u] PROVE children[u][j] \in U
      BY DEF Closed
    <2>c. children[u][j] \in Scopes /\ children[u][j] \in Under(u)
      BY <1>k
    <2>1. CASE u \in Under(h)
      BY <1>h, <2>1, <2>c, UnderFacts
    <2>2. ASSUME Before(u, h) PROVE Before(children[u][j], h)
      <3>1. \A p \in Scopes : \A i \in DOMAIN children[p] :
              u \in Below(p, i) => children[u][j] \in Below(p, i)
        BY <1>k, <2>c, UnderFacts DEF Below
      <3> QED BY <2>2, <3>1 DEF Before
    <2>3. ASSUME Before(h, u) PROVE Before(h, children[u][j])
      <3>1. \A p \in Scopes : \A i \in DOMAIN children[p] :
              u \in Below(p, i) => children[u][j] \in Below(p, i)
        BY <1>k, <2>c, UnderFacts DEF Below
      <3> QED BY <2>3, <3>1 DEF Before
    <2>4. ASSUME h \in Under(u), u # h PROVE children[u][j] \in U
      <3>1. PICK i \in DOMAIN children[u] : h \in Below(u, i)
        BY <2>4, UnderCases
      <3>2. children[u][j] \in Below(u, j)
        BY <2>c, UnderFacts DEF Below
      <3>3. i \in Nat /\ j \in Nat
        BY <1>k, UnderFacts
      <3>4. CASE i < j
        BY <2>c, <3>1, <3>2, <3>4 DEF Before
      <3>5. CASE j < i
        BY <2>c, <3>1, <3>2, <3>5 DEF Before
      <3>6. CASE i = j
        BY <2>c, <3>1, <3>6 DEF Below
      <3> QED BY <3>3, <3>4, <3>5, <3>6
    <2>5. CASE u = h
      BY <1>h, <2>5, <2>c
    <2> QED BY <2>1, <2>2, <2>3, <2>4, <2>5, <2>c
  <1>3. t \in U
    BY <1>1, <1>2, UnderFacts
  <1> QED BY <1>3

\* What comes before a child comes before its parent or is below an earlier
\* child, and what is above the child is the child or is above its parent.
LEMMA ChildOrder ==
  ASSUME TypeOK, TreeOK, NEW p \in Scopes, NEW i \in DOMAIN children[p], NEW t \in Scopes
  PROVE  /\ Before(t, children[p][i]) <=>
              Before(t, p) \/ \E q \in DOMAIN children[p] : q < i /\ t \in Below(p, q)
         /\ children[p][i] \in Under(t) <=> t = children[p][i] \/ p \in Under(t)
         /\ p \in Under(t) => t # children[p][i]
  <1> DEFINE c == children[p][i]
  <1>k. c \in Scopes /\ c \in Under(p) /\ c \in Below(p, i)
    BY KidFacts
  <1>s. \A q \in Scopes : \A k \in DOMAIN children[q] : children[q][k] \in Scopes
    BY KidFacts
  <1>1. ASSUME NEW q \in Scopes, c \in Under(q), c # q PROVE p \in Under(q)
    <2>1. PICK x \in Under(q) : \E j \in DOMAIN children[x] : c = children[x][j]
      BY <1>1, UnderCases
    <2>2. x = p
      BY <2>1, UnderFacts DEF TreeOK
    <2> QED BY <2>1, <2>2
  <1>2. ASSUME Before(t, c)
        PROVE  Before(t, p) \/ \E q \in DOMAIN children[p] : q < i /\ t \in Below(p, q)
    <2>1. PICK a \in Scopes : \E x, y \in DOMAIN children[a] :
                               x < y /\ t \in Below(a, x) /\ c \in Below(a, y)
      BY <1>2 DEF Before
    <2>2. PICK x \in DOMAIN children[a], y \in DOMAIN children[a] :
                 x < y /\ t \in Below(a, x) /\ c \in Below(a, y)
      BY <2>1
    <2>3. CASE c = children[a][y]
      <3>1. a = p /\ y = i
        BY <2>3 DEF TreeOK
      <3> QED BY <2>2, <3>1
    <2>4. CASE c # children[a][y]
      <3>1. p \in Below(a, y)
        BY <1>1, <1>s, <2>2, <2>4 DEF Below
      <3> QED BY <2>2, <3>1 DEF Before
    <2> QED BY <2>3, <2>4
  <1>3. ASSUME Before(t, p) PROVE Before(t, c)
    <2>1. \A a \in Scopes : \A y \in DOMAIN children[a] : p \in Below(a, y) => c \in Below(a, y)
      BY <1>k, <1>s, UnderFacts DEF Below
    <2> QED BY <1>3, <2>1 DEF Before
  <1>4. ASSUME NEW q \in DOMAIN children[p], q < i, t \in Below(p, q) PROVE Before(t, c)
    BY <1>k, <1>4 DEF Before
  <1>5. ASSUME p \in Under(t) PROVE c \in Under(t) /\ t # c
    <2>1. c \in Under(t)
      BY <1>k, <1>5, UnderFacts
    <2>2. t # c
      BY <1>k, <1>5, UnderOneWay
    <2> QED BY <2>1, <2>2
  <1> QED BY <1>1, <1>2, <1>3, <1>4, <1>5, <1>k, UnderFacts

-----------------------------------------------------------------------------
(* What a pass has seen                                                    *)

\* The activation u of a pass is at hand: slot j of scope t has been visited.
Seen(u, t, j) ==
  \/ Before(t, u.s)
  \/ t # u.s /\ u.s \in Under(t)
  \/ t = u.s /\ j > u.wi
  \/ \E q \in DOMAIN children[u.s] : q < u.i /\ t \in Below(u.s, q)

\* A pass visits slot j of t after slot k of h.
After(h, k, t, j) ==
  \/ Before(h, t)
  \/ t # h /\ t \in Under(h)
  \/ t = h /\ j < k

\* What the pass of frame f has visited.
SeenBy(f, t, j) == f.trav = <<>> \/ Seen(f.trav[Len(f.trav)], t, j)

\* Coming to a child for the first time.
LEMMA SeenEnter ==
  ASSUME TypeOK, TreeOK, NEW u, u.s \in Scopes, u.wi = 0, u.i \in DOMAIN children[u.s],
         NEW v, v.s = children[u.s][u.i], v.i = 0,
         NEW t \in Scopes, NEW j \in Nat, j > 0
  PROVE  /\ Seen(u, t, j) => Seen(v, t, j)
         /\ Seen(v, t, j) => Seen(u, t, j) \/ (t = v.s /\ j > v.wi)
  <1>k. /\ v.s \in Scopes /\ v.s \in Under(u.s)
        /\ \A q \in DOMAIN children[u.s] : q \in Nat /\ children[u.s][q] \in Scopes
        /\ \A q \in DOMAIN children[v.s] : q \in Nat
    BY KidFacts
  <1>1. ASSUME Seen(u, t, j) PROVE Seen(v, t, j)
    <2>1. CASE Before(t, u.s) \/ \E q \in DOMAIN children[u.s] : q < u.i /\ t \in Below(u.s, q)
      BY <2>1, ChildOrder DEF Seen
    <2>2. CASE u.s \in Under(t)
      BY <2>2, ChildOrder DEF Seen
    <2>3. CASE t = u.s
      BY <2>3, <2>2, UnderFacts
    <2> QED BY <1>1, <2>1, <2>2, <2>3 DEF Seen
  <1>2. ASSUME Seen(v, t, j) PROVE Seen(u, t, j) \/ (t = v.s /\ j > v.wi)
    <2>1. CASE Before(t, v.s)
      <3>1. Before(t, u.s) \/ \E q \in DOMAIN children[u.s] : q < u.i /\ t \in Below(u.s, q)
        BY <2>1, ChildOrder
      <3> QED BY <3>1 DEF Seen
    <2>2. CASE t # v.s /\ v.s \in Under(t)
      <3>1. u.s \in Under(t)
        BY <2>2, ChildOrder
      <3>2. j > u.wi
        OBVIOUS
      <3> QED BY <3>1, <3>2 DEF Seen
    <2>3. CASE \E q \in DOMAIN children[v.s] : q < v.i /\ t \in Below(v.s, q)
      BY <1>k, <2>3
    <2> QED BY <1>2, <2>1, <2>2, <2>3 DEF Seen
  <1> QED BY <1>1, <1>2

\* Coming back from a child: u is its parent, about to visit the next.
LEMMA SeenLeave ==
  ASSUME TypeOK, TreeOK, NEW u, u.s \in Scopes, u.wi = 0, NEW i \in DOMAIN children[u.s], u.i = i + 1,
         NEW v, v.s = children[u.s][i], v.wi = 0, v.i \in Nat, v.i > Len(children[v.s]),
         NEW t \in Scopes, NEW j \in Nat, j > 0
  PROVE  Seen(u, t, j) <=> Seen(v, t, j)
  <1>k. /\ v.s \in Scopes /\ v.s \in Under(u.s) /\ v.s \in Below(u.s, i) /\ i \in Nat
        /\ \A q \in DOMAIN children[u.s] : q \in Nat /\ children[u.s][q] \in Scopes
        /\ Len(children[v.s]) \in Nat /\ DOMAIN children[v.s] = 1 .. Len(children[v.s])
        /\ \A q \in DOMAIN children[v.s] : q \in Nat /\ children[v.s][q] \in Scopes
    BY KidFacts
  <1>1. ASSUME Seen(u, t, j) PROVE Seen(v, t, j)
    <2>1. CASE Before(t, u.s)
      BY <2>1, ChildOrder DEF Seen
    <2>2. CASE u.s \in Under(t)
      BY <2>2, ChildOrder DEF Seen
    <2>3. CASE t = u.s
      BY <2>3, <2>2, UnderFacts
    <2>4. ASSUME NEW q \in DOMAIN children[u.s], q < u.i, t \in Below(u.s, q) PROVE Seen(v, t, j)
      <3>1. CASE q < i
        BY <2>4, <3>1, ChildOrder DEF Seen
      <3>2. CASE q = i /\ t = v.s
        BY <3>2 DEF Seen
      <3>3. CASE q = i /\ t # v.s
        <4>1. \E x \in DOMAIN children[v.s] : t \in Below(v.s, x)
          BY <1>k, <2>4, <3>3, UnderCases DEF Below
        <4> QED BY <1>k, <4>1 DEF Seen
      <3> QED BY <1>k, <2>4, <3>1, <3>2, <3>3
    <2> QED BY <1>1, <2>1, <2>2, <2>3, <2>4 DEF Seen
  <1>2. ASSUME Seen(v, t, j) PROVE Seen(u, t, j)
    <2>1. CASE Before(t, v.s)
      <3>1. Before(t, u.s) \/ \E q \in DOMAIN children[u.s] : q < i /\ t \in Below(u.s, q)
        BY <2>1, ChildOrder
      <3> QED BY <1>k, <3>1 DEF Seen
    <2>2. CASE t # v.s /\ v.s \in Under(t)
      <3>1. u.s \in Under(t)
        BY <2>2, ChildOrder
      <3> QED BY <3>1 DEF Seen
    <2>3. CASE t \in Below(u.s, i)
      BY <1>k, <2>3 DEF Seen
    <2>4. CASE t = v.s
      BY <1>k, <2>3, <2>4
    <2>5. ASSUME NEW q \in DOMAIN children[v.s], t \in Below(v.s, q) PROVE t \in Below(u.s, i)
      <3>1. children[v.s][q] \in Under(v.s)
        BY <1>k, KidFacts
      <3> QED BY <1>k, <2>5, <3>1, UnderFacts DEF Below
    <2> QED BY <1>2, <2>1, <2>2, <2>3, <2>4, <2>5 DEF Seen
  <1> QED BY <1>1, <1>2

\* What follows the slot just visited has not been seen.
LEMMA AfterUnseen ==
  ASSUME TypeOK, TreeOK, NEW u, u.s \in Scopes, u.i = 0, u.wi \in Nat,
         NEW t \in Scopes, NEW j \in Nat, After(u.s, u.wi + 1, t, j)
  PROVE  ~Seen(u, t, j)
  <1>k. \A q \in DOMAIN children[u.s] : q \in Nat
    BY KidFacts
  <1>1. CASE Before(u.s, t)
    <2>1. u.s \notin Under(t) /\ ~Before(t, u.s) /\ t # u.s
      BY <1>1, BeforeIsStrict, UnderFacts
    <2> QED BY <1>k, <2>1 DEF Seen
  <1>2. CASE t # u.s /\ t \in Under(u.s)
    <2>1. ~Before(t, u.s) /\ u.s \notin Under(t)
      BY <1>2, BeforeIsStrict, UnderOneWay
    <2> QED BY <1>k, <1>2, <2>1 DEF Seen
  <1>3. CASE t = u.s /\ j < u.wi + 1
    <2>1. ~Before(t, u.s)
      BY <1>3, BeforeIsStrict, UnderFacts
    <2> QED BY <1>k, <1>3, <2>1 DEF Seen
  <1> QED BY <1>1, <1>2, <1>3 DEF After

\* The slot at hand has not been seen.
LEMMA HereUnseen ==
  ASSUME TypeOK, TreeOK, NEW u, u.s \in Scopes, u.wi \in Nat, u.i = 0
  PROVE  ~Seen(u, u.s, u.wi)
  <1>1. ~Before(u.s, u.s)
    BY BeforeIsStrict, UnderFacts
  <1> QED BY <1>1, KidFacts DEF Seen

\* Where a pass from s begins, nothing has been seen but what s has no slot for.
LEMMA StartUnseen ==
  ASSUME TypeOK, TreeOK, NEW u, u.s \in Scopes, u.i = 0,
         NEW t \in Under(u.s), NEW j, Seen(u, t, j)
  PROVE  t = u.s /\ j > u.wi
  <1>1. t \in Scopes
    BY UnderFacts
  <1>2. ~Before(t, u.s)
    BY <1>1, BeforeIsStrict
  <1>3. u.s \in Under(t) => t = u.s
    BY UnderOneWay
  <1> QED BY <1>2, <1>3, KidFacts DEF Seen

\* When s itself is left, every slot has been seen.
LEMMA EndSeen ==
  ASSUME TypeOK, NEW u, u.s \in Scopes, u.wi = 0, u.i \in Nat, u.i > Len(children[u.s]),
         NEW t \in Under(u.s), NEW j \in Nat, j > 0
  PROVE  Seen(u, t, j)
  <1>1. CASE t = u.s
    BY <1>1 DEF Seen
  <1>2. CASE t # u.s
    <2>1. PICK q \in DOMAIN children[u.s] : t \in Below(u.s, q)
      BY <1>2, UnderCases
    <2>2. q < u.i
      BY KidFacts
    <2> QED BY <2>1, <2>2 DEF Seen
  <1> QED BY <1>1, <1>2

\* A slot below s has been seen, is at hand, or follows the one at hand.
LEMMA SeenOrAfter ==
  ASSUME TypeOK, NEW s \in Scopes, NEW u, u.s \in Under(s), u.wi \in Nat,
         NEW t \in Under(s), NEW j \in Nat
  PROVE  Seen(u, t, j) \/ After(u.s, u.wi, t, j) \/ (t = u.s /\ j = u.wi)
  <1>1. t \in Under(u.s) \/ u.s \in Under(t) \/ Before(t, u.s) \/ Before(u.s, t)
    BY BeforeIsTotal
  <1>2. CASE t = u.s
    <2>1. j > u.wi \/ j < u.wi \/ j = u.wi
      OBVIOUS
    <2> QED BY <1>2, <2>1 DEF Seen, After
  <1>3. CASE t # u.s
    BY <1>1, <1>3 DEF Seen, After
  <1> QED BY <1>2, <1>3

-----------------------------------------------------------------------------
(* Why a digest that stops early has seen every watcher at its present value *)

\* A watcher is in one slot, of the scope it was registered on.
SlotsOK ==
  \A t \in Scopes : \A j \in DOMAIN watchers[t] : watchers[t][j] # Null =>
    /\ home[watchers[t][j]] = t
    /\ \A k \in DOMAIN watchers[t] : watchers[t][k] = watchers[t][j] => k = j

\* The watcher of a slot, if there is one to visit, was seen at its present value.
CleanAt(t, j) == t \in dead \/ watchers[t][j] = Null \/ ~Stale(watchers[t][j])

LastAt(h, k) == lastDirty # Null /\ watchers[h][k] = lastDirty

\* The activations of a pass over s lead from s down.
Walk(s, T) ==
  /\ T # <<>> => T[1].s = s
  /\ \A m \in DOMAIN T :
       /\ T[m].s \in Under(s) /\ T[m].wi <= Len(watchers[T[m].s])
       /\ T[m].i > 0 => T[m].wi = 0 /\ T[m].n = Len(children[T[m].s])
  /\ \A m \in 1 .. Len(T) - 1 :
       T[m].i - 1 \in DOMAIN children[T[m].s] /\ T[m + 1].s = children[T[m].s][T[m].i - 1]

\* What a pass over s visits after the last dirty watcher is clean.
RestClean(s) ==
  \A h \in Under(s) : \A k \in DOMAIN watchers[h] : LastAt(h, k) =>
    \A t \in Under(s) : \A j \in DOMAIN watchers[t] : After(h, k, t, j) => CleanAt(t, j)

\* Between two passes: what the one found dirty last, and nothing queued.
Draining(f) == lastDirty # Null => asyncN = 0 /\ RestClean(f.s)

\* In a pass that has found nothing dirty all it has seen is clean; in one that
\* has, all it has seen since the last dirty watcher.
Passing(f) ==
  /\ asyncN = 0 /\ Walk(f.s, f.trav)
  /\ ~f.flag => /\ RestClean(f.s)
                /\ \A t \in Under(f.s) : \A j \in DOMAIN watchers[t] :
                     SeenBy(f, t, j) => CleanAt(t, j)
  /\ f.flag => \A h \in Under(f.s) : \A k \in DOMAIN watchers[h] : LastAt(h, k) =>
                 /\ SeenBy(f, h, k)
                 /\ \A t \in Under(f.s) : \A j \in DOMAIN watchers[t] :
                      After(h, k, t, j) /\ SeenBy(f, t, j) => CleanAt(t, j)

\* While a listener runs, the last dirty watcher is the one whose listener it is.
Listening(f) ==
  /\ asyncN = 0 /\ Walk(f.s, f.trav) /\ f.flag
  /\ f.trav # <<>> /\ f.trav[Len(f.trav)].i = 0
  /\ \A h \in Scopes : \A k \in DOMAIN watchers[h] : LastAt(h, k) =>
       h = f.trav[Len(f.trav)].s /\ k = f.trav[Len(f.trav)].wi + 1

Working(f) == f.k = "digest" /\ f.pc \in {"async", "pass"}

\* A working digest is the innermost call, or called the innermost.
Running(f) == (f.pc = "async" => Draining(f)) /\ (f.pc = "pass" => Passing(f))
Waits(f, at) == /\ f.pc = "async" => at = "async" /\ lastDirty = Null
                /\ f.pc = "pass" => at = "listener" /\ Listening(f)

CleanInv ==
  \A i \in 1 .. Len(stack) : Working(stack[i]) =>
    \/ i = Len(stack) /\ Running(stack[i])
    \/ i = Len(stack) - 1 /\ Top.k = "user" /\ Waits(stack[i], Top.pc)

\* Listeners neither queue $evalAsync work, nor digest, nor change the tree, and
\* $evalAsync tasks do not digest.
Orderly == /\ {"evalAsync", "digest", "apply", "new", "destroy"} \cap Ops["listener"] = {}
           /\ {"digest", "apply"} \cap Ops["async"] = {}

\* A step that changes no value and at most empties slots.
Kept ==
  /\ UNCHANGED <<children, dead, last, cell>>
  /\ \A t \in Scopes : /\ DOMAIN watchers'[t] = DOMAIN watchers[t]
                       /\ Len(watchers'[t]) = Len(watchers[t])
                       /\ \A j \in DOMAIN watchers[t] : watchers'[t][j] \in {Null, watchers[t][j]}
  /\ lastDirty' \in {lastDirty, Null}

LEMMA SameTree ==
  ASSUME children' = children
  PROVE  /\ \A s : Under(s)' = Under(s)
         /\ \A p, i : Below(p, i)' = Below(p, i)
         /\ \A t, u : Before(t, u)' <=> Before(t, u)
         /\ \A u, t, j : Seen(u, t, j)' <=> Seen(u, t, j)
         /\ \A h, k, t, j : After(h, k, t, j)' <=> After(h, k, t, j)
  <1>1. \A s : Under(s)' = Under(s)
    BY DEF Under, Closed
  <1>2. \A p, i : Below(p, i)' = Below(p, i)
    BY <1>1 DEF Below
  <1>3. \A t, u : Before(t, u)' <=> Before(t, u)
    BY <1>2 DEF Before
  <1>4. \A u, t, j : Seen(u, t, j)' <=> Seen(u, t, j)
    BY <1>1, <1>2, <1>3 DEF Seen
  <1>5. \A h, k, t, j : After(h, k, t, j)' <=> After(h, k, t, j)
    BY <1>1, <1>3 DEF After
  <1> QED BY <1>1, <1>2, <1>3, <1>4, <1>5

LEMMA KeptFacts ==
  ASSUME TypeOK, Kept
  PROVE  /\ \A t \in Scopes : \A j \in DOMAIN watchers[t] : CleanAt(t, j) => CleanAt(t, j)'
         /\ \A h \in Scopes : \A k \in DOMAIN watchers[h] : LastAt(h, k)' => LastAt(h, k)
         /\ \A s \in Scopes : RestClean(s) => RestClean(s)'
         /\ \A s \in Scopes : \A T : Walk(s, T) /\ (\A m \in DOMAIN T : T[m].s \in Scopes) => Walk(s, T)'
  <1>1. \A t \in Scopes : \A j \in DOMAIN watchers[t] : CleanAt(t, j) => CleanAt(t, j)'
    BY DEF Kept, CleanAt, Stale
  <1>2. \A h \in Scopes : \A k \in DOMAIN watchers[h] : LastAt(h, k)' => LastAt(h, k)
    BY DEF Kept, LastAt
  <1>3. ASSUME NEW s \in Scopes, RestClean(s) PROVE RestClean(s)'
    <2>1. children' = children
      BY DEF Kept
    <2>2. \A x \in Under(s) : x \in Scopes /\ DOMAIN watchers'[x] = DOMAIN watchers[x]
      BY UnderFacts DEF Kept
    <2>3. ASSUME NEW h \in Under(s), NEW k \in DOMAIN watchers[h], LastAt(h, k)',
                 NEW t \in Under(s), NEW j \in DOMAIN watchers[t], After(h, k, t, j)
          PROVE  CleanAt(t, j)'
      <3>1. LastAt(h, k)
        BY <1>2, <2>2, <2>3
      <3>2. CleanAt(t, j)
        BY <1>3, <2>3, <3>1 DEF RestClean
      <3> QED BY <1>1, <2>2, <3>2
    <2> QED BY <2>1, <2>2, <2>3, SameTree DEF RestClean
  <1>4. ASSUME NEW s \in Scopes, NEW T, Walk(s, T), \A m \in DOMAIN T : T[m].s \in Scopes
        PROVE  Walk(s, T)'
    <2>1. children' = children /\ \A x \in Scopes : Len(watchers'[x]) = Len(watchers[x])
      BY DEF Kept
    <2>2. Under(s)' = Under(s)
      BY <2>1, SameTree
    <2> QED BY <1>4, <2>1, <2>2 DEF Walk
  <1> QED BY <1>1, <1>2, <1>3, <1>4

\* The slots of a scope.
LEMMA SlotFacts ==
  ASSUME TypeOK, NEW t \in Scopes
  PROVE  /\ Len(watchers[t]) \in Nat /\ DOMAIN watchers[t] = 1 .. Len(watchers[t])
         /\ \A j \in DOMAIN watchers[t] : j \in Nat \ {0} /\ watchers[t][j] \in Watchers \cup {Null}
  <1>1. watchers[t] \in Seq(Watchers \cup {Null})
    BY DEF TypeOK
  <1>2. Len(watchers[t]) \in Nat /\ DOMAIN watchers[t] = 1 .. Len(watchers[t])
    BY <1>1
  <1> QED BY <1>1, <1>2

Visits == [s : Scopes, wi : Nat, i : Nat, n : Nat]

\* What the types say of a frame and of the activations of its pass.
LEMMA FrameFacts ==
  ASSUME NEW f \in Frames
  PROVE  /\ f.s \in Scopes /\ f.flag \in BOOLEAN /\ f.trav \in Seq(Visits)
         /\ Len(f.trav) \in Nat /\ DOMAIN f.trav = 1 .. Len(f.trav)
         /\ \A m \in DOMAIN f.trav :
              /\ f.trav[m] \in Visits /\ f.trav[m].s \in Scopes /\ f.trav[m].wi \in Nat
              /\ f.trav[m].i \in Nat /\ f.trav[m].n \in Nat
         /\ f.trav # <<>> => Len(f.trav) > 0 /\ Len(f.trav) \in DOMAIN f.trav
  <1>1. f.s \in Scopes /\ f.flag \in BOOLEAN /\ f.trav \in Seq(Visits)
    BY DEF Frames, Visits
  <1>2. Len(f.trav) \in Nat /\ DOMAIN f.trav = 1 .. Len(f.trav)
    BY <1>1
  <1>3. \A m \in DOMAIN f.trav : f.trav[m] \in Visits
    BY <1>1, <1>2
  <1>4. f.trav # <<>> => Len(f.trav) > 0 /\ Len(f.trav) \in DOMAIN f.trav
    BY <1>1, <1>2, EmptySeq
  <1> QED BY <1>1, <1>2, <1>3, <1>4 DEF Visits

\* A pass that has seen more, and of that only slots that are clean, is as it was.
LEMMA PassGoesOn ==
  ASSUME TypeOK, Kept, asyncN' = asyncN, NEW f \in Frames, Passing(f),
         NEW g \in Frames, g.s = f.s, g.flag = f.flag, Walk(f.s, g.trav),
         \A t \in Under(f.s) : \A j \in DOMAIN watchers[t] :
           /\ SeenBy(f, t, j) => SeenBy(g, t, j)
           /\ SeenBy(g, t, j) => SeenBy(f, t, j) \/ CleanAt(t, j)'
  PROVE  Passing(g)'
  <1>f. f.s \in Scopes /\ \A m \in DOMAIN g.trav : g.trav[m].s \in Scopes
    BY FrameFacts
  <1>t. /\ children' = children /\ Under(f.s)' = Under(f.s)
        /\ \A h, k, t, j : After(h, k, t, j)' <=> After(h, k, t, j)
        /\ \A t, j : SeenBy(g, t, j)' <=> SeenBy(g, t, j)
        /\ \A x \in Under(f.s) : x \in Scopes /\ DOMAIN watchers'[x] = DOMAIN watchers[x]
    BY <1>f, SameTree, UnderFacts DEF Kept, SeenBy
  <1>1. asyncN' = 0 /\ Walk(f.s, g.trav)'
    BY <1>f, KeptFacts DEF Passing
  <1>2. ASSUME NEW t \in Under(f.s), NEW j \in DOMAIN watchers[t], CleanAt(t, j) PROVE CleanAt(t, j)'
    BY <1>t, <1>2, KeptFacts
  <1>3. ASSUME ~g.flag
        PROVE  /\ RestClean(f.s)'
               /\ \A t \in Under(f.s) : \A j \in DOMAIN watchers[t] : SeenBy(g, t, j) => CleanAt(t, j)'
    <2>1. RestClean(f.s)'
      BY <1>f, <1>3, KeptFacts DEF Passing
    <2>2. \A t \in Under(f.s) : \A j \in DOMAIN watchers[t] : SeenBy(f, t, j) => CleanAt(t, j)
      BY <1>3 DEF Passing
    <2> QED BY <1>2, <2>1, <2>2
  <1>4. ASSUME g.flag, NEW h \in Under(f.s), NEW k \in DOMAIN watchers[h], LastAt(h, k)'
        PROVE  /\ SeenBy(g, h, k)
               /\ \A t \in Under(f.s) : \A j \in DOMAIN watchers[t] :
                    After(h, k, t, j) /\ SeenBy(g, t, j) => CleanAt(t, j)'
    <2>1. LastAt(h, k)
      BY <1>4, <1>t, KeptFacts
    <2>2. /\ SeenBy(f, h, k)
          /\ \A t \in Under(f.s) : \A j \in DOMAIN watchers[t] :
               After(h, k, t, j) /\ SeenBy(f, t, j) => CleanAt(t, j)
      BY <1>4, <2>1 DEF Passing
    <2> QED BY <1>2, <2>2
  <1> QED BY <1>t, <1>1, <1>3, <1>4 DEF Passing

\* Where the pass of a frame is.
LEMMA WalkFacts ==
  ASSUME TypeOK, NEW f \in Frames, Walk(f.s, f.trav), NEW u, f.trav # <<>>, u = f.trav[Len(f.trav)]
  PROVE  /\ u \in Visits /\ u.s \in Scopes /\ u.wi \in Nat /\ u.i \in Nat /\ u.n \in Nat
         /\ u.s \in Under(f.s) /\ f.trav[1].s = f.s
         /\ u.i > 0 => u.wi = 0 /\ u.n = Len(children[u.s])
         /\ DOMAIN watchers[u.s] = 1 .. Len(watchers[u.s]) /\ Len(watchers[u.s]) \in Nat
         /\ u.wi <= Len(watchers[u.s])
         /\ u.wi > 0 => u.i = 0 /\ u.wi \in DOMAIN watchers[u.s]
  <1>1. /\ u \in Visits /\ u.s \in Scopes /\ u.wi \in Nat /\ u.i \in Nat /\ u.n \in Nat
        /\ Len(f.trav) \in DOMAIN f.trav
    BY FrameFacts
  <1>2. /\ u.s \in Under(f.s) /\ f.trav[1].s = f.s /\ u.wi <= Len(watchers[u.s])
        /\ u.i > 0 => u.wi = 0 /\ u.n = Len(children[u.s])
    BY <1>1 DEF Walk
  <1>3. DOMAIN watchers[u.s] = 1 .. Len(watchers[u.s]) /\ Len(watchers[u.s]) \in Nat
    BY <1>1, SlotFacts
  <1> QED BY <1>1, <1>2, <1>3

\* The pass with its innermost activation replaced by v.
Replaced(f, v) == [f.trav EXCEPT ![Len(f.trav)] = v]

LEMMA RevisitFacts ==
  ASSUME NEW f \in Frames, f.trav # <<>>, NEW v \in Visits,
         NEW T, T = Replaced(f, v)
  PROVE  /\ T \in Seq(Visits) /\ Len(T) = Len(f.trav) /\ T # <<>>
         /\ \A m \in 1 .. Len(f.trav) : T[m] = IF m = Len(f.trav) THEN v ELSE f.trav[m]
  <1>1. f.trav \in Seq(Visits) /\ Len(f.trav) \in Nat /\ Len(f.trav) > 0
    BY FrameFacts
  <1> QED BY <1>1 DEF Replaced

\* Replaced by one that is as far, it leads down as before.
LEMMA RevisitWalk ==
  ASSUME TypeOK, NEW f \in Frames, Walk(f.s, f.trav), f.trav # <<>>,
         NEW u, u = f.trav[Len(f.trav)],
         NEW v \in Visits, v.s = u.s, v.wi <= u.wi, v.i > 0 => v.wi = 0 /\ v.n = Len(children[u.s]),
         NEW T, T = Replaced(f, v)
  PROVE  Walk(f.s, T) /\ T \in Seq(Visits) /\ T # <<>> /\ T[Len(T)] = v
  <1>f. /\ Len(f.trav) \in Nat /\ Len(f.trav) > 0 /\ DOMAIN f.trav = 1 .. Len(f.trav)
        /\ v.wi \in Nat
    BY FrameFacts DEF Visits
  <1>u. /\ u.wi \in Nat /\ u.s \in Under(f.s) /\ f.trav[1].s = f.s /\ Len(watchers[u.s]) \in Nat
        /\ u.wi <= Len(watchers[u.s])
    BY WalkFacts
  <1>T. /\ T \in Seq(Visits) /\ Len(T) = Len(f.trav) /\ T # <<>> /\ DOMAIN T = DOMAIN f.trav
        /\ \A m \in 1 .. Len(f.trav) : T[m] = IF m = Len(f.trav) THEN v ELSE f.trav[m]
    BY <1>f, RevisitFacts
  <1>w. /\ \A m \in DOMAIN f.trav :
             /\ f.trav[m].s \in Under(f.s) /\ f.trav[m].wi <= Len(watchers[f.trav[m].s])
             /\ f.trav[m].i > 0 => f.trav[m].wi = 0 /\ f.trav[m].n = Len(children[f.trav[m].s])
        /\ \A m \in 1 .. Len(f.trav) - 1 :
             /\ f.trav[m].i - 1 \in DOMAIN children[f.trav[m].s]
             /\ f.trav[m + 1].s = children[f.trav[m].s][f.trav[m].i - 1]
    BY DEF Walk
  <1>1. T[1].s = f.s
    BY <1>f, <1>T, <1>u
  <1>2. ASSUME NEW m \in DOMAIN T
        PROVE  /\ T[m].s \in Under(f.s) /\ T[m].wi <= Len(watchers[T[m].s])
               /\ T[m].i > 0 => T[m].wi = 0 /\ T[m].n = Len(children[T[m].s])
    <2>1. CASE m = Len(f.trav)
      BY <1>f, <1>T, <1>u, <2>1
    <2>2. CASE m # Len(f.trav)
      BY <1>f, <1>T, <1>w, <2>2
    <2> QED BY <2>1, <2>2
  <1>3. ASSUME NEW m \in 1 .. Len(T) - 1
        PROVE  T[m].i - 1 \in DOMAIN children[T[m].s] /\ T[m + 1].s = children[T[m].s][T[m].i - 1]
    <2>1. m \in 1 .. Len(f.trav) /\ m + 1 \in 1 .. Len(f.trav) /\ m # Len(f.trav) /\ m \in 1 .. Len(f.trav) - 1
      BY <1>f, <1>T
    <2>2. T[m] = f.trav[m] /\ T[m + 1].s = f.trav[m + 1].s
      BY <1>T, <2>1
    <2> QED BY <1>w, <2>1, <2>2
  <1>4. T[Len(T)] = v
    <2>1. Len(f.trav) \in 1 .. Len(f.trav)
      BY <1>f
    <2> QED BY <2>1, <1>T
  <1>5. Walk(f.s, T)
    BY <1>1, <1>2, <1>3, <1>T DEF Walk
  <1> QED BY <1>4, <1>5, <1>T

\* The slot at hand is done with.
LEMMA SlotDone ==
  ASSUME TypeOK, TreeOK, Kept, asyncN' = asyncN, NEW f \in Frames, Passing(f), f.trav # <<>>,
         NEW u, u = f.trav[Len(f.trav)], u.wi > 0, CleanAt(u.s, u.wi)',
         NEW g \in Frames,
         g = [f EXCEPT !.trav = Replaced(f, [u EXCEPT !.wi = @ - 1])]
  PROVE  Passing(g)'
  <1> DEFINE v == [u EXCEPT !.wi = @ - 1]
  <1>u. /\ u \in Visits /\ u.s \in Scopes /\ u.wi \in Nat /\ u.i = 0
        /\ Walk(f.s, f.trav) /\ f.s \in Scopes
    BY WalkFacts, FrameFacts DEF Passing
  <1>v. v \in Visits /\ v.s = u.s /\ v.wi = u.wi - 1 /\ v.i = 0
    BY <1>u DEF Visits
  <1>g. g.s = f.s /\ g.flag = f.flag /\ g.trav = Replaced(f, v)
    BY DEF Frames
  <1> HIDE DEF v
  <1>1. Walk(f.s, g.trav) /\ g.trav # <<>> /\ g.trav[Len(g.trav)] = v
    <2>1. v.wi <= u.wi /\ ~(v.i > 0)
      BY <1>u, <1>v
    <2> QED BY <2>1, <1>u, <1>v, <1>g, RevisitWalk
  <1>3. ASSUME NEW t \in Under(f.s), NEW j \in DOMAIN watchers[t]
        PROVE  /\ SeenBy(f, t, j) => SeenBy(g, t, j)
               /\ SeenBy(g, t, j) => SeenBy(f, t, j) \/ CleanAt(t, j)'
    <2>1. j \in Nat
      BY <1>u, UnderFacts, SlotFacts
    <2>2. SeenBy(f, t, j) <=> Seen(u, t, j)
      BY DEF SeenBy
    <2>3. SeenBy(g, t, j) <=> Seen(v, t, j)
      BY <1>1 DEF SeenBy
    <2>4. j > v.wi <=> (j > u.wi \/ j = u.wi)
      BY <1>u, <1>v, <2>1
    <2>5. Seen(v, t, j) <=> (Seen(u, t, j) \/ (t = u.s /\ j = u.wi))
      BY <1>u, <1>v, <2>4 DEF Seen
    <2> QED BY <2>2, <2>3, <2>5
  <1> QED BY <1>1, <1>3, <1>g, PassGoesOn

\* The watcher at hand is clean and was the last dirty one: it is of an earlier
\* pass, and this pass need not go on.
LEMMA ShortCircuit ==
  ASSUME TypeOK, TreeOK, Kept, asyncN' = asyncN, NEW f \in Frames, Passing(f), f.trav # <<>>,
         NEW u, u = f.trav[Len(f.trav)], u.wi > 0, CleanAt(u.s, u.wi)', LastAt(u.s, u.wi),
         NEW g \in Frames, g = [f EXCEPT !.trav = <<>>]
  PROVE  Passing(g)'
  <1>u. /\ u.s \in Scopes /\ u.s \in Under(f.s) /\ u.wi \in Nat /\ u.i = 0 /\ u.wi \in DOMAIN watchers[u.s]
        /\ f.s \in Scopes /\ f.flag \in BOOLEAN
    BY WalkFacts, FrameFacts DEF Passing
  <1>g. g.s = f.s /\ g.flag = f.flag /\ g.trav = <<>>
    BY DEF Frames
  <1>1. ~f.flag
    <2> SUFFICES ASSUME f.flag PROVE FALSE
      OBVIOUS
    <2>1. SeenBy(f, u.s, u.wi)
      BY <1>u DEF Passing
    <2> QED BY <1>u, <2>1, HereUnseen DEF SeenBy
  <1>2. Walk(f.s, g.trav)
    BY <1>g DEF Walk
  <1>3. ASSUME NEW t \in Under(f.s), NEW j \in DOMAIN watchers[t]
        PROVE  /\ SeenBy(f, t, j) => SeenBy(g, t, j)
               /\ SeenBy(g, t, j) => SeenBy(f, t, j) \/ CleanAt(t, j)'
    <2>1. t \in Scopes /\ j \in Nat
      BY <1>u, UnderFacts, SlotFacts
    <2>2. Seen(u, t, j) \/ After(u.s, u.wi, t, j) \/ (t = u.s /\ j = u.wi)
      BY <1>u, <2>1, SeenOrAfter
    <2>3. After(u.s, u.wi, t, j) => CleanAt(t, j)
      BY <1>u, <1>1 DEF Passing, RestClean
    <2>4. CleanAt(t, j) => CleanAt(t, j)'
      BY <2>1, KeptFacts
    <2> QED BY <1>g, <2>2, <2>3, <2>4 DEF SeenBy
  <1> QED BY <1>2, <1>3, <1>g, PassGoesOn

\* The children of the scope at hand are about to be visited.
LEMMA ChildrenRead ==
  ASSUME TypeOK, TreeOK, Kept, asyncN' = asyncN, NEW f \in Frames, Passing(f), f.trav # <<>>,
         NEW u, u = f.trav[Len(f.trav)], u.wi = 0, u.i = 0,
         NEW g \in Frames,
         g = [f EXCEPT !.trav = Replaced(f, [u EXCEPT !.i = 1, !.n = Len(children[u.s])])]
  PROVE  Passing(g)'
  <1> DEFINE v == [u EXCEPT !.i = 1, !.n = Len(children[u.s])]
  <1>u. /\ u \in Visits /\ u.s \in Scopes /\ Walk(f.s, f.trav) /\ f.s \in Scopes
        /\ Len(children[u.s]) \in Nat /\ \A q \in DOMAIN children[u.s] : q \in Nat \ {0}
    BY WalkFacts, FrameFacts, KidFacts DEF Passing
  <1>v. v \in Visits /\ v.s = u.s /\ v.wi = 0 /\ v.i = 1 /\ v.n = Len(children[u.s])
    BY <1>u DEF Visits
  <1>g. g.s = f.s /\ g.flag = f.flag /\ g.trav = Replaced(f, v)
    BY DEF Frames
  <1> HIDE DEF v
  <1>1. Walk(f.s, g.trav) /\ g.trav # <<>> /\ g.trav[Len(g.trav)] = v
    <2>1. v.wi <= u.wi
      BY <1>v
    <2> QED BY <2>1, <1>u, <1>v, <1>g, RevisitWalk
  <1>3. ASSUME NEW t, NEW j PROVE SeenBy(g, t, j) <=> SeenBy(f, t, j)
    <2>1. Seen(v, t, j) <=> Seen(u, t, j)
      BY <1>u, <1>v DEF Seen
    <2> QED BY <1>1, <2>1 DEF SeenBy
  <1> QED BY <1>1, <1>3, <1>g, PassGoesOn

\* Going down to a child leads down.
LEMMA WalkDown ==
  ASSUME TypeOK, NEW s \in Scopes, NEW R \in Seq(Visits), R # <<>>, Walk(s, R),
         NEW v, v = R[Len(R)], NEW k \in Nat, v.i = k + 1, k \in DOMAIN children[v.s],
         NEW c, c.s = children[v.s][k], c.i = 0, c.wi <= Len(watchers[c.s]),
         NEW T, Len(T) = Len(R) + 1, DOMAIN T = 1 .. Len(R) + 1, T[Len(R) + 1] = c,
         \A m \in 1 .. Len(R) : T[m] = R[m]
  PROVE  Walk(s, T)
  <1> DEFINE L == Len(R)
  <1>f. L \in Nat /\ L > 0 /\ DOMAIN R = 1 .. L /\ v \in Visits
    BY EmptySeq
  <1>T. /\ Len(T) = L + 1 /\ DOMAIN T = 1 .. L + 1 /\ T[L + 1] = c
        /\ \A m \in 1 .. L : T[m] = R[m]
    OBVIOUS
  <1>w. /\ R[1].s = s
        /\ \A m \in 1 .. L :
             /\ R[m].s \in Under(s) /\ R[m].wi <= Len(watchers[R[m].s])
             /\ R[m].i > 0 => R[m].wi = 0 /\ R[m].n = Len(children[R[m].s])
        /\ \A m \in 1 .. L - 1 :
             R[m].i - 1 \in DOMAIN children[R[m].s] /\ R[m + 1].s = children[R[m].s][R[m].i - 1]
    BY <1>f DEF Walk
  <1>L. v = R[L] /\ L \in 1 .. L /\ 1 \in 1 .. L
    BY <1>f
  <1> HIDE DEF L
  <1>c. c.s \in Under(s)
    <2>1. v.s \in Under(s)
      BY <1>L, <1>w
    <2> QED BY <2>1, UnderFacts DEF Closed
  <1>1. T[1].s = s
    BY <1>L, <1>T, <1>w
  <1>2. ASSUME NEW m \in DOMAIN T
        PROVE  /\ T[m].s \in Under(s) /\ T[m].wi <= Len(watchers[T[m].s])
               /\ T[m].i > 0 => T[m].wi = 0 /\ T[m].n = Len(children[T[m].s])
    <2>1. CASE m = L + 1
      BY <1>T, <1>c, <2>1
    <2>2. CASE m # L + 1
      <3>1. m \in 1 .. L
        BY <1>f, <1>T, <2>2
      <3> QED BY <1>T, <1>w, <3>1
    <2> QED BY <2>1, <2>2
  <1>3. ASSUME NEW m \in 1 .. Len(T) - 1
        PROVE  T[m].i - 1 \in DOMAIN children[T[m].s] /\ T[m + 1].s = children[T[m].s][T[m].i - 1]
    <2>1. CASE m = L
      <3>1. T[m] = v /\ T[m + 1] = c /\ v.i - 1 = k
        BY <1>T, <1>L, <2>1
      <3> QED BY <3>1
    <2>2. CASE m # L
      <3>1. m \in 1 .. L /\ m \in 1 .. L - 1 /\ m + 1 \in 1 .. L
        BY <1>f, <1>T, <2>2
      <3> QED BY <1>T, <1>w, <3>1
    <2> QED BY <2>1, <2>2
  <1> QED BY <1>1, <1>2, <1>3, <1>T DEF Walk

\* A child is visited.
LEMMA ChildEntered ==
  ASSUME TypeOK, TreeOK, Kept, asyncN' = asyncN, NEW f \in Frames, Passing(f), f.trav # <<>>,
         NEW u, u = f.trav[Len(f.trav)], u.wi = 0, u.i > 0, u.i <= Len(children[u.s]),
         NEW R \in Seq(Visits), R # <<>>, Walk(f.s, R),
         NEW v, v = R[Len(R)], v.s = u.s, v.i = u.i + 1,
         NEW c \in Visits, c.s = children[u.s][u.i], c.i = 0,
         c.wi = IF c.s \in dead THEN 0 ELSE Len(watchers[c.s]),
         NEW g \in Frames, g.s = f.s, g.flag = f.flag, g.trav = Append(R, c)
  PROVE  Passing(g)'
  <1>u. /\ u \in Visits /\ u.s \in Scopes /\ u.i \in Nat /\ u.i \in DOMAIN children[u.s]
        /\ u.n = Len(children[u.s])
        /\ Walk(f.s, f.trav) /\ f.s \in Scopes /\ children[u.s][u.i] \in Scopes
    BY SMTT(30), WalkFacts, FrameFacts, KidFacts DEF Passing
  <1>c. c.wi <= Len(watchers[c.s])
    BY <1>u, SlotFacts
  <1>1. Walk(f.s, g.trav) /\ g.trav # <<>> /\ g.trav[Len(g.trav)] = c
    <2>1. /\ Len(g.trav) = Len(R) + 1 /\ DOMAIN g.trav = 1 .. Len(R) + 1
          /\ g.trav[Len(R) + 1] = c /\ g.trav # <<>>
          /\ \A m \in 1 .. Len(R) : g.trav[m] = R[m]
      OBVIOUS
    <2> DEFINE s == f.s
               k == u.i
               T == g.trav
    <2>2. /\ s \in Scopes /\ Walk(s, R)
          /\ k \in Nat /\ v.i = k + 1 /\ k \in DOMAIN children[v.s] /\ c.s = children[v.s][k]
          /\ Len(T) = Len(R) + 1 /\ DOMAIN T = 1 .. Len(R) + 1 /\ T[Len(R) + 1] = c
          /\ \A m \in 1 .. Len(R) : T[m] = R[m]
      BY <1>u, <2>1
    <2> HIDE DEF s, k, T
    <2>3. Walk(s, T)
      BY ONLY SMTT(30), TypeOK, R \in Seq(Visits), R # <<>>, v = R[Len(R)], c.i = 0, <2>2, <1>c, WalkDown
    <2> QED BY <2>1, <2>3 DEF s, T
  <1>2. ASSUME NEW t \in Under(f.s), NEW j \in DOMAIN watchers[t]
        PROVE  /\ SeenBy(f, t, j) => SeenBy(g, t, j)
               /\ SeenBy(g, t, j) => SeenBy(f, t, j) \/ CleanAt(t, j)'
    <2>1. t \in Scopes /\ j \in Nat /\ j > 0 /\ j <= Len(watchers[t])
      BY <1>u, UnderFacts, SlotFacts
    <2>2. /\ Seen(u, t, j) => Seen(c, t, j)
          /\ Seen(c, t, j) => Seen(u, t, j) \/ (t = c.s /\ j > c.wi)
      BY <1>u, <2>1, SeenEnter
    <2>3. t = c.s /\ j > c.wi => CleanAt(t, j)'
      <3>1. t = c.s /\ j > c.wi => t \in dead
        BY <1>u, <2>1, SlotFacts
      <3> QED BY <3>1 DEF Kept, CleanAt
    <2> QED BY <1>1, <2>2, <2>3 DEF SeenBy
  <1> QED BY <1>1, <1>2, PassGoesOn

\* The scope at hand and all below it have been visited.
LEMMA ScopeLeft ==
  ASSUME TypeOK, TreeOK, Kept, asyncN' = asyncN, NEW f \in Frames, Passing(f), f.trav # <<>>,
         NEW u, u = f.trav[Len(f.trav)], u.wi = 0, u.i > 0,
         ~(u.i <= u.n /\ u.i <= Len(children[u.s])),
         NEW g \in Frames, g = [f EXCEPT !.trav = SubSeq(f.trav, 1, Len(f.trav) - 1)]
  PROVE  Passing(g)'
  <1> DEFINE L == Len(f.trav)
  <1>f. /\ f.trav \in Seq(Visits) /\ L \in Nat /\ L > 0 /\ DOMAIN f.trav = 1 .. L /\ f.s \in Scopes
        /\ \A m \in 1 .. L : f.trav[m].s \in Scopes /\ f.trav[m].i \in Nat
    BY FrameFacts
  <1>u. /\ u \in Visits /\ u.s \in Scopes /\ u.i \in Nat /\ u.i > Len(children[u.s])
        /\ f.trav[1].s = f.s
    BY WalkFacts, KidFacts DEF Passing
  <1>g. g.s = f.s /\ g.flag = f.flag /\ g.trav = SubSeq(f.trav, 1, Len(f.trav) - 1)
    BY DEF Frames
  <1>T. Len(g.trav) = L - 1 /\ DOMAIN g.trav = 1 .. L - 1 /\ \A m \in 1 .. L - 1 : g.trav[m] = f.trav[m]
    <2>1. /\ g.trav \in Seq(Visits) /\ Len(g.trav) = L - 1
          /\ \A m \in 1 .. L - 1 : g.trav[m] = f.trav[m]
      BY <1>f, <1>g, FrontOfSeq
    <2> QED BY <2>1
  <1>w. /\ \A m \in 1 .. L :
             /\ f.trav[m].s \in Under(f.s) /\ f.trav[m].wi <= Len(watchers[f.trav[m].s])
             /\ f.trav[m].i > 0 => f.trav[m].wi = 0 /\ f.trav[m].n = Len(children[f.trav[m].s])
        /\ \A m \in 1 .. L - 1 :
             /\ f.trav[m].i - 1 \in DOMAIN children[f.trav[m].s]
             /\ f.trav[m + 1].s = children[f.trav[m].s][f.trav[m].i - 1]
    BY <1>f DEF Passing, Walk
  <1> HIDE DEF L
  <1>1. Walk(f.s, g.trav)
    <2>1. g.trav # <<>> => g.trav[1].s = f.s
      <3>1. g.trav # <<>> => L - 1 > 0
        BY <1>f, <1>T, <1>g, EmptySeq
      <3> QED BY <1>f, <1>T, <1>u, <3>1
    <2>2. \A m \in 1 .. L - 1 : m \in 1 .. L
      BY <1>f
    <2>3. \A m \in 1 .. (L - 1) - 1 : m \in 1 .. L - 1 /\ m + 1 \in 1 .. L - 1
      BY <1>f
    <2>4. \A m \in DOMAIN g.trav :
            /\ g.trav[m].s \in Under(f.s) /\ g.trav[m].wi <= Len(watchers[g.trav[m].s])
            /\ g.trav[m].i > 0 => g.trav[m].wi = 0 /\ g.trav[m].n = Len(children[g.trav[m].s])
      BY <1>T, <1>w, <2>2
    <2>5. ASSUME NEW m \in 1 .. (L - 1) - 1
          PROVE  /\ g.trav[m].i - 1 \in DOMAIN children[g.trav[m].s]
                 /\ g.trav[m + 1].s = children[g.trav[m].s][g.trav[m].i - 1]
      <3>1. g.trav[m] = f.trav[m] /\ g.trav[m + 1] = f.trav[m + 1] /\ m \in 1 .. L - 1
        BY <1>T, <2>3
      <3>2. /\ f.trav[m].i - 1 \in DOMAIN children[f.trav[m].s]
            /\ f.trav[m + 1].s = children[f.trav[m].s][f.trav[m].i - 1]
        BY <3>1, <1>w
      <3> QED BY <3>1, <3>2
    <2> QED BY <1>T, <2>1, <2>4, <2>5 DEF Walk
  <1>2. ASSUME NEW t \in Under(f.s), NEW j \in DOMAIN watchers[t]
        PROVE  SeenBy(g, t, j) <=> SeenBy(f, t, j)
    <2>1. t \in Scopes /\ j \in Nat /\ j > 0
      BY <1>f, UnderFacts, SlotFacts
    <2>2. CASE L = 1
      <3>1. u.s = f.s
        BY <1>u, <2>2 DEF L
      <3>2. Seen(u, t, j)
        BY <1>u, <2>1, <3>1, EndSeen
      <3>3. g.trav = <<>>
        BY <1>g, <2>2 DEF L
      <3> QED BY <3>2, <3>3 DEF SeenBy
    <2>3. CASE L > 1
      <3> DEFINE p == f.trav[L - 1]
                 i == p.i - 1
      <3>1. /\ L - 1 \in 1 .. L - 1 /\ L - 1 \in 1 .. L /\ (L - 1) + 1 = L
        BY <1>f, <2>3
      <3>2. /\ p.s \in Scopes /\ p.i \in Nat /\ i \in DOMAIN children[p.s]
            /\ u.s = children[p.s][i]
            /\ p.i > 0 => p.wi = 0
        <4>1. f.trav[L - 1].s \in Scopes /\ f.trav[L - 1].i \in Nat
          BY <1>f, <3>1
        <4>2. f.trav[L - 1].i > 0 => f.trav[L - 1].wi = 0
          BY <1>w, <3>1
        <4>3. /\ f.trav[L - 1].i - 1 \in DOMAIN children[f.trav[L - 1].s]
              /\ f.trav[(L - 1) + 1].s = children[f.trav[L - 1].s][f.trav[L - 1].i - 1]
          BY <1>w, <3>1
        <4>4. f.trav[(L - 1) + 1] = u
          BY <3>1 DEF L
        <4> QED BY <4>1, <4>2, <4>3, <4>4
      <3>3. i \in Nat /\ p.i = i + 1 /\ p.wi = 0
        <4>1. i \in Nat \ {0}
          BY <3>2, KidFacts
        <4> QED BY <3>2, <4>1
      <3>4. Seen(p, t, j) <=> Seen(u, t, j)
        <4> HIDE DEF p, i
        <4> QED BY SMTT(30), <1>u, <2>1, <3>2, <3>3, SeenLeave
      <3>5. g.trav # <<>> /\ g.trav[Len(g.trav)] = p
        BY <1>f, <1>T, <3>1
      <3> QED BY <3>4, <3>5 DEF SeenBy
    <2> QED BY <1>f, <2>2, <2>3
  <1> QED BY <1>1, <1>2, <1>g, PassGoesOn

-----------------------------------------------------------------------------
(* The tree and the slots keep their form                                  *)

\* What is left of a sequence without an element is in order.
LEMMA WithoutFacts ==
  ASSUME NEW S, NEW seq \in Seq(S), NEW c
  PROVE  \E x \in Nat : \A i \in DOMAIN Without(seq, c) :
           /\ i \in Nat /\ (IF i < x THEN i ELSE i + 1) \in DOMAIN seq
           /\ Without(seq, c)[i] = seq[IF i < x THEN i ELSE i + 1]
  <1> DEFINE n == Len(seq)
  <1>n. n \in Nat /\ DOMAIN seq = 1 .. n /\ \A j \in 1 .. n : seq[j] \in S
    OBVIOUS
  <1>1. CASE c \in {seq[j] : j \in 1 .. Len(seq)}
    <2> DEFINE x == CHOOSE j \in 1 .. Len(seq) : seq[j] = c
    <2>1. x \in 1 .. n
      BY <1>1
    <2> HIDE DEF x
    <2>2. PICK m \in 0 .. n : m = x - 1
      BY <1>n, <2>1
    <2>3. /\ SubSeq(seq, 1, m) \in Seq(S) /\ Len(SubSeq(seq, 1, m)) = m
          /\ \A i \in 1 .. m : SubSeq(seq, 1, m)[i] = seq[i]
      BY <1>n
    <2>4. /\ SubSeq(seq, x + 1, n) \in Seq(S) /\ Len(SubSeq(seq, x + 1, n)) = n - x
          /\ \A i \in 1 .. (n - x) : SubSeq(seq, x + 1, n)[i] = seq[x + i]
      <3>1. x + 1 \in Int /\ n \in Int /\ \A j \in (x + 1) .. n : seq[j] \in S
        BY <1>n, <2>1
      <3>2. x + 1 <= n + 1
        BY <1>n, <2>1
      <3> HIDE DEF n
      <3>3. /\ SubSeq(seq, x + 1, n) \in Seq(S)
            /\ Len(SubSeq(seq, x + 1, n)) = (IF x + 1 <= n THEN n - (x + 1) + 1 ELSE 0)
            /\ \A i \in 1 .. (n - (x + 1) + 1) : SubSeq(seq, x + 1, n)[i] = seq[(x + 1) + i - 1]
        BY <3>1, SubSeqProperties
      <3> QED BY <1>n, <2>1, <3>2, <3>3
    <2>5. Without(seq, c) = SubSeq(seq, 1, m) \o SubSeq(seq, x + 1, n)
      BY <1>1, <2>2 DEF Without, x
    <2> HIDE DEF n
    <2>6. /\ Len(Without(seq, c)) = m + (n - x) /\ DOMAIN Without(seq, c) = 1 .. m + (n - x)
          /\ \A i \in 1 .. m + (n - x) : Without(seq, c)[i] =
               IF i <= m THEN SubSeq(seq, 1, m)[i] ELSE SubSeq(seq, x + 1, n)[i - m]
      BY <1>n, <2>2, <2>3, <2>4, <2>5, ConcatProperties
    <2>7. ASSUME NEW i \in DOMAIN Without(seq, c)
          PROVE  /\ i \in Nat /\ (IF i < x THEN i ELSE i + 1) \in DOMAIN seq
                 /\ Without(seq, c)[i] = seq[IF i < x THEN i ELSE i + 1]
      <3>1. i \in 1 .. m + (n - x) /\ i \in Nat /\ m + (n - x) = n - 1
        BY <1>n, <2>1, <2>2, <2>6
      <3>2. CASE i < x
        <4>1. i \in 1 .. m
          BY <2>1, <2>2, <3>1, <3>2
        <4> QED BY <1>n, <2>1, <2>3, <2>6, <3>1, <3>2, <4>1
      <3>3. CASE ~(i < x)
        <4>1. i - m \in 1 .. (n - x) /\ ~(i <= m) /\ x + (i - m) = i + 1 /\ i + 1 \in 1 .. n
          BY <1>n, <2>1, <2>2, <3>1, <3>3
        <4> QED BY <1>n, <2>4, <2>6, <3>1, <3>3, <4>1
      <3> QED BY <3>2, <3>3
    <2> QED BY <1>n, <2>1, <2>7
  <1>2. CASE c \notin {seq[j] : j \in 1 .. Len(seq)}
    <2>1. Without(seq, c) = seq
      BY <1>2 DEF Without
    <2>2. \A i \in DOMAIN seq : i \in Nat /\ i < n + 1
      BY <1>n
    <2> QED BY <1>n, <2>1, <2>2
  <1> QED BY <1>1, <1>2

LEMMA InitTree == Init => TreeOK
  <1> SUFFICES ASSUME Init PROVE TreeOK
    OBVIOUS
  <1>1. /\ Root \in Scopes /\ InitKids \in Seq(Scopes \ {Root})
        /\ \A i, j \in DOMAIN InitKids : InitKids[i] = InitKids[j] => i = j
    BY ScopeAssumption DEF ScopeAssumption
  <1>2. \A i \in DOMAIN InitKids : InitKids[i] \in Scopes \ {Root}
    BY <1>1
  <1>3. \A p \in Scopes : \A i \in DOMAIN children[p] :
          p = Root /\ i \in DOMAIN InitKids /\ children[p][i] = InitKids[i]
    <2>1. DOMAIN <<>> = {}
      OBVIOUS
    <2> QED BY <2>1 DEF Init
  <1>4. \A p, q \in Scopes : \A i \in DOMAIN children[p], j \in DOMAIN children[q] :
          children[p][i] = children[q][j] => p = q /\ i = j
    BY <1>1, <1>3
  <1>5. \E rank \in [Scopes -> Nat] : \A p \in Scopes : \A i \in DOMAIN children[p] :
          rank[children[p][i]] > rank[p]
    <2> DEFINE rank == [s \in Scopes |-> IF s = Root THEN 0 ELSE 1]
    <2>1. rank \in [Scopes -> Nat]
      OBVIOUS
    <2>2. ASSUME NEW p \in Scopes, NEW i \in DOMAIN children[p] PROVE rank[children[p][i]] > rank[p]
      BY <1>1, <1>2, <1>3, <2>2
    <2> HIDE DEF rank
    <2> QED BY <2>1, <2>2
  <1>6. \A p \in Scopes : \A i \in DOMAIN children[p] : {p, children[p][i]} \subseteq born
    BY <1>3 DEF Init, KidSet
  <1> QED BY <1>4, <1>5, <1>6 DEF TreeOK

\* A step of the engine, and most of user code, leaves the tree alone.
LEMMA NextTree == TypeOK /\ TreeOK /\ [Next]_vars => TreeOK'
  <1> SUFFICES ASSUME TypeOK, TreeOK, [Next]_vars PROVE TreeOK'
    OBVIOUS
  <1>t. children \in [Scopes -> Seq(Scopes)] /\ born \subseteq Scopes
    BY DEF TypeOK
  <1>u. \A p, q \in Scopes : \A i \in DOMAIN children[p], j \in DOMAIN children[q] :
          children[p][i] = children[q][j] => p = q /\ i = j
    BY DEF TreeOK
  <1>b. \A p \in Scopes : \A i \in DOMAIN children[p] : p \in born /\ children[p][i] \in born
    BY DEF TreeOK
  <1>r. PICK rank \in [Scopes -> Nat] : \A p \in Scopes : \A i \in DOMAIN children[p] :
          rank[children[p][i]] > rank[p]
    BY DEF TreeOK
  <1>1. ASSUME UNCHANGED <<children, born>> PROVE TreeOK'
    BY <1>1 DEF TreeOK
  <1>2. ASSUME NEW s \in Scopes, NEW p \in Scopes, NEW c \in Scopes, NEW isolated \in BOOLEAN,
               NewScope(s, p, isolated, c)
        PROVE  TreeOK'
    <2>1. /\ p \in born /\ c \notin born /\ born' = born \cup {c} /\ c # p
          /\ children' = [children EXCEPT ![p] = Append(@, c)]
      BY <1>2 DEF NewScope
    <2>2. ASSUME NEW q \in Scopes, NEW i \in DOMAIN children'[q]
          PROVE  \/ /\ i \in DOMAIN children[q] /\ children'[q][i] = children[q][i]
                    /\ q # c /\ children[q][i] # c
                 \/ q = p /\ i = Len(children[p]) + 1 /\ children'[q][i] = c
      <3>1. CASE q = p
        <4>1. /\ children'[p] = Append(children[p], c) /\ children[p] \in Seq(Scopes)
          BY <1>t, <2>1
        <4>2. /\ DOMAIN children'[p] = 1 .. Len(children[p]) + 1 /\ Len(children[p]) \in Nat
              /\ \A k \in 1 .. Len(children[p]) : children'[p][k] = children[p][k]
              /\ children'[p][Len(children[p]) + 1] = c
              /\ DOMAIN children[p] = 1 .. Len(children[p])
          BY <4>1
        <4>3. i \in 1 .. Len(children[p]) \/ i = Len(children[p]) + 1
          BY <2>2, <3>1, <4>2
        <4> QED BY <1>b, <2>1, <3>1, <4>2, <4>3
      <3>2. CASE q # p
        BY <1>b, <1>t, <2>1, <2>2, <3>2
      <3> QED BY <3>1, <3>2
    <2>3. \A q, x \in Scopes : \A i \in DOMAIN children'[q], j \in DOMAIN children'[x] :
            children'[q][i] = children'[x][j] => q = x /\ i = j
      BY <1>u, <2>2
    <2>4. \E r \in [Scopes -> Nat] : \A q \in Scopes : \A i \in DOMAIN children'[q] :
            r[children'[q][i]] > r[q]
      <3> DEFINE r == [rank EXCEPT ![c] = rank[p] + 1]
      <3>1. /\ r \in [Scopes -> Nat] /\ r[c] = rank[p] + 1
            /\ \A x \in Scopes : x # c => r[x] = rank[x]
        BY <1>r
      <3> HIDE DEF r
      <3>2. ASSUME NEW q \in Scopes, NEW i \in DOMAIN children'[q] PROVE r[children'[q][i]] > r[q]
        <4>1. CASE /\ i \in DOMAIN children[q] /\ children'[q][i] = children[q][i]
                   /\ q # c /\ children[q][i] # c
          <5>1. children[q][i] \in Scopes
            BY <1>b, <1>t, <4>1
          <5> QED BY <1>r, <3>1, <4>1, <5>1
        <4>2. CASE q = p /\ children'[q][i] = c
          BY <1>r, <2>1, <3>1, <4>2
        <4> QED BY <2>2, <4>1, <4>2
      <3> QED BY <3>1, <3>2
    <2>5. \A q \in Scopes : \A i \in DOMAIN children'[q] : {q, children'[q][i]} \subseteq born'
      BY <1>b, <2>1, <2>2
    <2> QED BY <2>3, <2>4, <2>5 DEF TreeOK
  <1>3. ASSUME NEW s \in Scopes, Destroy(s) PROVE TreeOK'
    <2>1. /\ \A q \in Scopes : children'[q] = Without(children[q], s)
          /\ born' = born
      BY <1>3 DEF Destroy
    <2>2. ASSUME NEW q \in Scopes
          PROVE  \E x \in Nat : \A i \in DOMAIN children'[q] :
                   /\ i \in Nat /\ (IF i < x THEN i ELSE i + 1) \in DOMAIN children[q]
                   /\ children'[q][i] = children[q][IF i < x THEN i ELSE i + 1]
      <3>1. children[q] \in Seq(Scopes) /\ children'[q] = Without(children[q], s)
        BY <1>t, <2>1
      <3> DEFINE seq == children[q]
                 res == Without(children[q], s)
      <3>2. \E x \in Nat : \A i \in DOMAIN res :
              /\ i \in Nat /\ (IF i < x THEN i ELSE i + 1) \in DOMAIN seq
              /\ res[i] = seq[IF i < x THEN i ELSE i + 1]
        BY <3>1, WithoutFacts, Zenon
      <3> QED BY <3>1, <3>2
    <2>3. \A q \in Scopes : \A i \in DOMAIN children'[q] :
            \E k \in DOMAIN children[q] : children'[q][i] = children[q][k]
      BY <2>2
    <2>4. ASSUME NEW q \in Scopes, NEW y \in Scopes,
                 NEW i \in DOMAIN children'[q], NEW j \in DOMAIN children'[y],
                 children'[q][i] = children'[y][j]
          PROVE  q = y /\ i = j
      <3>1. q = y
        BY <1>u, <2>3, <2>4
      <3>2. PICK x \in Nat : \A k \in DOMAIN children'[q] :
                   /\ k \in Nat /\ (IF k < x THEN k ELSE k + 1) \in DOMAIN children[q]
                   /\ children'[q][k] = children[q][IF k < x THEN k ELSE k + 1]
        BY <2>2
      <3>3. (IF i < x THEN i ELSE i + 1) = (IF j < x THEN j ELSE j + 1)
        BY <1>u, <2>4, <3>1, <3>2
      <3>4. i \in Nat /\ j \in Nat
        BY <3>1, <3>2
      <3> QED BY <3>1, <3>3, <3>4
    <2>5. \A q \in Scopes : \A i \in DOMAIN children'[q] : rank[children'[q][i]] > rank[q]
      BY <1>r, <2>3
    <2>6. \A q \in Scopes : \A i \in DOMAIN children'[q] : {q, children'[q][i]} \subseteq born'
      BY <1>b, <2>1, <2>3
    <2> QED BY <1>r, <2>4, <2>5, <2>6 DEF TreeOK
  <1>4. ASSUME \/ BeginTurn \/ Timeout \/ Throw \/ EvalAsync \/ PostDigest
               \/ \E c \in Cells, v \in Vals : SetCell(c, v)
               \/ \E s \in Scopes, w \in Watchers : Watch(s, w)
               \/ \E w \in Watchers : Unwatch(w)
               \/ \E s \in Scopes : ApplyAsync(s) \/ Digest(s) \/ Apply(s)
               \/ UNCHANGED vars
        PROVE  TreeOK'
    <2>1. UNCHANGED <<children, born>>
      BY <1>4 DEF BeginTurn, Timeout, EvalAsyncTimeout, ApplyAsyncTimeout, Throw, EvalAsync,
                  PostDigest, SetCell, Watch, Unwatch, ApplyAsync, Digest, Apply, vars, tree
    <2> QED BY <1>1, <2>1
  <1>5. ASSUME Engine PROVE TreeOK'
    <2>1. UNCHANGED <<children, born>>
      BY <1>5 DEF Engine, Pass, Return, Catch, Propagate, Uncaught, DrainAsync, PassAgain,
                  TtlAbort, BeginFlush, Settle, DrainPost, DigestDone, Report, FlushTask,
                  FlushDone, ApplyEvaluated, ApplyDigests, ApplyDone, StartPass, EmptySlot,
                  WatchFnThrows, WatchDirty, WatchClean, ReadChildren, EnterChild, LeaveScope, tree
    <2> QED BY <1>1, <2>1
  <1>uo. ASSUME UserOp PROVE TreeOK'
    <2>1. CASE \E s \in Scopes : Destroy(s) \/ ApplyAsync(s) \/ Digest(s) \/ Apply(s)
      BY <2>1, <1>3, <1>4
    <2> QED BY <1>uo, <1>2, <1>4, <2>1, Zenon DEF UserOp
  <1> QED BY <1>4, <1>5, <1>uo, Zenon DEF Next

\* Emptying the slots of a watcher.
LEMMA ClearedFacts ==
  ASSUME TypeOK, NEW w \in Watchers, NEW t \in Scopes
  PROVE  /\ DOMAIN Cleared(w)[t] = DOMAIN watchers[t] /\ Len(Cleared(w)[t]) = Len(watchers[t])
         /\ \A j \in DOMAIN watchers[t] :
              Cleared(w)[t][j] = IF t = home[w] /\ watchers[t][j] = w THEN Null ELSE watchers[t][j]
  <1>1. /\ watchers \in [Scopes -> Seq(Watchers \cup {Null})]
        /\ Len(watchers[t]) \in Nat /\ DOMAIN watchers[t] = 1 .. Len(watchers[t])
    BY SlotFacts DEF TypeOK
  <1>2. CASE t = home[w]
    <2> DEFINE n == Len(watchers[t])
               res == [i \in DOMAIN watchers[t] |-> IF watchers[t][i] = w THEN Null ELSE watchers[t][i]]
    <2>1. Cleared(w)[t] = res
      BY <1>1, <1>2 DEF Cleared
    <2>2. res \in Seq(Watchers \cup {Null})
      BY <2>1, ClearedType
    <2>3. DOMAIN res = 1 .. n /\ n \in Nat
      BY <1>1
    <2>4. Len(res) = n
      BY <2>2, <2>3, LenProperties
    <2> QED BY <1>1, <1>2, <2>1, <2>3, <2>4
  <1>3. CASE t # home[w]
    BY <1>1, <1>3 DEF Cleared
  <1> QED BY <1>2, <1>3

\* What a deregistration leaves of the slots and of the short-circuit.
LEMMA DeregisterFacts ==
  ASSUME TypeOK, NEW w \in Watchers, NEW ld, Deregister(w, ld)
  PROVE  /\ \A t \in Scopes :
              /\ DOMAIN watchers'[t] = DOMAIN watchers[t] /\ Len(watchers'[t]) = Len(watchers[t])
              /\ \A j \in DOMAIN watchers[t] : watchers'[t][j] \in {Null, watchers[t][j]}
         /\ lastDirty' \in {ld, Null}
  BY ClearedFacts DEF Deregister

LEMMA InitSlots == Init => SlotsOK
  <1> SUFFICES ASSUME Init, NEW t \in Scopes, NEW j \in DOMAIN watchers[t], watchers[t][j] # Null
               PROVE  /\ home[watchers[t][j]] = t
                      /\ \A k \in DOMAIN watchers[t] : watchers[t][k] = watchers[t][j] => k = j
    BY DEF SlotsOK
  <1>1. /\ watchers = InitWatch /\ InitWatch[t] \in Seq(Watchers)
        /\ \A s, x \in Scopes : \A i \in DOMAIN InitWatch[s], k \in DOMAIN InitWatch[x] :
             InitWatch[s][i] = InitWatch[x][k] => s = x /\ i = k
    BY ScopeAssumption DEF ScopeAssumption, Init
  <1> DEFINE w == InitWatch[t][j]
  <1>2. w \in Watchers /\ w = watchers[t][j] /\ j \in DOMAIN InitWatch[t]
    BY <1>1
  <1>3. \E s \in Scopes : \E i \in DOMAIN InitWatch[s] : InitWatch[s][i] = w
    BY <1>2
  <1>4. \A s \in Scopes : (\E i \in DOMAIN InitWatch[s] : InitWatch[s][i] = w) => s = t
    BY <1>1, <1>2
  <1> HIDE DEF w
  <1>5. (CHOOSE s \in Scopes : \E i \in DOMAIN InitWatch[s] : InitWatch[s][i] = w) = t
    BY <1>3, <1>4
  <1>6. home[w] = IF \E s \in Scopes : \E i \in DOMAIN InitWatch[s] : InitWatch[s][i] = w
               THEN CHOOSE s \in Scopes : \E i \in DOMAIN InitWatch[s] : InitWatch[s][i] = w
               ELSE Null
    BY <1>2 DEF Init
  <1> QED BY <1>1, <1>2, <1>3, <1>5, <1>6

LEMMA NextSlots == TypeOK /\ SlotsOK /\ [Next]_vars => SlotsOK'
  <1> SUFFICES ASSUME TypeOK, SlotsOK, [Next]_vars PROVE SlotsOK'
    OBVIOUS
  <1>1. ASSUME home' = home,
               \A t \in Scopes :
                 /\ DOMAIN watchers'[t] = DOMAIN watchers[t]
                 /\ \A j \in DOMAIN watchers[t] : watchers'[t][j] \in {Null, watchers[t][j]}
        PROVE  SlotsOK'
    BY <1>1 DEF SlotsOK
  <1>2. ASSUME UNCHANGED <<watchers, home>> PROVE SlotsOK'
    BY <1>2 DEF SlotsOK
  <1>3. ASSUME NEW s \in Scopes, NEW w \in Watchers, Watch(s, w) PROVE SlotsOK'
    <2>1. CASE s \in dead
      BY <1>2, <1>3, <2>1 DEF Watch
    <2>2. CASE s \notin dead
      <3>1. /\ home[w] = Null /\ watchers' = [watchers EXCEPT ![s] = Append(@, w)]
            /\ home' = [home EXCEPT ![w] = s]
            /\ home \in [Watchers -> Scopes \cup {Null}]
            /\ watchers \in [Scopes -> Seq(Watchers \cup {Null})]
            /\ Null \notin Scopes /\ Null \notin Watchers
        BY <1>3, <2>2, ScopeAssumption DEF Watch, TypeOK, ScopeAssumption
      <3>2. \A t \in Scopes : \A j \in DOMAIN watchers[t] : watchers[t][j] # w
        <4> SUFFICES ASSUME NEW t \in Scopes, NEW j \in DOMAIN watchers[t], watchers[t][j] = w
                     PROVE  FALSE
          OBVIOUS
        <4>1. home[w] = t
          BY <3>1 DEF SlotsOK
        <4> QED BY <3>1, <4>1
      <3>3. ASSUME NEW t \in Scopes, NEW j \in DOMAIN watchers'[t]
            PROVE  \/ j \in DOMAIN watchers[t] /\ watchers'[t][j] = watchers[t][j]
                   \/ t = s /\ j = Len(watchers[s]) + 1 /\ watchers'[t][j] = w
        <4>1. CASE t = s
          <5>1. watchers'[s] = Append(watchers[s], w) /\ watchers[s] \in Seq(Watchers \cup {Null})
            BY <3>1
          <5>2. /\ DOMAIN watchers'[s] = 1 .. Len(watchers[s]) + 1 /\ Len(watchers[s]) \in Nat
                /\ \A k \in 1 .. Len(watchers[s]) : watchers'[s][k] = watchers[s][k]
                /\ watchers'[s][Len(watchers[s]) + 1] = w
                /\ DOMAIN watchers[s] = 1 .. Len(watchers[s])
            BY <5>1
          <5> QED BY <3>3, <4>1, <5>2
        <4>2. CASE t # s
          BY <3>1, <3>3, <4>2
        <4> QED BY <4>1, <4>2
      <3>4. \A x : x \in Watchers /\ x # w => home'[x] = home[x]
        BY <3>1
      <3>5. home'[w] = s
        BY <3>1
      <3>6. \A t \in Scopes : \A j \in DOMAIN watchers[t] : watchers[t][j] \in Watchers \cup {Null}
        BY SlotFacts
      <3>7. ASSUME NEW t \in Scopes, NEW j \in DOMAIN watchers'[t], watchers'[t][j] # Null
            PROVE  /\ home'[watchers'[t][j]] = t
                   /\ \A k \in DOMAIN watchers'[t] : watchers'[t][k] = watchers'[t][j] => k = j
        <4>1. CASE j \in DOMAIN watchers[t] /\ watchers'[t][j] = watchers[t][j]
          <5>1. watchers[t][j] \in Watchers /\ watchers[t][j] # w
            BY <3>2, <3>6, <3>7, <4>1
          <5>2. /\ home[watchers[t][j]] = t
                /\ \A k \in DOMAIN watchers[t] : watchers[t][k] = watchers[t][j] => k = j
            BY <3>7, <4>1 DEF SlotsOK
          <5> QED BY <3>3, <3>4, <4>1, <5>1, <5>2
        <4>2. CASE t = s /\ j = Len(watchers[s]) + 1 /\ watchers'[t][j] = w
          BY <3>2, <3>3, <3>5, <4>2
        <4> QED BY <3>3, <3>7, <4>1, <4>2
      <3> QED BY <3>7 DEF SlotsOK
    <2> QED BY <2>1, <2>2
  <1>4. ASSUME NEW w \in Watchers,
               \/ Unwatch(w) \/ WatchFnThrows(w)
               \/ \E v \in Vals : WatchDirty(w, v) \/ WatchClean(w, v)
        PROVE  SlotsOK'
    <2>1. home' = home
      BY <1>4 DEF Unwatch, WatchFnThrows, WatchDirty, WatchClean
    <2>2. watchers' = watchers \/ watchers' = Cleared(w)
      BY <1>4 DEF Unwatch, WatchFnThrows, WatchDirty, WatchClean, OneShot, Deregister
    <2> QED BY <1>1, <2>1, <2>2, ClearedFacts
  <1>5. ASSUME DrainPost PROVE SlotsOK'
    <2>1. home' = home /\ (Head(post) = UserFn => watchers' = watchers)
      BY <1>5 DEF DrainPost
    <2>2. ASSUME Head(post) # UserFn
          PROVE  Head(post) \in Watchers /\ (watchers' = watchers \/ watchers' = Cleared(Head(post)))
      <3>1. Head(post) \in Watchers
        BY <1>5, <2>2, HeadTailProperties DEF DrainPost, TypeOK
      <3> QED BY <1>5, <2>2, <3>1 DEF DrainPost, Deregister
    <2> QED BY <1>1, <2>1, <2>2, ClearedFacts
  <1>6. ASSUME \/ BeginTurn \/ Timeout \/ Throw \/ EvalAsync \/ PostDigest
               \/ \E c \in Cells, v \in Vals : SetCell(c, v)
               \/ \E s, p, c \in Scopes, isolated \in BOOLEAN : NewScope(s, p, isolated, c)
               \/ \E s \in Scopes : Destroy(s) \/ ApplyAsync(s) \/ Digest(s) \/ Apply(s)
               \/ UNCHANGED vars
        PROVE  SlotsOK'
    <2>1. UNCHANGED <<watchers, home>>
      BY <1>6 DEF BeginTurn, Timeout, EvalAsyncTimeout, ApplyAsyncTimeout, Throw, EvalAsync,
                  PostDigest, SetCell, NewScope, Destroy, ApplyAsync, Digest, Apply, vars, watch
    <2> QED BY <1>2, <2>1
  <1>7. ASSUME \/ Return \/ Catch \/ Propagate \/ Uncaught \/ DrainAsync \/ PassAgain \/ TtlAbort
               \/ BeginFlush \/ Settle \/ DigestDone \/ Report \/ FlushTask \/ FlushDone
               \/ ApplyEvaluated \/ ApplyDigests \/ ApplyDone
               \/ StartPass \/ EmptySlot \/ ReadChildren \/ EnterChild \/ LeaveScope
        PROVE  SlotsOK'
    <2>1. UNCHANGED <<watchers, home>>
      BY <1>7 DEF Return, Catch, Propagate, Uncaught, DrainAsync, PassAgain, TtlAbort,
                  BeginFlush, Settle, DigestDone, Report, FlushTask, FlushDone, ApplyEvaluated,
                  ApplyDigests, ApplyDone, StartPass, EmptySlot, ReadChildren, EnterChild,
                  LeaveScope, watch
    <2> QED BY <1>2, <2>1
  <1>uo. ASSUME UserOp PROVE SlotsOK'
    <2>1. CASE \E s \in Scopes : Destroy(s) \/ ApplyAsync(s) \/ Digest(s) \/ Apply(s)
      BY <2>1, <1>6
    <2> QED BY <1>uo, <1>3, <1>4, <1>6, <2>1, Zenon DEF UserOp
  <1>ps. ASSUME Pass PROVE SlotsOK'
    BY <1>ps, <1>4, <1>7, Zenon DEF Pass
  <1> QED BY <1>5, <1>6, <1>7, <1>uo, <1>ps, Zenon DEF Next, Engine

-----------------------------------------------------------------------------
(* Between passes, and while a listener runs                               *)

\* The activations lead down as long as the tree stands and no slot is lost.
LEMMA WalkKept ==
  ASSUME TypeOK, children' = children, NEW f \in Frames, Walk(f.s, f.trav),
         \A x \in Scopes : Len(watchers'[x]) \in Nat /\ Len(watchers'[x]) >= Len(watchers[x])
  PROVE  Walk(f.s, f.trav)'
  <1>1. Under(f.s)' = Under(f.s)
    BY SameTree
  <1>2. ASSUME NEW m \in DOMAIN f.trav
        PROVE  /\ f.trav[m].s \in Under(f.s) /\ f.trav[m].wi <= Len(watchers'[f.trav[m].s])
               /\ f.trav[m].i > 0 => f.trav[m].wi = 0 /\ f.trav[m].n = Len(children[f.trav[m].s])
    <2>1. /\ f.trav[m].s \in Under(f.s) /\ f.trav[m].wi <= Len(watchers[f.trav[m].s])
          /\ f.trav[m].i > 0 => f.trav[m].wi = 0 /\ f.trav[m].n = Len(children[f.trav[m].s])
      BY DEF Walk
    <2>2. f.trav[m].s \in Scopes /\ f.trav[m].wi \in Nat
      BY FrameFacts
    <2>3. Len(watchers[f.trav[m].s]) \in Nat
      BY <2>2, SlotFacts
    <2> QED BY <2>1, <2>2, <2>3
  <1>3. /\ f.trav # <<>> => f.trav[1].s = f.s
        /\ \A m \in 1 .. Len(f.trav) - 1 :
             /\ f.trav[m].i - 1 \in DOMAIN children[f.trav[m].s]
             /\ f.trav[m + 1].s = children[f.trav[m].s][f.trav[m].i - 1]
    BY DEF Walk
  <1> QED BY <1>1, <1>2, <1>3 DEF Walk

\* A pass starts: nothing has been seen yet.
LEMMA PassStarts ==
  ASSUME TypeOK, TreeOK, Kept, asyncN = 0, asyncN' = 0, NEW f \in Frames, Draining(f),
         NEW g \in Frames, g.s = f.s, g.flag = FALSE, g.trav = <<Visit(f.s)>>
  PROVE  Passing(g)'
  <1> DEFINE u == Visit(f.s)
  <1>f. f.s \in Scopes /\ f.s \in Under(f.s) /\ Under(f.s) \subseteq Scopes
    BY FrameFacts, UnderFacts
  <1>u. u.s = f.s /\ u.i = 0 /\ u.wi = IF f.s \in dead THEN 0 ELSE Len(watchers[f.s])
    BY DEF Visit
  <1> HIDE DEF u
  <1>w. Len(watchers[f.s]) \in Nat
    BY <1>f, SlotFacts
  <1>T. /\ Len(g.trav) = 1 /\ DOMAIN g.trav = 1 .. 1 /\ g.trav[1] = u /\ g.trav # <<>>
    BY DEF u
  <1>1. Walk(g.s, g.trav)
    <2>1. \A m \in DOMAIN g.trav : g.trav[m] = u
      BY <1>T
    <2>2. 1 .. Len(g.trav) - 1 = {}
      BY <1>T
    <2>3. u.wi <= Len(watchers[u.s]) /\ ~(u.i > 0)
      BY <1>u, <1>w
    <2> QED BY <1>T, <1>f, <1>u, <2>1, <2>2, <2>3 DEF Walk
  <1>2. RestClean(g.s)
    BY DEF Draining, RestClean, LastAt
  <1>3. ASSUME NEW t \in Under(g.s), NEW j \in DOMAIN watchers[t], SeenBy(g, t, j)
        PROVE  CleanAt(t, j)
    <2>1. t \in Scopes /\ j \in Nat /\ j <= Len(watchers[t])
      BY <1>f, SlotFacts
    <2>2. Seen(u, t, j)
      BY <1>3, <1>T DEF SeenBy
    <2>3. t = f.s /\ j > u.wi
      BY <1>f, <1>u, <2>2, StartUnseen
    <2> QED BY <1>u, <1>w, <2>1, <2>3 DEF CleanAt
  <1>4. Passing(g)
    BY <1>1, <1>2, <1>3 DEF Passing
  <1> QED BY <1>1, <1>4, PassGoesOn

\* A pass that found something dirty is followed by another, which may end at
\* the last dirty watcher.
LEMMA PassEnds ==
  ASSUME TypeOK, Kept, asyncN' = asyncN, NEW f \in Frames, Passing(f), f.trav = <<>>, f.flag,
         NEW g \in Frames, g.s = f.s
  PROVE  Draining(g)'
  <1>1. RestClean(f.s)
    BY DEF Passing, RestClean, SeenBy
  <1>2. RestClean(f.s)' /\ asyncN = 0
    BY <1>1, KeptFacts, FrameFacts DEF Passing
  <1> QED BY <1>2 DEF Draining

\* A listener is called for the watcher at hand, now the last dirty one.
LEMMA ListenerCalled ==
  ASSUME TypeOK, SlotsOK, NEW f \in Frames, Passing(f), f.trav # <<>>,
         NEW u, u = f.trav[Len(f.trav)], u.wi > 0, NEW w \in Watchers, w = watchers[u.s][u.wi],
         w # Null, lastDirty' = w, children' = children, asyncN' = asyncN,
         \A t \in Scopes : /\ DOMAIN watchers'[t] = DOMAIN watchers[t]
                           /\ Len(watchers'[t]) = Len(watchers[t])
                           /\ \A j \in DOMAIN watchers[t] : watchers'[t][j] \in {Null, watchers[t][j]},
         NEW g \in Frames, g.s = f.s, g.flag = TRUE, g.trav = Replaced(f, [u EXCEPT !.wi = @ - 1])
  PROVE  Listening(g)'
  <1> DEFINE v == [u EXCEPT !.wi = @ - 1]
  <1>u. /\ u \in Visits /\ u.s \in Scopes /\ u.wi \in Nat /\ u.i = 0
        /\ Walk(f.s, f.trav) /\ u.wi \in DOMAIN watchers[u.s]
    BY WalkFacts, FrameFacts DEF Passing
  <1>v. v \in Visits /\ v.s = u.s /\ v.wi = u.wi - 1 /\ v.i = 0
    BY <1>u DEF Visits
  <1> HIDE DEF v
  <1>1. Walk(g.s, g.trav) /\ g.trav # <<>> /\ g.trav[Len(g.trav)] = v
    <2>1. v.wi <= u.wi /\ ~(v.i > 0) /\ g.trav = Replaced(f, v)
      BY <1>u, <1>v DEF v
    <2> QED BY <2>1, <1>u, <1>v, RevisitWalk
  <1>2. Walk(g.s, g.trav)'
    <2>1. \A x \in Scopes : Len(watchers'[x]) \in Nat /\ Len(watchers'[x]) >= Len(watchers[x])
      BY SlotFacts
    <2> QED BY <1>1, <2>1, WalkKept
  <1>3. ASSUME NEW h \in Scopes, NEW k \in DOMAIN watchers[h], LastAt(h, k)'
        PROVE  h = v.s /\ k = v.wi + 1
    <2>1. watchers[h][k] = w
      BY <1>3 DEF LastAt
    <2>2. h = u.s /\ k = u.wi
      BY <1>u, <2>1 DEF SlotsOK
    <2> QED BY <1>u, <1>v, <2>2
  <1>4. asyncN' = 0
    BY DEF Passing
  <1> QED BY <1>1, <1>2, <1>3, <1>4, <1>v DEF Listening

\* The listener is done: nothing that follows its watcher has been seen.
LEMMA ListenerGone ==
  ASSUME TypeOK, TreeOK, Kept, asyncN' = asyncN, NEW f \in Frames, Listening(f)
  PROVE  Passing(f)'
  <1> DEFINE u == f.trav[Len(f.trav)]
  <1>u. /\ u.s \in Scopes /\ u.wi \in Nat /\ u.i = 0 /\ f.trav # <<>> /\ f.s \in Scopes
        /\ Walk(f.s, f.trav) /\ asyncN = 0 /\ f.flag
    BY WalkFacts, FrameFacts DEF Listening
  <1>1. ASSUME NEW h \in Under(f.s), NEW k \in DOMAIN watchers[h], LastAt(h, k)
        PROVE  /\ SeenBy(f, h, k)
               /\ \A t \in Under(f.s) : \A j \in DOMAIN watchers[t] :
                    After(h, k, t, j) /\ SeenBy(f, t, j) => CleanAt(t, j)
    <2>1. h \in Scopes /\ h = u.s /\ k = u.wi + 1
      BY <1>1, <1>u, UnderFacts DEF Listening
    <2>2. SeenBy(f, h, k)
      BY <1>u, <2>1 DEF SeenBy, Seen
    <2>3. ASSUME NEW t \in Under(f.s), NEW j \in DOMAIN watchers[t], After(h, k, t, j)
          PROVE  ~SeenBy(f, t, j)
      <3>1. t \in Scopes /\ j \in Nat
        BY <1>u, UnderFacts, SlotFacts
      <3>2. After(u.s, u.wi + 1, t, j)
        BY <2>1, <2>3
      <3> HIDE DEF u
      <3>3. ~Seen(u, t, j)
        BY <1>u, <3>1, <3>2, AfterUnseen
      <3> QED BY <1>u, <3>3 DEF SeenBy, u
    <2> QED BY <2>2, <2>3
  <1>2. Passing(f)
    BY <1>u, <1>1 DEF Passing
  <1> QED BY <1>u, <1>2, PassGoesOn

\* What a listener does keeps its watcher the last dirty one, or resets it.
LEMMA ListenerActs ==
  ASSUME TypeOK, children' = children, asyncN' = asyncN,
         \A x \in Scopes : Len(watchers'[x]) \in Nat /\ Len(watchers'[x]) >= Len(watchers[x]),
         lastDirty' = Null \/ UNCHANGED <<lastDirty, watchers>>,
         NEW f \in Frames, Listening(f)
  PROVE  Listening(f)'
  <1>1. Walk(f.s, f.trav)'
    BY WalkKept DEF Listening
  <1>2. \A h \in Scopes : \A k \in DOMAIN watchers'[h] : LastAt(h, k)' =>
          /\ h = f.trav[Len(f.trav)].s /\ k = f.trav[Len(f.trav)].wi + 1
    BY DEF LastAt, Listening
  <1> QED BY <1>1, <1>2 DEF Listening

-----------------------------------------------------------------------------
(* The stack                                                               *)

\* A working digest called what runs, or runs: below anything but a listener
\* and an $evalAsync task there is none.
LEMMA NoneBelow ==
  ASSUME TypeOK, CleanInv, stack # <<>>, Top.k # "user" \/ Top.pc \notin {"async", "listener"}
  PROVE  \A i \in 1 .. Len(stack) - 1 : ~Working(stack[i])
  <1> SUFFICES ASSUME NEW i \in 1 .. Len(stack) - 1, Working(stack[i]) PROVE FALSE
    OBVIOUS
  <1>1. Len(stack) \in Nat \ {0}
    BY StackOps DEF TypeOK
  <1>2. i \in 1 .. Len(stack) /\ i # Len(stack)
    BY <1>1
  <1>3. i = Len(stack) - 1 /\ Top.k = "user" /\ Waits(stack[i], Top.pc)
    BY <1>2 DEF CleanInv
  <1> QED BY <1>3 DEF Waits, Working

\* Nothing the invariant is about has changed.
LEMMA CleanSame ==
  ASSUME CleanInv, UNCHANGED <<stack, children, dead, watchers, last, cell, lastDirty, asyncN>>
  PROVE  CleanInv'
  <1>c. \A t, j : CleanAt(t, j)' <=> CleanAt(t, j)
    BY DEF CleanAt, Stale
  <1>l. \A h, k : LastAt(h, k)' <=> LastAt(h, k)
    BY DEF LastAt
  <1>s. /\ \A s : Under(s)' = Under(s)
        /\ \A h, k, t, j : After(h, k, t, j)' <=> After(h, k, t, j)
        /\ \A f, t, j : SeenBy(f, t, j)' <=> SeenBy(f, t, j)
    BY SameTree DEF SeenBy
  <1>r. \A s : RestClean(s)' <=> RestClean(s)
    BY <1>c, <1>l, <1>s DEF RestClean
  <1>w. \A s, T : Walk(s, T)' <=> Walk(s, T)
    BY <1>s DEF Walk
  <1>1. \A f : Draining(f)' <=> Draining(f)
    BY <1>r DEF Draining
  <1>2. \A f : Passing(f)' <=> Passing(f)
    BY <1>c, <1>l, <1>s, <1>r, <1>w DEF Passing
  <1>3. \A f : Listening(f)' <=> Listening(f)
    BY <1>l, <1>w DEF Listening
  <1>4. \A f, at : (Running(f)' <=> Running(f)) /\ (Waits(f, at)' <=> Waits(f, at))
    BY <1>1, <1>2, <1>3 DEF Running, Waits
  <1> QED BY <1>4 DEF CleanInv, Top

\* The call on top moves on.
LEMMA CleanSwap ==
  ASSUME TypeOK, CleanInv, stack # <<>>, Top.k # "user", NEW g \in Frames, stack' = With(g),
         Working(g) => Running(g)'
  PROVE  CleanInv'
  <1>1. /\ Len(stack) \in Nat \ {0} /\ Len(stack') = Len(stack)
        /\ \A i \in 1 .. Len(stack) : stack'[i] = IF i = Len(stack) THEN g ELSE stack[i]
    BY StackOps DEF TypeOK
  <1>2. ASSUME NEW i \in 1 .. Len(stack'), Working(stack'[i])
        PROVE  i = Len(stack') /\ Running(stack[i])'
    <2>1. i = Len(stack)
      <3>1. i # Len(stack) => i \in 1 .. Len(stack) - 1 /\ stack'[i] = stack[i]
        BY <1>1, <1>2
      <3> QED BY <1>2, <3>1, NoneBelow
    <2>2. stack'[i] = g
      BY <1>1, <2>1
    <2> QED BY <1>1, <1>2, <2>1, <2>2
  <1> QED BY <1>2 DEF CleanInv

\* A call ends that no working digest waits for.
LEMMA CleanPop ==
  ASSUME TypeOK, CleanInv, stack # <<>>, Top.k # "user", stack' = Popped
  PROVE  CleanInv'
  <1>1. /\ Len(stack) \in Nat \ {0} /\ Len(stack') = Len(stack) - 1
        /\ \A i \in 1 .. Len(stack') : stack'[i] = stack[i]
    BY StackOps DEF TypeOK
  <1>2. \A i \in 1 .. Len(stack') : ~Working(stack'[i])
    BY <1>1, NoneBelow
  <1> QED BY <1>2 DEF CleanInv

\* User code returns or throws: what called it runs.
LEMMA CleanReturn ==
  ASSUME TypeOK, CleanInv, stack # <<>>, Top.k = "user", stack' = Popped,
         \A f \in Frames : Working(f) /\ Waits(f, Top.pc) => Running(f)'
  PROVE  CleanInv'
  <1>1. /\ Len(stack) \in Nat \ {0} /\ Len(stack') = Len(stack) - 1
        /\ \A i \in 1 .. Len(stack') : stack'[i] = stack[i]
        /\ stack \in Seq(Frames)
    BY StackOps DEF TypeOK
  <1>2. ASSUME NEW i \in 1 .. Len(stack'), Working(stack'[i])
        PROVE  i = Len(stack') /\ Running(stack[i])'
    <2>1. /\ i \in 1 .. Len(stack) /\ i # Len(stack) /\ stack'[i] = stack[i] /\ stack[i] \in Frames
      BY <1>1
    <2>2. i = Len(stack) - 1 /\ Waits(stack[i], Top.pc)
      BY <1>2, <2>1 DEF CleanInv
    <2>3. PICK f \in Frames : f = stack[i]
      BY <2>1
    <2>4. Working(f) /\ Waits(f, Top.pc)
      BY <1>2, <2>1, <2>2, <2>3
    <2> QED BY <1>1, <2>1, <2>2, <2>3, <2>4
  <1> QED BY <1>2 DEF CleanInv

\* What user code does matters to the digest that called it.
LEMMA CleanUser ==
  ASSUME TypeOK, CleanInv, stack # <<>>, Top.k = "user", stack' = stack,
         \A f \in Frames : Working(f) /\ Waits(f, Top.pc) => Waits(f, Top.pc)'
  PROVE  CleanInv'
  <1>1. Len(stack) \in Nat \ {0} /\ stack \in Seq(Frames) /\ Top' = Top
    BY StackOps DEF TypeOK, Top
  <1>2. ASSUME NEW i \in 1 .. Len(stack'), Working(stack'[i])
        PROVE  i = Len(stack') - 1 /\ Top'.k = "user" /\ Waits(stack[i], Top.pc)'
    <2>1. i \in 1 .. Len(stack) /\ stack[i] \in Frames /\ Working(stack[i])
      BY <1>1, <1>2
    <2>2. i # Len(stack)
      BY <2>1 DEF Working, Top
    <2>3. i = Len(stack) - 1 /\ Waits(stack[i], Top.pc)
      BY <2>1, <2>2 DEF CleanInv
    <2>4. PICK f \in Frames : f = stack[i]
      BY <2>1
    <2>5. Waits(f, Top.pc)'
      BY <2>1, <2>3, <2>4
    <2> QED BY <1>1, <2>3, <2>4, <2>5
  <1> QED BY <1>1, <1>2 DEF CleanInv

\* Something is called, from a base in which no more than the caller works.
LEMMA CleanPush ==
  ASSUME NEW base \in Seq(Frames), NEW h \in Frames, stack' = Append(base, h),
         \A i \in 1 .. Len(base) - 1 : ~Working(base[i]),
         NEW g \in Frames, base # <<>> => base[Len(base)] = g,
         base # <<>> /\ Working(g) => h.k = "user" /\ Waits(g, h.pc)',
         Working(h) => Running(h)'
  PROVE  CleanInv'
  <1>1. /\ Len(base) \in Nat /\ Len(stack') = Len(base) + 1
        /\ \A i \in 1 .. Len(base) : stack'[i] = base[i]
        /\ stack'[Len(base) + 1] = h
    OBVIOUS
  <1>2. ASSUME NEW i \in 1 .. Len(stack'), Working(stack'[i])
        PROVE  \/ i = Len(stack') /\ Running(stack[i])'
               \/ i = Len(stack') - 1 /\ h.k = "user" /\ Waits(stack[i], h.pc)'
    <2>1. CASE i = Len(base) + 1
      <3>1. stack'[i] = h
        BY <1>1, <2>1
      <3> QED BY <1>1, <1>2, <2>1, <3>1
    <2>2. CASE i = Len(base)
      <3>1. base # <<>> /\ stack'[i] = g
        BY <1>1, <1>2, <2>2
      <3> QED BY <1>1, <1>2, <2>2, <3>1
    <2>3. CASE i # Len(base) + 1 /\ i # Len(base)
      <3>1. i \in 1 .. Len(base) - 1 /\ stack'[i] = base[i]
        BY <1>1, <1>2, <2>3
      <3> QED BY <1>2, <3>1
    <2> QED BY <2>1, <2>2, <2>3
  <1>3. Top' = h
    BY <1>1 DEF Top
  <1> QED BY <1>2, <1>3 DEF CleanInv

\* A $digest or $apply is called, or refused, where no digest works.
LEMMA CleanCall ==
  ASSUME TypeOK, NEW base \in Seq(Frames), \A i \in 1 .. Len(base) : ~Working(base[i]),
         NEW s, NEW ph, NEW f \in Frames, NEW frames,
         \/ frames = <<f>> /\ (Working(f) => Running(f)')
         \/ ~Working(f) /\ \E h \in Frames : ~Working(h) /\ frames = <<f, h>>,
         BeginPhase(s, ph, base, frames)
  PROVE  CleanInv'
  <1>b. Len(base) \in Nat /\ (base # <<>> => Len(base) \in 1 .. Len(base) /\ base[Len(base)] \in Frames)
    BY EmptySeq
  <1>1. CASE stack' = base
    BY <1>1 DEF CleanInv
  <1>2. CASE stack' = base \o <<f>> /\ (Working(f) => Running(f)')
    <2>1. stack' = Append(base, f)
      BY <1>2
    <2>2. \A i \in 1 .. Len(base) - 1 : ~Working(base[i])
      BY <1>b
    <2>3. CASE base # <<>>
      <3>1. PICK g \in Frames : g = base[Len(base)]
        BY <1>b, <2>3
      <3>2. ~Working(g)
        BY <1>b, <2>3, <3>1
      <3> QED BY <1>2, <2>1, <2>2, <3>1, <3>2, CleanPush
    <2>4. CASE base = <<>>
      BY <1>2, <2>1, <2>2, <2>4, CleanPush
    <2> QED BY <2>3, <2>4
  <1>3. ASSUME NEW h \in Frames, ~Working(f), ~Working(h), stack' = base \o <<f, h>>
        PROVE  CleanInv'
    <2>1. base \o <<f, h>> = Append(Append(base, f), h)
      OBVIOUS
    <2>2. /\ Append(base, f) \in Seq(Frames) /\ Len(Append(base, f)) = Len(base) + 1
          /\ \A i \in 1 .. Len(base) : Append(base, f)[i] = base[i]
          /\ Append(base, f)[Len(base) + 1] = f
      BY AppendProperties
    <2>3. PICK b \in Seq(Frames) : b = Append(base, f)
      BY <2>2
    <2>4. /\ stack' = Append(b, h) /\ b # <<>> /\ b[Len(b)] = f
          /\ \A i \in 1 .. Len(b) - 1 : ~Working(b[i])
      BY <1>3, <1>b, <2>1, <2>2, <2>3
    <2> QED BY <1>3, <2>4, CleanPush
  <1> QED BY <1>1, <1>2, <1>3 DEF BeginPhase

LEMMA InitClean == Init => CleanInv
  <1> SUFFICES ASSUME Init PROVE CleanInv
    OBVIOUS
  <1>1. 1 .. Len(stack) = {}
    BY DEF Init
  <1> QED BY <1>1 DEF CleanInv

-----------------------------------------------------------------------------
(* Every step                                                              *)

\* User code in the middle of a digest.
LEMMA UserClean ==
  ASSUME Orderly, TypeOK, TreeOK, CleanInv, UserOp
  PROVE  CleanInv'
  <1>t. /\ stack \in Seq(Frames) /\ lastDirty \in Watchers \cup {Null}
        /\ watchers \in [Scopes -> Seq(Watchers \cup {Null})]
    BY DEF TypeOK
  <1>m. \A op : May(op) => /\ stack # <<>> /\ Top.k = "user" /\ op \in Ops[Top.pc]
    BY DEF May, InUser
  <1>f. /\ \A at \in Contexts : UserFrame(at) \in Frames
        /\ FlushFrame \in Frames
        /\ \A s \in Scopes : DigestFrame(s) \in Frames /\ ApplyFrame(s) \in Frames
    BY FrameTypes
  <1>w. \A x \in Scopes : Len(watchers[x]) \in Nat
    BY SlotFacts
  \* Steps a listener may take.
  <1>1. ASSUME stack # <<>>, Top.k = "user", UNCHANGED <<stack, children, asyncN>>,
               \A x \in Scopes : Len(watchers'[x]) \in Nat /\ Len(watchers'[x]) >= Len(watchers[x]),
               lastDirty' = Null \/ UNCHANGED <<lastDirty, watchers>>
        PROVE  CleanInv'
    <2>1. ASSUME NEW f \in Frames, Working(f), Waits(f, Top.pc) PROVE Waits(f, Top.pc)'
      <3>1. f.pc = "async" => Top.pc = "async" /\ lastDirty' = Null
        BY <1>1, <2>1 DEF Waits
      <3>2. f.pc = "pass" => Top.pc = "listener" /\ Listening(f)'
        BY <1>1, <2>1, ListenerActs DEF Waits
      <3>3. Top' = Top
        BY <1>1 DEF Top
      <3> QED BY <3>1, <3>2, <3>3 DEF Waits
    <2> QED BY <1>1, <2>1, CleanUser
  <1>2. ASSUME \/ \E c \in Cells, v \in Vals : SetCell(c, v)
               \/ \E s \in Scopes : ApplyAsync(s)
               \/ PostDigest
        PROVE  CleanInv'
    <2>1. /\ stack # <<>> /\ Top.k = "user" /\ UNCHANGED <<stack, children, asyncN>>
          /\ UNCHANGED <<lastDirty, watchers>>
      BY <1>2, <1>m DEF SetCell, ApplyAsync, PostDigest, tree, watch, queues
    <2> QED BY <1>1, <1>w, <2>1
  <1>3. ASSUME NEW s \in Scopes, NEW w \in Watchers, Watch(s, w) PROVE CleanInv'
    <2>1. stack # <<>> /\ Top.k = "user" /\ UNCHANGED <<stack, children, asyncN>>
      BY <1>3, <1>m DEF Watch, tree, queues
    <2>2. CASE s \in dead
      <3>1. UNCHANGED <<lastDirty, watchers>>
        BY <1>3, <2>2 DEF Watch
      <3> QED BY <1>1, <1>w, <2>1, <3>1
    <2>3. CASE s \notin dead
      <3>1. lastDirty' = Null /\ watchers' = [watchers EXCEPT ![s] = Append(@, w)]
        BY <1>3, <2>3 DEF Watch
      <3>2. ASSUME NEW x \in Scopes
            PROVE  Len(watchers'[x]) \in Nat /\ Len(watchers'[x]) >= Len(watchers[x])
        <4>1. CASE x = s
          <5>1. watchers'[s] = Append(watchers[s], w) /\ watchers[s] \in Seq(Watchers \cup {Null})
            BY <1>t, <3>1
          <5>2. Len(watchers'[s]) = Len(watchers[s]) + 1
            BY <5>1
          <5> QED BY <1>w, <4>1, <5>2
        <4>2. CASE x # s
          BY <1>t, <1>w, <3>1, <4>2
        <4> QED BY <4>1, <4>2
      <3> QED BY <1>1, <2>1, <3>1, <3>2
    <2> QED BY <2>2, <2>3
  <1>4. ASSUME NEW w \in Watchers, Unwatch(w) PROVE CleanInv'
    <2>1. /\ stack # <<>> /\ Top.k = "user" /\ UNCHANGED <<stack, children, asyncN>>
          /\ Deregister(w, lastDirty)
      BY <1>4, <1>m DEF Unwatch, tree, queues
    <2>2. lastDirty' = Null \/ UNCHANGED <<lastDirty, watchers>>
      BY <2>1 DEF Deregister
    <2>3. \A x \in Scopes : Len(watchers'[x]) \in Nat /\ Len(watchers'[x]) >= Len(watchers[x])
      BY <1>w, <2>1, DeregisterFacts
    <2> QED BY <1>1, <2>1, <2>2, <2>3
  \* Steps only an $evalAsync task may take.
  <1>5. ASSUME stack # <<>>, Top.k = "user", UNCHANGED <<stack, lastDirty>>, Top.pc # "listener"
        PROVE  CleanInv'
    <2>1. ASSUME NEW f \in Frames, Working(f), Waits(f, Top.pc) PROVE Waits(f, Top.pc)'
      <3>1. f.pc = "async" => Top.pc = "async" /\ lastDirty' = Null
        BY <1>5, <2>1 DEF Waits
      <3>2. f.pc # "pass" /\ Top' = Top
        BY <1>5, <2>1 DEF Waits, Top
      <3> QED BY <3>1, <3>2 DEF Waits
    <2> QED BY <1>5, <2>1, CleanUser
  <1>6. ASSUME \/ \E s, p, c \in Scopes, isolated \in BOOLEAN : NewScope(s, p, isolated, c)
               \/ \E s \in Scopes : Destroy(s)
               \/ EvalAsync
        PROVE  CleanInv'
    <2>1. /\ May("new") \/ May("destroy") \/ May("evalAsync")
          /\ UNCHANGED <<stack, lastDirty>>
      BY <1>6 DEF NewScope, Destroy, EvalAsync, watch
    <2>2. Top.pc # "listener"
      BY <2>1, <1>m DEF Orderly
    <2> QED BY <1>5, <1>m, <2>1, <2>2
  \* Calls of $digest and $apply.
  <1>7. ASSUME NEW s \in Scopes, Digest(s) \/ Apply(s) PROVE CleanInv'
    <2>1. /\ May("digest") \/ May("apply")
          /\ \/ BeginPhase(s, "$digest", stack, <<DigestFrame(s)>>) /\ lastDirty' = Null
             \/ BeginPhase(s, "$apply", stack, <<ApplyFrame(s), UserFrame("apply")>>)
      BY <1>7 DEF Digest, Apply, CallDigest
    <2>2. stack # <<>> /\ Top.k = "user" /\ Top.pc \notin {"listener", "async"}
      BY <1>m, <2>1 DEF Orderly
    <2>3. \A i \in 1 .. Len(stack) : ~Working(stack[i])
      <3>1. \A i \in 1 .. Len(stack) - 1 : ~Working(stack[i])
        BY <2>2, NoneBelow
      <3>2. ~Working(Top) /\ Len(stack) \in Nat
        BY <1>t, <2>2 DEF Working
      <3> QED BY <3>1, <3>2 DEF Top
    <2>4. CASE BeginPhase(s, "$digest", stack, <<DigestFrame(s)>>) /\ lastDirty' = Null
      <3>1. PICK f \in Frames : f = DigestFrame(s)
        BY <1>f
      <3>2. Running(f)'
        <4>1. f.pc = "async"
          BY <3>1 DEF DigestFrame, Frame
        <4> QED BY <2>4, <4>1 DEF Running, Draining
      <3> QED BY <1>t, <2>3, <2>4, <3>1, <3>2, CleanCall
    <2>5. CASE BeginPhase(s, "$apply", stack, <<ApplyFrame(s), UserFrame("apply")>>)
      <3>1. /\ ApplyFrame(s) \in Frames /\ UserFrame("apply") \in Frames
            /\ ~Working(ApplyFrame(s)) /\ ~Working(UserFrame("apply"))
        BY <1>f DEF Contexts, Working, ApplyFrame, UserFrame, Frame
      <3> QED BY <1>t, <2>3, <2>5, <3>1, CleanCall
    <2> QED BY <2>1, <2>4, <2>5
  <1>8. ASSUME Throw PROVE CleanInv'
    <2>1. /\ stack # <<>> /\ Top.k = "user" /\ stack' = Popped
          /\ Kept /\ asyncN' = asyncN
      BY <1>8, <1>m DEF Throw, tree, watch, queues, Kept
    <2>2. \A f \in Frames : Working(f) /\ Waits(f, Top.pc) => Running(f)'
      BY <2>1, ListenerGone DEF Waits, Running, Draining, Working, Kept
    <2> QED BY <2>1, <2>2, CleanReturn
  <1>9. CASE \E s \in Scopes : Destroy(s) \/ ApplyAsync(s) \/ Digest(s) \/ Apply(s)
    BY <1>9, <1>2, <1>6, <1>7
  <1> QED BY <1>2, <1>3, <1>4, <1>6, <1>8, <1>9, Zenon DEF UserOp

\* One step of a pass over the tree.
LEMMA PassClean ==
  ASSUME TypeOK, TreeOK, SlotsOK, CleanInv, Pass
  PROVE  CleanInv'
  <1>t. /\ stack \in Seq(Frames) /\ Null \notin Watchers /\ lastDirty \in Watchers \cup {Null}
    BY ScopeAssumption DEF TypeOK, ScopeAssumption
  <1>d. /\ stack # <<>> /\ Top.k = "digest" /\ Top.pc \in {"async", "pass"} /\ asyncN' = asyncN
        /\ children' = children /\ dead' = dead /\ cell' = cell
    BY DEF Pass, StartPass, EmptySlot, WatchFnThrows, WatchDirty, WatchClean, ReadChildren,
           EnterChild, LeaveScope, Evaluates, Scanning, At, tree, queues
  <1>0. PICK f \in Frames : f = Top
    BY <1>d, <1>t, StackOps
  <1>r. Running(f)
    <2>1. Len(stack) \in 1 .. Len(stack) /\ Len(stack) # Len(stack) - 1
      BY <1>d, <1>t, EmptySeq
    <2> QED BY <1>0, <1>d, <2>1 DEF CleanInv, Working, Top
  \* The frame is swapped for one that is in a pass.
  <1>1. ASSUME NEW g \in Frames, stack' = With(g), Passing(g)', g.pc = "pass" PROVE CleanInv'
    <2>1. Running(g)'
      BY <1>1 DEF Running
    <2> QED BY <1>1, <1>d, <2>1, CleanSwap
  <1>2. ASSUME StartPass PROVE CleanInv'
    <2>1. /\ f.pc = "async" /\ asyncN = 0 /\ Kept
          /\ stack' = With([f EXCEPT !.pc = "pass", !.flag = FALSE, !.trav = <<Visit(f.s)>>])
      BY <1>0, <1>2 DEF StartPass, At, Kept, tree, watch
    <2>2. Visit(f.s) \in Visits
      <3>1. f.s \in Scopes
        BY FrameFacts
      <3> QED BY <3>1, SlotFacts DEF Visit, Visits
    <2>3. PICK g \in Frames : g = [f EXCEPT !.pc = "pass", !.flag = FALSE, !.trav = <<Visit(f.s)>>]
      <3> DEFINE v == Visit(f.s)
      <3>1. <<v>> \in Seq(Visits)
        BY <2>2
      <3> HIDE DEF v
      <3> QED BY <3>1 DEF Frames, Visits, LoopPcs, v
    <2>4. g.pc = "pass" /\ g.s = f.s /\ g.flag = FALSE /\ g.trav = <<Visit(f.s)>>
      BY <2>3 DEF Frames
    <2>5. Passing(g)'
      BY <1>d, <1>r, <2>1, <2>4, PassStarts DEF Running
    <2> QED BY <1>1, <2>1, <2>3, <2>4, <2>5
  \* All other steps move on from where the pass is.
  <1> DEFINE u == f.trav[Len(f.trav)]
  <1>s. ASSUME Scanning
        PROVE  /\ f.pc = "pass" /\ Passing(f) /\ f.trav # <<>> /\ Here = u /\ Walk(f.s, f.trav)
               /\ u \in Visits /\ u.s \in Scopes /\ u.wi \in Nat /\ u.i \in Nat
               /\ u.i > 0 => u.wi = 0 /\ u.n = Len(children[u.s])
               /\ u.wi > 0 => u.i = 0 /\ u.wi \in DOMAIN watchers[u.s]
    <2>1. f.pc = "pass" /\ f.trav # <<>> /\ Here = u
      BY <1>s, <1>0 DEF Scanning, At, Here
    <2>2. Passing(f)
      BY <1>r, <2>1 DEF Running
    <2>3. Walk(f.s, f.trav)
      BY <2>2 DEF Passing
    <2> QED BY <2>1, <2>2, <2>3, WalkFacts
  <1>v. ASSUME Scanning, NEW v \in Visits
        PROVE  /\ Revisit(v) = Replaced(f, v)
               /\ [Top EXCEPT !.trav = Revisit(v)] \in Frames
               /\ [Top EXCEPT !.flag = TRUE, !.trav = Revisit(v)] \in Frames
    <2>1. Revisit(v) = Replaced(f, v)
      BY <1>0 DEF Revisit, Replaced
    <2>2. Replaced(f, v) \in Seq(Visits)
      BY <1>v, <1>s, RevisitFacts
    <2> HIDE DEF Replaced
    <2> QED BY <1>0, <2>1, <2>2 DEF Frames, Visits
  <1>n. ASSUME Scanning, Here.wi > 0
        PROVE  /\ [u EXCEPT !.wi = @ - 1] \in Visits
               /\ NextSlot = Replaced(f, [u EXCEPT !.wi = @ - 1])
               /\ [f EXCEPT !.trav = NextSlot] \in Frames
               /\ [f EXCEPT !.flag = TRUE, !.trav = NextSlot] \in Frames
    <2>1. [u EXCEPT !.wi = @ - 1] \in Visits
      BY <1>n, <1>s DEF Visits
    <2> QED BY <1>n, <1>s, <1>v, <1>0, <2>1 DEF NextSlot
  <1> HIDE DEF u
  \* A slot is done with.
  <1>3. ASSUME Scanning, Here.wi > 0, Kept, CleanAt(u.s, u.wi)',
               stack' = With([Top EXCEPT !.trav = NextSlot])
        PROVE  CleanInv'
    <2>1. PICK g \in Frames : g = [f EXCEPT !.trav = NextSlot]
      BY <1>3, <1>n
    <2>2. g.pc = "pass" /\ g = [f EXCEPT !.trav = Replaced(f, [u EXCEPT !.wi = @ - 1])]
      BY <1>3, <1>n, <1>s, <2>1 DEF Frames
    <2>3. /\ Passing(f) /\ f.trav # <<>> /\ u.wi > 0 /\ u = f.trav[Len(f.trav)]
      BY <1>3, <1>s DEF u
    <2>4. Passing(g)'
      BY <1>3, <1>d, <2>2, <2>3, SlotDone
    <2> QED BY <1>0, <1>1, <1>3, <2>1, <2>2, <2>4
  <1>4. ASSUME EmptySlot PROVE CleanInv'
    <2>1. /\ Scanning /\ Here.wi > 0 /\ Kept /\ watchers[Here.s][Here.wi] = Null
          /\ stack' = With([Top EXCEPT !.trav = NextSlot]) /\ watchers' = watchers
      BY <1>4 DEF EmptySlot, Kept, tree, watch
    <2>2. CleanAt(u.s, u.wi)'
      BY <1>s, <2>1 DEF CleanAt
    <2> QED BY <1>3, <2>1, <2>2
  <1>e. ASSUME NEW w \in Watchers, NEW v, Evaluates(w, v)
        PROVE  /\ Scanning /\ Here.wi > 0 /\ w = watchers[u.s][u.wi] /\ w # Null
               /\ v = cell[CellOf[w]] /\ u.wi > 0
    BY <1>e, <1>s DEF Evaluates
  <1>o. ASSUME NEW w \in Watchers, OneShot(w, lastDirty), UNCHANGED last
        PROVE  Kept
    BY <1>o, <1>d, DeregisterFacts DEF OneShot, Kept
  \* The watcher at hand is seen at its present value.
  <1>c. ASSUME NEW w \in Watchers, NEW v, Evaluates(w, v), v \in {Bad, last[w]}, Kept
        PROVE  CleanAt(u.s, u.wi)'
    <2>1. watchers'[u.s][u.wi] \in {Null, w}
      BY <1>c, <1>e, <1>s DEF Kept
    <2>2. last' = last /\ cell' = cell
      BY <1>c DEF Kept
    <2>3. ~Stale(w)
      BY <1>c, <1>e DEF Stale
    <2> QED BY <2>1, <2>2, <2>3 DEF CleanAt, Stale
  <1>5. ASSUME NEW w \in Watchers, WatchFnThrows(w) PROVE CleanInv'
    <2>1. /\ Evaluates(w, Bad) /\ OneShot(w, lastDirty) /\ UNCHANGED last
          /\ stack' = With([Top EXCEPT !.trav = NextSlot])
      BY <1>5 DEF WatchFnThrows
    <2> QED BY <1>3, <1>c, <1>e, <1>o, <2>1
  <1>6. ASSUME NEW w \in Watchers, NEW v \in Vals, WatchClean(w, v) PROVE CleanInv'
    <2>1. /\ Evaluates(w, v) /\ v = last[w] /\ OneShot(w, lastDirty) /\ UNCHANGED last
          /\ stack' = With([Top EXCEPT !.trav = IF lastDirty' = w THEN <<>> ELSE NextSlot])
      BY <1>6 DEF WatchClean
    <2>2. Kept /\ CleanAt(u.s, u.wi)'
      BY <1>c, <1>o, <2>1
    <2>3. CASE lastDirty' # w
      BY <1>3, <1>e, <2>1, <2>2, <2>3
    <2>4. CASE lastDirty' = w
      <3>0. <<>> \in Seq(Visits)
        BY EmptySeq
      <3>1. PICK g \in Frames : g = [f EXCEPT !.trav = <<>>]
        BY <3>0 DEF Frames, Visits
      <3>2. g.pc = "pass" /\ stack' = With(g)
        BY <1>0, <1>e, <1>s, <2>1, <2>4, <3>1 DEF Frames
      <3>3. LastAt(u.s, u.wi)
        BY <1>e, <2>1, <2>2, <2>4 DEF LastAt, Kept
      <3>4. Passing(f) /\ f.trav # <<>> /\ u = f.trav[Len(f.trav)] /\ u.wi > 0
        BY <1>e, <1>s, <2>1 DEF u
      <3>5. Passing(g)'
        BY <1>d, <2>2, <3>1, <3>3, <3>4, ShortCircuit
      <3> QED BY <1>1, <3>2, <3>5
    <2> QED BY <2>3, <2>4
  <1>7. ASSUME NEW w \in Watchers, NEW v \in Vals, WatchDirty(w, v) PROVE CleanInv'
    <2>1. /\ Evaluates(w, v) /\ lastDirty' = w
          /\ watchers' \in {watchers, Cleared(w)}
          /\ stack' = Append(With([Top EXCEPT !.flag = TRUE, !.trav = NextSlot]), UserFrame("listener"))
      BY <1>7 DEF WatchDirty
    <2>2. PICK g \in Frames : g = [f EXCEPT !.flag = TRUE, !.trav = NextSlot]
      BY <1>e, <1>n, <2>1
    <2>3. /\ g.pc = "pass" /\ g.k = "digest" /\ g.s = f.s /\ g.flag = TRUE
          /\ g.trav = Replaced(f, [u EXCEPT !.wi = @ - 1])
      BY <1>0, <1>d, <1>e, <1>n, <1>s, <2>1, <2>2 DEF Frames
    <2>4. \A t \in Scopes :
            /\ DOMAIN watchers'[t] = DOMAIN watchers[t] /\ Len(watchers'[t]) = Len(watchers[t])
            /\ \A j \in DOMAIN watchers[t] : watchers'[t][j] \in {Null, watchers[t][j]}
      BY <2>1, ClearedFacts
    <2>5. Passing(f) /\ f.trav # <<>> /\ u = f.trav[Len(f.trav)] /\ u.wi > 0
      BY <1>e, <1>s, <2>1 DEF u
    <2>6. Listening(g)'
      BY <1>d, <1>e, <2>1, <2>3, <2>4, <2>5, ListenerCalled
    <2>7. PICK h \in Frames : h = UserFrame("listener")
      BY FrameTypes DEF Contexts
    <2>8. h.k = "user" /\ h.pc = "listener"
      BY <2>7 DEF UserFrame, Frame
    <2>9. Waits(g, h.pc)'
      BY <2>3, <2>6, <2>8 DEF Waits
    <2>10. PICK base \in Seq(Frames) : base = With(g)
      BY <1>d, <1>t, StackOps
    <2>11. /\ base # <<>> /\ base[Len(base)] = g
           /\ \A i \in 1 .. Len(base) - 1 : ~Working(base[i])
      <3>1. /\ Len(base) = Len(stack) /\ Len(stack) \in Nat \ {0}
            /\ \A i \in 1 .. Len(stack) : base[i] = IF i = Len(stack) THEN g ELSE stack[i]
        BY <1>d, <1>t, <2>10, StackOps
      <3>2. \A i \in 1 .. Len(stack) - 1 : ~Working(stack[i])
        BY <1>d, NoneBelow
      <3> QED BY <3>1, <3>2
    <2>12. stack' = Append(base, h) /\ ~Working(h)
      BY <1>0, <2>1, <2>2, <2>7, <2>8, <2>10 DEF Working
    <2> QED BY <2>8, <2>9, <2>11, <2>12, CleanPush
  <1>8. ASSUME ReadChildren PROVE CleanInv'
    <2> DEFINE v == [u EXCEPT !.i = 1, !.n = Len(children[u.s])]
    <2>1. /\ Scanning /\ Here.wi = 0 /\ Here.i = 0 /\ Kept
          /\ stack' = With([Top EXCEPT !.trav = Revisit([Here EXCEPT !.i = 1, !.n = Len(children[Here.s])])])
      BY <1>8 DEF ReadChildren, Kept, tree, watch
    <2>2. v \in Visits /\ u.wi = 0 /\ u.i = 0 /\ Here = u
      BY <1>s, <2>1, KidFacts DEF Visits
    <2>3. stack' = With([Top EXCEPT !.trav = Replaced(f, v)]) /\ [Top EXCEPT !.trav = Replaced(f, v)] \in Frames
      BY <1>v, <2>1, <2>2
    <2>4. PICK g \in Frames : g = [f EXCEPT !.trav = Replaced(f, v)]
      BY <1>0, <2>3
    <2>5. g.pc = "pass"
      BY <1>s, <2>1, <2>4 DEF Frames
    <2>6. Passing(f) /\ f.trav # <<>> /\ u = f.trav[Len(f.trav)]
      BY <1>s, <2>1 DEF u
    <2>7. Passing(g)'
      BY <1>d, <2>1, <2>2, <2>4, <2>6, ChildrenRead
    <2> QED BY <1>0, <1>1, <2>3, <2>4, <2>5, <2>7
  <1>9. ASSUME EnterChild PROVE CleanInv'
    <2> DEFINE w == [u EXCEPT !.i = @ + 1]
    <2>1. /\ Scanning /\ Here.wi = 0 /\ Here.i > 0 /\ HasChild /\ Kept
          /\ stack' = With([Top EXCEPT !.trav = Append(Revisit([Here EXCEPT !.i = @ + 1]),
                                                       Visit(children[Here.s][Here.i]))])
      BY <1>9 DEF EnterChild, Kept, tree, watch
    <2>2. /\ w \in Visits /\ w.s = u.s /\ w.i = u.i + 1 /\ w.wi = 0 /\ w.n = Len(children[u.s])
          /\ u.wi = 0 /\ u.i > 0 /\ u.i <= Len(children[u.s]) /\ Here = u
          /\ u.i \in DOMAIN children[u.s] /\ children[u.s][u.i] \in Scopes
      BY <1>s, <2>1, KidFacts DEF Visits, HasChild
    <2>3. PICK v \in Visits : v = w
      BY <2>2
    <2>4. PICK R : R = Replaced(f, v)
      OBVIOUS
    <2>5. PICK c \in Visits : c = Visit(children[u.s][u.i])
      BY <2>2, SlotFacts DEF Visit, Visits
    <2>6. /\ c.s = children[u.s][u.i] /\ c.i = 0
          /\ c.wi = IF c.s \in dead THEN 0 ELSE Len(watchers[c.s])
      BY <2>5 DEF Visit
    <2>7. v.s = u.s /\ v.wi = 0 /\ v.i = u.i + 1 /\ v.n = Len(children[u.s])
      BY <2>2, <2>3
    <2>8. Passing(f) /\ f.trav # <<>> /\ u = f.trav[Len(f.trav)] /\ Walk(f.s, f.trav)
      BY <1>s, <2>1 DEF u
    <2>9. Walk(f.s, R) /\ R \in Seq(Visits) /\ R # <<>> /\ R[Len(R)] = v
      <3>1. v.wi <= u.wi
        BY <2>2, <2>7
      <3> QED BY <2>4, <2>7, <2>8, <3>1, RevisitWalk
    <2>10. Append(R, c) \in Seq(Visits)
      BY <2>9
    <2>11. PICK g \in Frames : g = [f EXCEPT !.trav = Append(R, c)]
      BY <2>10 DEF Frames, Visits
    <2>12. g.pc = "pass" /\ g.s = f.s /\ g.flag = f.flag /\ g.trav = Append(R, c)
      BY <1>s, <2>1, <2>11 DEF Frames
    <2>13. stack' = With(g)
      BY <1>0, <1>v, <2>1, <2>2, <2>3, <2>4, <2>5, <2>11
    <2>14. Passing(g)'
      <3>1. u.wi = 0 /\ u.i > 0 /\ u.i <= Len(children[u.s]) /\ Kept /\ asyncN' = asyncN
        BY <1>d, <2>1, <2>2
      <3>2. v.s = u.s /\ v.i = u.i + 1
        BY <2>7
      <3> QED
        BY ONLY TypeOK, TreeOK, f \in Frames, g \in Frames, c \in Visits, <2>6, <2>8, <2>9, <2>12,
                <3>1, <3>2, ChildEntered
    <2> QED BY <1>1, <2>12, <2>13, <2>14
  <1>10. ASSUME LeaveScope PROVE CleanInv'
    <2>1. /\ Scanning /\ Here.wi = 0 /\ Here.i > 0 /\ ~HasChild /\ Kept
          /\ stack' = With([Top EXCEPT !.trav = SubSeq(@, 1, Len(@) - 1)])
      BY <1>10 DEF LeaveScope, Kept, tree, watch
    <2>2. /\ Passing(f) /\ f.trav # <<>> /\ u = f.trav[Len(f.trav)] /\ u.wi = 0 /\ u.i > 0
          /\ ~(u.i <= u.n /\ u.i <= Len(children[u.s]))
      BY <1>s, <2>1 DEF u, HasChild
    <2>3. SubSeq(f.trav, 1, Len(f.trav) - 1) \in Seq(Visits)
      BY <2>2, FrameFacts, FrontOfSeq
    <2>4. PICK g \in Frames : g = [f EXCEPT !.trav = SubSeq(f.trav, 1, Len(f.trav) - 1)]
      BY <2>3 DEF Frames, Visits
    <2>5. g.pc = "pass" /\ stack' = With(g)
      BY <1>0, <1>s, <2>1, <2>4 DEF Frames
    <2>6. Passing(g)'
      BY <1>d, <2>1, <2>2, <2>4, ScopeLeft
    <2> QED BY <1>1, <2>5, <2>6
  <1> QED BY <1>2, <1>4, <1>5, <1>6, <1>7, <1>8, <1>9, <1>10, Zenon DEF Pass

\* The other steps of the engine, and the timeouts.
LEMMA EngineClean ==
  ASSUME TypeOK, TreeOK, CleanInv,
         \/ BeginTurn \/ Timeout \/ Return \/ Catch \/ Propagate \/ Uncaught \/ DrainAsync
         \/ PassAgain \/ TtlAbort \/ BeginFlush \/ Settle \/ DrainPost \/ DigestDone \/ Report
         \/ FlushTask \/ FlushDone \/ ApplyEvaluated \/ ApplyDigests \/ ApplyDone
         \/ UNCHANGED vars
  PROVE  CleanInv'
  <1>t. stack \in Seq(Frames) /\ lastDirty \in Watchers \cup {Null} /\ asyncN \in Nat
    BY DEF TypeOK
  <1>f. /\ \A at \in Contexts : UserFrame(at) \in Frames
        /\ FlushFrame \in Frames
        /\ \A s \in Scopes : DigestFrame(s) \in Frames /\ ApplyFrame(s) \in Frames
    BY FrameTypes
  <1>k. /\ \A at : UserFrame(at).k = "user" /\ UserFrame(at).pc = at
        /\ \A at : ~Working(UserFrame(at))
        /\ ~Working(FlushFrame) /\ \A s : ~Working(ApplyFrame(s))
    BY DEF UserFrame, FlushFrame, ApplyFrame, Frame, Working
  <1>e. /\ <<>> \in Seq(Frames) /\ \A i \in 1 .. Len(<<>>) : ~Working(<<>>[i])
    OBVIOUS
  \* A $digest is called, or refused, from base.
  <1>g. ASSUME NEW s \in Scopes, NEW base \in Seq(Frames),
               \A i \in 1 .. Len(base) : ~Working(base[i]), CallDigest(s, base)
        PROVE  CleanInv'
    <2>1. PICK f \in Frames : f = DigestFrame(s)
      BY <1>f
    <2>2. Running(f)'
      <3>1. f.pc = "async"
        BY <2>1 DEF DigestFrame, Frame
      <3> QED BY <1>g, <3>1 DEF CallDigest, Running, Draining
    <2> QED BY <1>g, <2>1, <2>2, CleanCall DEF CallDigest
  <1>1. ASSUME BeginTurn PROVE CleanInv'
    <2>1. PICK h \in Frames : h = UserFrame("turn")
      BY <1>f DEF Contexts
    <2>2. stack' = Append(<<>>, h) /\ ~Working(h)
      BY <1>1, <1>k, <2>1 DEF BeginTurn
    <2>3. \A i \in 1 .. Len(<<>>) - 1 : ~Working(<<>>[i])
      OBVIOUS
    <2> QED BY <1>e, <2>2, <2>3, CleanPush
  <1>2. ASSUME EvalAsyncTimeout PROVE CleanInv'
    <2>1. stack = <<>> /\ (UNCHANGED stack \/ CallDigest(Root, <<>>))
      BY <1>2 DEF EvalAsyncTimeout
    <2>2. CASE UNCHANGED stack
      BY <1>e, <2>1, <2>2 DEF CleanInv
    <2>3. CASE CallDigest(Root, <<>>)
      BY <1>e, <1>g, <2>3, ScopeAssumption DEF ScopeAssumption
    <2> QED BY <2>1, <2>2, <2>3
  <1>3. ASSUME ApplyAsyncTimeout PROVE CleanInv'
    <2>1. PICK s \in Scopes : BeginPhase(s, "$apply", <<>>, <<ApplyFrame(s), FlushFrame>>)
      BY <1>3, HeadTailProperties DEF ApplyAsyncTimeout, TypeOK
    <2> QED BY <1>e, <1>f, <1>k, <2>1, CleanCall
  <1>4. ASSUME Return \/ Propagate PROVE CleanInv'
    <2>1. /\ stack # <<>> /\ Top.k = "user" /\ stack' = Popped
          /\ Kept /\ asyncN' = asyncN
      BY <1>4 DEF Return, Propagate, InUser, Caught, tree, watch, queues, Kept
    <2>2. \A f \in Frames : Working(f) /\ Waits(f, Top.pc) => Running(f)'
      BY <2>1, ListenerGone DEF Waits, Running, Draining, Working, Kept
    <2> QED BY <2>1, <2>2, CleanReturn
  <1>5. ASSUME Catch \/ Uncaught \/ Report \/ UNCHANGED vars PROVE CleanInv'
    <2>1. UNCHANGED <<stack, children, dead, watchers, last, cell, lastDirty, asyncN>>
      BY <1>5 DEF Catch, Uncaught, Report, vars, tree, watch, queues
    <2> QED BY <2>1, CleanSame
  \* Something is called from a digest or a flush that does not work, or waits for it.
  <1>6. ASSUME stack # <<>>, Top.k # "user", NEW g \in Frames, NEW h \in Frames,
               stack' = Append(With(g), h), ~Working(h),
               Working(g) => h.k = "user" /\ Waits(g, h.pc)'
        PROVE  CleanInv'
    <2>1. PICK base \in Seq(Frames) : base = With(g)
      BY <1>6, <1>t, StackOps
    <2>2. /\ base # <<>> /\ base[Len(base)] = g
          /\ \A i \in 1 .. Len(base) - 1 : ~Working(base[i])
      <3>1. /\ Len(base) = Len(stack) /\ Len(stack) \in Nat \ {0}
            /\ \A i \in 1 .. Len(stack) : base[i] = IF i = Len(stack) THEN g ELSE stack[i]
        BY <1>6, <1>t, <2>1, StackOps
      <3>2. \A i \in 1 .. Len(stack) - 1 : ~Working(stack[i])
        BY <1>6, NoneBelow
      <3> QED BY <3>1, <3>2
    <2>3. stack' = Append(base, h)
      BY <1>6, <2>1
    <2> QED BY <1>6, <2>2, <2>3, CleanPush
  <1>w. stack # <<>> => Top \in Frames /\ With(Top) = stack
    <2> SUFFICES ASSUME stack # <<>> PROVE Top \in Frames /\ With(Top) = stack
      OBVIOUS
    <2> QED BY <1>t, StackOps DEF With, Top
  <1>7. ASSUME DrainAsync PROVE CleanInv'
    <2>1. /\ stack # <<>> /\ Top.k = "digest" /\ Top.pc = "async" /\ asyncN > 0
          /\ stack' = Append(stack, UserFrame("async")) /\ lastDirty' = lastDirty
      BY <1>7 DEF DrainAsync, At, Push, watch
    <2>2. PICK g \in Frames : g = Top
      BY <1>w, <2>1
    <2>3. lastDirty = Null
      <3>1. Len(stack) \in 1 .. Len(stack) /\ Len(stack) # Len(stack) - 1
        BY <1>t, <2>1, EmptySeq
      <3>2. Running(g)
        BY <2>1, <2>2, <3>1 DEF CleanInv, Working, Top
      <3> QED BY <2>1, <2>2, <3>2 DEF Running, Draining
    <2>4. Waits(g, "async")'
      BY <2>1, <2>2, <2>3 DEF Waits
    <2>5. PICK h \in Frames : h = UserFrame("async")
      BY <1>f DEF Contexts
    <2> QED BY <1>6, <1>k, <1>w, <2>1, <2>2, <2>4, <2>5
  \* The frame is swapped for one that no longer works, or works between two passes.
  <1>8. ASSUME PassAgain PROVE CleanInv'
    <2>1. /\ stack # <<>> /\ Top.k = "digest" /\ Top.pc = "pass" /\ Top.trav = <<>>
          /\ Top.flag \/ asyncN > 0
          /\ stack' = With([Top EXCEPT !.pc = "async", !.ttl = @ - 1]) /\ Top.ttl > 1
          /\ Kept /\ asyncN' = asyncN
      BY <1>8 DEF PassAgain, PassOver, Unstable, At, Kept, tree, watch, queues
    <2>2. PICK f \in Frames : f = Top
      BY <1>w, <2>1
    <2>3. Passing(f)
      <3>1. Len(stack) \in 1 .. Len(stack) /\ Len(stack) # Len(stack) - 1
        BY <1>t, <2>1, EmptySeq
      <3> QED BY <2>1, <2>2, <3>1 DEF CleanInv, Working, Top, Running
    <2>4. f.flag
      BY <2>1, <2>2, <2>3 DEF Passing
    <2>5. PICK g \in Frames : g = [f EXCEPT !.pc = "async", !.ttl = @ - 1]
      <3>1. f.ttl - 1 \in Nat
        BY <2>1, <2>2 DEF Frames
      <3> QED BY <3>1 DEF Frames, LoopPcs
    <2>6. g.pc = "async" /\ g.s = f.s
      BY <2>5 DEF Frames
    <2>7. Draining(g)'
      BY <2>1, <2>2, <2>3, <2>4, <2>6, PassEnds
    <2>8. Running(g)'
      BY <2>6, <2>7 DEF Running
    <2> QED BY <2>1, <2>2, <2>5, <2>8, CleanSwap
  <1>9. ASSUME stack # <<>>, Top.k # "user", NEW g \in Frames, stack' = With(g), ~Working(g)
        PROVE  CleanInv'
    BY <1>9, CleanSwap
  <1>10. ASSUME TtlAbort \/ DigestDone \/ FlushDone \/ ApplyDone PROVE CleanInv'
    <2>1. stack # <<>> /\ Top.k # "user" /\ stack' = Popped
      BY <1>10 DEF TtlAbort, DigestDone, FlushDone, ApplyDone, PassOver, At
    <2> QED BY <2>1, CleanPop
  <1>11. ASSUME BeginFlush PROVE CleanInv'
    <2>1. /\ stack # <<>> /\ Top.k = "digest"
          /\ stack' = Append(With([Top EXCEPT !.pc = "flush"]), FlushFrame)
      BY <1>11 DEF BeginFlush, PassOver, At
    <2>2. PICK g \in Frames : g = [Top EXCEPT !.pc = "flush"]
      BY <1>w, <2>1 DEF Frames, LoopPcs
    <2>3. ~Working(g)
      BY <1>w, <2>1, <2>2 DEF Frames, Working
    <2>4. PICK h \in Frames : h = FlushFrame
      BY <1>f
    <2> QED BY <1>6, <1>k, <2>1, <2>2, <2>3, <2>4
  <1>12. ASSUME Settle PROVE CleanInv'
    <2>1. /\ stack # <<>> /\ Top.k = "digest"
          /\ stack' = With([Top EXCEPT !.pc = "post"])
      BY <1>12 DEF Settle, PassOver, At, Become
    <2>2. PICK g \in Frames : g = [Top EXCEPT !.pc = "post"]
      BY <1>w, <2>1 DEF Frames, LoopPcs
    <2>3. ~Working(g)
      BY <1>w, <2>1, <2>2 DEF Frames, Working
    <2> QED BY <1>9, <2>1, <2>2, <2>3
  <1>13. ASSUME DrainPost PROVE CleanInv'
    <2>1. /\ stack # <<>> /\ Top.k = "digest" /\ Top.pc = "post"
          /\ stack' = Append(stack, UserFrame("post")) \/ stack' = stack
      BY <1>13 DEF DrainPost, At, Push
    <2>2. PICK g \in Frames : g = Top
      BY <1>w, <2>1
    <2>3. ~Working(g)
      BY <2>1, <2>2 DEF Working
    <2>4. PICK h \in Frames : h = UserFrame("post")
      BY <1>f DEF Contexts
    <2> QED BY <1>6, <1>9, <1>k, <1>w, <2>1, <2>2, <2>3, <2>4
  <1>14. ASSUME FlushTask PROVE CleanInv'
    <2>1. stack # <<>> /\ Top.k = "flush" /\ stack' = Append(stack, UserFrame("task"))
      BY <1>14 DEF FlushTask, At, Push
    <2>2. PICK g \in Frames : g = Top
      BY <1>w, <2>1
    <2>3. ~Working(g)
      BY <2>1, <2>2 DEF Working
    <2>4. PICK h \in Frames : h = UserFrame("task")
      BY <1>f DEF Contexts
    <2> QED BY <1>6, <1>k, <1>w, <2>1, <2>2, <2>3, <2>4
  <1>15. ASSUME ApplyEvaluated PROVE CleanInv'
    <2>1. /\ stack # <<>> /\ Top.k = "apply" /\ throwing \in BOOLEAN
          /\ stack' = With([Top EXCEPT !.pc = "finally", !.flag = throwing])
      BY <1>15 DEF ApplyEvaluated, TypeOK
    <2>2. PICK g \in Frames : g = [Top EXCEPT !.pc = "finally", !.flag = throwing]
      BY <1>w, <2>1 DEF Frames
    <2>3. ~Working(g)
      BY <1>w, <2>1, <2>2 DEF Frames, Working
    <2> QED BY <1>9, <2>1, <2>2, <2>3
  <1>16. ASSUME ApplyDigests PROVE CleanInv'
    <2>1. /\ stack # <<>> /\ Top.k = "apply" /\ CallDigest(Root, With([Top EXCEPT !.pc = "digest"]))
      BY <1>16 DEF ApplyDigests, At
    <2>2. PICK g \in Frames : g = [Top EXCEPT !.pc = "digest"]
      BY <1>w, <2>1 DEF Frames
    <2>3. ~Working(g)
      BY <1>w, <2>1, <2>2 DEF Frames, Working
    <2>4. PICK base \in Seq(Frames) : base = With(g)
      BY <1>t, <2>1, StackOps
    <2>5. \A i \in 1 .. Len(base) : ~Working(base[i])
      <3>1. /\ Len(base) = Len(stack) /\ Len(stack) \in Nat \ {0}
            /\ \A i \in 1 .. Len(stack) : base[i] = IF i = Len(stack) THEN g ELSE stack[i]
        BY <1>t, <2>1, <2>4, StackOps
      <3>2. \A i \in 1 .. Len(stack) - 1 : ~Working(stack[i])
        BY <2>1, NoneBelow
      <3> QED BY <2>3, <3>1, <3>2
    <2> QED BY <1>g, <2>1, <2>2, <2>4, <2>5, ScopeAssumption DEF ScopeAssumption
  <1> QED
    BY <1>1, <1>2, <1>3, <1>4, <1>5, <1>7, <1>8, <1>10, <1>11, <1>12, <1>13, <1>14, <1>15, <1>16,
       Zenon DEF Timeout

LEMMA NextClean ==
  ASSUME Orderly
  PROVE  TypeOK /\ TreeOK /\ SlotsOK /\ CleanInv /\ [Next]_vars => CleanInv'
  BY UserClean, PassClean, EngineClean, Zenon DEF Next, Engine

\* The digest that ends its passes has just ended one that found nothing dirty.
LEMMA EndsClean ==
  ASSUME TypeOK, CleanInv, [Next]_vars, At("digest", "pass"), Len(stack') >= Len(stack),
         stack'[Len(stack)].pc \in {"flush", "post"}
  PROVE  AllClean(Top.s)
  <1>t. /\ stack \in Seq(Frames) /\ stack # <<>> /\ Top.k = "digest" /\ Top.pc = "pass" /\ ~throwing
    BY DEF TypeOK, At
  <1>l. /\ Len(stack) \in Nat \ {0} /\ Len(stack) \in 1 .. Len(stack) /\ Top \in Frames
        /\ Len(Popped) = Len(stack) - 1
    BY <1>t, StackOps
  <1>0. PICK f \in Frames : f = Top
    BY <1>l
  <1>p. Passing(f)
    <2>1. Len(stack) # Len(stack) - 1
      BY <1>l
    <2> QED BY <1>0, <1>l, <1>t, <2>1 DEF CleanInv, Working, Top, Running
  <1>2. ~(stack' = stack)
    BY <1>t DEF Top
  <1>3. PassOver /\ ~Unstable
    <2> USE DEF At, Caught, May, InUser
    <2>1. ~BeginTurn /\ ~Timeout /\ ~UserOp
      BY <1>t DEF BeginTurn, Timeout, EvalAsyncTimeout, ApplyAsyncTimeout, UserOp, SetCell, Watch,
                  Unwatch, NewScope, Destroy, EvalAsync, ApplyAsync, PostDigest, Digest, Apply, Throw
    <2>2. /\ ~Return /\ ~Catch /\ ~Propagate /\ ~Uncaught /\ ~DrainAsync /\ ~DrainPost
          /\ ~DigestDone /\ ~Report /\ ~FlushTask /\ ~FlushDone /\ ~ApplyEvaluated
          /\ ~ApplyDigests /\ ~ApplyDone /\ ~StartPass
      BY <1>t DEF Return, Catch, Propagate, Uncaught, DrainAsync, DrainPost, DigestDone, Report,
                  FlushTask, FlushDone, ApplyEvaluated, ApplyDigests, ApplyDone, StartPass
    <2>3. ~TtlAbort
      BY <1>l DEF TtlAbort
    <2>4. BeginFlush \/ Settle => PassOver /\ ~Unstable
      BY <1>t DEF BeginFlush, Settle
    <2>5. ASSUME NEW g, stack' = With(g) \/ \E h : stack' = Append(With(g), h), g.pc \in {"pass", "async"}
          PROVE FALSE
      <3>1. /\ With(g) \in Seq(Frames \cup {g}) /\ Len(With(g)) = Len(stack) /\ With(g)[Len(stack)] = g
        BY <1>l, <1>t, WithOps
      <3>2. stack'[Len(stack)] = g
        <4>1. CASE stack' = With(g)
          BY <3>1, <4>1
        <4>2. ASSUME NEW h, stack' = Append(With(g), h) PROVE stack'[Len(stack)] = g
          <5>1. With(g) \in Seq(Frames \cup {g, h})
            BY <3>1, SeqMonotonic
          <5> QED BY <1>l, <3>1, <4>2, <5>1
        <4> QED BY <2>5, <4>1, <4>2
      <3> QED BY <2>5, <3>2
    <2>6. ~PassAgain
      <3>1. [Top EXCEPT !.pc = "async", !.ttl = @ - 1].pc = "async"
        BY <1>l DEF Frames
      <3> QED BY <2>5, <3>1 DEF PassAgain
    <2>7. ~Pass
      <3>1. \A T : [Top EXCEPT !.trav = T].pc = "pass" /\ [Top EXCEPT !.flag = TRUE, !.trav = T].pc = "pass"
        BY <1>l, <1>t DEF Frames
      <3>2. /\ ~EmptySlot /\ ~ReadChildren /\ ~EnterChild /\ ~LeaveScope
            /\ \A w \in Watchers : ~WatchFnThrows(w)
        BY <2>5, <3>1 DEF EmptySlot, ReadChildren, EnterChild, LeaveScope, WatchFnThrows
      <3>3. ASSUME NEW w \in Watchers, NEW v \in Vals, WatchDirty(w, v) PROVE FALSE
        <4>1. PICK g : g = [Top EXCEPT !.flag = TRUE, !.trav = NextSlot]
          OBVIOUS
        <4>2. g.pc = "pass" /\ stack' = Append(With(g), UserFrame("listener"))
          BY <3>1, <3>3, <4>1 DEF WatchDirty
        <4> QED BY <2>5, <4>2
      <3>4. ASSUME NEW w \in Watchers, NEW v \in Vals, WatchClean(w, v) PROVE FALSE
        <4>1. PICK T : T = IF lastDirty' = w THEN <<>> ELSE NextSlot
          OBVIOUS
        <4>2. PICK g : g = [Top EXCEPT !.trav = T]
          OBVIOUS
        <4>3. g.pc = "pass" /\ stack' = With(g)
          BY <3>1, <3>4, <4>1, <4>2 DEF WatchClean
        <4> QED BY <2>5, <4>3
      <3> QED BY <2>2, <3>2, <3>3, <3>4, Zenon DEF Pass
    <2>8. ~UNCHANGED vars
      BY <1>2 DEF vars
    <2> QED BY <2>1, <2>2, <2>3, <2>4, <2>6, <2>7, <2>8, Zenon DEF Next, Engine
  <1>4. f.trav = <<>> /\ ~f.flag
    BY <1>0, <1>3 DEF PassOver, Unstable
  <1>5. \A t \in Under(f.s) : \A j \in DOMAIN watchers[t] : CleanAt(t, j)
    BY <1>4, <1>p DEF Passing, SeenBy
  <1> QED BY <1>0, <1>5 DEF AllClean, CleanAt

\* A digest whose listeners neither queue $evalAsync work, nor digest, nor change
\* the tree, and whose $evalAsync tasks do not digest, stops looping only when
\* every watcher below its scope has been seen at its present value, the
\* short-circuit that spares it the rest of the last pass included.
THEOREM DigestsEndClean ==
  ASSUME {"evalAsync", "digest", "apply", "new", "destroy"} \cap Ops["listener"] = {},
         {"digest", "apply"} \cap Ops["async"] = {}
  PROVE  Spec => DigestLeavesAllClean
  <1>o. Orderly
    BY DEF Orderly
  <1>1. Init => TypeOK /\ TreeOK /\ SlotsOK /\ CleanInv
    BY InitType, InitTree, InitSlots, InitClean
  <1>2. TypeOK /\ TreeOK /\ SlotsOK /\ CleanInv /\ [Next]_vars
          => (TypeOK /\ TreeOK /\ SlotsOK /\ CleanInv)'
    BY <1>o, NextType, NextTree, NextSlots, NextClean
  <1>3. TypeOK /\ CleanInv /\ [Next]_vars
          => [At("digest", "pass") /\ Len(stack') >= Len(stack)
                /\ stack'[Len(stack)].pc \in {"flush", "post"} => AllClean(Top.s)]_vars
    BY EndsClean
  <1> QED BY <1>1, <1>2, <1>3, PTL DEF Spec, DigestLeavesAllClean

=============================================================================
