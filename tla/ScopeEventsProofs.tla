------------------------- MODULE ScopeEventsProofs -------------------------
(***************************************************************************)
(* Theorems about ScopeEvents: what a loop over a listener array still owes  *)
(* is what lies ahead of it, and a broadcast ends when it has reached every  *)
(* scope that it has to.                                                    *)
(***************************************************************************)
EXTENDS ScopeEvents, SequenceFacts

-----------------------------------------------------------------------------
(* The invariant                                                            *)

\* What lies ahead of a loop at i in an array.
Ahead(array, i) == {array[m] : m \in {p \in DOMAIN array : p >= i}} \ {Null}

\* A frame says where it is, and a loop owes what lies ahead of it.
Sound(f, h) ==
  /\ f.pc = "run" <=> f.k \in {"user", "destroy"}
  /\ f.k \in {"emit", "broadcast"} => f.n \in Names
  /\ f.pc = "fire" => /\ f.arr \in DOMAIN h /\ f.i <= Len(h[f.arr]) + 1
                      /\ f.owed = Ahead(h[f.arr], f.i)

FramesSound == \A j \in 1 .. Len(stack) : Sound(stack[j], heap)

\* A listener has one slot at most in an array, and an array to be taken out of.
Apart ==
  \A a \in DOMAIN heap : \A p \in DOMAIN heap[a] :
    heap[a][p] # Null =>
      /\ held[heap[a][p]] # 0
      /\ \A q \in DOMAIN heap[a] : heap[a][p] = heap[a][q] => p = q

IInv == TypeOK /\ FramesSound /\ Apart

-----------------------------------------------------------------------------
(* The call stack                                                          *)

\* The frame on top, and the stack without it or with another in its place.
LEMMA TopFacts ==
  ASSUME TypeOK, stack # <<>>
  PROVE  /\ stack \in Seq(Frames)
         /\ Len(stack) \in Nat \ {0} /\ DOMAIN stack = 1 .. Len(stack)
         /\ Len(stack) \in 1 .. Len(stack) /\ Top \in Frames
         /\ Popped \in Seq(Frames) /\ Len(Popped) = Len(stack) - 1
         /\ \A j \in 1 .. Len(stack) - 1 : Popped[j] = stack[j]
         /\ \A f \in Frames :
              /\ With(f) \in Seq(Frames) /\ Len(With(f)) = Len(stack)
              /\ With(f)[Len(stack)] = f
              /\ \A j \in 1 .. Len(stack) - 1 : With(f)[j] = stack[j]
  <1>1. stack \in Seq(Frames)
    BY DEF TypeOK
  <1>2. /\ Len(stack) \in Nat \ {0} /\ DOMAIN stack = 1 .. Len(stack)
        /\ Len(stack) \in 1 .. Len(stack) /\ Top \in Frames
    BY <1>1, EmptySeq DEF Top
  <1>3. /\ Popped \in Seq(Frames) /\ Len(Popped) = Len(stack) - 1
        /\ \A j \in 1 .. Len(stack) - 1 : Popped[j] = stack[j]
    BY <1>1, <1>2, LastFacts DEF Popped
  <1>4. ASSUME NEW f \in Frames
        PROVE  /\ With(f) \in Seq(Frames) /\ Len(With(f)) = Len(stack)
               /\ With(f)[Len(stack)] = f
               /\ \A j \in 1 .. Len(stack) - 1 : With(f)[j] = stack[j]
    <2>1. With(f) = [stack EXCEPT ![Len(stack)] = f]
      BY DEF With
    <2>2. /\ [stack EXCEPT ![Len(stack)] = f] \in Seq(Frames)
          /\ Len([stack EXCEPT ![Len(stack)] = f]) = Len(stack)
          /\ [stack EXCEPT ![Len(stack)] = f][Len(stack)] = f
          /\ \A j \in 1 .. Len(stack) - 1 : [stack EXCEPT ![Len(stack)] = f][j] = stack[j]
      BY <1>1, LastFacts
    <2> QED BY ONLY <2>1, <2>2
  <1> QED BY <1>1, <1>2, <1>3, <1>4

\* A call puts a frame on the stack.
LEMMA Pushed ==
  ASSUME TypeOK, NEW f \in Frames
  PROVE  /\ Append(stack, f) \in Seq(Frames) /\ Len(Append(stack, f)) = Len(stack) + 1
         /\ \A j \in 1 .. Len(stack) : Append(stack, f)[j] = stack[j]
         /\ Append(stack, f)[Len(stack) + 1] = f
  BY AppendFacts DEF TypeOK

\* The frames that the code makes.
LEMMA FrameTypes ==
  ASSUME EventAssumption
  PROVE  /\ \A at \in Contexts, l \in Listeners \cup {Null} : UserFrame(at, l) \in Frames
         /\ \A s \in Scopes, n \in Names :
              EmitFrame(s, n) \in Frames /\ BroadcastFrame(s, n) \in Frames
         /\ \A s \in Scopes : DestroyFrame(s) \in Frames
  <1>0. <<>> \in Seq([s : Scopes, i : Nat, n : Nat]) /\ Root \in Scopes
    BY EmptySeq DEF EventAssumption
  <1>1. \A at \in Contexts, l \in Listeners \cup {Null} : UserFrame(at, l) \in Frames
    BY <1>0 DEF UserFrame, Frames, Contexts
  <1>2. PICK f \in Frames : f = UserFrame("turn", Null)
    BY <1>1 DEF Contexts
  <1>3. ASSUME NEW s \in Scopes, NEW n \in Names
        PROVE  EmitFrame(s, n) \in Frames
    <2>1. EmitFrame(s, n) = [f EXCEPT !.k = "emit", !.n = n, !.s = s, !.pc = "visit"]
      BY <1>2 DEF EmitFrame
    <2> QED BY <2>1 DEF Frames
  <1>4. ASSUME NEW s \in Scopes, NEW n \in Names
        PROVE  BroadcastFrame(s, n) \in Frames
    <2>1. <<Activation(s)>> \in Seq([s : Scopes, i : Nat, n : Nat])
      BY DEF Activation
    <2>2. Subtree(s) \subseteq Scopes
      BY DEF Subtree
    <2>3. PICK e \in Frames : e = EmitFrame(s, n)
      BY <1>3
    <2>4. BroadcastFrame(s, n)
            = [e EXCEPT !.k = "broadcast", !.trav = <<Activation(s)>>, !.left = Subtree(s)]
      BY <2>3 DEF BroadcastFrame
    <2> QED BY <2>1, <2>2, <2>4 DEF Frames
  <1>5. ASSUME NEW s \in Scopes
        PROVE  DestroyFrame(s) \in Frames
    <2>1. DestroyFrame(s) = [f EXCEPT !.k = "destroy", !.s = s]
      BY <1>2 DEF DestroyFrame
    <2> QED BY <2>1 DEF Frames
  <1> QED BY <1>1, <1>3, <1>4, <1>5

\* What those frames say of themselves.
LEMMA FrameShapes ==
  /\ \A at, l : /\ UserFrame(at, l).k = "user" /\ UserFrame(at, l).pc = "run"
                /\ UserFrame(at, l).at = at /\ UserFrame(at, l).l = l
  /\ \A s, n : /\ EmitFrame(s, n).k = "emit" /\ EmitFrame(s, n).pc = "visit"
               /\ EmitFrame(s, n).n = n
  /\ \A s, n : /\ BroadcastFrame(s, n).k = "broadcast" /\ BroadcastFrame(s, n).pc = "visit"
               /\ BroadcastFrame(s, n).n = n /\ BroadcastFrame(s, n).s = s
               /\ BroadcastFrame(s, n).trav = <<Activation(s)>>
               /\ BroadcastFrame(s, n).left = Subtree(s)
  /\ \A s : /\ DestroyFrame(s).k = "destroy" /\ DestroyFrame(s).pc = "run"
            /\ DestroyFrame(s).s = s
  BY DEF UserFrame, EmitFrame, BroadcastFrame, DestroyFrame

\* None of them is in a loop yet.
LEMMA FreshSound ==
  ASSUME NEW h
  PROVE  /\ \A at, l : Sound(UserFrame(at, l), h)
         /\ \A s : \A n \in Names : Sound(EmitFrame(s, n), h) /\ Sound(BroadcastFrame(s, n), h)
         /\ \A s : Sound(DestroyFrame(s), h)
  BY FrameShapes DEF Sound

\* Steps that leave the arrays as they are: a frame is sound as far as its place.
LEMMA SameSound ==
  ASSUME NEW f, NEW g, NEW h, Sound(f, h), g.k = f.k, g.pc = f.pc, g.n = f.n, g.arr = f.arr,
         g.i = f.i, g.owed = f.owed
  PROVE  Sound(g, h)
  BY DEF Sound

TreeTyped ==
  /\ born \subseteq Scopes /\ parent \in [Scopes -> Scopes \cup {Null}]
  /\ children \in [Scopes -> Seq(Scopes)]

LEMMA StackKeeps ==
  ASSUME IInv, UNCHANGED <<heap, held>>, TreeTyped',
         registry' \in [Scopes -> [Names -> 0..Len(heap)]], silenced' \subseteq Listeners,
         budget' \in Nat, stack' \in Seq(Frames), \A j \in 1 .. Len(stack') : Sound(stack'[j], heap)
  PROVE  IInv'
  <1>1. TypeOK'
    BY DEF IInv, TypeOK, TreeTyped
  <1>2. FramesSound'
    BY DEF FramesSound
  <1>3. Apart'
    BY DEF IInv, Apart
  <1> QED BY <1>1, <1>2, <1>3 DEF IInv

\* The same, where the tree and the lists stay too.
LEMMA CallsKeep ==
  ASSUME IInv, UNCHANGED <<tree, lists>>,
         budget' \in Nat, stack' \in Seq(Frames), \A j \in 1 .. Len(stack') : Sound(stack'[j], heap)
  PROVE  IInv'
  <1>1. TreeTyped' /\ UNCHANGED <<heap, held>>
    BY DEF IInv, TypeOK, TreeTyped, tree, lists
  <1>2. registry' \in [Scopes -> [Names -> 0..Len(heap)]] /\ silenced' \subseteq Listeners
    BY DEF IInv, TypeOK, lists
  <1> QED BY <1>1, <1>2, StackKeeps

\* The running frame gives way to f.
LEMMA WithKeeps ==
  ASSUME IInv, UNCHANGED <<tree, lists, budget>>, stack # <<>>, NEW f \in Frames, Sound(f, heap),
         stack' = With(f)
  PROVE  IInv'
  <1>1. /\ stack' \in Seq(Frames) /\ Len(stack') = Len(stack) /\ Len(stack) \in Nat
        /\ stack'[Len(stack)] = f /\ \A j \in 1 .. Len(stack) - 1 : stack'[j] = stack[j]
    BY TopFacts DEF IInv
  <1>2. ASSUME NEW j \in 1 .. Len(stack') PROVE Sound(stack'[j], heap)
    <2>1. CASE j = Len(stack)
      BY <1>1, <2>1
    <2>2. CASE j \in 1 .. Len(stack) - 1
      <3>1. j \in 1 .. Len(stack)
        BY <1>1, <2>2
      <3> QED BY <1>1, <2>2, <3>1 DEF IInv, FramesSound
    <2>3. j = Len(stack) \/ j \in 1 .. Len(stack) - 1
      BY <1>1
    <2> QED BY <2>1, <2>2, <2>3
  <1>3. budget' \in Nat
    BY DEF IInv, TypeOK
  <1> QED BY <1>1, <1>2, <1>3, CallsKeep

\* A frame is put on the stack.
LEMMA PushKeeps ==
  ASSUME IInv, UNCHANGED <<tree, lists>>, budget' \in Nat, NEW f \in Frames, Sound(f, heap),
         stack' = Append(stack, f)
  PROVE  IInv'
  <1>1. /\ stack' \in Seq(Frames) /\ Len(stack') = Len(stack) + 1 /\ Len(stack) \in Nat
        /\ stack'[Len(stack) + 1] = f /\ \A j \in 1 .. Len(stack) : stack'[j] = stack[j]
    BY Pushed DEF IInv, TypeOK
  <1>2. ASSUME NEW j \in 1 .. Len(stack') PROVE Sound(stack'[j], heap)
    <2>1. CASE j = Len(stack) + 1
      BY <1>1, <2>1
    <2>2. CASE j \in 1 .. Len(stack)
      BY <1>1, <2>2 DEF IInv, FramesSound
    <2>3. j = Len(stack) + 1 \/ j \in 1 .. Len(stack)
      BY <1>1
    <2> QED BY <2>1, <2>2, <2>3
  <1> QED BY <1>1, <1>2, CallsKeep

\* The running frame is done.
LEMMA PopKeeps ==
  ASSUME IInv, UNCHANGED <<tree, lists, budget>>, stack # <<>>, stack' = Popped
  PROVE  IInv'
  <1>1. /\ stack' \in Seq(Frames) /\ Len(stack') = Len(stack) - 1 /\ Len(stack) \in Nat
        /\ \A j \in 1 .. Len(stack) - 1 : stack'[j] = stack[j]
    BY TopFacts DEF IInv
  <1>2. ASSUME NEW j \in 1 .. Len(stack') PROVE Sound(stack'[j], heap)
    <2>1. j \in 1 .. Len(stack) - 1 /\ j \in 1 .. Len(stack)
      BY <1>1
    <2> QED BY <1>1, <2>1 DEF IInv, FramesSound
  <1>3. budget' \in Nat
    BY DEF IInv, TypeOK
  <1> QED BY <1>1, <1>2, <1>3, CallsKeep

-----------------------------------------------------------------------------
(* User code                                                                *)

LEMMA MayFacts ==
  ASSUME IInv, NEW op, May(op)
  PROVE  /\ budget' \in Nat /\ stack # <<>> /\ Top.k = "user" /\ Top.pc = "run"
         /\ op \in Ops[Top.at] /\ Len(stack) \in Nat \ {0}
  <1>1. budget' \in Nat /\ stack # <<>> /\ Top.k = "user" /\ Top.pc = "run" /\ op \in Ops[Top.at]
    BY DEF IInv, TypeOK, May, At
  <1> QED BY <1>1, TopFacts DEF IInv

LEMMA BeginTurnKeeps ==
  ASSUME EventAssumption, IInv, BeginTurn
  PROVE  IInv'
  <1>1. stack = <<>> /\ stack' = <<UserFrame("turn", Null)>> /\ UNCHANGED <<tree, lists, budget>>
    BY DEF BeginTurn
  <1>2. UserFrame("turn", Null) \in Frames /\ Sound(UserFrame("turn", Null), heap)
    BY FrameTypes, FreshSound DEF Contexts
  <1>3. stack' \in Seq(Frames) /\ \A j \in 1 .. Len(stack') : Sound(stack'[j], heap)
    BY <1>1, <1>2
  <1>4. budget' \in Nat
    BY <1>1 DEF IInv, TypeOK
  <1> QED BY <1>1, <1>3, <1>4, CallsKeep

LEMMA EmitKeeps ==
  ASSUME EventAssumption, IInv, NEW s \in Scopes, NEW n \in Fired, Emit(s, n)
  PROVE  IInv'
  <1>1. n \in Names /\ EmitFrame(s, n) \in Frames /\ Sound(EmitFrame(s, n), heap)
    BY FrameTypes, FreshSound DEF EventAssumption
  <1>2. budget' \in Nat
    BY MayFacts DEF Emit
  <1> QED BY <1>1, <1>2, PushKeeps DEF Emit

LEMMA BroadcastKeeps ==
  ASSUME EventAssumption, IInv, NEW s \in Scopes, NEW n \in Fired, Broadcast(s, n)
  PROVE  IInv'
  <1>1. n \in Names /\ BroadcastFrame(s, n) \in Frames /\ Sound(BroadcastFrame(s, n), heap)
    BY FrameTypes, FreshSound DEF EventAssumption
  <1>2. budget' \in Nat
    BY MayFacts DEF Broadcast
  <1> QED BY <1>1, <1>2, PushKeeps DEF Broadcast

LEMMA NewScopeKeeps ==
  ASSUME EventAssumption, IInv, NEW p \in Scopes, NEW c \in Scopes, NewScope(p, c)
  PROVE  IInv'
  <1>1. /\ UNCHANGED <<heap, registry, held, silenced, stack>> /\ budget' \in Nat
    BY MayFacts DEF NewScope, lists
  <1>2. TreeTyped'
    <2>1. Append(children[p], c) \in Seq(Scopes)
      BY DEF IInv, TypeOK
    <2> QED BY <2>1 DEF TreeTyped, IInv, TypeOK, NewScope
  <1> QED BY <1>1, <1>2, StackKeeps DEF IInv, TypeOK, FramesSound

LEMMA DestroyKeeps ==
  ASSUME EventAssumption, IInv, NEW s \in Scopes, Destroy(s)
  PROVE  IInv'
  <1> DEFINE d == DestroyFrame(s)
             b == BroadcastFrame(s, "$destroy")
  <1>1. d \in Frames /\ b \in Frames /\ Sound(d, heap) /\ Sound(b, heap)
    BY FrameTypes, FreshSound DEF EventAssumption
  <1>2. stack' = stack \o <<d, b>> /\ UNCHANGED <<tree, lists>> /\ budget' \in Nat
    BY MayFacts DEF Destroy
  <1> HIDE DEF d, b
  <1>3. stack \in Seq(Frames) /\ Len(stack) \in Nat
    BY DEF IInv, TypeOK
  <1>4. /\ stack' \in Seq(Frames) /\ Len(stack') = Len(stack) + 2
        /\ \A j \in 1 .. Len(stack) : stack'[j] = stack[j]
        /\ \A j \in 1 .. 2 : stack'[Len(stack) + j] = <<d, b>>[j]
    BY <1>1, <1>2, <1>3, ConcatFacts
  <1>5. ASSUME NEW j \in 1 .. Len(stack') PROVE Sound(stack'[j], heap)
    <2>1. CASE j \in 1 .. Len(stack)
      BY <1>4, <2>1 DEF IInv, FramesSound
    <2>2. CASE j = Len(stack) + 1
      BY <1>1, <1>4, <2>2
    <2>3. CASE j = Len(stack) + 2
      BY <1>1, <1>4, <2>3
    <2>4. j \in 1 .. Len(stack) \/ j = Len(stack) + 1 \/ j = Len(stack) + 2
      BY <1>3, <1>4
    <2> QED BY <2>1, <2>2, <2>3, <2>4
  <1> QED BY <1>2, <1>4, <1>5, CallsKeep

LEMMA StopPropagationKeeps ==
  ASSUME EventAssumption, IInv, StopPropagation
  PROVE  IInv'
  <1>1. /\ stack' = [stack EXCEPT ![Len(stack) - 1].stop = TRUE] /\ UNCHANGED <<tree, lists>>
        /\ budget' \in Nat
    BY MayFacts DEF StopPropagation
  <1>2. stack \in Seq(Frames)
    BY DEF IInv, TypeOK
  <1>3. ASSUME NEW f \in Frames PROVE [f EXCEPT !.stop = TRUE] \in Frames
    BY DEF Frames
  <1>4. /\ Len(stack) \in Nat /\ DOMAIN stack = 1 .. Len(stack)
        /\ \A j \in 1 .. Len(stack) : stack[j] \in Frames
    BY <1>2
  <1> DEFINE Stopped(j) == IF j = Len(stack) - 1 THEN [stack[j] EXCEPT !.stop = TRUE] ELSE stack[j]
  <1>5. stack' = [j \in 1 .. Len(stack) |-> Stopped(j)]
    BY <1>1, <1>4
  <1>6. \A j \in 1 .. Len(stack) : Stopped(j) \in Frames
    BY <1>3, <1>4
  <1>7. /\ stack' \in Seq(Frames) /\ Len(stack') = Len(stack)
        /\ \A j \in 1 .. Len(stack) : stack'[j] = Stopped(j)
    <2> HIDE DEF Stopped
    <2> QED BY <1>4, <1>5, <1>6
  <1>8. ASSUME NEW j \in 1 .. Len(stack) PROVE Sound(stack'[j], heap)
    <2>1. stack[j] \in Frames /\ Sound(stack[j], heap)
      BY <1>2 DEF IInv, FramesSound
    <2>2. stack'[j] = stack[j] \/ stack'[j] = [stack[j] EXCEPT !.stop = TRUE]
      BY <1>7
    <2>3. Sound([stack[j] EXCEPT !.stop = TRUE], heap)
      BY <2>1 DEF Frames, Sound
    <2> QED BY <2>1, <2>2, <2>3
  <1> QED BY <1>1, <1>7, <1>8, CallsKeep

LEMMA ReturnKeeps ==
  ASSUME IInv, Return
  PROVE  IInv'
  BY PopKeeps DEF Return, At

-----------------------------------------------------------------------------
(* The way of an event through the tree                                    *)

\* A running frame that is about to visit a scope, or to move on.
LEMMA MovedSound ==
  ASSUME IInv, stack # <<>>, NEW f \in Frames, f.k = Top.k, f.n = Top.n, f.k \in {"emit", "broadcast"},
         f.pc \in {"visit", "move"}
  PROVE  Sound(f, heap)
  <1>1. Sound(Top, heap)
    BY TopFacts DEF IInv, FramesSound, Top
  <1> QED BY <1>1 DEF Sound

LEMMA EmitUpKeeps ==
  ASSUME EventAssumption, IInv, EmitUp
  PROVE  IInv'
  <1> DEFINE f == [Top EXCEPT !.s = parent[Top.s], !.pc = "visit"]
  <1>1. /\ stack # <<>> /\ Top.k = "emit" /\ parent[Top.s] # Null
        /\ stack' = With(f) /\ UNCHANGED <<tree, lists, budget>>
    BY DEF EmitUp, At
  <1>2. Top \in Frames /\ Top.s \in Scopes
    BY <1>1, TopFacts DEF IInv, Frames
  <1>3. parent[Top.s] \in Scopes
    BY <1>1, <1>2 DEF IInv, TypeOK
  <1>4. f \in Frames /\ f.k = Top.k /\ f.n = Top.n /\ f.pc = "visit"
    BY <1>2, <1>3 DEF Frames
  <1> HIDE DEF f
  <1>5. Sound(f, heap)
    BY <1>1, <1>4, MovedSound
  <1> QED BY <1>1, <1>4, <1>5, WithKeeps

LEMMA EmitDoneKeeps ==
  ASSUME IInv, EmitDone
  PROVE  IInv'
  BY PopKeeps DEF EmitDone, At

Activations == [s : Scopes, i : Nat, n : Nat]

\* The traversal that a broadcast is in, and the next child it comes to.
LEMMA SpreadingFacts ==
  ASSUME IInv, Spreading
  PROVE  /\ stack # <<>> /\ Top.k = "broadcast" /\ Top \in Frames
         /\ Top.trav \in Seq(Activations) /\ Len(Top.trav) \in Nat \ {0}
         /\ Here \in Activations /\ NextChild \in Activations
         /\ NextChild.i = Here.i + 1 /\ NextChild.s = Here.s
  <1>1. stack # <<>> /\ Top.k = "broadcast" /\ Top.trav # <<>>
    BY DEF Spreading, At
  <1>2. Top \in Frames
    BY <1>1, TopFacts DEF IInv
  <1>3. Top.trav \in Seq(Activations)
    BY <1>2 DEF Frames, Activations
  <1>4. Len(Top.trav) \in Nat \ {0} /\ Here \in Activations
    BY <1>1, <1>3, EmptySeq DEF Here
  <1>5. Len(children[Here.s]) \in Nat
    BY <1>4 DEF IInv, TypeOK, Activations
  <1>6. NextChild \in Activations /\ NextChild.i = Here.i + 1 /\ NextChild.s = Here.s
    <2>1. Here.i \in Nat /\ Here.i + 1 \in Nat
      BY <1>4 DEF Activations
    <2>2. CASE Here.i = 0
      <3>1. PICK h \in Activations, n \in Nat : h = Here /\ n = Len(children[Here.s])
        BY <1>4, <1>5
      <3>2. NextChild = [h EXCEPT !.i = 1, !.n = n]
        BY <2>2, <3>1 DEF NextChild
      <3>3. NextChild \in Activations /\ NextChild.i = 1 /\ NextChild.s = h.s
        BY <3>2 DEF Activations
      <3> QED BY <2>2, <3>1, <3>3
    <2>3. CASE Here.i # 0
      BY <1>4, <2>1, <2>3 DEF NextChild, Activations
    <2> QED BY <2>2, <2>3
  <1> QED BY <1>1, <1>2, <1>3, <1>4, <1>6

LEMMA EnterChildKeeps ==
  ASSUME EventAssumption, IInv, EnterChild
  PROVE  IInv'
  <1> DEFINE c == children[Here.s][NextChild.i]
             t == Append([Top.trav EXCEPT ![Len(Top.trav)] = NextChild], Activation(c))
             f == [Top EXCEPT !.trav = t, !.s = c, !.pc = "visit"]
  <1>1. Spreading /\ HasChild /\ UNCHANGED <<tree, lists, budget>>
    BY DEF EnterChild
  <1>2. stack' = With(f)
    BY DEF EnterChild
  <1>3. c \in Scopes
    <2>1. children[Here.s] \in Seq(Scopes) /\ NextChild.i \in 1 .. Len(children[Here.s])
      BY <1>1, SpreadingFacts DEF IInv, TypeOK, Activations, HasChild
    <2> QED BY <2>1
  <1> HIDE DEF c
  <1>4. t \in Seq(Activations)
    <2>1. [Top.trav EXCEPT ![Len(Top.trav)] = NextChild] \in Seq(Activations)
      BY <1>1, SpreadingFacts
    <2>2. Activation(c) \in Activations
      BY <1>3 DEF Activation, Activations
    <2> QED BY <2>1, <2>2, AppendFacts
  <1> HIDE DEF t
  <1>5. f \in Frames /\ f.k = Top.k /\ f.n = Top.n /\ f.pc = "visit"
    BY <1>1, <1>3, <1>4, SpreadingFacts DEF Frames, Activations
  <1> HIDE DEF f
  <1>6. Sound(f, heap)
    BY <1>1, <1>5, SpreadingFacts, MovedSound
  <1> QED BY <1>1, <1>2, <1>5, <1>6, SpreadingFacts, WithKeeps

LEMMA LeaveScopeKeeps ==
  ASSUME EventAssumption, IInv, LeaveScope
  PROVE  IInv'
  <1> DEFINE t == SubSeq(Top.trav, 1, Len(Top.trav) - 1)
             f == [Top EXCEPT !.trav = t]
  <1>1. Spreading /\ stack' = With(f) /\ UNCHANGED <<tree, lists, budget>>
    BY DEF LeaveScope
  <1>2. t \in Seq(Activations)
    BY <1>1, SpreadingFacts, EmptySeq, LastFacts
  <1> HIDE DEF t
  <1>3. f \in Frames /\ f.k = Top.k /\ f.n = Top.n /\ f.pc = "move"
    BY <1>1, <1>2, SpreadingFacts DEF Frames, Activations, Spreading, At
  <1> HIDE DEF f
  <1>4. Sound(f, heap)
    BY <1>1, <1>3, SpreadingFacts, MovedSound
  <1> QED BY <1>1, <1>3, <1>4, SpreadingFacts, WithKeeps

LEMMA BroadcastDoneKeeps ==
  ASSUME IInv, BroadcastDone
  PROVE  IInv'
  BY PopKeeps DEF BroadcastDone, At

-----------------------------------------------------------------------------
(* Arrays                                                                   *)

\* A listener array, and what of it lies ahead.
LEMMA ArrayFacts ==
  ASSUME IInv, NEW a \in DOMAIN heap
  PROVE  /\ a \in 1 .. Len(heap) /\ Len(heap) \in Nat
         /\ heap[a] \in Seq(Listeners \cup {Null}) /\ Len(heap[a]) \in Nat
         /\ DOMAIN heap[a] = 1 .. Len(heap[a])
         /\ \A i : Ahead(heap[a], i) \subseteq Listeners
  <1>1. heap \in Seq(Seq(Listeners \cup {Null}))
    BY DEF IInv, TypeOK
  <1>2. /\ a \in 1 .. Len(heap) /\ Len(heap) \in Nat
        /\ heap[a] \in Seq(Listeners \cup {Null})
    BY <1>1
  <1>3. Len(heap[a]) \in Nat /\ DOMAIN heap[a] = 1 .. Len(heap[a])
    BY <1>2
  <1>4. \A i : Ahead(heap[a], i) \subseteq Listeners
    BY <1>2, <1>3 DEF Ahead
  <1> QED BY <1>2, <1>3, <1>4

\* The turn of the slot at i: it lies ahead no more, the others do.
LEMMA AheadStep ==
  ASSUME NEW S, NEW array \in Seq(S), NEW i \in 1 .. Len(array),
         \A p, q \in DOMAIN array : array[p] # Null /\ array[p] = array[q] => p = q
  PROVE  Ahead(array, i + 1) = Ahead(array, i) \ {array[i]}
  <1>1. DOMAIN array = 1 .. Len(array) /\ Len(array) \in Nat
    OBVIOUS
  <1>2. ASSUME NEW l \in Ahead(array, i + 1) PROVE l \in Ahead(array, i) \ {array[i]}
    <2>1. PICK m \in 1 .. Len(array) : m >= i + 1 /\ l = array[m] /\ l # Null
      BY <1>1 DEF Ahead
    <2>2. m >= i /\ m # i
      BY <1>1, <2>1
    <2> QED BY <1>1, <2>1, <2>2 DEF Ahead
  <1>3. ASSUME NEW l \in Ahead(array, i) \ {array[i]} PROVE l \in Ahead(array, i + 1)
    <2>1. PICK m \in 1 .. Len(array) : m >= i /\ l = array[m] /\ l # Null
      BY <1>1 DEF Ahead
    <2>2. m >= i + 1
      BY <1>1, <2>1
    <2> QED BY <1>1, <2>1, <2>2 DEF Ahead
  <1> QED BY <1>2, <1>3

\* A loop, and the slot whose turn it is.
LEMMA FiringFacts ==
  ASSUME IInv, Firing
  PROVE  /\ stack # <<>> /\ Top \in Frames /\ Top.k \in {"emit", "broadcast"} /\ Top.n \in Names
         /\ Top.arr \in DOMAIN heap /\ Top.i \in Nat \ {0}
         /\ Top.i <= Len(heap[Top.arr]) + 1 /\ Top.owed = Ahead(heap[Top.arr], Top.i)
         /\ Top.i <= Len(heap[Top.arr]) =>
              /\ Slot \in Listeners \cup {Null}
              /\ Ahead(heap[Top.arr], Top.i + 1) = Ahead(heap[Top.arr], Top.i) \ {Slot}
  <1>1. stack # <<>> /\ Top.pc = "fire"
    BY DEF Firing, At
  <1>2. Top \in Frames /\ Sound(Top, heap)
    BY <1>1, TopFacts DEF IInv, FramesSound, Top
  <1>3. Top.k \in {"emit", "broadcast"} /\ Top.i \in Nat \ {0}
    BY <1>1, <1>2 DEF Frames, Sound
  <1>4. /\ Top.arr \in DOMAIN heap /\ Top.n \in Names
        /\ Top.i <= Len(heap[Top.arr]) + 1 /\ Top.owed = Ahead(heap[Top.arr], Top.i)
    BY <1>1, <1>2, <1>3 DEF Sound
  <1>5. ASSUME Top.i <= Len(heap[Top.arr])
        PROVE  /\ Slot \in Listeners \cup {Null}
               /\ Ahead(heap[Top.arr], Top.i + 1) = Ahead(heap[Top.arr], Top.i) \ {Slot}
    <2>1. heap[Top.arr] \in Seq(Listeners \cup {Null}) /\ Top.i \in 1 .. Len(heap[Top.arr])
      BY <1>3, <1>4, <1>5, ArrayFacts
    <2>2. \A p, q \in DOMAIN heap[Top.arr] :
            heap[Top.arr][p] # Null /\ heap[Top.arr][p] = heap[Top.arr][q] => p = q
      BY <1>4 DEF IInv, Apart
    <2>3. PICK array \in Seq(Listeners \cup {Null}), i \in 1 .. Len(heap[Top.arr]) :
            array = heap[Top.arr] /\ i = Top.i
      BY <2>1
    <2>4. Ahead(array, i + 1) = Ahead(array, i) \ {array[i]}
      BY <2>2, <2>3, AheadStep
    <2>5. Slot = array[i] /\ Slot \in Listeners \cup {Null}
      BY <2>3 DEF Slot
    <2> QED BY <2>3, <2>4, <2>5
  <1> QED BY <1>1, <1>2, <1>3, <1>4, <1>5

LEMMA VisitKeeps ==
  ASSUME EventAssumption, IInv, Visit
  PROVE  IInv'
  <1> DEFINE arr == registry[Top.s][Top.n]
             f == [Top EXCEPT !.left = @ \ {Top.s}, !.arr = arr, !.i = 1,
                              !.pc = IF arr = 0 THEN "move" ELSE "fire",
                              !.owed = IF arr = 0 THEN {} ELSE NonNull(heap[arr])]
  <1>1. /\ stack # <<>> /\ Top.pc = "visit"
        /\ stack' = With(f) /\ UNCHANGED <<tree, lists, budget>>
    BY DEF Visit, At
  <1>2. Top \in Frames /\ Sound(Top, heap)
    BY <1>1, TopFacts DEF IInv, FramesSound, Top
  <1>3. Top.k \in {"emit", "broadcast"} /\ Top.n \in Names /\ Top.s \in Scopes
    BY <1>1, <1>2 DEF Frames, Sound
  <1>4. arr \in 0 .. Len(heap) /\ Len(heap) \in Nat
    BY <1>3 DEF IInv, TypeOK
  <1>5. PICK t \in Frames, left \in SUBSET Scopes, one \in Nat \ {0} :
          t = Top /\ left = Top.left \ {Top.s} /\ one = 1
    <2>1. Top.left \ {Top.s} \subseteq Scopes
      BY <1>2 DEF Frames
    <2>2. PICK t \in Frames, left \in SUBSET Scopes : t = Top /\ left = Top.left \ {Top.s}
      BY <1>2, <2>1
    <2>3. 1 \in Nat \ {0}
      OBVIOUS
    <2> QED BY <2>2, <2>3
  <1>6. CASE arr = 0
    <2>1. f = [t EXCEPT !.left = left, !.arr = 0, !.i = one, !.pc = "move", !.owed = {}]
      BY <1>5, <1>6
    <2> HIDE DEF f
    <2>2. f \in Frames /\ f.k = t.k /\ f.n = t.n /\ f.pc = "move"
      BY <2>1 DEF Frames
    <2> QED BY <1>1, <1>3, <1>5, <2>2, MovedSound, WithKeeps
  <1>7. CASE arr # 0
    <2>1. arr \in DOMAIN heap /\ arr \in Nat
      BY <1>4, <1>7 DEF IInv, TypeOK
    <2> HIDE DEF arr
    <2>2. NonNull(heap[arr]) = Ahead(heap[arr], 1)
      BY <2>1, ArrayFacts DEF NonNull, Ahead
    <2>3. Ahead(heap[arr], 1) \subseteq Listeners /\ 1 <= Len(heap[arr]) + 1
      BY <2>1, ArrayFacts
    <2>4. PICK owed \in SUBSET Listeners : owed = Ahead(heap[arr], 1)
      BY <2>3
    <2>5. f = [t EXCEPT !.left = left, !.arr = arr, !.i = one, !.pc = "fire", !.owed = owed]
      BY <1>5, <1>7, <2>2, <2>4
    <2> HIDE DEF f
    <2>6. /\ f \in Frames /\ f.k = t.k /\ f.n = t.n /\ f.pc = "fire" /\ f.arr = arr
          /\ f.i = one /\ f.owed = owed
      BY <2>1, <2>5 DEF Frames
    <2>7. Sound(f, heap)
      BY <1>3, <1>5, <2>1, <2>3, <2>4, <2>6 DEF Sound
    <2> QED BY <1>1, <2>6, <2>7, WithKeeps
  <1> QED BY <1>6, <1>7

\* The frame of a loop after the turn of its slot, with what it owes then.
LEMMA TurnFacts ==
  ASSUME IInv, Firing, Top.i <= Len(heap[Top.arr]), NEW owed, owed = Top.owed \ {Slot},
         NEW f, f = [Top EXCEPT !.i = @ + 1, !.owed = owed]
  PROVE  f \in Frames /\ Sound(f, heap)
  <1>1. /\ Top \in Frames /\ Top.k \in {"emit", "broadcast"} /\ Top.n \in Names /\ Top.pc = "fire"
        /\ Top.arr \in DOMAIN heap /\ Top.i \in Nat \ {0} /\ owed = Ahead(heap[Top.arr], Top.i + 1)
    BY FiringFacts DEF Firing, At
  <1>2. owed \subseteq Listeners /\ Len(heap[Top.arr]) \in Nat
    BY <1>1, ArrayFacts
  <1>3. /\ f.k = Top.k /\ f.n = Top.n /\ f.pc = "fire" /\ f.arr = Top.arr /\ f.i = Top.i + 1
        /\ f.owed = owed /\ f \in Frames
    <2>1. PICK t \in Frames, i \in Nat \ {0} : t = Top /\ i = Top.i + 1
      BY <1>1
    <2>2. f = [t EXCEPT !.i = i, !.owed = owed]
      BY <2>1
    <2> QED BY <1>1, <1>2, <2>1, <2>2 DEF Frames
  <1>4. f.i <= Len(heap[f.arr]) + 1
    BY <1>1, <1>2, <1>3
  <1> QED BY <1>1, <1>3, <1>4 DEF Sound

LEMMA EmptySlotKeeps ==
  ASSUME EventAssumption, IInv, EmptySlot
  PROVE  IInv'
  <1>1. PICK f : f = [Top EXCEPT !.i = @ + 1, !.owed = Top.owed \ {Slot}]
    OBVIOUS
  <1>2. Firing /\ Top.i <= Len(heap[Top.arr]) /\ Slot = Null /\ stack # <<>>
    BY DEF EmptySlot, Firing, At
  <1>3. Top \in Frames /\ Top.owed \ {Slot} = Top.owed
    <2>1. Null \notin Ahead(heap[Top.arr], Top.i)
      BY DEF Ahead
    <2> QED BY <1>2, <2>1, FiringFacts
  <1>4. f = [Top EXCEPT !.i = @ + 1]
    BY <1>1, <1>3 DEF Frames
  <1>5. f \in Frames /\ Sound(f, heap)
    BY <1>1, <1>2, TurnFacts
  <1> QED BY <1>2, <1>4, <1>5, WithKeeps DEF EmptySlot

LEMMA CallListenerKeeps ==
  ASSUME EventAssumption, IInv, CallListener
  PROVE  IInv'
  <1> DEFINE g == UserFrame(Top.k, Slot)
  <1>1. PICK f : f = [Top EXCEPT !.i = @ + 1, !.owed = Top.owed \ {Slot}]
    OBVIOUS
  <1>2. /\ Firing /\ Top.i <= Len(heap[Top.arr]) /\ stack # <<>>
        /\ stack' = Append(With(f), g) /\ UNCHANGED <<tree, lists, budget>>
    BY <1>1 DEF CallListener, Firing, At
  <1>3. f \in Frames /\ Sound(f, heap)
    BY <1>1, <1>2, TurnFacts
  <1>4. g \in Frames /\ Sound(g, heap)
    BY <1>2, FiringFacts, FrameTypes, FreshSound DEF Contexts
  <1> HIDE DEF g
  <1>5. /\ Len(stack) \in Nat \ {0} /\ With(f) \in Seq(Frames) /\ Len(With(f)) = Len(stack)
        /\ With(f)[Len(stack)] = f /\ \A j \in 1 .. Len(stack) - 1 : With(f)[j] = stack[j]
    BY <1>2, <1>3, TopFacts DEF IInv
  <1>6. /\ stack' \in Seq(Frames) /\ Len(stack') = Len(stack) + 1 /\ stack'[Len(stack) + 1] = g
        /\ \A j \in 1 .. Len(stack) : stack'[j] = With(f)[j]
    BY <1>2, <1>4, <1>5, AppendFacts
  <1>7. ASSUME NEW j \in 1 .. Len(stack') PROVE Sound(stack'[j], heap)
    <2>1. CASE j \in 1 .. Len(stack) - 1
      <3>1. j \in 1 .. Len(stack)
        BY <1>5, <2>1
      <3> QED BY <1>5, <1>6, <2>1, <3>1 DEF IInv, FramesSound
    <2>2. CASE j = Len(stack)
      BY <1>3, <1>5, <1>6, <2>2
    <2>3. CASE j = Len(stack) + 1
      BY <1>4, <1>6, <2>3
    <2>4. j \in 1 .. Len(stack) - 1 \/ j = Len(stack) \/ j = Len(stack) + 1
      BY <1>5, <1>6
    <2> QED BY <2>1, <2>2, <2>3, <2>4
  <1>8. budget' \in Nat
    BY <1>2 DEF IInv, TypeOK
  <1> QED BY <1>2, <1>6, <1>7, <1>8, CallsKeep

-----------------------------------------------------------------------------
(* Lists: what filter() and splice() leave                                  *)

\* kept of Compacted for the first N slots, and what is in it.
IsKept(f, N, array) ==
  /\ f = [n \in 0 .. N |-> IF n = 0 THEN <<>>
                           ELSE IF array[n] = Null THEN f[n - 1] ELSE Append(f[n - 1], array[n])]
  /\ \A n \in 0 .. N :
       /\ f[n] \in Seq(Listeners)
       /\ \A p \in DOMAIN f[n] : \E m \in 1 .. n : f[n][p] = array[m]
       /\ \A p, q \in DOMAIN f[n] : f[n][p] = f[n][q] => p = q

LEMMA KeptExists ==
  ASSUME NEW array \in Seq(Listeners \cup {Null}),
         \A p, q \in DOMAIN array : array[p] # Null /\ array[p] = array[q] => p = q
  PROVE  \A N \in Nat : N <= Len(array) => \E f : IsKept(f, N, array)
  <1> DEFINE S == {N \in Nat : N <= Len(array) => \E f : IsKept(f, N, array)}
  <1>0. Len(array) \in Nat /\ DOMAIN array = 1 .. Len(array)
    OBVIOUS
  <1>1. 0 \in S
    <2> DEFINE f == [n \in 0 .. 0 |-> <<>>]
    <2>1. <<>> \in Seq(Listeners) /\ DOMAIN <<>> = {}
      BY EmptySeq
    <2>2. f = [n \in 0 .. 0 |-> IF n = 0 THEN <<>>
                 ELSE IF array[n] = Null THEN f[n - 1] ELSE Append(f[n - 1], array[n])]
      OBVIOUS
    <2>3. \A n \in 0 .. 0 : f[n] = <<>>
      OBVIOUS
    <2> HIDE DEF f
    <2>4. IsKept(f, 0, array)
      BY <2>1, <2>2, <2>3 DEF IsKept
    <2> QED BY <2>4
  <1>2. ASSUME NEW N \in Nat, N \in S PROVE N + 1 \in S
    <2>1. SUFFICES ASSUME N + 1 <= Len(array) PROVE \E g : IsKept(g, N + 1, array)
      OBVIOUS
    <2>2. PICK f : IsKept(f, N, array)
      BY <1>0, <1>2, <2>1
    <2> DEFINE l == array[N + 1]
               last == IF l = Null THEN f[N] ELSE Append(f[N], l)
               g == [n \in 0 .. N + 1 |-> IF n = N + 1 THEN last ELSE f[n]]
    <2>3. /\ f[N] \in Seq(Listeners)
          /\ \A p \in DOMAIN f[N] : \E m \in 1 .. N : f[N][p] = array[m]
          /\ \A p, q \in DOMAIN f[N] : f[N][p] = f[N][q] => p = q
      <3>1. N \in 0 .. N
        OBVIOUS
      <3> QED BY <2>2, <3>1 DEF IsKept
    <2>4. N + 1 \in DOMAIN array /\ l \in Listeners \cup {Null}
      BY <1>0, <2>1
    <2>5. /\ last \in Seq(Listeners)
          /\ \A p \in DOMAIN last : \E m \in 1 .. N + 1 : last[p] = array[m]
          /\ \A p, q \in DOMAIN last : last[p] = last[q] => p = q
      <3>1. CASE l = Null
        <4>1. last = f[N]
          BY <3>1
        <4>2. \A m \in 1 .. N : m \in 1 .. N + 1
          OBVIOUS
        <4> QED BY <2>3, <4>1, <4>2
      <3>2. CASE l # Null
        <4>1. l \in Listeners /\ last = Append(f[N], l)
          BY <2>4, <3>2
        <4> HIDE DEF last
        <4>2. /\ last \in Seq(Listeners) /\ Len(last) = Len(f[N]) + 1 /\ Len(f[N]) \in Nat
              /\ \A p \in 1 .. Len(f[N]) : last[p] = f[N][p]
              /\ last[Len(f[N]) + 1] = l
          BY <2>3, <4>1, AppendFacts
        <4>3. DOMAIN last = 1 .. Len(f[N]) + 1 /\ DOMAIN f[N] = 1 .. Len(f[N])
          BY <2>3, <4>2
        <4>4. ASSUME NEW p \in 1 .. Len(f[N])
              PROVE  last[p] # l /\ \E m \in 1 .. N + 1 : last[p] = array[m]
          <5>1. PICK m \in 1 .. N : f[N][p] = array[m]
            BY <2>3, <4>3
          <5>2. m \in DOMAIN array /\ m # N + 1 /\ m \in 1 .. N + 1
            BY <1>0, <2>1
          <5>3. array[m] # l
            BY <2>4, <3>2, <5>2
          <5> QED BY <4>2, <5>1, <5>2, <5>3
        <4>5. \A p \in DOMAIN last : p \in 1 .. Len(f[N]) \/ p = Len(f[N]) + 1
          BY <4>2, <4>3
        <4>6. \A p \in DOMAIN last : \E m \in 1 .. N + 1 : last[p] = array[m]
          <5>1. N + 1 \in 1 .. N + 1
            OBVIOUS
          <5> QED BY <4>2, <4>4, <4>5, <5>1
        <4>7. \A p, q \in DOMAIN last : last[p] = last[q] => p = q
          BY <2>3, <4>2, <4>3, <4>4, <4>5
        <4> QED BY <4>2, <4>6, <4>7
      <3> QED BY <3>1, <3>2
    <2> HIDE DEF last
    <2>6. /\ g = [n \in 0 .. N + 1 |-> g[n]] /\ g[N + 1] = last
          /\ \A n \in 0 .. N : g[n] = f[n]
      OBVIOUS
    <2> HIDE DEF g
    <2>7. \A n \in 0 .. N + 1 : n \in 0 .. N \/ n = N + 1
      OBVIOUS
    <2>8. ASSUME NEW n \in 0 .. N + 1
          PROVE  g[n] = IF n = 0 THEN <<>>
                        ELSE IF array[n] = Null THEN g[n - 1] ELSE Append(g[n - 1], array[n])
      <3>1. CASE n = 0
        <4>1. 0 \in 0 .. N
          OBVIOUS
        <4>2. f[0] = <<>> /\ g[0] = f[0]
          BY <2>2, <2>6, <4>1 DEF IsKept
        <4> QED BY <3>1, <4>2
      <3>2. CASE n # 0 /\ n # N + 1
        <4>1. n \in 0 .. N /\ n - 1 \in 0 .. N
          BY <3>2
        <4> QED BY <2>2, <2>6, <3>2, <4>1 DEF IsKept
      <3>3. CASE n = N + 1
        <4>1. n - 1 = N /\ n # 0 /\ N \in 0 .. N
          BY <3>3
        <4>2. g[n - 1] = f[N] /\ g[n] = last
          BY <2>6, <3>3, <4>1
        <4> QED BY <3>3, <4>1, <4>2 DEF last
      <3> QED BY <3>1, <3>2, <3>3
    <2>9. \A n \in 0 .. N + 1 :
            /\ g[n] \in Seq(Listeners)
            /\ \A p \in DOMAIN g[n] : \E m \in 1 .. n : g[n][p] = array[m]
            /\ \A p, q \in DOMAIN g[n] : g[n][p] = g[n][q] => p = q
      <3>1. ASSUME NEW n \in 0 .. N
            PROVE  /\ g[n] \in Seq(Listeners)
                   /\ \A p \in DOMAIN g[n] : \E m \in 1 .. n : g[n][p] = array[m]
                   /\ \A p, q \in DOMAIN g[n] : g[n][p] = g[n][q] => p = q
        <4>1. g[n] = f[n]
          BY <2>6
        <4>2. /\ f[n] \in Seq(Listeners)
              /\ \A p \in DOMAIN f[n] : \E m \in 1 .. n : f[n][p] = array[m]
              /\ \A p, q \in DOMAIN f[n] : f[n][p] = f[n][q] => p = q
          BY <2>2 DEF IsKept
        <4> QED BY <4>1, <4>2
      <3>2. /\ g[N + 1] \in Seq(Listeners)
            /\ \A p \in DOMAIN g[N + 1] : \E m \in 1 .. N + 1 : g[N + 1][p] = array[m]
            /\ \A p, q \in DOMAIN g[N + 1] : g[N + 1][p] = g[N + 1][q] => p = q
        BY <2>5, <2>6
      <3> QED BY <2>7, <3>1, <3>2
    <2>10. g = [n \in 0 .. N + 1 |->
                 IF n = 0 THEN <<>>
                 ELSE IF array[n] = Null THEN g[n - 1] ELSE Append(g[n - 1], array[n])]
      BY <2>6, <2>8
    <2>11. IsKept(g, N + 1, array)
      BY <2>9, <2>10 DEF IsKept
    <2> QED BY <2>11
  <1> HIDE DEF S
  <1>3. \A N \in Nat : N \in S
    BY <1>1, <1>2, Induction
  <1> QED BY <1>3 DEF S

\* The filtered array holds slots of the old one that are not empty, each once.
LEMMA CompactedFacts ==
  ASSUME NEW array \in Seq(Listeners \cup {Null}),
         \A p, q \in DOMAIN array : array[p] # Null /\ array[p] = array[q] => p = q
  PROVE  /\ Compacted(array) \in Seq(Listeners)
         /\ \A p \in DOMAIN Compacted(array) : \E m \in DOMAIN array : Compacted(array)[p] = array[m]
         /\ \A p, q \in DOMAIN Compacted(array) : Compacted(array)[p] = Compacted(array)[q] => p = q
  <1> DEFINE R(f) == f = [n \in 0 .. Len(array) |->
                            IF n = 0 THEN <<>>
                            ELSE IF array[n] = Null THEN f[n - 1] ELSE Append(f[n - 1], array[n])]
             h == CHOOSE f : R(f)
  <1>0. Len(array) \in Nat /\ DOMAIN array = 1 .. Len(array) /\ Len(array) <= Len(array)
    OBVIOUS
  <1>1. PICK g : IsKept(g, Len(array), array)
    BY <1>0, KeptExists
  <1>2. R(g)
    BY <1>1 DEF IsKept
  <1>3. R(h)
    BY <1>2
  <1>4. Compacted(array) = h[Len(array)]
    BY DEF Compacted
  <1> HIDE DEF h
  <1>5. \A n \in 0 .. Len(array) : h[n] = g[n]
    <2> DEFINE S == {n \in Nat : n <= Len(array) => h[n] = g[n]}
    <2>1. 0 \in S
      BY <1>0, <1>2, <1>3
    <2>2. ASSUME NEW n \in Nat, n \in S PROVE n + 1 \in S
      <3>1. SUFFICES ASSUME n + 1 <= Len(array) PROVE h[n + 1] = g[n + 1]
        OBVIOUS
      <3>2. n + 1 \in 0 .. Len(array) /\ n + 1 # 0 /\ (n + 1) - 1 = n /\ n <= Len(array)
        BY <1>0, <3>1
      <3>3. h[n] = g[n]
        BY <2>2, <3>2
      <3>4. /\ h[n + 1] = IF array[n + 1] = Null THEN h[n] ELSE Append(h[n], array[n + 1])
            /\ g[n + 1] = IF array[n + 1] = Null THEN g[n] ELSE Append(g[n], array[n + 1])
        BY <1>2, <1>3, <3>2
      <3> QED BY <3>3, <3>4
    <2> HIDE DEF S
    <2>3. \A n \in Nat : n \in S
      BY <2>1, <2>2, Induction
    <2> QED BY <2>3 DEF S
  <1>6. Compacted(array) = g[Len(array)] /\ Len(array) \in 0 .. Len(array)
    BY <1>0, <1>4, <1>5
  <1>7. /\ g[Len(array)] \in Seq(Listeners)
        /\ \A p \in DOMAIN g[Len(array)] : \E m \in 1 .. Len(array) : g[Len(array)][p] = array[m]
        /\ \A p, q \in DOMAIN g[Len(array)] : g[Len(array)][p] = g[Len(array)][q] => p = q
    BY <1>1, <1>6 DEF IsKept
  <1> QED BY <1>0, <1>6, <1>7

-----------------------------------------------------------------------------
(* The steps that change an array                                           *)

LEMMA HeapKeeps ==
  ASSUME IInv, UNCHANGED <<tree>>, heap' \in Seq(Seq(Listeners \cup {Null})), Len(heap') >= Len(heap),
         registry' \in [Scopes -> [Names -> 0..Len(heap')]],
         held' \in [Listeners -> 0..Len(heap')], silenced' \subseteq Listeners,
         budget' \in Nat, stack' \in Seq(Frames),
         \A j \in 1 .. Len(stack') : Sound(stack'[j], heap'), Apart'
  PROVE  IInv'
  <1>1. TypeOK'
    BY DEF IInv, TypeOK, tree
  <1>2. FramesSound'
    BY DEF FramesSound
  <1> QED BY <1>1, <1>2 DEF IInv

LEMMA StackFacts ==
  ASSUME IInv
  PROVE  /\ stack \in Seq(Frames) /\ Len(stack) \in Nat /\ DOMAIN stack = 1 .. Len(stack)
         /\ \A j \in 1 .. Len(stack) : stack[j] \in Frames /\ Sound(stack[j], heap)
  <1>1. stack \in Seq(Frames)
    BY DEF IInv, TypeOK
  <1>2. \A j \in 1 .. Len(stack) : Sound(stack[j], heap)
    BY DEF IInv, FramesSound
  <1> QED BY <1>1, <1>2

\* t holds the frames of the stack, and what the loops over array a owe has changed.
Owed(t, a, more, less) ==
  /\ t \in Seq(Frames) /\ Len(t) = Len(stack)
  /\ \A j \in 1 .. Len(stack) :
       /\ t[j].k = stack[j].k /\ t[j].pc = stack[j].pc /\ t[j].n = stack[j].n
       /\ t[j].arr = stack[j].arr /\ t[j].i = stack[j].i
       /\ t[j].at = stack[j].at /\ t[j].s = stack[j].s
       /\ t[j].trav = stack[j].trav /\ t[j].left = stack[j].left
       /\ t[j].owed = IF stack[j].pc = "fire" /\ stack[j].arr = a
                      THEN (stack[j].owed \cup more) \ less ELSE stack[j].owed

LEMMA OwingFacts ==
  ASSUME IInv, NEW a, NEW more \in SUBSET Listeners, NEW less \in SUBSET Listeners
  PROVE  Owed(Owing(a, more, less), a, more, less)
  <1> DEFINE F(j) == IF stack[j].pc = "fire" /\ stack[j].arr = a
                     THEN [stack[j] EXCEPT !.owed = (@ \cup more) \ less] ELSE stack[j]
             t == Owing(a, more, less)
  <1>1. /\ Len(stack) \in Nat /\ DOMAIN stack = 1 .. Len(stack)
        /\ \A j \in 1 .. Len(stack) : stack[j] \in Frames
    BY StackFacts
  <1>2. t = [j \in 1 .. Len(stack) |-> F(j)]
    BY <1>1 DEF Owing
  <1>3. ASSUME NEW j \in 1 .. Len(stack)
        PROVE  LET f == stack[j]
                   g == F(j)
               IN  /\ g \in Frames
                   /\ g.k = f.k /\ g.pc = f.pc /\ g.n = f.n /\ g.arr = f.arr /\ g.i = f.i
                   /\ g.at = f.at /\ g.s = f.s /\ g.trav = f.trav /\ g.left = f.left
                   /\ g.owed = IF f.pc = "fire" /\ f.arr = a THEN (f.owed \cup more) \ less
                                                             ELSE f.owed
    <2>1. PICK f \in Frames : f = stack[j]
      BY <1>1
    <2>2. PICK owed \in SUBSET Listeners : owed = (f.owed \cup more) \ less
      <3>1. (f.owed \cup more) \ less \subseteq Listeners
        BY DEF Frames
      <3> QED BY <3>1
    <2>3. F(j) = IF f.pc = "fire" /\ f.arr = a THEN [f EXCEPT !.owed = owed] ELSE f
      BY <2>1, <2>2
    <2> HIDE DEF F
    <2>4. CASE f.pc = "fire" /\ f.arr = a
      <3>1. PICK g : g = [f EXCEPT !.owed = owed]
        OBVIOUS
      <3>2. g \in Frames
        BY <3>1 DEF Frames
      <3>3. /\ g.k = f.k /\ g.pc = f.pc /\ g.n = f.n /\ g.arr = f.arr /\ g.i = f.i
            /\ g.at = f.at /\ g.s = f.s /\ g.trav = f.trav /\ g.left = f.left
            /\ g.owed = owed
        BY <3>1 DEF Frames
      <3> QED BY <2>1, <2>2, <2>3, <2>4, <3>1, <3>2, <3>3
    <2>5. CASE ~(f.pc = "fire" /\ f.arr = a)
      BY <2>1, <2>2, <2>3, <2>5
    <2> QED BY <2>4, <2>5
  <1>4. \A j \in 1 .. Len(stack) : F(j) \in Frames
    BY <1>3
  <1> HIDE DEF F, t
  <1>5. t \in Seq(Frames) /\ Len(t) = Len(stack) /\ \A j \in 1 .. Len(stack) : t[j] = F(j)
    BY <1>1, <1>2, <1>4
  <1>6. Owed(t, a, more, less)
    BY <1>3, <1>5 DEF Owed
  <1> QED BY <1>6 DEF t

\* A listener at the end of an array lies ahead of every loop over it.
LEMMA AheadAppend ==
  ASSUME NEW S, NEW array \in Seq(S), NEW l \in S, l # Null, NEW i \in Nat, i <= Len(array) + 1
  PROVE  Ahead(Append(array, l), i) = Ahead(array, i) \cup {l}
  <1> DEFINE t == Append(array, l)
  <1>1. /\ Len(t) = Len(array) + 1 /\ Len(array) \in Nat
        /\ \A k \in 1 .. Len(array) : t[k] = array[k]
        /\ t[Len(array) + 1] = l /\ DOMAIN array = 1 .. Len(array) /\ t \in Seq(S)
    BY AppendFacts
  <1>2. DOMAIN t = 1 .. Len(array) + 1
    BY <1>1
  <1> HIDE DEF t
  <1>3. ASSUME NEW x \in Ahead(t, i) PROVE x \in Ahead(array, i) \cup {l}
    <2>1. PICK m \in 1 .. Len(array) + 1 : m >= i /\ x = t[m] /\ x # Null
      BY <1>2 DEF Ahead
    <2>2. CASE m = Len(array) + 1
      BY <1>1, <2>1, <2>2
    <2>3. CASE m \in 1 .. Len(array)
      BY <1>1, <2>1, <2>3 DEF Ahead
    <2> QED BY <1>1, <2>2, <2>3
  <1>4. ASSUME NEW x \in Ahead(array, i) \cup {l} PROVE x \in Ahead(t, i)
    <2>1. CASE x = l
      <3>1. Len(array) + 1 \in DOMAIN t /\ Len(array) + 1 >= i
        BY <1>1, <1>2
      <3> QED BY <1>1, <2>1, <3>1 DEF Ahead
    <2>2. CASE x \in Ahead(array, i)
      <3>1. PICK m \in 1 .. Len(array) : m >= i /\ x = array[m] /\ x # Null
        BY <1>1, <2>2 DEF Ahead
      <3>2. m \in DOMAIN t
        BY <1>1, <1>2
      <3> QED BY <1>1, <3>1, <3>2 DEF Ahead
    <2> QED BY <1>4, <2>1, <2>2
  <1> QED BY <1>3, <1>4 DEF t

\* A listener that is in no array: its deregistration function holds none.
LEMMA Unheld ==
  ASSUME IInv, NEW l \in Listeners, l # Null, held[l] = 0
  PROVE  \A a \in DOMAIN heap : \A p \in DOMAIN heap[a] : heap[a][p] # l
  BY DEF IInv, Apart

LEMMA OnKeeps ==
  ASSUME EventAssumption, IInv, NEW s \in Scopes, NEW n \in Names, NEW l \in Listeners, On(s, n, l)
  PROVE  IInv'
  <1> DEFINE S == Listeners \cup {Null}
  <1>1. PICK a : a = IF registry[s][n] = 0 THEN Len(heap) + 1 ELSE registry[s][n]
    OBVIOUS
  <1>2. /\ budget' \in Nat /\ held[l] = 0 /\ l # Null /\ UNCHANGED <<tree, silenced>>
        /\ registry' = [registry EXCEPT ![s][n] = a] /\ held' = [held EXCEPT ![l] = a]
        /\ stack' = Owing(a, {l}, {})
        /\ heap' = IF a > Len(heap) THEN Append(heap, <<l>>) ELSE [heap EXCEPT ![a] = Append(@, l)]
    BY <1>1, MayFacts DEF On, EventAssumption
  <1>3. /\ heap \in Seq(Seq(S)) /\ Len(heap) \in Nat /\ DOMAIN heap = 1 .. Len(heap)
        /\ registry \in [Scopes -> [Names -> 0 .. Len(heap)]]
        /\ held \in [Listeners -> 0 .. Len(heap)]
    BY DEF IInv, TypeOK
  <1>4. l \in S /\ \A t \in Seq(S) : Append(t, l) \in Seq(S)
    OBVIOUS
  <1> HIDE DEF S
  <1>5. Len(heap) \in Nat
    BY <1>3
  <1>6. registry[s][n] \in 0 .. Len(heap)
    BY <1>3
  <1>7. a \in 1 .. Len(heap) \/ a = Len(heap) + 1
    BY <1>1, <1>3, <1>6
  <1>8. PICK old \in Seq(S) :
          \/ a = Len(heap) + 1 /\ old = <<>> /\ DOMAIN old = {}
          \/ a \in DOMAIN heap /\ old = heap[a]
    <2>1. <<>> \in Seq(S) /\ DOMAIN <<>> = {}
      BY EmptySeq
    <2>2. CASE a = Len(heap) + 1
      BY <2>1, <2>2
    <2>3. CASE a \in 1 .. Len(heap)
      <3>1. heap[a] \in Seq(S)
        BY <1>3, <2>3
      <3> QED BY <1>3, <2>3, <3>1
    <2> QED BY <1>7, <2>2, <2>3
  <1>9. /\ heap' \in Seq(Seq(S)) /\ Len(heap') >= Len(heap) /\ a \in 1 .. Len(heap')
        /\ Len(heap') \in Nat /\ heap'[a] = Append(old, l)
        /\ \A b \in 1 .. Len(heap') : b # a => b \in 1 .. Len(heap) /\ heap'[b] = heap[b]
    <2>1. CASE a = Len(heap) + 1
      <3>1. a > Len(heap)
        BY <1>3, <2>1
      <3>2. heap' = Append(heap, <<l>>) /\ <<l>> \in Seq(S) /\ Append(old, l) = <<l>>
        <4>1. a \notin DOMAIN heap
          BY <1>3, <3>1
        <4>2. old = <<>> /\ <<l>> \in Seq(S)
          BY <1>8, <1>4, <4>1
        <4>3. Append(<<>>, l) = <<l>>
          OBVIOUS
        <4> QED BY <1>2, <3>1, <4>2, <4>3
      <3>3. /\ heap' \in Seq(Seq(S)) /\ Len(heap') = Len(heap) + 1
            /\ \A b \in 1 .. Len(heap) : heap'[b] = heap[b]
            /\ heap'[Len(heap) + 1] = <<l>>
        BY <1>3, <3>2, AppendFacts
      <3>4. \A b \in 1 .. Len(heap) + 1 : b # Len(heap) + 1 => b \in 1 .. Len(heap)
        BY <1>5
      <3>5. Len(heap) + 1 \in 1 .. Len(heap) + 1 /\ Len(heap) + 1 >= Len(heap) /\ Len(heap) + 1 \in Nat
        BY <1>3
      <3> QED BY <2>1, <3>2, <3>3, <3>4, <3>5
    <2>2. CASE a \in 1 .. Len(heap)
      <3>1. ~(a > Len(heap))
        BY <1>3, <2>2
      <3>2. heap' = [heap EXCEPT ![a] = Append(old, l)] /\ Append(old, l) \in Seq(S)
        <4>1. old = heap[a]
          BY <1>3, <1>8, <2>2
        <4> QED BY <1>2, <1>8, <1>4, <3>1, <4>1
      <3>3. heap' \in Seq(Seq(S)) /\ Len(heap') = Len(heap)
        BY <1>3, <2>2, <3>2
      <3>4. \A b \in 1 .. Len(heap) : heap'[b] = IF b = a THEN Append(old, l) ELSE heap[b]
        BY <1>3, <3>2
      <3> QED BY <1>3, <2>2, <3>2, <3>3, <3>4
    <2> QED BY <1>7, <2>1, <2>2
  <1>10. /\ registry' \in [Scopes -> [Names -> 0 .. Len(heap')]]
        /\ held' \in [Listeners -> 0 .. Len(heap')]
    <2>1. a \in 0 .. Len(heap') /\ \A x \in 0 .. Len(heap) : x \in 0 .. Len(heap')
      BY <1>3, <1>9
    <2>2. [registry[s] EXCEPT ![n] = a] \in [Names -> 0 .. Len(heap')]
      <3>1. registry[s] \in [Names -> 0 .. Len(heap)]
        BY <1>3
      <3>2. registry[s] \in [Names -> 0 .. Len(heap')]
        BY <2>1, <3>1
      <3> QED BY <2>1, <3>2
    <2>3. registry' \in [Scopes -> [Names -> 0 .. Len(heap')]]
      <3>1. registry' = [x \in Scopes |-> IF x = s THEN [registry[s] EXCEPT ![n] = a] ELSE registry[x]]
        BY <1>2, <1>3
      <3>2. ASSUME NEW x \in Scopes PROVE registry[x] \in [Names -> 0 .. Len(heap')]
        <4>1. registry[x] \in [Names -> 0 .. Len(heap)]
          BY <1>3
        <4> QED BY <2>1, <4>1
      <3> QED BY <2>2, <3>1, <3>2
    <2>4. held' \in [Listeners -> 0 .. Len(heap')]
      BY <1>2, <1>3, <2>1
    <2> QED BY <2>3, <2>4
  <1>11. \A p \in DOMAIN old : old[p] # l
    BY <1>2, <1>8, Unheld
  <1>12. \A p, q \in DOMAIN old : old[p] # Null /\ old[p] = old[q] => p = q
    BY <1>8 DEF IInv, Apart
  <1>13. \A p \in DOMAIN old : old[p] # Null => held[old[p]] # 0
    BY <1>8 DEF IInv, Apart
  <1>14. Owed(stack', a, {l}, {})
    <2>1. {l} \in SUBSET Listeners /\ {} \in SUBSET Listeners
      OBVIOUS
    <2>2. Owed(Owing(a, {l}, {}), a, {l}, {})
      BY <2>1, OwingFacts
    <2> QED BY <1>2, <2>2
  <1>15. stack' \in Seq(Frames) /\ Len(stack') = Len(stack)
    BY <1>14 DEF Owed
  <1>16. ASSUME NEW j \in 1 .. Len(stack) PROVE Sound(stack'[j], heap')
    <2>1. PICK f \in Frames : f = stack[j]
      BY StackFacts
    <2>2. Sound(f, heap)
      BY <2>1, StackFacts
    <2>3. PICK g : g = stack'[j]
      OBVIOUS
    <2>4. /\ g.k = f.k /\ g.pc = f.pc /\ g.n = f.n /\ g.arr = f.arr /\ g.i = f.i
          /\ g.owed = IF f.pc = "fire" /\ f.arr = a THEN (f.owed \cup {l}) \ {} ELSE f.owed
      BY <1>14, <2>1, <2>3 DEF Owed
    <2>5. CASE f.pc = "fire" /\ f.arr = a
      <3>1. a \in 1 .. Len(heap) /\ f.i <= Len(heap[a]) + 1 /\ f.owed = Ahead(heap[a], f.i)
        BY <1>3, <2>2, <2>5 DEF Sound
      <3>2. old = heap[a] /\ f.i \in Nat /\ Len(old) \in Nat
        <4>1. f.i \in Nat
          BY DEF Frames
        <4>2. a \in DOMAIN heap
          BY <1>3, <3>1
        <4>3. old = heap[a]
          BY ONLY <1>8, <4>2
        <4>4. Len(old) \in Nat
          <5>1. old \in Seq(S)
            BY ONLY <1>8
          <5> QED BY ONLY <5>1
        <4> QED BY <4>1, <4>3, <4>4
      <3>3. Ahead(Append(old, l), f.i) = Ahead(old, f.i) \cup {l}
        <4>1. PICK i \in Nat : i = f.i /\ i <= Len(old) + 1
          BY <3>1, <3>2
        <4>2. l \in S /\ l # Null
          BY <1>2, <1>4
        <4>3. Ahead(Append(old, l), i) = Ahead(old, i) \cup {l}
          BY ONLY old \in Seq(S), <4>1, <4>2, i \in Nat, AheadAppend
        <4> QED BY <4>1, <4>3
      <3>4. Len(Append(old, l)) = Len(old) + 1
        BY <1>8, <1>4, AppendFacts
      <3>5. g.i <= Len(heap'[a]) + 1 /\ g.owed = Ahead(heap'[a], g.i) /\ a \in DOMAIN heap'
        <4>1. f.i <= Len(Append(old, l)) + 1
          <5>1. f.i <= Len(old) + 1
            BY <3>1, <3>2
          <5> QED BY <3>2, <3>4, <5>1
        <4>2. a \in DOMAIN heap' /\ heap'[a] = Append(old, l)
          BY <1>9
        <4>3. g.i = f.i /\ g.owed = f.owed \cup {l}
          BY <2>4, <2>5
        <4> QED BY <3>1, <3>2, <3>3, <4>1, <4>2, <4>3
      <3> QED BY <2>2, <2>3, <2>4, <2>5, <3>5 DEF Sound
    <2>6. CASE f.pc = "fire" /\ f.arr # a
      <3>1. f.arr \in 1 .. Len(heap)
        BY <1>3, <2>2, <2>6 DEF Sound
      <3>2. f.arr \in DOMAIN heap' /\ heap'[f.arr] = heap[f.arr]
        <4>1. f.arr \in 1 .. Len(heap') /\ DOMAIN heap' = 1 .. Len(heap')
          <5>1. PICK x \in Nat, y \in Nat : x = Len(heap) /\ y = Len(heap') /\ x <= y
            BY <1>3, <1>9
          <5>2. f.arr \in 1 .. x
            BY <3>1, <5>1
          <5>3. f.arr \in 1 .. y
            BY <5>1, <5>2
          <5>4. DOMAIN heap' = 1 .. Len(heap')
            BY <1>9
          <5> QED BY <5>1, <5>3, <5>4
        <4> QED BY <1>9, <2>6, <4>1
      <3> QED BY <2>2, <2>3, <2>4, <2>6, <3>2 DEF Sound
    <2>7. CASE f.pc # "fire"
      BY <2>2, <2>3, <2>4, <2>7 DEF Sound
    <2> QED BY <2>5, <2>6, <2>7
  <1>17. Apart'
    <2>1. ASSUME NEW b \in 1 .. Len(heap'), NEW p \in DOMAIN heap'[b], heap'[b][p] # Null
          PROVE  /\ held'[heap'[b][p]] # 0
                 /\ \A q \in DOMAIN heap'[b] : heap'[b][p] = heap'[b][q] => p = q
      <3>1. \A x : held[x] # 0 /\ x \in Listeners => held'[x] # 0
        BY <1>2, <1>3, <1>7
      <3>2. held'[l] # 0
        BY <1>2, <1>3, <1>7
      <3>3. CASE b # a
        <4>1. b \in DOMAIN heap /\ heap'[b] = heap[b]
          BY <1>3, <1>9, <3>3
        <4>2. heap[b] \in Seq(S)
          BY <1>3, <4>1
        <4>3. heap'[b][p] \in Listeners
          BY <2>1, <4>1, <4>2 DEF S
        <4> QED BY <2>1, <3>1, <4>1, <4>3 DEF IInv, Apart
      <3>4. CASE b = a
        <4>1. /\ heap'[b] = Append(old, l) /\ Len(Append(old, l)) = Len(old) + 1 /\ Len(old) \in Nat
              /\ \A k \in 1 .. Len(old) : Append(old, l)[k] = old[k]
              /\ Append(old, l)[Len(old) + 1] = l
              /\ DOMAIN old = 1 .. Len(old) /\ DOMAIN Append(old, l) = 1 .. Len(old) + 1
          BY <1>8, <1>9, <1>4, <3>4, AppendFacts
        <4>2. \A k \in DOMAIN heap'[b] : k \in DOMAIN old \/ k = Len(old) + 1
          BY <4>1
        <4>3. \A k \in DOMAIN old : heap'[b][k] = old[k] /\ old[k] \in S
          BY <1>8, <4>1
        <4>4. held'[heap'[b][p]] # 0
          BY <1>13, <2>1, <3>1, <3>2, <4>1, <4>2, <4>3 DEF S
        <4>5. \A q \in DOMAIN heap'[b] : heap'[b][p] = heap'[b][q] => p = q
          BY <1>11, <1>12, <2>1, <4>1, <4>2, <4>3
        <4> QED BY <4>4, <4>5
      <3> QED BY <3>3, <3>4
    <2>2. DOMAIN heap' = 1 .. Len(heap')
      BY <1>9
    <2> QED BY <2>1, <2>2 DEF Apart
  <1>18. silenced' \subseteq Listeners
    BY <1>2 DEF IInv, TypeOK
  <1> QED BY <1>2, <1>9, <1>10, <1>15, <1>16, <1>17, <1>18, HeapKeeps DEF S

\* An emptied slot lies ahead of no loop.
LEMMA AheadEmptied ==
  ASSUME NEW S, NEW array \in Seq(S), NEW l, NEW i,
         NEW t, t = [j \in DOMAIN array |-> IF array[j] = l THEN Null ELSE array[j]]
  PROVE  Ahead(t, i) = Ahead(array, i) \ {l}
  <1>1. DOMAIN t = DOMAIN array
    OBVIOUS
  <1>2. \A j \in DOMAIN array : t[j] = IF array[j] = l THEN Null ELSE array[j]
    OBVIOUS
  <1>3. ASSUME NEW x \in Ahead(t, i) PROVE x \in Ahead(array, i) \ {l}
    <2>1. PICK m \in DOMAIN array : m >= i /\ x = t[m] /\ x # Null
      BY <1>1, <1>3 DEF Ahead
    <2>2. array[m] # l /\ x = array[m]
      BY <1>2, <2>1
    <2> QED BY <2>1, <2>2 DEF Ahead
  <1>4. ASSUME NEW x \in Ahead(array, i) \ {l} PROVE x \in Ahead(t, i)
    <2>1. PICK m \in DOMAIN array : m >= i /\ x = array[m] /\ x # Null
      BY <1>4 DEF Ahead
    <2>2. x = t[m]
      BY <1>2, <1>4, <2>1
    <2> QED BY <1>1, <2>1, <2>2 DEF Ahead
  <1> QED BY <1>3, <1>4

LEMMA OffKeeps ==
  ASSUME EventAssumption, IInv, NEW l \in Listeners, Off(l)
  PROVE  IInv'
  <1> DEFINE S == Listeners \cup {Null}
  <1>1. PICK a : a = held[l]
    OBVIOUS
  <1>2. PICK t : t = [j \in DOMAIN heap[a] |-> IF heap[a][j] = l THEN Null ELSE heap[a][j]]
    OBVIOUS
  <1>3. /\ budget' \in Nat /\ a # 0 /\ UNCHANGED <<tree, registry, held>>
        /\ heap' = [heap EXCEPT ![a] = t] /\ silenced' = silenced \cup {l}
        /\ stack' = Owing(a, {}, {l})
    BY <1>1, <1>2, MayFacts DEF Off
  <1>4. /\ heap \in Seq(Seq(S)) /\ Len(heap) \in Nat /\ DOMAIN heap = 1 .. Len(heap)
        /\ registry \in [Scopes -> [Names -> 0 .. Len(heap)]]
        /\ held \in [Listeners -> 0 .. Len(heap)] /\ silenced \subseteq Listeners
    BY DEF IInv, TypeOK
  <1>5. a \in DOMAIN heap
    BY <1>1, <1>3, <1>4
  <1>6. heap[a] \in Seq(S)
    BY <1>4, <1>5
  <1>7. /\ t \in Seq(S) /\ DOMAIN t = DOMAIN heap[a] /\ Len(t) = Len(heap[a])
        /\ \A j \in DOMAIN heap[a] : t[j] = IF heap[a][j] = l THEN Null ELSE heap[a][j]
    <2>1. DOMAIN heap[a] = 1 .. Len(heap[a]) /\ Len(heap[a]) \in Nat
      BY <1>6
    <2>2. \A j \in 1 .. Len(heap[a]) : (IF heap[a][j] = l THEN Null ELSE heap[a][j]) \in S
      BY <1>6, <2>1
    <2>3. t = [j \in 1 .. Len(heap[a]) |-> IF heap[a][j] = l THEN Null ELSE heap[a][j]]
      BY <1>2, <2>1
    <2> HIDE DEF S
    <2> QED BY <2>1, <2>2, <2>3
  <1>8. /\ heap' \in Seq(Seq(S)) /\ Len(heap') = Len(heap) /\ DOMAIN heap' = DOMAIN heap
        /\ \A b \in DOMAIN heap : heap'[b] = IF b = a THEN t ELSE heap[b]
    <2> HIDE DEF S
    <2>1. heap' \in Seq(Seq(S)) /\ Len(heap') = Len(heap)
      BY <1>3, <1>4, <1>5, <1>7
    <2>2. DOMAIN heap' = DOMAIN heap /\ \A b \in DOMAIN heap : heap'[b] = IF b = a THEN t ELSE heap[b]
      BY <1>3, <1>5
    <2> QED BY <2>1, <2>2
  <1>9. Owed(stack', a, {}, {l})
    <2>1. {l} \in SUBSET Listeners /\ {} \in SUBSET Listeners
      OBVIOUS
    <2>2. Owed(Owing(a, {}, {l}), a, {}, {l})
      BY <2>1, OwingFacts
    <2> QED BY <1>3, <2>2
  <1>10. stack' \in Seq(Frames) /\ Len(stack') = Len(stack)
    BY <1>9 DEF Owed
  <1>11. ASSUME NEW j \in 1 .. Len(stack) PROVE Sound(stack'[j], heap')
    <2>1. PICK f \in Frames : f = stack[j]
      BY StackFacts
    <2>2. Sound(f, heap)
      BY <2>1, StackFacts
    <2>3. PICK g : g = stack'[j]
      OBVIOUS
    <2>4. /\ g.k = f.k /\ g.pc = f.pc /\ g.n = f.n /\ g.arr = f.arr /\ g.i = f.i
          /\ g.owed = IF f.pc = "fire" /\ f.arr = a THEN f.owed \ {l} ELSE f.owed
      BY <1>9, <2>1, <2>3 DEF Owed
    <2>5. CASE f.pc = "fire" /\ f.arr = a
      <3>1. Ahead(t, f.i) = Ahead(heap[a], f.i) \ {l}
        BY <1>2, <1>6, AheadEmptied
      <3>2. f.owed = Ahead(heap[a], f.i) /\ f.i <= Len(heap[a]) + 1
        BY <2>2, <2>5 DEF Sound
      <3>3. heap'[a] = t /\ a \in DOMAIN heap'
        BY <1>5, <1>8
      <3> QED BY <1>7, <2>2, <2>3, <2>4, <2>5, <3>1, <3>2, <3>3 DEF Sound
    <2>6. CASE f.pc = "fire" /\ f.arr # a
      <3>1. f.arr \in DOMAIN heap
        BY <2>2, <2>6 DEF Sound
      <3>2. f.arr \in DOMAIN heap' /\ heap'[f.arr] = heap[f.arr]
        BY <1>8, <2>6, <3>1
      <3> QED BY <2>2, <2>3, <2>4, <2>6, <3>2 DEF Sound
    <2>7. CASE f.pc # "fire"
      BY <2>2, <2>3, <2>4, <2>7 DEF Sound
    <2> QED BY <2>5, <2>6, <2>7
  <1>12. Apart'
    <2>1. ASSUME NEW b \in DOMAIN heap, NEW p \in DOMAIN heap[b], heap'[b][p] # Null
          PROVE  /\ heap'[b][p] = heap[b][p] /\ held'[heap'[b][p]] # 0
                 /\ \A q \in DOMAIN heap[b] : heap'[b][p] = heap'[b][q] => p = q
      <3>1. heap'[b][p] = heap[b][p]
        BY <1>7, <1>8, <2>1
      <3>2. held'[heap[b][p]] # 0
        BY <1>3, <2>1, <3>1 DEF IInv, Apart
      <3>3. ASSUME NEW q \in DOMAIN heap[b], heap'[b][p] = heap'[b][q]
            PROVE  p = q
        <4>1. heap'[b][q] = heap[b][q]
          BY <1>7, <1>8, <2>1, <3>3
        <4> QED BY <2>1, <3>1, <3>3, <4>1 DEF IInv, Apart
      <3> QED BY <3>1, <3>2, <3>3
    <2>2. DOMAIN heap' = DOMAIN heap /\ \A b \in DOMAIN heap : DOMAIN heap'[b] = DOMAIN heap[b]
      BY <1>7, <1>8
    <2> QED BY <2>1, <2>2 DEF Apart
  <1>13. /\ registry' \in [Scopes -> [Names -> 0 .. Len(heap')]]
         /\ held' \in [Listeners -> 0 .. Len(heap')] /\ silenced' \subseteq Listeners
         /\ Len(heap') >= Len(heap)
    BY <1>3, <1>4, <1>8
  <1> QED BY <1>3, <1>8, <1>10, <1>11, <1>12, <1>13, HeapKeeps

LEMMA CompactKeeps ==
  ASSUME EventAssumption, IInv, Compact
  PROVE  IInv'
  <1> DEFINE S == Listeners \cup {Null}
  <1>1. PICK array : array = heap[Top.arr]
    OBVIOUS
  <1>2. PICK c : c = Compacted(array)
    OBVIOUS
  <1>3. PICK f : f = [Top EXCEPT !.pc = "move"]
    OBVIOUS
  <1>4. /\ Firing /\ stack # <<>> /\ heap' = Append(heap, c)
        /\ registry' = [registry EXCEPT ![Top.s][Top.n] = Len(heap')]
        /\ stack' = With(f) /\ UNCHANGED <<tree, held, silenced, budget>>
    BY <1>1, <1>2, <1>3 DEF Compact, Firing, At
  <1>5. /\ heap \in Seq(Seq(S)) /\ Len(heap) \in Nat /\ DOMAIN heap = 1 .. Len(heap)
        /\ registry \in [Scopes -> [Names -> 0 .. Len(heap)]]
        /\ held \in [Listeners -> 0 .. Len(heap)] /\ silenced \subseteq Listeners /\ budget \in Nat
    BY DEF IInv, TypeOK
  <1>6. /\ Top \in Frames /\ Top.k \in {"emit", "broadcast"} /\ Top.n \in Names
        /\ Top.arr \in DOMAIN heap
    BY <1>4, FiringFacts
  <1>7. array \in Seq(S) /\ \A p \in DOMAIN array : array[p] # Null => held[array[p]] # 0
    BY <1>1, <1>5, <1>6 DEF IInv, Apart
  <1>8. /\ c \in Seq(Listeners)
        /\ \A p \in DOMAIN c : \E m \in DOMAIN array : c[p] = array[m]
        /\ \A p, q \in DOMAIN c : c[p] = c[q] => p = q
    <2>1. \A p, q \in DOMAIN array : array[p] # Null /\ array[p] = array[q] => p = q
      BY <1>1, <1>6 DEF IInv, Apart
    <2> QED BY <1>2, <1>7, <2>1, CompactedFacts
  <1>9. c \in Seq(S)
    BY <1>8, SeqMonotonic
  <1> HIDE DEF S
  <1>10. /\ heap' \in Seq(Seq(S)) /\ Len(heap') = Len(heap) + 1
         /\ \A b \in 1 .. Len(heap) : heap'[b] = heap[b]
         /\ heap'[Len(heap) + 1] = c
    BY <1>4, <1>5, <1>9, AppendFacts
  <1>11. /\ DOMAIN heap' = 1 .. Len(heap) + 1 /\ Len(heap') >= Len(heap)
         /\ \A b \in DOMAIN heap' : b \in DOMAIN heap \/ b = Len(heap) + 1
         /\ \A b \in DOMAIN heap : b \in DOMAIN heap' /\ heap'[b] = heap[b]
         /\ Len(heap') \in 0 .. Len(heap')
         /\ \A x \in 0 .. Len(heap) : x \in 0 .. Len(heap')
    <2>1. DOMAIN heap = 1 .. Len(heap) /\ DOMAIN heap' = 1 .. Len(heap')
      BY <1>5, <1>10
    <2>2. PICK n \in Nat, m \in Nat : n = Len(heap) /\ m = Len(heap') /\ m = n + 1
      <3>1. Len(heap) \in Nat /\ Len(heap') = Len(heap) + 1
        BY <1>5, <1>10
      <3>2. Len(heap') \in Nat
        BY <3>1
      <3> QED BY <3>1, <3>2
    <2>3. /\ \A b \in 1 .. m : b \in 1 .. n \/ b = n + 1
          /\ \A b \in 1 .. n : b \in 1 .. m
          /\ m \in 0 .. m /\ \A x \in 0 .. n : x \in 0 .. m
      BY <2>2
    <2>4. \A b \in DOMAIN heap : heap'[b] = heap[b]
      BY <1>10, <2>1
    <2> QED BY <2>1, <2>2, <2>3, <2>4
  <1>12. ASSUME NEW g, Sound(g, heap) PROVE Sound(g, heap')
    BY <1>11, <1>12 DEF Sound
  <1>13. f \in Frames /\ Sound(f, heap')
    <2>1. f \in Frames /\ f.k = Top.k /\ f.n = Top.n /\ f.pc = "move"
      BY <1>3, <1>6 DEF Frames
    <2> QED BY <1>4, <1>6, <1>12, <2>1, MovedSound
  <1>14. /\ stack' \in Seq(Frames) /\ Len(stack') = Len(stack) /\ Len(stack) \in Nat
         /\ stack'[Len(stack)] = f /\ \A j \in 1 .. Len(stack) - 1 : stack'[j] = stack[j]
    BY <1>4, <1>13, TopFacts DEF IInv
  <1>15. ASSUME NEW j \in 1 .. Len(stack') PROVE Sound(stack'[j], heap')
    <2>1. CASE j = Len(stack)
      BY <1>13, <1>14, <2>1
    <2>2. CASE j \in 1 .. Len(stack) - 1
      <3>1. j \in 1 .. Len(stack)
        BY <1>14, <2>2
      <3> QED BY <1>12, <1>14, <2>2, <3>1, StackFacts
    <2>3. j = Len(stack) \/ j \in 1 .. Len(stack) - 1
      BY <1>14
    <2> QED BY <2>1, <2>2, <2>3
  <1>16. Apart'
    <2>1. ASSUME NEW b \in DOMAIN heap', NEW p \in DOMAIN heap'[b], heap'[b][p] # Null
          PROVE  /\ held'[heap'[b][p]] # 0
                 /\ \A q \in DOMAIN heap'[b] : heap'[b][p] = heap'[b][q] => p = q
      <3>1. CASE b \in DOMAIN heap
        BY <1>4, <1>11, <2>1, <3>1 DEF IInv, Apart
      <3>2. CASE b = Len(heap) + 1
        <4>1. PICK m \in DOMAIN array : c[p] = array[m]
          BY <1>8, <1>10, <3>2
        <4> QED BY <1>4, <1>7, <1>8, <1>10, <2>1, <3>2, <4>1
      <3> QED BY <1>11, <3>1, <3>2
    <2> QED BY <2>1 DEF Apart
  <1>17. /\ registry' \in [Scopes -> [Names -> 0 .. Len(heap')]]
         /\ held' \in [Listeners -> 0 .. Len(heap')]
    <2>1. \A x \in Scopes : registry[x] \in [Names -> 0 .. Len(heap')]
      BY <1>5, <1>11
    <2>2. [registry[Top.s] EXCEPT ![Top.n] = Len(heap')] \in [Names -> 0 .. Len(heap')]
      <3>1. Top.s \in Scopes
        BY <1>6 DEF Frames
      <3>2. registry[Top.s] \in [Names -> 0 .. Len(heap')]
        BY <2>1, <3>1
      <3> QED BY <1>11, <3>2
    <2>3. registry' = [x \in Scopes |-> IF x = Top.s THEN [registry[Top.s] EXCEPT ![Top.n] = Len(heap')]
                                                     ELSE registry[x]]
      BY <1>4, <1>5
    <2>4. registry' \in [Scopes -> [Names -> 0 .. Len(heap')]]
      BY <2>1, <2>2, <2>3
    <2>5. held' \in [Listeners -> 0 .. Len(heap')]
      BY <1>4, <1>5, <1>11
    <2> QED BY <2>4, <2>5
  <1>18. silenced' \subseteq Listeners /\ budget' \in Nat
    BY <1>4, <1>5
  <1> QED BY <1>4, <1>10, <1>11, <1>14, <1>15, <1>16, <1>17, <1>18, HeapKeeps DEF S

\* splice(): a list without c, the others in their order.
LEMMA WithoutFacts ==
  ASSUME NEW S, NEW seq \in Seq(S), NEW c
  PROVE  /\ Without(seq, c) \in Seq(S)
         /\ \A j \in DOMAIN Without(seq, c) : \E m \in DOMAIN seq : Without(seq, c)[j] = seq[m]
         /\ \A m \in DOMAIN seq : seq[m] # c =>
              \E j \in DOMAIN Without(seq, c) : Without(seq, c)[j] = seq[m]
  <1>1. CASE ~\E j \in DOMAIN seq : seq[j] = c
    BY <1>1 DEF Without
  <1>2. CASE \E j \in DOMAIN seq : seq[j] = c
    <2>1. PICK i : i = CHOOSE j \in DOMAIN seq : seq[j] = c
      OBVIOUS
    <2>2. i \in DOMAIN seq /\ seq[i] = c
      BY <1>2, <2>1
    <2>3. DOMAIN seq = 1 .. Len(seq) /\ Len(seq) \in Nat /\ i \in 1 .. Len(seq)
      BY <2>2
    <2>4. PICK d : d = SubSeq(seq, 1, i - 1) \o SubSeq(seq, i + 1, Len(seq))
      OBVIOUS
    <2>5. Without(seq, c) = d
      BY <1>2, <2>1, <2>4 DEF Without
    <2>6. /\ d \in Seq(S) /\ Len(d) = Len(seq) - 1
          /\ \A k \in 1 .. Len(seq) - 1 : d[k] = IF k < i THEN seq[k] ELSE seq[k + 1]
      BY <2>3, <2>4, DropFacts
    <2>7. DOMAIN d = 1 .. Len(seq) - 1
      BY <2>3, <2>6
    <2>8. ASSUME NEW j \in DOMAIN d PROVE \E m \in DOMAIN seq : d[j] = seq[m]
      <3>1. j \in 1 .. Len(seq) - 1 /\ j \in DOMAIN seq /\ j + 1 \in DOMAIN seq
        BY <2>3, <2>7
      <3> QED BY <2>6, <3>1
    <2>9. ASSUME NEW m \in DOMAIN seq, seq[m] # c PROVE \E j \in DOMAIN d : d[j] = seq[m]
      <3>1. m # i
        BY <2>2, <2>9
      <3>2. CASE m < i
        <4>1. m \in 1 .. Len(seq) - 1
          BY <2>3, <3>2
        <4> QED BY <2>6, <2>7, <3>2, <4>1
      <3>3. CASE m > i
        <4>1. PICK k \in 1 .. Len(seq) - 1 : m = k + 1
          <5>1. m - 1 \in 1 .. Len(seq) - 1 /\ m = (m - 1) + 1
            BY <2>3, <3>3
          <5> QED BY <5>1
        <4>2. ~(k < i)
          BY <2>3, <3>3, <4>1
        <4> QED BY <2>6, <2>7, <4>1, <4>2
      <3> QED BY <2>3, <3>1, <3>2, <3>3
    <2> QED BY <2>5, <2>6, <2>8, <2>9
  <1> QED BY <1>1, <1>2

\* The frames that are left when the scope of a $destroy goes.
LEMMA DetachStack ==
  ASSUME EventAssumption, IInv, Detach
  PROVE  /\ stack # <<>> /\ Top \in Frames /\ Top.k = "destroy" /\ Top.pc = "run"
         /\ Top.s \in Scopes /\ Len(stack) \in Nat \ {0}
         /\ stack' \in Seq(Frames) /\ Len(stack') = Len(stack) - 1
         /\ \A j \in 1 .. Len(stack) - 1 :
              stack'[j] = [stack[j] EXCEPT !.left = @ \ Subtree(Top.s)]
  <1> DEFINE F(j) == [stack[j] EXCEPT !.left = @ \ Subtree(Top.s)]
  <1>1. /\ stack # <<>> /\ Top.k = "destroy" /\ Top.pc = "run"
        /\ stack' = [j \in DOMAIN Popped |-> F(j)]
    BY DEF Detach, At
  <1>2. Top \in Frames /\ Len(stack) \in Nat \ {0}
    BY <1>1, TopFacts DEF IInv
  <1>3. Popped \in Seq(Frames) /\ Len(Popped) = Len(stack) - 1 /\ Len(stack) - 1 \in Nat
    <2>1. Popped \in Seq(Frames) /\ Len(Popped) = Len(stack) - 1
      BY <1>1, TopFacts DEF IInv
    <2> QED BY <1>2, <2>1
  <1>4. DOMAIN Popped = 1 .. Len(stack) - 1
    BY <1>3
  <1>5. ASSUME NEW j \in 1 .. Len(stack) - 1 PROVE F(j) \in Frames
    <2>1. j \in 1 .. Len(stack)
      BY <1>2
    <2>2. PICK f \in Frames : f = stack[j]
      BY <2>1, StackFacts
    <2>3. PICK left \in SUBSET Scopes : left = f.left \ Subtree(Top.s)
      <3>1. f.left \ Subtree(Top.s) \subseteq Scopes
        BY DEF Frames
      <3> QED BY <3>1
    <2>4. F(j) = [f EXCEPT !.left = left]
      BY <2>2, <2>3
    <2> HIDE DEF F
    <2> QED BY <2>2, <2>3, <2>4 DEF Frames
  <1> HIDE DEF F
  <1>6. /\ stack' \in Seq(Frames) /\ Len(stack') = Len(stack) - 1
        /\ \A j \in 1 .. Len(stack) - 1 : stack'[j] = F(j)
    BY <1>1, <1>3, <1>4, <1>5
  <1>7. Top.s \in Scopes
    BY <1>2 DEF Frames
  <1> QED BY <1>1, <1>2, <1>6, <1>7 DEF F

LEMMA DetachKeeps ==
  ASSUME EventAssumption, IInv, Detach
  PROVE  IInv'
  <1>1. PICK s \in Scopes : s = Top.s
    BY DetachStack
  <1>2. /\ UNCHANGED <<born, parent, heap, held, budget>>
        /\ children' = [children EXCEPT ![parent[s]] = Without(@, s)]
        /\ registry' = [registry EXCEPT ![s] = [n \in Names |-> 0]]
        /\ silenced' = silenced \cup UNION {NonNull(heap[registry[s][n]]) :
                                              n \in {m \in Names : registry[s][m] # 0}}
    BY <1>1 DEF Detach
  <1>3. TreeTyped'
    <2>1. /\ children \in [Scopes -> Seq(Scopes)] /\ parent \in [Scopes -> Scopes \cup {Null}]
          /\ born \subseteq Scopes
      BY DEF IInv, TypeOK
    <2>2. \A p \in Scopes : Without(children[p], s) \in Seq(Scopes)
      BY <2>1, WithoutFacts
    <2>3. children' = [p \in Scopes |-> IF p = parent[s] THEN Without(children[p], s) ELSE children[p]]
      BY <1>2, <2>1
    <2>4. children' \in [Scopes -> Seq(Scopes)]
      BY <2>1, <2>2, <2>3
    <2> QED BY <1>2, <2>1, <2>4 DEF TreeTyped
  <1>4. registry' \in [Scopes -> [Names -> 0..Len(heap)]]
    <2>1. registry \in [Scopes -> [Names -> 0..Len(heap)]] /\ Len(heap) \in Nat
      BY DEF IInv, TypeOK
    <2>2. [n \in Names |-> 0] \in [Names -> 0 .. Len(heap)]
      BY <2>1
    <2> QED BY <1>2, <2>1, <2>2
  <1>5. silenced' \subseteq Listeners
    <2>1. ASSUME NEW n \in Names, registry[s][n] # 0
          PROVE  NonNull(heap[registry[s][n]]) \subseteq Listeners
      <3>1. registry[s][n] \in DOMAIN heap
        BY <2>1 DEF IInv, TypeOK
      <3>2. heap[registry[s][n]] \in Seq(Listeners \cup {Null})
        BY <3>1, ArrayFacts
      <3> QED BY <3>2 DEF NonNull
    <2>2. silenced \subseteq Listeners
      BY DEF IInv, TypeOK
    <2> QED BY <1>2, <2>1, <2>2
  <1>6. ASSUME NEW j \in 1 .. Len(stack') PROVE Sound(stack'[j], heap)
    <2>1. j \in 1 .. Len(stack) - 1 /\ j \in 1 .. Len(stack)
      BY DetachStack
    <2>2. PICK f \in Frames : f = stack[j] /\ Sound(f, heap)
      BY <2>1, StackFacts
    <2>3. PICK g : g = stack'[j]
      OBVIOUS
    <2>4. g = [f EXCEPT !.left = @ \ Subtree(s)]
      BY <1>1, <2>1, <2>2, <2>3, DetachStack
    <2>5. g.k = f.k /\ g.pc = f.pc /\ g.n = f.n /\ g.arr = f.arr /\ g.i = f.i /\ g.owed = f.owed
      BY <2>4 DEF Frames
    <2> QED BY <2>2, <2>3, <2>5, SameSound
  <1>7. budget' \in Nat /\ stack' \in Seq(Frames)
    BY <1>2, DetachStack DEF IInv, TypeOK
  <1> QED BY <1>2, <1>3, <1>4, <1>5, <1>6, <1>7, StackKeeps

-----------------------------------------------------------------------------
(* Every step keeps the invariant                                           *)

LEMMA InitInv ==
  ASSUME EventAssumption, Init
  PROVE  IInv
  <1> USE DEF EventAssumption
  <1> DEFINE kids == {InitKids[j] : j \in DOMAIN InitKids}
             In(l) == {a \in DOMAIN InitHeap : l \in NonNull(InitHeap[a])}
             S == Listeners \cup {Null}
  <1>1. /\ heap = InitHeap /\ InitHeap \in Seq(Seq(Listeners)) /\ Len(InitHeap) \in Nat
        /\ DOMAIN InitHeap = 1 .. Len(InitHeap)
    BY DEF Init
  <1>2. \A a \in DOMAIN InitHeap : InitHeap[a] \in Seq(Listeners) /\ InitHeap[a] \in Seq(S)
    <2>1. \A a \in DOMAIN InitHeap : InitHeap[a] \in Seq(Listeners)
      BY <1>1
    <2>2. \A t \in Seq(Listeners) : t \in Seq(S)
      BY SeqMonotonic
    <2> QED BY <2>1, <2>2
  <1>3. InitHeap \in Seq(Seq(S))
    <2>1. Seq(Listeners) \subseteq Seq(S)
      BY SeqMonotonic
    <2> QED BY <1>1, <2>1, SeqMonotonic
  <1>4. kids \subseteq Scopes
    BY DEF Init
  <1>5. TreeTyped
    <2>1. InitKids \in Seq(Scopes) /\ <<>> \in Seq(Scopes)
      BY SeqMonotonic, EmptySeq
    <2> QED BY <1>4, <2>1 DEF Init, TreeTyped
  <1>6. held = [l \in Listeners |-> IF In(l) = {} THEN 0 ELSE CHOOSE a \in In(l) : TRUE]
    BY DEF Init
  <1>7. \A l \in Listeners : In(l) # {} => held[l] \in In(l)
    BY <1>6
  <1>8. held \in [Listeners -> 0 .. Len(heap)]
    <2>1. \A l \in Listeners : In(l) \subseteq 0 .. Len(heap)
      BY <1>1
    <2>2. 0 \in 0 .. Len(heap)
      BY <1>1
    <2> HIDE DEF In
    <2> QED BY <1>6, <1>7, <2>1, <2>2
  <1>9. Apart
    <2>1. ASSUME NEW a \in DOMAIN InitHeap, NEW p \in DOMAIN InitHeap[a]
          PROVE  /\ held[InitHeap[a][p]] # 0
                 /\ \A q \in DOMAIN InitHeap[a] : InitHeap[a][p] = InitHeap[a][q] => p = q
      <3>1. InitHeap[a][p] \in Listeners
        BY <1>2
      <3>2. a \in In(InitHeap[a][p])
        BY <3>1 DEF NonNull
      <3>3. held[InitHeap[a][p]] \in DOMAIN InitHeap
        BY <1>7, <3>1, <3>2
      <3> QED BY <1>1, <3>3
    <2> QED BY <1>1, <2>1 DEF Apart
  <1>10. /\ stack = <<>> /\ budget = Budget /\ silenced = {} /\ registry = InitRegistry
    BY DEF Init
  <1>11. TypeOK
    <2>1. <<>> \in Seq(Frames)
      BY EmptySeq
    <2> QED BY <1>1, <1>3, <1>5, <1>8, <1>10, <2>1 DEF TypeOK, TreeTyped
  <1>12. FramesSound
    BY <1>10 DEF FramesSound
  <1> QED BY <1>9, <1>11, <1>12 DEF IInv

LEMMA UserOpKeeps ==
  ASSUME EventAssumption, IInv, UserOp
  PROVE  IInv'
  <1>1. CASE \E s \in Scopes, n \in Names, l \in Listeners : On(s, n, l)
    BY <1>1, OnKeeps
  <1>2. CASE \E l \in Listeners : Off(l)
    BY <1>2, OffKeeps
  <1>3. CASE \E p, c \in Scopes : NewScope(p, c)
    BY <1>3, NewScopeKeeps
  <1>4. CASE \E s \in Scopes, n \in Fired : Emit(s, n) \/ Broadcast(s, n)
    BY <1>4, EmitKeeps, BroadcastKeeps
  <1>5. CASE \E s \in Scopes : Destroy(s)
    BY <1>5, DestroyKeeps
  <1>6. CASE StopPropagation \/ Return
    BY <1>6, StopPropagationKeeps, ReturnKeeps
  <1> QED BY <1>1, <1>2, <1>3, <1>4, <1>5, <1>6 DEF UserOp

LEMMA StepKeeps ==
  ASSUME EventAssumption, IInv, [Next]_vars
  PROVE  IInv'
  <1>1. CASE BeginTurn
    BY <1>1, BeginTurnKeeps
  <1>2. CASE UserOp
    BY <1>2, UserOpKeeps
  <1>3. CASE Visit \/ EmptySlot \/ CallListener \/ Compact
    BY <1>3, VisitKeeps, EmptySlotKeeps, CallListenerKeeps, CompactKeeps
  <1>4. CASE EmitUp \/ EmitDone
    BY <1>4, EmitUpKeeps, EmitDoneKeeps
  <1>5. CASE EnterChild \/ LeaveScope \/ BroadcastDone
    BY <1>5, EnterChildKeeps, LeaveScopeKeeps, BroadcastDoneKeeps
  <1>6. CASE Detach
    BY <1>6, DetachKeeps
  <1>7. CASE UNCHANGED vars
    BY <1>7 DEF vars, tree, lists, IInv, TypeOK, FramesSound, Apart
  <1> QED BY <1>1, <1>2, <1>3, <1>4, <1>5, <1>6, <1>7 DEF Next, Engine

\* Whatever listeners register, deregister, fire or destroy meanwhile, a loop
\* over a listener array calls each listener once, and none that was taken out
\* of the array before its turn ($$fireEventOnScope).
THEOREM ListenersAreCalledOnce == Spec => []ListenersOnce
  <1>1. Init => IInv
    BY EventAssumption, InitInv
  <1>2. IInv /\ [Next]_vars => IInv'
    BY EventAssumption, StepKeeps
  <1>3. IInv => ListenersOnce
    <2>1. SUFFICES ASSUME IInv, NEW j \in 1 .. Len(stack), stack[j].pc = "fire"
                   PROVE  stack[j].owed = Ahead(heap[stack[j].arr], stack[j].i)
      BY StackFacts DEF ListenersOnce, EachListenerOnce, Ahead, IInv
    <2> QED BY <2>1, StackFacts DEF Sound
  <1> QED BY <1>1, <1>2, <1>3, PTL DEF Spec

-----------------------------------------------------------------------------
(* What is below a scope, in any tree ch of children                        *)

KidsIn(ch, p) == {ch[p][i] : i \in DOMAIN ch[p]}
Reach(ch, s) ==
  {t \in Scopes : \A S \in SUBSET Scopes : s \in S /\ (\A p \in S : KidsIn(ch, p) \subseteq S) => t \in S}
Below(ch, s) == Reach(ch, s) \ {s}
Trees == [Scopes -> Seq(Scopes)]

\* No scope is below one of its children.
Acyclic(ch) == \A p \in Scopes : \A c \in KidsIn(ch, p) : p \notin Reach(ch, c)

LEMMA SubtreeIsReach ==
  \A s : Subtree(s) = Reach(children, s)
  BY DEF Subtree, Reach, Kids, KidsIn

LEMMA ReachFacts ==
  ASSUME NEW ch \in Trees, NEW s \in Scopes
  PROVE  /\ s \in Reach(ch, s) /\ Reach(ch, s) \subseteq Scopes
         /\ \A p \in Scopes : KidsIn(ch, p) \subseteq Scopes
         /\ \A p \in Reach(ch, s) : KidsIn(ch, p) \subseteq Reach(ch, s)
         /\ \A S \in SUBSET Scopes :
              s \in S /\ (\A p \in S : KidsIn(ch, p) \subseteq S) => Reach(ch, s) \subseteq S
  <1>1. s \in Reach(ch, s) /\ Reach(ch, s) \subseteq Scopes
    BY DEF Reach
  <1>2. \A p \in Scopes : KidsIn(ch, p) \subseteq Scopes
    BY DEF Trees, KidsIn
  <1>3. ASSUME NEW p \in Reach(ch, s), NEW c \in KidsIn(ch, p) PROVE c \in Reach(ch, s)
    <2>1. c \in Scopes
      BY <1>1, <1>2, <1>3
    <2>2. ASSUME NEW S \in SUBSET Scopes, s \in S, \A q \in S : KidsIn(ch, q) \subseteq S
          PROVE  c \in S
      <3>1. p \in S
        BY <1>3, <2>2 DEF Reach
      <3> QED BY <1>3, <2>2, <3>1
    <2> QED BY <2>1, <2>2 DEF Reach
  <1>4. ASSUME NEW S \in SUBSET Scopes, s \in S, \A p \in S : KidsIn(ch, p) \subseteq S
        PROVE  Reach(ch, s) \subseteq S
    BY <1>4 DEF Reach
  <1> QED BY <1>1, <1>2, <1>3, <1>4

\* What is below a scope that is below s is below s.
LEMMA ReachTrans ==
  ASSUME NEW ch \in Trees, NEW s \in Scopes, NEW t \in Reach(ch, s)
  PROVE  Reach(ch, t) \subseteq Reach(ch, s)
  <1>1. /\ t \in Scopes /\ Reach(ch, s) \in SUBSET Scopes
        /\ \A p \in Reach(ch, s) : KidsIn(ch, p) \subseteq Reach(ch, s)
    BY ReachFacts
  <1>2. \A S \in SUBSET Scopes :
          t \in S /\ (\A p \in S : KidsIn(ch, p) \subseteq S) => Reach(ch, t) \subseteq S
    BY <1>1, ReachFacts
  <1> QED BY <1>1, <1>2

\* The first step of a way down, and the last.
LEMMA ReachSplit ==
  ASSUME NEW ch \in Trees, NEW s \in Scopes, NEW t \in Reach(ch, s), t # s
  PROVE  /\ \E i \in DOMAIN ch[s] : t \in Reach(ch, ch[s][i])
         /\ \E p \in Reach(ch, s) : t \in KidsIn(ch, p)
  <1>0. /\ s \in Reach(ch, s) /\ Reach(ch, s) \subseteq Scopes
        /\ \A p \in Scopes : KidsIn(ch, p) \subseteq Scopes
        /\ \A p \in Reach(ch, s) : KidsIn(ch, p) \subseteq Reach(ch, s)
        /\ \A S \in SUBSET Scopes :
             s \in S /\ (\A p \in S : KidsIn(ch, p) \subseteq S) => Reach(ch, s) \subseteq S
    BY ReachFacts
  <1>1. \E c \in KidsIn(ch, s) : t \in Reach(ch, c)
    <2> DEFINE S == {s} \cup UNION {Reach(ch, c) : c \in KidsIn(ch, s)}
    <2>1. ASSUME NEW c \in KidsIn(ch, s)
          PROVE  /\ c \in Reach(ch, c) /\ Reach(ch, c) \subseteq Scopes
                 /\ \A p \in Reach(ch, c) : KidsIn(ch, p) \subseteq Reach(ch, c)
      <3>1. c \in Scopes
        BY <1>0, <2>1
      <3> QED BY <3>1, ReachFacts
    <2>2. S \in SUBSET Scopes
      BY <1>0, <2>1
    <2>3. ASSUME NEW p \in S PROVE KidsIn(ch, p) \subseteq S
      <3>1. CASE p = s
        BY <2>1, <3>1
      <3>2. CASE \E c \in KidsIn(ch, s) : p \in Reach(ch, c)
        BY <2>1, <3>2
      <3> QED BY <2>3, <3>1, <3>2
    <2>4. Reach(ch, s) \subseteq S
      BY <1>0, <2>2, <2>3
    <2> QED BY <2>4
  <1>2. \E p \in Reach(ch, s) : t \in KidsIn(ch, p)
    <2> DEFINE S == {u \in Reach(ch, s) : u = s \/ \E p \in Reach(ch, s) : u \in KidsIn(ch, p)}
    <2>1. S \in SUBSET Scopes /\ s \in S
      BY <1>0
    <2>2. \A p \in S : KidsIn(ch, p) \subseteq S
      BY <1>0
    <2>3. Reach(ch, s) \subseteq S
      BY <1>0, <2>1, <2>2
    <2> QED BY <2>3
  <1> QED BY <1>1, <1>2 DEF KidsIn

\* Where no scope is below its child, none is below one that is below it.
LEMMA NoLoop ==
  ASSUME NEW ch \in Trees, Acyclic(ch), NEW s \in Scopes, NEW t \in Below(ch, s)
  PROVE  s \notin Reach(ch, t)
  <1>1. PICK i \in DOMAIN ch[s] : t \in Reach(ch, ch[s][i])
    BY ReachSplit DEF Below
  <1>2. ch[s][i] \in KidsIn(ch, s) /\ ch[s][i] \in Scopes
    BY DEF KidsIn, Trees
  <1>3. Reach(ch, t) \subseteq Reach(ch, ch[s][i])
    BY <1>1, <1>2, ReachTrans
  <1> QED BY <1>2, <1>3 DEF Acyclic

\* One tree holds the other.
LEMMA ReachGrows ==
  ASSUME NEW ch \in Trees, NEW ch2 \in Trees, NEW s \in Scopes,
         \A p \in Scopes : KidsIn(ch, p) \subseteq KidsIn(ch2, p)
  PROVE  Reach(ch, s) \subseteq Reach(ch2, s)
  <1>1. /\ s \in Reach(ch2, s) /\ Reach(ch2, s) \in SUBSET Scopes
        /\ \A p \in Reach(ch2, s) : KidsIn(ch2, p) \subseteq Reach(ch2, s)
    BY ReachFacts
  <1>2. \A p \in Reach(ch2, s) : KidsIn(ch, p) \subseteq Reach(ch2, s)
    BY <1>1
  <1> QED BY <1>1, <1>2, ReachFacts

\* A tree that loses d as a child: only what was below d may be out of reach.
LEMMA ReachCut ==
  ASSUME NEW ch \in Trees, NEW ch2 \in Trees, NEW s \in Scopes, NEW d \in Scopes,
         \A p \in Scopes : KidsIn(ch, p) \ {d} \subseteq KidsIn(ch2, p),
         NEW t \in Reach(ch, s), t \notin Reach(ch, d)
  PROVE  t \in Reach(ch2, s)
  <1> DEFINE S == Reach(ch2, s) \cup Reach(ch, d)
  <1>1. /\ s \in Reach(ch2, s) /\ Reach(ch2, s) \subseteq Scopes
        /\ \A p \in Reach(ch2, s) : KidsIn(ch2, p) \subseteq Reach(ch2, s)
    BY ReachFacts
  <1>2. /\ d \in Reach(ch, d) /\ Reach(ch, d) \subseteq Scopes
        /\ \A p \in Reach(ch, d) : KidsIn(ch, p) \subseteq Reach(ch, d)
    BY ReachFacts
  <1>3. S \in SUBSET Scopes /\ s \in S
    BY <1>1, <1>2
  <1>4. ASSUME NEW p \in S PROVE KidsIn(ch, p) \subseteq S
    <2>1. CASE p \in Reach(ch, d)
      BY <1>2, <2>1
    <2>2. CASE p \in Reach(ch2, s)
      <3>1. KidsIn(ch, p) \ {d} \subseteq Reach(ch2, s)
        BY <1>1, <2>2
      <3> QED BY <1>2, <3>1
    <2> QED BY <1>4, <2>1, <2>2
  <1> HIDE DEF S
  <1>5. t \in S
    BY <1>3, <1>4, ReachFacts
  <1> QED BY <1>5 DEF S

\* A tree that gains the child c, which has none.
LEMMA ReachGains ==
  ASSUME NEW ch \in Trees, NEW ch2 \in Trees, NEW s \in Scopes, NEW c \in Scopes,
         \A p \in Scopes : KidsIn(ch2, p) \subseteq KidsIn(ch, p) \cup {c}, KidsIn(ch2, c) = {}
  PROVE  Reach(ch2, s) \subseteq Reach(ch, s) \cup {c} /\ Reach(ch2, c) = {c}
  <1>1. Reach(ch2, s) \subseteq Reach(ch, s) \cup {c}
    <2> DEFINE S == Reach(ch, s) \cup {c}
    <2>1. /\ s \in Reach(ch, s) /\ Reach(ch, s) \subseteq Scopes
          /\ \A p \in Reach(ch, s) : KidsIn(ch, p) \subseteq Reach(ch, s)
      BY ReachFacts
    <2>2. S \in SUBSET Scopes /\ s \in S /\ \A p \in S : KidsIn(ch2, p) \subseteq S
      BY <2>1
    <2> HIDE DEF S
    <2>3. Reach(ch2, s) \subseteq S
      BY <2>2, ReachFacts
    <2> QED BY <2>3 DEF S
  <1>2. Reach(ch2, c) = {c}
    <2>1. {c} \in SUBSET Scopes /\ c \in {c} /\ \A p \in {c} : KidsIn(ch2, p) \subseteq {c}
      OBVIOUS
    <2>2. Reach(ch2, c) \subseteq {c}
      BY <2>1, ReachFacts
    <2>3. c \in Reach(ch2, c)
      BY ReachFacts
    <2> QED BY <2>2, <2>3
  <1> QED BY <1>1, <1>2

-----------------------------------------------------------------------------
(* What the calls in progress keep, in a tree ch                            *)

\* The activation a of $$everyScope has x below a child it has not come to yet.
Awaits(ch, a, x) ==
  IF a.i = 0 THEN \E c \in KidsIn(ch, a.s) : x \in Reach(ch, c)
             ELSE \E q \in a.i + 1 .. a.n : x \in Reach(ch, ch[a.s][q])

\* The activations of a broadcast: a child is not beyond the end of its array,
\* each activation is below the child that the one before is at, and the last
\* is that of the scope whose listeners run.
Counted(ch, f) ==
  \A m \in 1 .. Len(f.trav) :
    f.trav[m].i > 0 => f.trav[m].i <= f.trav[m].n /\ f.trav[m].n <= Len(ch[f.trav[m].s])
Descends(ch, f) ==
  \A m, q \in 1 .. Len(f.trav) :
    m < q => /\ f.trav[m].i > 0
             /\ f.trav[q].s \in Reach(ch, ch[f.trav[m].s][f.trav[m].i])
Arrived(f) ==
  f.pc # "move" => /\ f.trav # <<>> /\ f.trav[Len(f.trav)].s = f.s /\ f.trav[Len(f.trav)].i = 0

\* What a broadcast has to reach is where it is or where it will come.
Covered(ch, f) ==
  \A x \in f.left : \/ f.pc = "visit" /\ x = f.s
                    \/ \E m \in 1 .. Len(f.trav) : Awaits(ch, f.trav[m], x)

Steady(ch, f) ==
  f.k = "broadcast" => Counted(ch, f) /\ Descends(ch, f) /\ Arrived(f) /\ Covered(ch, f)

\* What a listener of a broadcast, or a $destroy, calls stays below its scope.
Under(ch, f, g) ==
  f.k \in {"broadcast", "destroy"} =>
    /\ f.k = "broadcast" => f.pc = "fire"
    /\ g.k # "emit"
    /\ g.k = "user" => g.at = "broadcast"
    /\ g.k = "destroy" => g.s \in Below(ch, f.s)
    /\ g.k = "broadcast" => \A m \in 1 .. Len(g.trav) : g.trav[m].s \in Reach(ch, f.s)

\* Frame j of the stack st, if it is a listener of a broadcast, was called by one.
Called(st, j) ==
  st[j].k = "user" /\ st[j].at = "broadcast" => j > 1 /\ st[j - 1].k = "broadcast"

Nested(ch, st) ==
  /\ \A j \in 1 .. Len(st) : Steady(ch, st[j]) /\ Called(st, j)
  /\ \A j, l \in 1 .. Len(st) : j < l => Under(ch, st[j], st[l])

\* The tree: a scope that was not created has no place in it.
Planted ==
  /\ \A p \in Scopes : KidsIn(children, p) \subseteq born
  /\ \A p \in Scopes : \A c \in KidsIn(children, p) : parent[c] = p
  /\ \A s \in Scopes \ born : children[s] = <<>>
  /\ Acyclic(children)

\* What no broadcast lets its listeners do.
Gentle == Ops["broadcast"] \cap {"emit", "broadcast", "destroy"} = {}

BInv == IInv /\ Planted /\ Nested(children, stack)

-----------------------------------------------------------------------------
(* Changes of the stack in the same tree                                    *)

\* g is f as far as the invariant looks.
Alike(g, f) ==
  /\ g.k = f.k /\ g.at = f.at /\ g.s = f.s /\ g.pc = f.pc /\ g.trav = f.trav /\ g.left = f.left

LEMMA NestedAlike ==
  ASSUME NEW ch, NEW st, NEW st2, Nested(ch, st), Len(st) \in Nat, Len(st2) \in Nat,
         Len(st2) <= Len(st), \A j \in 1 .. Len(st2) : Alike(st2[j], st[j])
  PROVE  Nested(ch, st2)
  <1>1. ASSUME NEW j \in 1 .. Len(st2) PROVE j \in 1 .. Len(st)
    OBVIOUS
  <1>2. ASSUME NEW j \in 1 .. Len(st2) PROVE Steady(ch, st2[j])
    <2>1. PICK f, g : f = st[j] /\ g = st2[j]
      OBVIOUS
    <2>2. Steady(ch, f) /\ Alike(g, f)
      BY <1>1, <2>1 DEF Nested
    <2>3. Steady(ch, g)
      BY <2>2 DEF Steady, Alike, Counted, Descends, Arrived, Covered
    <2> QED BY <2>1, <2>3
  <1>3. ASSUME NEW j \in 1 .. Len(st2) PROVE Called(st2, j)
    <2>1. Called(st, j) /\ Alike(st2[j], st[j])
      BY <1>1 DEF Nested
    <2>2. ASSUME j > 1 PROVE st2[j - 1].k = st[j - 1].k
      <3>1. j - 1 \in 1 .. Len(st2)
        BY <2>2
      <3> QED BY <3>1 DEF Alike
    <2> QED BY <2>1, <2>2 DEF Called, Alike
  <1>4. ASSUME NEW j \in 1 .. Len(st2), NEW l \in 1 .. Len(st2), j < l
        PROVE  Under(ch, st2[j], st2[l])
    <2>1. PICK f, g, f2, g2 : f = st[j] /\ g = st[l] /\ f2 = st2[j] /\ g2 = st2[l]
      OBVIOUS
    <2>2. Under(ch, f, g) /\ Alike(f2, f) /\ Alike(g2, g)
      BY <1>1, <1>4, <2>1 DEF Nested
    <2>3. Under(ch, f2, g2)
      BY <2>2 DEF Under, Alike
    <2> QED BY <2>1, <2>3
  <1> QED BY <1>2, <1>3, <1>4 DEF Nested

\* One frame more.
LEMMA NestedPush ==
  ASSUME NEW ch, NEW st, NEW st2, NEW f, Nested(ch, st), Len(st) \in Nat, Len(st2) = Len(st) + 1,
         \A j \in 1 .. Len(st) : st2[j] = st[j], st2[Len(st) + 1] = f,
         Steady(ch, f), Called(st2, Len(st) + 1), \A j \in 1 .. Len(st) : Under(ch, st[j], f)
  PROVE  Nested(ch, st2)
  <1>1. ASSUME NEW j \in 1 .. Len(st2) PROVE j \in 1 .. Len(st) \/ j = Len(st) + 1
    OBVIOUS
  <1>2. ASSUME NEW j \in 1 .. Len(st2) PROVE Steady(ch, st2[j])
    <2>1. CASE j \in 1 .. Len(st)
      BY <2>1 DEF Nested
    <2> QED BY <1>1, <2>1
  <1>3. ASSUME NEW j \in 1 .. Len(st2) PROVE Called(st2, j)
    <2>1. CASE j \in 1 .. Len(st)
      <3>1. Called(st, j) /\ st2[j] = st[j]
        BY <2>1 DEF Nested
      <3>2. j > 1 => st2[j - 1] = st[j - 1]
        <4>1. j > 1 => j - 1 \in 1 .. Len(st)
          BY <2>1
        <4> QED BY <4>1
      <3> QED BY <3>1, <3>2 DEF Called
    <2> QED BY <1>1, <2>1
  <1>4. ASSUME NEW j \in 1 .. Len(st2), NEW l \in 1 .. Len(st2), j < l
        PROVE  Under(ch, st2[j], st2[l])
    <2>1. j \in 1 .. Len(st)
      BY <1>4
    <2>2. CASE l \in 1 .. Len(st)
      BY <1>4, <2>1, <2>2 DEF Nested
    <2>3. CASE l = Len(st) + 1
      BY <2>1, <2>3
    <2> QED BY <1>1, <2>2, <2>3
  <1> QED BY <1>2, <1>3, <1>4 DEF Nested

\* The running frame, and how it lies in the stack.
LEMMA TopNests ==
  ASSUME IInv, stack # <<>>, NEW ch, Nested(ch, stack)
  PROVE  /\ Steady(ch, Top) /\ Called(stack, Len(stack))
         /\ \A j \in 1 .. Len(stack) - 1 : Under(ch, stack[j], Top)
  <1>1. Len(stack) \in 1 .. Len(stack) /\ Len(stack) \in Nat \ {0}
    BY TopFacts DEF IInv
  <1>2. \A j \in 1 .. Len(stack) - 1 : j \in 1 .. Len(stack) /\ j < Len(stack)
    BY <1>1
  <1> QED BY <1>1, <1>2 DEF Nested, Top

\* The running frame is done.
LEMMA NestedPop ==
  ASSUME IInv, stack # <<>>, NEW ch, Nested(ch, stack)
  PROVE  Nested(ch, Popped)
  <1>1. /\ Len(stack) \in Nat \ {0} /\ Len(Popped) = Len(stack) - 1
        /\ \A j \in 1 .. Len(stack) - 1 : Popped[j] = stack[j]
    BY TopFacts DEF IInv
  <1>2. \A j \in 1 .. Len(Popped) : Alike(Popped[j], stack[j])
    BY <1>1 DEF Alike
  <1>3. Len(Popped) \in Nat /\ Len(Popped) <= Len(stack) /\ Len(stack) \in Nat
    BY <1>1
  <1> QED BY <1>2, <1>3, NestedAlike

\* The running frame gives way to f.
LEMMA NestedWith ==
  ASSUME IInv, stack # <<>>, NEW ch, Nested(ch, stack), NEW f \in Frames, f.k # "user",
         Steady(ch, f), \A j \in 1 .. Len(stack) - 1 : Under(ch, stack[j], f)
  PROVE  Nested(ch, With(f))
  <1>1. /\ Len(stack) \in Nat \ {0} /\ Len(Popped) = Len(stack) - 1 /\ Len(With(f)) = Len(stack)
        /\ \A j \in 1 .. Len(stack) - 1 : Popped[j] = stack[j] /\ With(f)[j] = stack[j]
        /\ With(f)[Len(stack)] = f
    BY TopFacts DEF IInv
  <1>2. PICK st, st2 : st = Popped /\ st2 = With(f)
    OBVIOUS
  <1>3. Nested(ch, st)
    BY <1>2, NestedPop
  <1>4. /\ Len(st) \in Nat /\ Len(st2) = Len(st) + 1 /\ Len(st) + 1 = Len(stack)
        /\ Len(st) = Len(stack) - 1
    BY <1>1, <1>2
  <1>5. /\ \A j \in 1 .. Len(st) : st2[j] = st[j] /\ Under(ch, st[j], f)
        /\ st2[Len(st) + 1] = f
    BY <1>1, <1>2, <1>4
  <1>6. Called(st2, Len(st) + 1)
    BY <1>5 DEF Called
  <1>7. Nested(ch, st2)
    BY <1>3, <1>4, <1>5, <1>6, NestedPush
  <1> QED BY <1>2, <1>7

\* A call from the running frame.
LEMMA NestedCall ==
  ASSUME IInv, NEW ch, Nested(ch, stack), NEW f \in Frames,
         Steady(ch, f), f.k = "user" /\ f.at = "broadcast" => stack # <<>> /\ Top.k = "broadcast",
         \A j \in 1 .. Len(stack) : Under(ch, stack[j], f)
  PROVE  Nested(ch, Append(stack, f))
  <1>1. PICK st2 : st2 = Append(stack, f)
    OBVIOUS
  <1>2. /\ Len(stack) \in Nat /\ Len(st2) = Len(stack) + 1 /\ st2[Len(stack) + 1] = f
        /\ \A j \in 1 .. Len(stack) : st2[j] = stack[j]
    BY <1>1, StackFacts, Pushed DEF IInv
  <1>3. Called(st2, Len(stack) + 1)
    <2>1. ASSUME stack # <<>>, Top.k = "broadcast"
          PROVE  Len(stack) + 1 > 1 /\ st2[(Len(stack) + 1) - 1].k = "broadcast"
      <3>1. Len(stack) \in 1 .. Len(stack) /\ (Len(stack) + 1) - 1 = Len(stack) /\ Len(stack) + 1 > 1
        BY <2>1, TopFacts DEF IInv
      <3> QED BY <1>2, <2>1, <3>1 DEF Top
    <2> QED BY <1>2, <2>1 DEF Called
  <1>4. Nested(ch, st2)
    BY <1>2, <1>3, NestedPush
  <1> QED BY <1>1, <1>4

\* Where user code may emit or broadcast, no broadcast is waiting for it.
LEMMA Alone ==
  ASSUME IInv, stack # <<>>, NEW ch, Nested(ch, stack), Top.k = "user", Top.at # "broadcast"
  PROVE  \A j \in 1 .. Len(stack) : stack[j].k \notin {"broadcast", "destroy"}
  <1>1. \A j \in 1 .. Len(stack) - 1 : Under(ch, stack[j], Top)
    BY TopNests
  <1>2. Len(stack) \in Nat \ {0}
    BY TopFacts DEF IInv
  <1>3. ASSUME NEW j \in 1 .. Len(stack) PROVE stack[j].k \notin {"broadcast", "destroy"}
    <2>1. j = Len(stack) \/ j \in 1 .. Len(stack) - 1
      BY <1>2
    <2>2. CASE j = Len(stack)
      BY <2>2 DEF Top
    <2>3. CASE j \in 1 .. Len(stack) - 1
      BY <1>1, <2>3 DEF Under
    <2> QED BY <2>1, <2>2, <2>3
  <1> QED BY <1>3

\* The tree stays.
LEMMA TreeStays ==
  ASSUME Planted, UNCHANGED <<born, parent, children>>, NEW st, Nested(children, st), stack' = st
  PROVE  Planted' /\ Nested(children, stack)'
  <1>1. PICK ch : ch = children
    OBVIOUS
  <1>2. ch = children' /\ Nested(ch, stack')
    BY <1>1
  <1>3. Nested(children, stack)'
    BY <1>2
  <1>4. Planted'
    BY DEF Planted
  <1> QED BY <1>3, <1>4

-----------------------------------------------------------------------------
(* Steps that leave the tree, and the ways of broadcasts, as they are        *)

BNext == Planted' /\ Nested(children, stack)'

\* A loop over listeners, a turn further or at its end.
LEMMA SteadyTurn ==
  ASSUME NEW ch, NEW f, NEW g, Steady(ch, f), g.k = f.k, g.s = f.s, g.trav = f.trav, g.left = f.left,
         f.pc = "fire", g.pc \in {"fire", "move"}
  PROVE  Steady(ch, g)
  BY DEF Steady, Counted, Descends, Arrived, Covered

\* What the running frame lies under it still does when it has not moved.
LEMMA UnderStays ==
  ASSUME NEW ch, NEW f, NEW g, NEW h, Under(ch, f, g), h.k = g.k, h.k \in {"emit", "broadcast"},
         h.trav = g.trav
  PROVE  Under(ch, f, h)
  BY DEF Under

LEMMA BeginTurnNests ==
  ASSUME BInv, BeginTurn
  PROVE  BNext
  <1>1. stack' = <<UserFrame("turn", Null)>> /\ UNCHANGED <<born, parent, children>>
    BY DEF BeginTurn, tree
  <1>2. PICK f, st : f = UserFrame("turn", Null) /\ st = <<f>>
    OBVIOUS
  <1>3. f.k = "user" /\ f.at = "turn"
    BY <1>2, FrameShapes
  <1>4. Len(st) = 1 /\ st[1] = f
    BY <1>2
  <1>5. Nested(children, st)
    BY <1>3, <1>4 DEF Nested, Steady, Called
  <1> QED BY <1>1, <1>2, <1>5, TreeStays DEF BInv, BNext

LEMMA OwedNests ==
  ASSUME BInv, UNCHANGED <<born, parent, children>>, NEW a, NEW more, NEW less,
         Owed(stack', a, more, less)
  PROVE  BNext
  <1>1. PICK st : st = stack'
    OBVIOUS
  <1>2. Len(st) = Len(stack) /\ \A j \in 1 .. Len(stack) : Alike(st[j], stack[j])
    BY <1>1 DEF Owed, Alike
  <1>3. Len(stack) \in Nat
    BY StackFacts DEF BInv
  <1>4. Nested(children, st)
    BY <1>2, <1>3, NestedAlike DEF BInv
  <1> QED BY <1>1, <1>4, TreeStays DEF BInv, BNext

LEMMA OnNests ==
  ASSUME BInv, NEW s \in Scopes, NEW n \in Names, NEW l \in Listeners, On(s, n, l)
  PROVE  BNext
  <1>1. PICK arr : stack' = Owing(arr, {l}, {})
    BY DEF On
  <1>2. Owed(stack', arr, {l}, {})
    BY <1>1, OwingFacts DEF BInv
  <1> QED BY <1>2, OwedNests DEF On, tree

LEMMA OffNests ==
  ASSUME BInv, NEW l \in Listeners, Off(l)
  PROVE  BNext
  <1>1. Owed(stack', held[l], {}, {l})
    BY OwingFacts DEF BInv, Off
  <1> QED BY <1>1, OwedNests DEF Off, tree

LEMMA StopPropagationNests ==
  ASSUME BInv, StopPropagation
  PROVE  BNext
  <1>1. stack' = [stack EXCEPT ![Len(stack) - 1].stop = TRUE] /\ UNCHANGED <<born, parent, children>>
    BY DEF StopPropagation, tree
  <1>2. /\ Len(stack) \in Nat /\ DOMAIN stack = 1 .. Len(stack)
        /\ \A j \in 1 .. Len(stack) : stack[j] \in Frames
    BY StackFacts DEF BInv
  <1>3. PICK st : st = stack'
    OBVIOUS
  <1>4. /\ DOMAIN st = 1 .. Len(stack)
        /\ \A j \in 1 .. Len(stack) : st[j] = stack[j] \/ st[j] = [stack[j] EXCEPT !.stop = TRUE]
    BY <1>1, <1>2, <1>3
  <1>5. stack' \in Seq(Frames)
    BY EventAssumption, StopPropagationKeeps DEF BInv, IInv, TypeOK
  <1>6. Len(st) \in Nat /\ DOMAIN st = 1 .. Len(st)
    BY <1>3, <1>5
  <1>7. Len(st) = Len(stack)
    <2>1. PICK a \in Nat, b \in Nat : a = Len(st) /\ b = Len(stack)
      BY <1>2, <1>6
    <2>2. \A i \in Nat : i \in 1 .. a <=> i \in 1 .. b
      BY <1>4, <1>6, <2>1
    <2>3. ~(a < b) /\ ~(b < a)
      BY <2>2
    <2> QED BY <2>1, <2>3
  <1>8. ASSUME NEW j \in 1 .. Len(stack) PROVE Alike(st[j], stack[j])
    <2>1. PICK f \in Frames : f = stack[j] /\ (st[j] = f \/ st[j] = [f EXCEPT !.stop = TRUE])
      BY <1>2, <1>4
    <2>2. Alike([f EXCEPT !.stop = TRUE], f) /\ Alike(f, f)
      BY DEF Alike, Frames
    <2> QED BY <2>1, <2>2
  <1>9. Nested(children, st)
    BY <1>2, <1>7, <1>8, NestedAlike DEF BInv
  <1> QED BY <1>1, <1>3, <1>9, TreeStays DEF BInv, BNext

LEMMA PopNests ==
  ASSUME BInv, UNCHANGED <<born, parent, children>>, stack # <<>>, stack' = Popped
  PROVE  BNext
  <1>1. Nested(children, Popped)
    BY NestedPop DEF BInv
  <1> QED BY <1>1, TreeStays DEF BInv, BNext

LEMMA DoneNests ==
  ASSUME BInv, Return \/ EmitDone \/ BroadcastDone
  PROVE  BNext
  BY PopNests DEF Return, EmitDone, BroadcastDone, At, tree

LEMMA EmitNests ==
  ASSUME Gentle, BInv, NEW s \in Scopes, NEW n \in Fired, Emit(s, n)
  PROVE  BNext
  <1>1. /\ stack # <<>> /\ Top.k = "user" /\ "emit" \in Ops[Top.at]
        /\ stack' = Append(stack, EmitFrame(s, n)) /\ UNCHANGED <<born, parent, children>>
    BY MayFacts DEF Emit, BInv, tree
  <1>2. Top.at # "broadcast"
    BY <1>1 DEF Gentle
  <1>3. \A j \in 1 .. Len(stack) : stack[j].k \notin {"broadcast", "destroy"}
    BY <1>1, <1>2, Alone DEF BInv
  <1>4. PICK f \in Frames : f = EmitFrame(s, n)
    BY EventAssumption, FrameTypes DEF EventAssumption
  <1>5. f.k = "emit"
    BY <1>4, FrameShapes
  <1>6. Steady(children, f) /\ \A j \in 1 .. Len(stack) : Under(children, stack[j], f)
    BY <1>3, <1>5 DEF Steady, Under
  <1>7. Nested(children, Append(stack, f))
    BY <1>5, <1>6, NestedCall DEF BInv
  <1> QED BY <1>1, <1>4, <1>7, TreeStays DEF BInv, BNext

\* A broadcast that begins has everything below its origin ahead of it.
LEMMA FreshSteady ==
  ASSUME IInv, NEW s \in Scopes, NEW n, NEW f, f = BroadcastFrame(s, n)
  PROVE  /\ Steady(children, f)
         /\ \A m \in 1 .. Len(f.trav) : f.trav[m].s = s
  <1>1. /\ f.k = "broadcast" /\ f.pc = "visit" /\ f.s = s /\ f.trav = <<Activation(s)>>
        /\ f.left = Reach(children, s)
    BY FrameShapes, SubtreeIsReach
  <1>2. PICK a : a = Activation(s)
    OBVIOUS
  <1>3. a.i = 0 /\ a.s = s
    BY <1>2 DEF Activation
  <1>4. Len(f.trav) = 1 /\ f.trav[1] = a /\ f.trav # <<>>
    BY <1>1, <1>2
  <1>5. ASSUME NEW x \in f.left PROVE x = s \/ Awaits(children, a, x)
    <2>1. children \in Trees
      BY DEF IInv, TypeOK, Trees
    <2>2. CASE x # s
      <3>1. PICK i \in DOMAIN children[s] : x \in Reach(children, children[s][i])
        BY <1>1, <1>5, <2>1, <2>2, ReachSplit
      <3>2. children[s][i] \in KidsIn(children, s)
        BY DEF KidsIn
      <3> QED BY <1>3, <3>1, <3>2 DEF Awaits
    <2> QED BY <2>2
  <1>6. Covered(children, f)
    BY <1>1, <1>4, <1>5 DEF Covered
  <1>7. Counted(children, f) /\ Descends(children, f) /\ Arrived(f)
    BY <1>1, <1>3, <1>4 DEF Counted, Descends, Arrived
  <1> QED BY <1>3, <1>4, <1>6, <1>7 DEF Steady

LEMMA BroadcastNests ==
  ASSUME Gentle, BInv, NEW s \in Scopes, NEW n \in Fired, Broadcast(s, n)
  PROVE  BNext
  <1>1. /\ stack # <<>> /\ Top.k = "user" /\ "broadcast" \in Ops[Top.at]
        /\ stack' = Append(stack, BroadcastFrame(s, n)) /\ UNCHANGED <<born, parent, children>>
    BY MayFacts DEF Broadcast, BInv, tree
  <1>2. Top.at # "broadcast"
    BY <1>1 DEF Gentle
  <1>3. \A j \in 1 .. Len(stack) : stack[j].k \notin {"broadcast", "destroy"}
    BY <1>1, <1>2, Alone DEF BInv
  <1>4. PICK f \in Frames : f = BroadcastFrame(s, n)
    BY EventAssumption, FrameTypes DEF EventAssumption
  <1>5. f.k = "broadcast" /\ Steady(children, f)
    BY <1>4, FrameShapes, FreshSteady DEF BInv
  <1>6. \A j \in 1 .. Len(stack) : Under(children, stack[j], f)
    BY <1>3 DEF Under
  <1>7. Nested(children, Append(stack, f))
    BY <1>5, <1>6, NestedCall DEF BInv
  <1> QED BY <1>1, <1>4, <1>7, TreeStays DEF BInv, BNext

\* A scope that user code destroys is below those that calls in progress hold.
LEMMA DestroysBelow ==
  ASSUME Gentle, BInv, NEW s \in Scopes, Destroy(s)
  PROVE  \A j \in 1 .. Len(stack) :
           stack[j].k \in {"broadcast", "destroy"} =>
             /\ stack[j].k = "broadcast" => stack[j].pc = "fire"
             /\ s \in Below(children, stack[j].s)
  <1>1. stack # <<>> /\ Top.k = "user"
    BY MayFacts DEF Destroy, BInv
  <1>2. CASE Top.at # "broadcast"
    BY <1>1, <1>2, Alone DEF BInv
  <1>3. CASE Top.at = "broadcast"
    <2>1. ~May("destroy")
      BY <1>3 DEF May, Gentle
    <2>2. s \in Below(children, Current)
      BY <2>1, SubtreeIsReach DEF Destroy, Below
    <2>3. /\ Called(stack, Len(stack)) /\ Len(stack) \in Nat \ {0}
          /\ \A j \in 1 .. Len(stack) - 1 : Under(children, stack[j], Top)
      BY <1>1, TopNests, TopFacts DEF BInv
    <2>4. Len(stack) > 1 /\ stack[Len(stack) - 1].k = "broadcast"
      BY <1>1, <1>3, <2>3 DEF Called, Top
    <2>5. PICK i \in 1 .. Len(stack), c \in Frames : i = Len(stack) - 1 /\ c = stack[i]
      <3>1. Len(stack) - 1 \in 1 .. Len(stack)
        BY <2>3, <2>4
      <3>2. stack[Len(stack) - 1] \in Frames
        BY <3>1, StackFacts DEF BInv
      <3> QED BY <3>1, <3>2
    <2>6. c.k = "broadcast" /\ c.pc = "fire" /\ c.s \in Scopes /\ Current = c.s
      <3>1. i \in 1 .. Len(stack) - 1
        BY <2>3, <2>5
      <3>2. Under(children, c, Top) /\ c.k = "broadcast"
        BY <2>3, <2>4, <2>5, <3>1
      <3> QED BY <2>5, <3>2 DEF Under, Frames, Current
    <2>7. Len(c.trav) \in 1 .. Len(c.trav) /\ c.trav[Len(c.trav)].s = c.s
      <3>1. Steady(children, c)
        BY <2>5 DEF BInv, Nested
      <3>2. c.trav # <<>> /\ c.trav[Len(c.trav)].s = c.s
        BY <2>6, <3>1 DEF Steady, Arrived
      <3>3. c.trav \in Seq(Activations)
        BY DEF Frames, Activations
      <3>4. Len(c.trav) \in Nat \ {0}
        BY <3>2, <3>3, EmptySeq
      <3> QED BY <3>2, <3>4
    <2>8. children \in Trees /\ Acyclic(children)
      BY DEF BInv, IInv, TypeOK, Trees, Planted
    <2>9. ASSUME NEW j \in 1 .. Len(stack), stack[j].k \in {"broadcast", "destroy"}
          PROVE  /\ stack[j].k = "broadcast" => stack[j].pc = "fire"
                 /\ s \in Below(children, stack[j].s)
      <3>1. j # Len(stack)
        BY <1>1, <2>9 DEF Top
      <3>2. CASE j = i
        BY <2>2, <2>5, <2>6, <3>2
      <3>3. CASE j < i
        <4>1. PICK f \in Frames : f = stack[j]
          BY StackFacts DEF BInv
        <4>2. Under(children, f, c)
          BY <2>5, <3>3, <4>1 DEF BInv, Nested
        <4>3. (f.k = "broadcast" => f.pc = "fire") /\ c.s \in Reach(children, f.s) /\ f.s \in Scopes
          <5>1. \A m \in 1 .. Len(c.trav) : c.trav[m].s \in Reach(children, f.s)
            BY <2>6, <2>9, <4>1, <4>2 DEF Under
          <5> QED BY <2>7, <2>9, <4>1, <4>2, <5>1 DEF Under, Frames
        <4>4. s \in Reach(children, f.s)
          <5>1. s \in Reach(children, c.s)
            BY <2>2, <2>6 DEF Below
          <5> QED BY <2>8, <4>3, <5>1, ReachTrans
        <4>5. s # f.s
          <5>1. c.s \notin Reach(children, s)
            BY <2>2, <2>6, <2>8, NoLoop
          <5> QED BY <4>3, <5>1
        <4> QED BY <4>1, <4>3, <4>4, <4>5 DEF Below
      <3>4. j = i \/ j < i
        BY <2>3, <2>5, <3>1
      <3> QED BY <3>2, <3>3, <3>4
    <2> QED BY <2>9
  <1> QED BY <1>2, <1>3

LEMMA DestroyNests ==
  ASSUME Gentle, BInv, NEW s \in Scopes, Destroy(s)
  PROVE  BNext
  <1>1. "$destroy" \in Names /\ stack' = stack \o <<DestroyFrame(s), BroadcastFrame(s, "$destroy")>>
    BY EventAssumption DEF Destroy, EventAssumption
  <1>2. PICK d \in Frames, b \in Frames : d = DestroyFrame(s) /\ b = BroadcastFrame(s, "$destroy")
    BY <1>1, EventAssumption, FrameTypes
  <1>3. /\ d.k = "destroy" /\ d.s = s /\ b.k = "broadcast"
        /\ Steady(children, b) /\ \A m \in 1 .. Len(b.trav) : b.trav[m].s = s
    BY <1>2, FrameShapes, FreshSteady DEF BInv
  <1>4. ASSUME NEW j \in 1 .. Len(stack)
        PROVE  Under(children, stack[j], d) /\ Under(children, stack[j], b)
    <2>1. stack[j].k \in {"broadcast", "destroy"} =>
            /\ stack[j].k = "broadcast" => stack[j].pc = "fire"
            /\ s \in Below(children, stack[j].s)
      BY DestroysBelow
    <2> QED BY <1>3, <2>1 DEF Under, Below
  <1>5. Under(children, d, b)
    <2>1. s \in Reach(children, s)
      BY ReachFacts DEF BInv, IInv, TypeOK, Trees
    <2> QED BY <1>3, <2>1 DEF Under
  <1>6. PICK st : st = Append(stack, d)
    OBVIOUS
  <1>7. Nested(children, st)
    BY <1>3, <1>4, <1>6, NestedCall DEF BInv, Steady
  <1>8. /\ Len(stack) \in Nat /\ Len(st) = Len(stack) + 1 /\ st[Len(stack) + 1] = d
        /\ \A j \in 1 .. Len(stack) : st[j] = stack[j]
    BY <1>6, StackFacts, Pushed DEF BInv, IInv
  <1>9. PICK st2 : st2 = stack \o <<d, b>>
    OBVIOUS
  <1>10. /\ Len(st2) = Len(st) + 1 /\ st2[Len(st) + 1] = b
         /\ \A j \in 1 .. Len(st) : st2[j] = st[j]
    <2>1. stack \in Seq(Frames) /\ <<d, b>> \in Seq(Frames)
      BY StackFacts DEF BInv
    <2>2. /\ Len(st2) = Len(stack) + 2
          /\ \A j \in 1 .. Len(stack) : st2[j] = stack[j]
          /\ \A j \in 1 .. 2 : st2[Len(stack) + j] = <<d, b>>[j]
      BY <1>9, <2>1, ConcatFacts
    <2>3. st2[Len(stack) + 1] = d /\ st2[Len(stack) + 2] = b
      BY <2>2
    <2>4. Len(st) + 1 = Len(stack) + 2
      BY <1>8
    <2>5. ASSUME NEW j \in 1 .. Len(st) PROVE st2[j] = st[j]
      <3>1. j \in 1 .. Len(stack) \/ j = Len(stack) + 1
        BY <1>8
      <3> QED BY <1>8, <2>2, <2>3, <3>1
    <2> QED BY <2>2, <2>3, <2>4, <2>5
  <1>11. ASSUME NEW j \in 1 .. Len(st) PROVE Under(children, st[j], b)
    <2>1. j \in 1 .. Len(stack) \/ j = Len(stack) + 1
      BY <1>8
    <2> QED BY <1>4, <1>5, <1>8, <2>1
  <1>12. Called(st2, Len(st) + 1)
    BY <1>3, <1>10 DEF Called
  <1>13. Nested(children, st2)
    <2>1. Len(st) \in Nat
      BY <1>8
    <2> QED BY <1>3, <1>7, <1>10, <1>11, <1>12, <2>1, NestedPush
  <1> QED BY <1>1, <1>2, <1>9, <1>13, TreeStays DEF BInv, BNext, Destroy, tree

LEMMA EmitUpNests ==
  ASSUME BInv, EmitUp
  PROVE  BNext
  <1>1. /\ stack # <<>> /\ Top.k = "emit" /\ parent[Top.s] # Null
        /\ stack' = With([Top EXCEPT !.s = parent[Top.s], !.pc = "visit"])
        /\ UNCHANGED <<born, parent, children>>
    BY DEF EmitUp, At, tree
  <1>2. PICK t \in Frames : t = Top
    BY <1>1, TopFacts DEF BInv, IInv
  <1>3. PICK s \in Scopes : s = parent[Top.s]
    BY <1>1, <1>2 DEF BInv, IInv, TypeOK, Frames
  <1>4. PICK f : f = [t EXCEPT !.s = s, !.pc = "visit"]
    OBVIOUS
  <1>5. f \in Frames /\ f.k = "emit"
    BY <1>1, <1>2, <1>4 DEF Frames
  <1>6. \A j \in 1 .. Len(stack) - 1 : Under(children, stack[j], f)
    <2>1. \A j \in 1 .. Len(stack) - 1 : Under(children, stack[j], Top)
      BY <1>1, TopNests DEF BInv
    <2> QED BY <1>1, <2>1 DEF Under
  <1>7. Nested(children, With(f))
    BY <1>1, <1>5, <1>6, NestedWith DEF BInv, Steady
  <1> QED BY <1>1, <1>2, <1>3, <1>4, <1>7, TreeStays DEF BInv, BNext

-----------------------------------------------------------------------------
(* The loop over listeners                                                  *)

LEMMA WithFrame ==
  ASSUME IInv, IInv', stack # <<>>, NEW f, stack' = With(f)
  PROVE  f \in Frames
  <1>1. Len(stack) \in DOMAIN stack /\ stack' = [stack EXCEPT ![Len(stack)] = f]
    BY TopFacts DEF IInv, With
  <1>2. stack'[Len(stack)] = f /\ Len(stack) \in DOMAIN stack'
    BY <1>1
  <1>3. stack' \in Seq(Frames)
    BY DEF IInv, TypeOK
  <1> QED BY <1>2, <1>3

\* The frame of an event makes a turn and stays where it is.
LEMMA TurnNests ==
  ASSUME BInv, IInv', stack # <<>>, Top.k \in {"emit", "broadcast"},
         UNCHANGED <<born, parent, children>>, NEW f, f.k = Top.k, f.trav = Top.trav,
         Steady(children, f), stack' = With(f)
  PROVE  BNext
  <1>1. f \in Frames
    BY WithFrame DEF BInv
  <1>2. \A j \in 1 .. Len(stack) - 1 : Under(children, stack[j], f)
    <2>1. \A j \in 1 .. Len(stack) - 1 : Under(children, stack[j], Top)
      BY TopNests DEF BInv
    <2> QED BY <2>1, UnderStays
  <1>3. Nested(children, With(f))
    BY <1>1, <1>2, NestedWith DEF BInv
  <1> QED BY <1>3, TreeStays DEF BInv, BNext

LEMMA VisitNests ==
  ASSUME BInv, IInv', Visit
  PROVE  BNext
  <1>1. PICK arr, owed, pc :
          /\ pc \in {"fire", "move"}
          /\ stack' = With([Top EXCEPT !.left = @ \ {Top.s}, !.arr = arr, !.i = 1, !.pc = pc,
                                       !.owed = owed])
    <2>1. PICK arr : arr = registry[Top.s][Top.n]
      OBVIOUS
    <2>2. PICK owed, pc : /\ pc = IF arr = 0 THEN "move" ELSE "fire"
                          /\ owed = IF arr = 0 THEN {} ELSE NonNull(heap[arr])
      OBVIOUS
    <2>3. pc \in {"fire", "move"}
      BY <2>2
    <2>4. stack' = With([Top EXCEPT !.left = @ \ {Top.s}, !.arr = arr, !.i = 1, !.pc = pc,
                                    !.owed = owed])
      BY <2>1, <2>2 DEF Visit
    <2> QED BY <2>3, <2>4
  <1>2. stack # <<>> /\ Top.pc = "visit" /\ UNCHANGED <<born, parent, children>>
    BY DEF Visit, At, tree
  <1>3. PICK t \in Frames : t = Top
    BY <1>2, TopFacts DEF BInv, IInv
  <1>4. PICK f : f = [t EXCEPT !.left = t.left \ {t.s}, !.arr = arr, !.i = 1, !.pc = pc, !.owed = owed]
    OBVIOUS
  <1>5. /\ f.k = t.k /\ f.s = t.s /\ f.trav = t.trav /\ f.left = t.left \ {t.s}
        /\ f.pc \in {"fire", "move"}
    BY <1>1, <1>4 DEF Frames
  <1>6. t.k \in {"emit", "broadcast"}
    <2>1. Sound(t, heap)
      BY <1>2, <1>3, TopFacts, StackFacts DEF BInv, IInv, Top
    <2> QED BY <1>2, <1>3, <2>1 DEF Sound, Frames
  <1>7. Steady(children, f)
    <2>1. Steady(children, t)
      BY <1>2, <1>3, TopNests DEF BInv
    <2>2. t.pc = "visit"
      BY <1>2, <1>3
    <2> QED BY <1>5, <2>1, <2>2 DEF Steady, Counted, Descends, Arrived, Covered
  <1>8. stack' = With(f)
    BY <1>1, <1>3, <1>4
  <1> QED BY <1>2, <1>3, <1>5, <1>6, <1>7, <1>8, TurnNests

LEMMA EmptySlotNests ==
  ASSUME BInv, IInv', EmptySlot
  PROVE  BNext
  <1>1. /\ stack # <<>> /\ Top.pc = "fire" /\ Firing /\ stack' = With([Top EXCEPT !.i = @ + 1])
        /\ UNCHANGED <<born, parent, children>>
    BY DEF EmptySlot, Firing, At, tree
  <1>2. PICK t \in Frames : t = Top /\ t.k \in {"emit", "broadcast"} /\ t.pc = "fire"
    BY <1>1, FiringFacts DEF BInv
  <1>3. PICK f : f = [t EXCEPT !.i = t.i + 1]
    OBVIOUS
  <1>4. f.k = t.k /\ f.s = t.s /\ f.trav = t.trav /\ f.left = t.left /\ f.pc = "fire"
    BY <1>2, <1>3 DEF Frames
  <1>5. Steady(children, f)
    <2>1. Steady(children, t)
      BY <1>1, <1>2, TopNests DEF BInv
    <2> QED BY <1>2, <1>4, <2>1, SteadyTurn
  <1>6. stack' = With(f)
    BY <1>1, <1>2, <1>3
  <1> QED BY <1>1, <1>2, <1>4, <1>5, <1>6, TurnNests

LEMMA CompactNests ==
  ASSUME BInv, IInv', Compact
  PROVE  BNext
  <1>1. /\ stack # <<>> /\ Top.pc = "fire" /\ Firing /\ stack' = With([Top EXCEPT !.pc = "move"])
        /\ UNCHANGED <<born, parent, children>>
    BY DEF Compact, Firing, At, tree
  <1>2. PICK t \in Frames : t = Top /\ t.k \in {"emit", "broadcast"} /\ t.pc = "fire"
    BY <1>1, FiringFacts DEF BInv
  <1>3. PICK f : f = [t EXCEPT !.pc = "move"]
    OBVIOUS
  <1>4. f.k = t.k /\ f.s = t.s /\ f.trav = t.trav /\ f.left = t.left /\ f.pc = "move"
    BY <1>2, <1>3 DEF Frames
  <1>5. Steady(children, f)
    <2>1. Steady(children, t)
      BY <1>1, <1>2, TopNests DEF BInv
    <2> QED BY <1>2, <1>4, <2>1, SteadyTurn
  <1>6. stack' = With(f)
    BY <1>1, <1>2, <1>3
  <1> QED BY <1>1, <1>2, <1>4, <1>5, <1>6, TurnNests

LEMMA CallListenerNests ==
  ASSUME BInv, CallListener
  PROVE  BNext
  <1>1. PICK f, u : f = [Top EXCEPT !.i = @ + 1, !.owed = Top.owed \ {Slot}] /\ u = UserFrame(Top.k, Slot)
    OBVIOUS
  <1>2. /\ Firing /\ Top.i <= Len(heap[Top.arr]) /\ stack # <<>> /\ Top.pc = "fire"
        /\ stack' = Append(With(f), u) /\ UNCHANGED <<born, parent, children>>
    BY <1>1 DEF CallListener, Firing, At, tree
  <1>3. f \in Frames
    BY <1>1, <1>2, TurnFacts DEF BInv
  <1>4. PICK t \in Frames : t = Top /\ t.k \in {"emit", "broadcast"} /\ t.pc = "fire"
    BY <1>2, FiringFacts DEF BInv
  <1>5. f.k = t.k /\ f.s = t.s /\ f.trav = t.trav /\ f.left = t.left /\ f.pc = "fire"
    BY <1>1, <1>4 DEF Frames
  <1>6. Steady(children, f)
    <2>1. Steady(children, t)
      BY <1>2, <1>4, TopNests DEF BInv
    <2> QED BY <1>4, <1>5, <2>1, SteadyTurn
  <1>7. \A j \in 1 .. Len(stack) - 1 : Under(children, stack[j], Top)
    BY <1>2, TopNests DEF BInv
  <1>8. PICK st : st = With(f)
    OBVIOUS
  <1>9. Nested(children, st)
    <2>1. \A j \in 1 .. Len(stack) - 1 : Under(children, stack[j], f)
      BY <1>4, <1>5, <1>7, UnderStays
    <2> QED BY <1>2, <1>3, <1>4, <1>5, <1>6, <1>8, <2>1, NestedWith DEF BInv
  <1>10. u \in Frames /\ u.k = "user" /\ u.at = t.k
    <2>1. Slot \in Listeners \cup {Null} /\ t.k \in Contexts
      BY <1>2, <1>4, FiringFacts DEF BInv, Contexts
    <2> QED BY <1>1, <1>4, <2>1, EventAssumption, FrameTypes, FrameShapes
  <1>11. /\ Len(stack) \in Nat \ {0} /\ st \in Seq(Frames) /\ Len(st) = Len(stack)
         /\ st[Len(stack)] = f /\ \A j \in 1 .. Len(stack) - 1 : st[j] = stack[j]
    BY <1>2, <1>3, <1>8, TopFacts DEF BInv, IInv
  <1>12. PICK st2 : st2 = Append(st, u)
    OBVIOUS
  <1>13. /\ Len(st2) = Len(st) + 1 /\ st2[Len(st) + 1] = u
         /\ \A j \in 1 .. Len(st) : st2[j] = st[j]
    BY <1>10, <1>11, <1>12, AppendFacts
  <1>14. ASSUME NEW j \in 1 .. Len(st) PROVE Under(children, st[j], u)
    <2>1. CASE j \in 1 .. Len(stack) - 1
      <3>1. PICK g : g = st[j]
        OBVIOUS
      <3>2. Under(children, g, t)
        BY <1>4, <1>7, <1>11, <2>1, <3>1
      <3>3. g.k \in {"broadcast", "destroy"} => t.k = "broadcast" /\ (g.k = "broadcast" => g.pc = "fire")
        BY <1>4, <3>2 DEF Under
      <3>4. Under(children, g, u)
        BY <1>10, <3>3 DEF Under
      <3> QED BY <3>1, <3>4
    <2>2. CASE j = Len(stack)
      BY <1>4, <1>5, <1>10, <1>11, <2>2 DEF Under
    <2> QED BY <1>11, <2>1, <2>2
  <1>15. Called(st2, Len(st) + 1)
    <2>1. Len(st) \in 1 .. Len(st) /\ (Len(st) + 1) - 1 = Len(st) /\ Len(st) + 1 > 1
      BY <1>11
    <2>2. st2[Len(st)] = f
      BY <1>11, <1>13, <2>1
    <2> QED BY <1>5, <1>10, <1>13, <2>1, <2>2 DEF Called
  <1>16. Nested(children, st2)
    <2>1. Len(st) \in Nat /\ Steady(children, u)
      BY <1>10, <1>11 DEF Steady
    <2> QED BY <1>9, <1>13, <1>14, <1>15, <2>1, NestedPush
  <1> QED BY <1>2, <1>8, <1>12, <1>16, TreeStays DEF BInv, BNext

-----------------------------------------------------------------------------
(* A broadcast moves on                                                     *)

\* What the activation a awaits is below the children from the next on; b is a
\* at the next one.
LEMMA NextAwaits ==
  ASSUME NEW ch \in Trees, NEW a \in Activations, a.i > 0 => a.n <= Len(ch[a.s]), NEW b,
         b.i = a.i + 1, b.n = IF a.i = 0 THEN Len(ch[a.s]) ELSE a.n
  PROVE  /\ a.s \in Scopes /\ ch[a.s] \in Seq(Scopes) /\ Len(ch[a.s]) \in Nat
         /\ b.i \in Nat \ {0} /\ b.n \in Nat /\ b.n <= Len(ch[a.s])
         /\ \A x : Awaits(ch, a, x) => \E q \in b.i .. b.n : x \in Reach(ch, ch[a.s][q])
  <1>1. a.s \in Scopes /\ ch[a.s] \in Seq(Scopes) /\ Len(ch[a.s]) \in Nat /\ a.i \in Nat /\ a.n \in Nat
    BY DEF Activations, Trees
  <1>2. b.i \in Nat \ {0} /\ b.n \in Nat /\ b.n <= Len(ch[a.s])
    BY <1>1
  <1>3. ASSUME NEW x, Awaits(ch, a, x) PROVE \E q \in b.i .. b.n : x \in Reach(ch, ch[a.s][q])
    <2>1. CASE a.i = 0
      <3>1. PICK q \in DOMAIN ch[a.s] : x \in Reach(ch, ch[a.s][q])
        BY <1>3, <2>1 DEF Awaits, KidsIn
      <3>2. q \in 1 .. Len(ch[a.s]) /\ b.i = 1 /\ b.n = Len(ch[a.s])
        BY <1>1, <2>1
      <3> QED BY <3>1, <3>2
    <2>2. CASE a.i # 0
      <3>1. b.n = a.n /\ b.i = a.i + 1
        BY <2>2
      <3> QED BY <1>3, <2>2, <3>1 DEF Awaits
    <2> QED BY <2>1, <2>2
  <1> QED BY <1>1, <1>2, <1>3

\* The child that an activation is at is a scope.
LEMMA ChildFacts ==
  ASSUME NEW ch \in Trees, NEW f, f.trav \in Seq(Activations), Counted(ch, f),
         NEW m \in 1 .. Len(f.trav), f.trav[m].i > 0
  PROVE  /\ f.trav[m].s \in Scopes /\ f.trav[m].i \in DOMAIN ch[f.trav[m].s]
         /\ ch[f.trav[m].s][f.trav[m].i] \in KidsIn(ch, f.trav[m].s)
         /\ ch[f.trav[m].s][f.trav[m].i] \in Scopes
  <1>1. PICK a \in Activations : a = f.trav[m]
    OBVIOUS
  <1>2. a.i <= a.n /\ a.n <= Len(ch[a.s])
    BY <1>1 DEF Counted
  <1>3. /\ a.s \in Scopes /\ ch[a.s] \in Seq(Scopes) /\ Len(ch[a.s]) \in Nat
        /\ a.i \in Nat /\ a.n \in Nat
    BY DEF Activations, Trees
  <1>4. DOMAIN ch[a.s] = 1 .. Len(ch[a.s])
    BY <1>3
  <1>5. a.i \in 1 .. Len(ch[a.s])
    BY <1>1, <1>2, <1>3
  <1>6. ch[a.s][a.i] \in Scopes /\ ch[a.s][a.i] \in KidsIn(ch, a.s)
    BY <1>3, <1>4, <1>5 DEF KidsIn
  <1> QED BY <1>1, <1>3, <1>4, <1>5, <1>6

\* A broadcast t, in activation a, takes the next child c: it becomes f.
Entered(ch, t, L, a, b, c, e, f) ==
  /\ t.k = "broadcast" /\ t.pc = "move" /\ t.trav \in Seq(Activations) /\ Steady(ch, t)
  /\ L \in Nat \ {0} /\ L = Len(t.trav) /\ a \in Activations /\ a = t.trav[L]
  /\ b.s = a.s /\ b.i = a.i + 1 /\ b.n = IF a.i = 0 THEN Len(ch[a.s]) ELSE a.n
  /\ b.i <= b.n /\ c = ch[a.s][b.i] /\ e.s = c /\ e.i = 0
  /\ f.k = "broadcast" /\ f.pc = "visit" /\ f.s = c /\ f.left = t.left
  /\ Len(f.trav) = L + 1 /\ f.trav[L] = b /\ f.trav[L + 1] = e
  /\ \A m \in 1 .. L - 1 : f.trav[m] = t.trav[m]

LEMMA EnterSteady ==
  ASSUME NEW ch \in Trees, NEW t, NEW L, NEW a, NEW b, NEW c, NEW e, NEW f,
         Entered(ch, t, L, a, b, c, e, f)
  PROVE  Steady(ch, f) /\ a.s \in Scopes /\ c \in KidsIn(ch, a.s)
  <1> USE DEF Entered
  <1>1. Counted(ch, t) /\ Descends(ch, t) /\ Covered(ch, t)
    BY DEF Steady
  <1>2. a.i > 0 => a.n <= Len(ch[a.s])
    <2>1. L \in 1 .. Len(t.trav)
      OBVIOUS
    <2> QED BY <1>1, <2>1 DEF Counted
  <1>3. /\ a.s \in Scopes /\ ch[a.s] \in Seq(Scopes) /\ Len(ch[a.s]) \in Nat
        /\ b.i \in Nat \ {0} /\ b.n \in Nat /\ b.n <= Len(ch[a.s])
        /\ \A x : Awaits(ch, a, x) => \E q \in b.i .. b.n : x \in Reach(ch, ch[a.s][q])
    BY <1>2, NextAwaits
  <1>4. c \in KidsIn(ch, a.s) /\ c \in Scopes
    <2>1. PICK kids \in Seq(Scopes), i \in Nat \ {0} : kids = ch[a.s] /\ i = b.i
      BY <1>3
    <2>2. i <= Len(kids) /\ c = kids[i]
      <3>1. i <= b.n /\ b.n <= Len(kids) /\ b.n \in Nat /\ Len(kids) \in Nat
        BY <1>3, <2>1
      <3> QED BY <2>1, <3>1
    <2>3. i \in DOMAIN kids /\ kids[i] \in Scopes
      BY <2>2
    <2> QED BY <2>1, <2>2, <2>3 DEF KidsIn
  <1>5. /\ \A m \in 1 .. L + 1 : m \in 1 .. L - 1 \/ m = L \/ m = L + 1
        /\ \A m \in 1 .. L - 1 : m \in 1 .. L /\ m \in 1 .. L + 1 /\ m < L
        /\ L \in 1 .. L /\ L \in 1 .. L + 1 /\ L + 1 \in 1 .. L + 1
    OBVIOUS
  <1>6. Arrived(f)
    <2>1. f.trav # <<>>
      <3>1. Len(f.trav) # 0
        OBVIOUS
      <3> QED BY <3>1
    <2> QED BY <2>1 DEF Arrived
  <1>7. Counted(ch, f)
    <2>1. ASSUME NEW m \in 1 .. L + 1, f.trav[m].i > 0
          PROVE  f.trav[m].i <= f.trav[m].n /\ f.trav[m].n <= Len(ch[f.trav[m].s])
      <3>1. CASE m \in 1 .. L - 1
        BY <1>1, <1>5, <2>1, <3>1 DEF Counted
      <3>2. CASE m = L
        BY <1>3, <3>2
      <3>3. CASE m = L + 1
        BY <2>1, <3>3
      <3> QED BY <1>5, <3>1, <3>2, <3>3
    <2> QED BY <2>1 DEF Counted
  <1>8. Descends(ch, f)
    <2>1. ASSUME NEW m \in 1 .. L + 1, NEW q \in 1 .. L + 1, m < q
          PROVE  /\ f.trav[m].i > 0
                 /\ f.trav[q].s \in Reach(ch, ch[f.trav[m].s][f.trav[m].i])
      <3>1. CASE m \in 1 .. L - 1
        <4>1. /\ t.trav[m].i > 0 /\ f.trav[m] = t.trav[m]
              /\ \A p \in 1 .. L : m < p => t.trav[p].s \in Reach(ch, ch[t.trav[m].s][t.trav[m].i])
          BY <1>1, <1>5, <3>1 DEF Descends
        <4>2. CASE q \in 1 .. L - 1
          BY <1>5, <2>1, <4>1, <4>2
        <4>3. a.s \in Reach(ch, ch[t.trav[m].s][t.trav[m].i])
          BY <1>5, <3>1, <4>1
        <4>4. CASE q = L
          BY <4>1, <4>3, <4>4
        <4>5. CASE q = L + 1
          <5>1. PICK d \in Scopes : d = ch[t.trav[m].s][t.trav[m].i]
            <6>1. m \in 1 .. Len(t.trav)
              BY <1>5, <3>1
            <6> QED BY <1>1, <4>1, <6>1, ChildFacts
          <5>2. c \in Reach(ch, d)
            BY <1>4, <4>3, <5>1, ReachFacts
          <5> QED BY <4>1, <4>5, <5>1, <5>2
        <4> QED BY <1>5, <4>2, <4>4, <4>5
      <3>2. CASE m = L
        <4>1. q = L + 1
          BY <1>5, <2>1, <3>2
        <4>2. c \in Reach(ch, c)
          BY <1>4, ReachFacts
        <4>3. f.trav[m].s = a.s /\ f.trav[m].i = b.i /\ f.trav[q].s = c /\ b.i > 0
          BY <1>3, <3>2, <4>1
        <4> QED BY <4>2, <4>3
      <3>3. m # L + 1
        BY <2>1
      <3> QED BY <1>5, <3>1, <3>2, <3>3
    <2> QED BY <2>1 DEF Descends
  <1>9. Covered(ch, f)
    <2>1. ASSUME NEW x \in t.left PROVE x = c \/ \E m \in 1 .. L + 1 : Awaits(ch, f.trav[m], x)
      <3>1. PICK m \in 1 .. L : Awaits(ch, t.trav[m], x)
        BY <1>1, <2>1 DEF Covered
      <3>2. CASE m \in 1 .. L - 1
        BY <1>5, <3>1, <3>2
      <3>3. CASE m = L
        <4>1. PICK q \in b.i .. b.n : x \in Reach(ch, ch[a.s][q])
          BY <1>3, <3>1, <3>3
        <4>2. CASE q = b.i
          <5>1. CASE x # c
            <6>1. PICK i \in DOMAIN ch[c] : x \in Reach(ch, ch[c][i])
              BY <1>4, <4>1, <4>2, <5>1, ReachSplit
            <6>2. Awaits(ch, e, x)
              BY <6>1 DEF Awaits, KidsIn
            <6> QED BY <1>5, <6>2
          <5> QED BY <5>1
        <4>3. CASE q # b.i
          <5>1. q \in b.i + 1 .. b.n /\ b.i # 0
            BY <1>3, <4>3
          <5>2. Awaits(ch, b, x)
            BY <4>1, <5>1 DEF Awaits
          <5> QED BY <1>5, <5>2
        <4> QED BY <4>2, <4>3
      <3> QED BY <1>5, <3>1, <3>2, <3>3
    <2> QED BY <2>1 DEF Covered
  <1> QED BY <1>3, <1>4, <1>6, <1>7, <1>8, <1>9 DEF Steady

LEMMA LeaveSteady ==
  ASSUME NEW ch \in Trees, NEW t, t.k = "broadcast", t.pc = "move", t.trav \in Seq(Activations),
         Steady(ch, t), NEW L \in Nat \ {0}, L = Len(t.trav), NEW a \in Activations, a = t.trav[L],
         NEW b, b.i = a.i + 1, b.n = IF a.i = 0 THEN Len(ch[a.s]) ELSE a.n,
         ~(b.i <= b.n /\ b.i <= Len(ch[a.s])),
         NEW f, f.k = "broadcast", f.pc = "move", f.s = t.s, f.left = t.left, Len(f.trav) = L - 1,
         \A m \in 1 .. L - 1 : f.trav[m] = t.trav[m]
  PROVE  Steady(ch, f)
  <1>1. Counted(ch, t) /\ Descends(ch, t) /\ Covered(ch, t)
    BY DEF Steady
  <1>2. a.i > 0 => a.n <= Len(ch[a.s])
    <2>1. L \in 1 .. Len(t.trav)
      OBVIOUS
    <2> QED BY <1>1, <2>1 DEF Counted
  <1>3. \A x : ~Awaits(ch, a, x)
    <2>1. /\ Len(ch[a.s]) \in Nat /\ b.i \in Nat \ {0} /\ b.n \in Nat /\ b.n <= Len(ch[a.s])
          /\ \A x : Awaits(ch, a, x) => \E q \in b.i .. b.n : x \in Reach(ch, ch[a.s][q])
      BY <1>2, NextAwaits
    <2>2. ~(b.i <= b.n)
      BY <2>1
    <2>3. \A q : q \notin b.i .. b.n
      BY <2>1, <2>2
    <2> QED BY <2>1, <2>3
  <1>4. \A m \in 1 .. L - 1 : m \in 1 .. L
    OBVIOUS
  <1>5. Counted(ch, f)
    BY <1>1, <1>4 DEF Counted
  <1>6. Descends(ch, f)
    BY <1>1, <1>4 DEF Descends
  <1>7. Arrived(f)
    BY DEF Arrived
  <1>8. Covered(ch, f)
    <2>1. ASSUME NEW x \in t.left PROVE \E m \in 1 .. L - 1 : Awaits(ch, f.trav[m], x)
      <3>1. PICK m \in 1 .. L : Awaits(ch, t.trav[m], x)
        BY <1>1, <2>1 DEF Covered
      <3>2. m # L
        BY <1>3, <3>1
      <3>3. m \in 1 .. L - 1
        BY <3>2
      <3> QED BY <3>1, <3>3
    <2> QED BY <2>1 DEF Covered
  <1> QED BY <1>5, <1>6, <1>7, <1>8 DEF Steady

\* The activation a broadcast is in, and the one with the next child in its place.
LEMMA HereFacts ==
  ASSUME BInv, Spreading
  PROVE  /\ stack # <<>> /\ Top \in Frames /\ Top.k = "broadcast" /\ Top.pc = "move"
         /\ Top.trav \in Seq(Activations) /\ Len(Top.trav) \in Nat \ {0}
         /\ Here \in Activations /\ Here = Top.trav[Len(Top.trav)] /\ NextChild \in Activations
         /\ NextChild.s = Here.s /\ NextChild.i = Here.i + 1
         /\ NextChild.n = IF Here.i = 0 THEN Len(children[Here.s]) ELSE Here.n
         /\ children \in Trees /\ Steady(children, Top)
         /\ \A j \in 1 .. Len(stack) - 1 : Under(children, stack[j], Top)
  <1>1. /\ stack # <<>> /\ Top.k = "broadcast" /\ Top \in Frames
        /\ Top.trav \in Seq(Activations) /\ Len(Top.trav) \in Nat \ {0}
        /\ Here \in Activations /\ NextChild \in Activations
        /\ NextChild.i = Here.i + 1 /\ NextChild.s = Here.s
    BY SpreadingFacts DEF BInv
  <1>2. NextChild.n = IF Here.i = 0 THEN Len(children[Here.s]) ELSE Here.n
    <2>1. PICK h \in Activations, n \in {Len(children[Here.s])} : h = Here
      BY <1>1
    <2>2. NextChild = IF h.i = 0 THEN [h EXCEPT !.i = 1, !.n = n] ELSE [h EXCEPT !.i = h.i + 1]
      BY <2>1 DEF NextChild
    <2> QED BY <2>1, <2>2 DEF Activations
  <1>3. children \in Trees
    BY DEF BInv, IInv, TypeOK, Trees
  <1>4. Steady(children, Top) /\ \A j \in 1 .. Len(stack) - 1 : Under(children, stack[j], Top)
    BY <1>1, TopNests DEF BInv
  <1> QED BY <1>1, <1>2, <1>3, <1>4 DEF Here, Spreading, At

LEMMA EnterChildNests ==
  ASSUME BInv, IInv', EnterChild
  PROVE  BNext
  <1>1. Spreading /\ NextChild.i <= NextChild.n /\ UNCHANGED <<born, parent, children>>
    BY DEF EnterChild, HasChild, tree
  <1>2. PICK t \in Frames, a \in Activations, b \in Activations, L \in Nat \ {0} :
          t = Top /\ a = Here /\ b = NextChild /\ L = Len(Top.trav)
    BY <1>1, HereFacts
  <1>3. /\ t.k = "broadcast" /\ t.pc = "move" /\ t.trav \in Seq(Activations) /\ L = Len(t.trav)
        /\ a = t.trav[L] /\ b.s = a.s /\ b.i = a.i + 1
        /\ b.n = IF a.i = 0 THEN Len(children[a.s]) ELSE a.n
        /\ children \in Trees /\ Steady(children, t) /\ stack # <<>>
        /\ \A j \in 1 .. Len(stack) - 1 : Under(children, stack[j], t)
    BY <1>1, <1>2, HereFacts
  <1>4. PICK c, e, trav : /\ c = children[a.s][b.i] /\ e = Activation(c)
                          /\ trav = Append([t.trav EXCEPT ![L] = b], e)
    OBVIOUS
  <1>5. PICK f : f = [t EXCEPT !.trav = trav, !.s = c, !.pc = "visit"]
    OBVIOUS
  <1>6. stack' = With(f)
    BY <1>2, <1>4, <1>5 DEF EnterChild
  <1>7. f \in Frames
    BY <1>3, <1>6, WithFrame DEF BInv
  <1>8. f.k = "broadcast" /\ f.pc = "visit" /\ f.s = c /\ f.left = t.left /\ f.trav = trav
    BY <1>3, <1>5 DEF Frames
  <1>9. c \in Scopes
    BY <1>7, <1>8 DEF Frames
  <1>10. e \in Activations /\ e.s = c /\ e.i = 0
    BY <1>4, <1>9 DEF Activation, Activations
  <1>11. /\ Len(trav) = L + 1 /\ trav[L] = b /\ trav[L + 1] = e
         /\ \A m \in 1 .. L - 1 : trav[m] = t.trav[m]
    <2>1. t.trav # <<>>
      BY <1>3
    <2>2. PICK u : u = [t.trav EXCEPT ![L] = b]
      OBVIOUS
    <2>3. /\ u \in Seq(Activations) /\ Len(u) = L /\ u[L] = b
          /\ \A m \in 1 .. L - 1 : u[m] = t.trav[m]
      BY <1>3, <2>1, <2>2, LastFacts
    <2>4. /\ Len(trav) = L + 1 /\ trav[L + 1] = e /\ \A m \in 1 .. L : trav[m] = u[m]
      BY <1>4, <1>10, <2>2, <2>3, AppendFacts
    <2>5. L \in 1 .. L /\ \A m \in 1 .. L - 1 : m \in 1 .. L
      OBVIOUS
    <2> QED BY <2>3, <2>4, <2>5
  <1>12. Steady(children, f) /\ a.s \in Scopes /\ c \in KidsIn(children, a.s)
    <2>1. b.i <= b.n
      BY <1>1, <1>2
    <2>2. /\ Len(f.trav) = L + 1 /\ f.trav[L] = b /\ f.trav[L + 1] = e
          /\ \A m \in 1 .. L - 1 : f.trav[m] = t.trav[m]
      BY <1>8, <1>11
    <2>3. Entered(children, t, L, a, b, c, e, f)
      BY <1>3, <1>4, <1>8, <1>10, <2>1, <2>2 DEF Entered
    <2> QED BY <1>3, <2>3, EnterSteady
  <1>13. ASSUME NEW j \in 1 .. Len(stack) - 1 PROVE Under(children, stack[j], f)
    <2>1. PICK g \in Frames : g = stack[j]
      <3>1. j \in 1 .. Len(stack)
        BY <1>3, TopFacts DEF BInv, IInv
      <3> QED BY <3>1, StackFacts DEF BInv
    <2>2. Under(children, g, t)
      BY <1>3, <2>1
    <2>3. ASSUME g.k \in {"broadcast", "destroy"}, NEW m \in 1 .. L + 1
          PROVE  f.trav[m].s \in Reach(children, g.s)
      <3>1. \A q \in 1 .. L : t.trav[q].s \in Reach(children, g.s)
        BY <1>3, <2>2, <2>3 DEF Under
      <3>2. a.s \in Reach(children, g.s) /\ g.s \in Scopes
        <4>1. L \in 1 .. L
          OBVIOUS
        <4> QED BY <1>3, <3>1, <4>1 DEF Frames
      <3>3. CASE m \in 1 .. L - 1
        BY <1>8, <1>11, <3>1, <3>3
      <3>4. CASE m = L
        BY <1>3, <1>8, <1>11, <3>2, <3>4
      <3>5. CASE m = L + 1
        <4>1. c \in Reach(children, g.s)
          BY <1>3, <1>12, <3>2, ReachFacts
        <4> QED BY <1>8, <1>10, <1>11, <3>5, <4>1
      <3> QED BY <2>3, <3>3, <3>4, <3>5
    <2>4. Under(children, g, f)
      BY <1>3, <1>8, <1>11, <2>2, <2>3 DEF Under
    <2> QED BY <2>1, <2>4
  <1>14. Nested(children, With(f))
    BY <1>3, <1>7, <1>8, <1>12, <1>13, NestedWith DEF BInv
  <1> QED BY <1>1, <1>6, <1>14, TreeStays DEF BInv, BNext

LEMMA LeaveScopeNests ==
  ASSUME BInv, IInv', LeaveScope
  PROVE  BNext
  <1>1. /\ Spreading /\ ~(NextChild.i <= NextChild.n /\ NextChild.i <= Len(children[Here.s]))
        /\ UNCHANGED <<born, parent, children>>
    BY DEF LeaveScope, HasChild, tree
  <1>2. PICK t \in Frames, a \in Activations, b \in Activations, L \in Nat \ {0} :
          t = Top /\ a = Here /\ b = NextChild /\ L = Len(Top.trav)
    BY <1>1, HereFacts
  <1>3. /\ t.k = "broadcast" /\ t.pc = "move" /\ t.trav \in Seq(Activations) /\ L = Len(t.trav)
        /\ a = t.trav[L] /\ b.s = a.s /\ b.i = a.i + 1
        /\ b.n = IF a.i = 0 THEN Len(children[a.s]) ELSE a.n
        /\ children \in Trees /\ Steady(children, t) /\ stack # <<>>
        /\ \A j \in 1 .. Len(stack) - 1 : Under(children, stack[j], t)
    BY <1>1, <1>2, HereFacts
  <1>4. PICK trav : trav = SubSeq(t.trav, 1, L - 1)
    OBVIOUS
  <1>5. PICK f : f = [t EXCEPT !.trav = trav]
    OBVIOUS
  <1>6. stack' = With(f)
    BY <1>2, <1>4, <1>5 DEF LeaveScope
  <1>7. f \in Frames
    BY <1>3, <1>6, WithFrame DEF BInv
  <1>8. f.k = "broadcast" /\ f.pc = "move" /\ f.s = t.s /\ f.left = t.left /\ f.trav = trav
    BY <1>3, <1>5 DEF Frames
  <1>9. Len(trav) = L - 1 /\ \A m \in 1 .. L - 1 : trav[m] = t.trav[m]
    <2>1. t.trav # <<>>
      BY <1>3
    <2> QED BY <1>2, <1>3, <1>4, <2>1, LastFacts
  <1>10. Steady(children, f)
    <2>1. ~(b.i <= b.n /\ b.i <= Len(children[a.s]))
      BY <1>1, <1>2
    <2> QED BY <1>3, <1>8, <1>9, <2>1, LeaveSteady
  <1>11. ASSUME NEW j \in 1 .. Len(stack) - 1 PROVE Under(children, stack[j], f)
    <2>1. PICK g : g = stack[j]
      OBVIOUS
    <2>2. Under(children, g, t)
      BY <1>3, <2>1
    <2>3. \A m \in 1 .. L - 1 : m \in 1 .. L
      OBVIOUS
    <2>4. Under(children, g, f)
      BY <1>3, <1>8, <1>9, <2>2, <2>3 DEF Under
    <2> QED BY <2>1, <2>4
  <1>12. Nested(children, With(f))
    BY <1>3, <1>7, <1>8, <1>10, <1>11, NestedWith DEF BInv
  <1> QED BY <1>1, <1>6, <1>12, TreeStays DEF BInv, BNext

-----------------------------------------------------------------------------
(* The tree grows                                                           *)

Longer(ch, ch2) ==
  \A p \in Scopes : /\ Len(ch[p]) <= Len(ch2[p])
                    /\ \A i \in 1 .. Len(ch[p]) : ch2[p][i] = ch[p][i]

LEMMA LongerFacts ==
  ASSUME NEW ch \in Trees, NEW ch2 \in Trees, Longer(ch, ch2)
  PROVE  /\ \A p \in Scopes : KidsIn(ch, p) \subseteq KidsIn(ch2, p)
         /\ \A s \in Scopes : Reach(ch, s) \subseteq Reach(ch2, s)
  <1>1. ASSUME NEW p \in Scopes, NEW i \in DOMAIN ch[p]
        PROVE  ch[p][i] \in KidsIn(ch2, p)
    <2>1. ch[p] \in Seq(Scopes) /\ ch2[p] \in Seq(Scopes)
      BY DEF Trees
    <2>2. i \in 1 .. Len(ch[p]) /\ Len(ch[p]) \in Nat /\ Len(ch2[p]) \in Nat
          /\ DOMAIN ch2[p] = 1 .. Len(ch2[p])
      BY <2>1
    <2>3. Len(ch[p]) <= Len(ch2[p]) /\ ch2[p][i] = ch[p][i]
      BY <2>2 DEF Longer
    <2>4. i \in DOMAIN ch2[p]
      BY <2>2, <2>3
    <2> QED BY <2>3, <2>4 DEF KidsIn
  <1>2. \A p \in Scopes : KidsIn(ch, p) \subseteq KidsIn(ch2, p)
    BY <1>1 DEF KidsIn
  <1> QED BY <1>2, ReachGrows

LEMMA SteadyGrows ==
  ASSUME NEW ch \in Trees, NEW ch2 \in Trees, Longer(ch, ch2), NEW f \in Frames, Steady(ch, f)
  PROVE  Steady(ch2, f)
  <1> SUFFICES ASSUME f.k = "broadcast" PROVE Steady(ch2, f)
    BY DEF Steady
  <1>1. Counted(ch, f) /\ Descends(ch, f) /\ Arrived(f) /\ Covered(ch, f)
    BY DEF Steady
  <1>2. f.trav \in Seq(Activations)
    BY DEF Frames, Activations
  <1>3. /\ \A p \in Scopes : KidsIn(ch, p) \subseteq KidsIn(ch2, p)
        /\ \A s \in Scopes : Reach(ch, s) \subseteq Reach(ch2, s)
    BY LongerFacts
  <1>4. ASSUME NEW m \in 1 .. Len(f.trav)
        PROVE  /\ f.trav[m] \in Activations /\ f.trav[m].s \in Scopes
               /\ f.trav[m].i \in Nat /\ f.trav[m].n \in Nat
               /\ ch[f.trav[m].s] \in Seq(Scopes)
               /\ Len(ch[f.trav[m].s]) \in Nat /\ Len(ch2[f.trav[m].s]) \in Nat
               /\ Len(ch[f.trav[m].s]) <= Len(ch2[f.trav[m].s])
               /\ \A i \in 1 .. Len(ch[f.trav[m].s]) : ch2[f.trav[m].s][i] = ch[f.trav[m].s][i]
    <2>1. f.trav[m] \in Activations
      BY <1>2
    <2>2. f.trav[m].s \in Scopes /\ f.trav[m].i \in Nat /\ f.trav[m].n \in Nat
      BY <2>1 DEF Activations
    <2>3. ch[f.trav[m].s] \in Seq(Scopes) /\ ch2[f.trav[m].s] \in Seq(Scopes)
      BY <2>2 DEF Trees
    <2> QED BY <2>1, <2>2, <2>3 DEF Longer
  <1>5. Counted(ch2, f)
    <2>1. ASSUME NEW m \in 1 .. Len(f.trav), f.trav[m].i > 0
          PROVE  f.trav[m].i <= f.trav[m].n /\ f.trav[m].n <= Len(ch2[f.trav[m].s])
      <3>1. f.trav[m].i <= f.trav[m].n /\ f.trav[m].n <= Len(ch[f.trav[m].s])
        BY <1>1, <2>1 DEF Counted
      <3> QED BY <1>4, <3>1
    <2> QED BY <2>1 DEF Counted
  <1>6. Descends(ch2, f)
    <2>1. ASSUME NEW m \in 1 .. Len(f.trav), NEW q \in 1 .. Len(f.trav), m < q
          PROVE  /\ f.trav[m].i > 0
                 /\ f.trav[q].s \in Reach(ch2, ch2[f.trav[m].s][f.trav[m].i])
      <3>1. f.trav[m].i > 0 /\ f.trav[q].s \in Reach(ch, ch[f.trav[m].s][f.trav[m].i])
        BY <1>1, <2>1 DEF Descends
      <3>2. /\ f.trav[m].i \in DOMAIN ch[f.trav[m].s]
            /\ ch[f.trav[m].s][f.trav[m].i] \in Scopes
        BY <1>1, <1>2, <3>1, ChildFacts
      <3>3. ch2[f.trav[m].s][f.trav[m].i] = ch[f.trav[m].s][f.trav[m].i]
        <4>1. f.trav[m].i \in 1 .. Len(ch[f.trav[m].s])
          BY <1>4, <3>2
        <4> QED BY <1>4, <4>1
      <3> QED BY <1>3, <3>1, <3>2, <3>3
    <2> QED BY <2>1 DEF Descends
  <1>7. ASSUME NEW m \in 1 .. Len(f.trav), NEW x, Awaits(ch, f.trav[m], x)
        PROVE  Awaits(ch2, f.trav[m], x)
    <2>1. PICK a \in Activations : a = f.trav[m]
      BY <1>4
    <2>2. CASE a.i = 0
      <3>1. PICK c \in KidsIn(ch, a.s) : x \in Reach(ch, c)
        BY <1>7, <2>1, <2>2 DEF Awaits
      <3>2. a.s \in Scopes /\ c \in Scopes
        BY <1>4, <2>1, ReachFacts
      <3>3. c \in KidsIn(ch2, a.s) /\ x \in Reach(ch2, c)
        BY <1>3, <3>1, <3>2
      <3> QED BY <2>1, <2>2, <3>3 DEF Awaits
    <2>3. CASE a.i # 0
      <3>1. PICK q \in a.i + 1 .. a.n : x \in Reach(ch, ch[a.s][q])
        BY <1>7, <2>1, <2>3 DEF Awaits
      <3>2. a.i \in Nat /\ a.n \in Nat /\ a.n <= Len(ch[a.s]) /\ Len(ch[a.s]) \in Nat
        <4>1. a.i > 0
          BY <1>4, <2>1, <2>3
        <4> QED BY <1>1, <1>4, <2>1, <4>1 DEF Counted
      <3>3. q \in 1 .. Len(ch[a.s])
        BY <3>2
      <3>4. ch2[a.s][q] = ch[a.s][q] /\ ch[a.s][q] \in Scopes
        BY <1>4, <2>1, <3>3
      <3>5. x \in Reach(ch2, ch2[a.s][q])
        BY <1>3, <3>1, <3>4
      <3> QED BY <2>1, <2>3, <3>5 DEF Awaits
    <2> QED BY <2>2, <2>3
  <1>8. Covered(ch2, f)
    BY <1>1, <1>7 DEF Covered
  <1> QED BY <1>1, <1>5, <1>6, <1>8 DEF Steady

LEMMA NewScopeNests ==
  ASSUME BInv, IInv', NEW p \in Scopes, NEW c \in Scopes, NewScope(p, c)
  PROVE  BNext
  <1>1. /\ p \in born /\ c \notin born /\ born' = born \cup {c} /\ stack' = stack
        /\ parent' = [parent EXCEPT ![c] = p]
        /\ children' = [children EXCEPT ![p] = Append(@, c)]
    BY DEF NewScope
  <1>2. PICK ch \in Trees, ch2 \in Trees : ch = children /\ ch2 = children'
    BY DEF BInv, IInv, TypeOK, Trees
  <1>3. /\ \A q \in Scopes : ch[q] \in Seq(Scopes) /\ Len(ch[q]) \in Nat
        /\ \A q \in Scopes : ch2[q] = IF q = p THEN Append(ch[q], c) ELSE ch[q]
    BY <1>1, <1>2 DEF Trees
  <1>4. /\ Len(Append(ch[p], c)) = Len(ch[p]) + 1 /\ Append(ch[p], c)[Len(ch[p]) + 1] = c
        /\ \A i \in 1 .. Len(ch[p]) : Append(ch[p], c)[i] = ch[p][i]
    BY <1>3, AppendFacts
  <1>5. Longer(ch, ch2)
    <2>1. ASSUME NEW q \in Scopes
          PROVE  /\ Len(ch[q]) <= Len(ch2[q])
                 /\ \A i \in 1 .. Len(ch[q]) : ch2[q][i] = ch[q][i]
      <3>1. CASE q = p
        <4>1. PICK s : s = Append(ch[p], c)
          OBVIOUS
        <4>2. ch2[q] = s /\ Len(s) = Len(ch[q]) + 1 /\ \A i \in 1 .. Len(ch[q]) : s[i] = ch[q][i]
          BY <1>3, <1>4, <3>1, <4>1
        <4> QED BY <1>3, <4>2
      <3>2. CASE q # p
        BY <1>3, <3>2
      <3> QED BY <3>1, <3>2
    <2> QED BY <2>1 DEF Longer
  <1>6. ASSUME NEW q \in Scopes
        PROVE  KidsIn(ch2, q) = KidsIn(ch, q) \cup (IF q = p THEN {c} ELSE {})
    <2>1. CASE q # p
      BY <1>3, <2>1 DEF KidsIn
    <2>2. CASE q = p
      <3>1. PICK s \in Seq(Scopes), n \in Nat : s = ch[p] /\ n = Len(s)
        BY <1>3
      <3>2. DOMAIN s = 1 .. n /\ DOMAIN Append(s, c) = 1 .. n + 1
        BY <3>1
      <3>3. \A i \in 1 .. n + 1 : i \in 1 .. n \/ i = n + 1
        OBVIOUS
      <3>4. \A i \in 1 .. n : i \in 1 .. n + 1
        OBVIOUS
      <3>5. n + 1 \in 1 .. n + 1
        OBVIOUS
      <3>6. Append(s, c)[n + 1] = c /\ \A i \in 1 .. n : Append(s, c)[i] = s[i]
        BY <1>4, <3>1
      <3>7. ch2[q] = Append(s, c) /\ ch[q] = s
        BY <1>3, <2>2, <3>1
      <3> QED BY <2>2, <3>2, <3>3, <3>4, <3>5, <3>6, <3>7 DEF KidsIn
    <2> QED BY <2>1, <2>2
  <1>7. /\ \A q \in Scopes : KidsIn(ch, q) \subseteq born
        /\ \A q \in Scopes : \A d \in KidsIn(ch, q) : parent[d] = q
        /\ \A s \in Scopes \ born : ch[s] = <<>>
        /\ Acyclic(ch)
    BY <1>2 DEF BInv, Planted
  <1>8. c # p /\ KidsIn(ch2, c) = {}
    <2>1. c # p /\ KidsIn(ch, c) = {}
      BY <1>1, <1>7 DEF KidsIn
    <2> QED BY <1>6, <2>1
  <1>9. ASSUME NEW s \in Scopes PROVE Reach(ch2, s) \subseteq Reach(ch, s) \cup {c} /\ Reach(ch2, c) = {c}
    <2>1. \A q \in Scopes : KidsIn(ch2, q) \subseteq KidsIn(ch, q) \cup {c}
      BY <1>6
    <2> QED BY <1>8, <2>1, ReachGains
  <1>10. Acyclic(ch2)
    <2>1. SUFFICES ASSUME NEW q \in Scopes, NEW d \in KidsIn(ch2, q) PROVE q \notin Reach(ch2, d)
      BY DEF Acyclic
    <2>2. CASE d \in KidsIn(ch, q)
      <3>1. d \in Scopes /\ q \notin Reach(ch, d)
        BY <1>7, <2>2, ReachFacts DEF Acyclic
      <3>2. q # c
        BY <1>8
      <3> QED BY <1>9, <3>1, <3>2
    <2>3. CASE d \notin KidsIn(ch, q)
      <3>1. q = p /\ d = c
        BY <1>6, <2>3
      <3> QED BY <1>8, <1>9, <3>1
    <2> QED BY <2>2, <2>3
  <1>11. Planted'
    <2>1. \A q \in Scopes : KidsIn(ch2, q) \subseteq born'
      BY <1>1, <1>6, <1>7
    <2>2. ASSUME NEW q \in Scopes, NEW d \in KidsIn(ch2, q) PROVE parent'[d] = q
      <3>1. parent \in [Scopes -> Scopes \cup {Null}]
        BY DEF BInv, IInv, TypeOK
      <3>2. CASE d \in KidsIn(ch, q)
        <4>1. d # c
          BY <1>1, <1>7, <3>2
        <4> QED BY <1>1, <1>7, <3>2, <4>1
      <3>3. CASE d \notin KidsIn(ch, q)
        <4>1. q = p /\ d = c
          BY <1>6, <3>3
        <4> QED BY <1>1, <3>1, <4>1
      <3> QED BY <3>2, <3>3
    <2>3. \A s \in Scopes \ born' : ch2[s] = <<>>
      BY <1>1, <1>3, <1>7
    <2> QED BY <1>2, <1>10, <2>1, <2>2, <2>3 DEF Planted
  <1>12. ASSUME NEW j \in 1 .. Len(stack) PROVE Steady(ch2, stack[j]) /\ Called(stack, j)
    <2>1. Steady(ch, stack[j]) /\ Called(stack, j)
      BY <1>2 DEF BInv, Nested
    <2> QED BY <1>5, <2>1, StackFacts, SteadyGrows DEF BInv
  <1>13. ASSUME NEW j \in 1 .. Len(stack), NEW l \in 1 .. Len(stack), j < l
         PROVE  Under(ch2, stack[j], stack[l])
    <2>1. PICK f \in Frames, g \in Frames : f = stack[j] /\ g = stack[l]
      BY StackFacts DEF BInv
    <2>2. Under(ch, f, g)
      BY <1>2, <1>13, <2>1 DEF BInv, Nested
    <2>3. Reach(ch, f.s) \subseteq Reach(ch2, f.s)
      BY <1>5, LongerFacts DEF Frames
    <2>4. Under(ch2, f, g)
      BY <2>2, <2>3 DEF Under, Below
    <2> QED BY <2>1, <2>4
  <1>14. Nested(ch2, stack)
    BY <1>12, <1>13 DEF Nested
  <1> QED BY <1>1, <1>2, <1>11, <1>14 DEF BNext

-----------------------------------------------------------------------------
(* A scope leaves the tree                                                  *)

\* ch2 is ch without the child d of p.
Cut(ch, ch2, d, p) ==
  /\ \A q \in Scopes : KidsIn(ch, q) \ {d} \subseteq KidsIn(ch2, q)
  /\ \A q \in Scopes : q # p => ch2[q] = ch[q]
  /\ \A q \in Scopes : d \in KidsIn(ch, q) => q = p

\* Where a broadcast waits above a scope, it is at none of those below that one.
LEMMA CutWay ==
  ASSUME NEW ch \in Trees, Acyclic(ch), NEW d \in Scopes, NEW f \in Frames, f.k = "broadcast",
         f.pc = "fire", Steady(ch, f), d \in Below(ch, f.s)
  PROVE  /\ f.trav \in Seq(Activations) /\ f.s \in Scopes
         /\ Len(f.trav) \in 1 .. Len(f.trav) /\ Len(f.trav) \in Nat
         /\ f.trav[Len(f.trav)].s = f.s /\ f.trav[Len(f.trav)].i = 0
         /\ \A m \in 1 .. Len(f.trav) :
              /\ f.trav[m].s \in Scopes /\ f.trav[m].s \notin Reach(ch, d)
              /\ m < Len(f.trav) =>
                   /\ f.trav[m].i > 0
                   /\ ch[f.trav[m].s][f.trav[m].i] \in KidsIn(ch, f.trav[m].s)
                   /\ ch[f.trav[m].s][f.trav[m].i] \in Scopes
                   /\ f.s \in Reach(ch, ch[f.trav[m].s][f.trav[m].i])
  <1>1. Counted(ch, f) /\ Descends(ch, f) /\ Arrived(f)
    BY DEF Steady
  <1>2. f.trav \in Seq(Activations) /\ f.s \in Scopes
    BY DEF Frames, Activations
  <1>3. /\ Len(f.trav) \in 1 .. Len(f.trav) /\ Len(f.trav) \in Nat
        /\ f.trav[Len(f.trav)].s = f.s /\ f.trav[Len(f.trav)].i = 0
    <2>1. f.trav # <<>> /\ f.trav[Len(f.trav)].s = f.s /\ f.trav[Len(f.trav)].i = 0
      BY <1>1 DEF Arrived
    <2>2. Len(f.trav) \in Nat \ {0}
      BY <1>2, <2>1, EmptySeq
    <2> QED BY <2>1, <2>2
  <1>4. ASSUME NEW m \in 1 .. Len(f.trav), m < Len(f.trav)
        PROVE  /\ f.trav[m].i > 0
               /\ ch[f.trav[m].s][f.trav[m].i] \in KidsIn(ch, f.trav[m].s)
               /\ ch[f.trav[m].s][f.trav[m].i] \in Scopes
               /\ f.s \in Reach(ch, ch[f.trav[m].s][f.trav[m].i])
    <2>1. f.trav[m].i > 0 /\ f.s \in Reach(ch, ch[f.trav[m].s][f.trav[m].i])
      BY <1>1, <1>3, <1>4 DEF Descends
    <2> QED BY <1>1, <1>2, <2>1, ChildFacts
  <1>5. ASSUME NEW m \in 1 .. Len(f.trav)
        PROVE  f.trav[m].s \in Scopes /\ f.s \in Reach(ch, f.trav[m].s)
    <2>1. f.trav[m].s \in Scopes
      <3>1. f.trav[m] \in Activations
        BY <1>2
      <3> QED BY <3>1 DEF Activations
    <2>2. CASE m = Len(f.trav)
      BY <1>2, <1>3, <2>2, ReachFacts
    <2>3. CASE m < Len(f.trav)
      <3>1. PICK c \in Scopes : c \in KidsIn(ch, f.trav[m].s) /\ f.s \in Reach(ch, c)
        BY <1>4, <2>3
      <3>2. c \in Reach(ch, f.trav[m].s)
        BY <2>1, <3>1, ReachFacts
      <3>3. Reach(ch, c) \subseteq Reach(ch, f.trav[m].s)
        BY <2>1, <3>2, ReachTrans
      <3> QED BY <2>1, <3>1, <3>3
    <2>4. m = Len(f.trav) \/ m < Len(f.trav)
      BY <1>3
    <2> QED BY <2>2, <2>3, <2>4
  <1>6. f.s \notin Reach(ch, d)
    BY <1>2, NoLoop
  <1>7. ASSUME NEW m \in 1 .. Len(f.trav) PROVE f.trav[m].s \notin Reach(ch, d)
    <2>1. SUFFICES ASSUME f.trav[m].s \in Reach(ch, d) PROVE FALSE
      OBVIOUS
    <2>2. Reach(ch, f.trav[m].s) \subseteq Reach(ch, d)
      BY <2>1, ReachTrans
    <2> QED BY <1>5, <1>6, <2>2
  <1> QED BY <1>2, <1>3, <1>4, <1>5, <1>7

LEMMA CutSteady ==
  ASSUME NEW ch \in Trees, NEW ch2 \in Trees, Acyclic(ch), NEW d \in Scopes, NEW p, Cut(ch, ch2, d, p),
         NEW f \in Frames, f.k = "broadcast", f.pc = "fire", Steady(ch, f), d \in Below(ch, f.s),
         NEW g, g.k = f.k, g.pc = f.pc, g.s = f.s, g.trav = f.trav, g.left = f.left \ Reach(ch, d)
  PROVE  Steady(ch2, g)
  <1>1. Counted(ch, f) /\ Descends(ch, f) /\ Arrived(f) /\ Covered(ch, f)
    BY DEF Steady
  <1>2. PICK L : L = Len(f.trav)
    OBVIOUS
  <1>3. /\ f.trav \in Seq(Activations) /\ f.s \in Scopes /\ L \in 1 .. L /\ L \in Nat
        /\ f.trav[L].s = f.s /\ f.trav[L].i = 0
        /\ \A m \in 1 .. L :
              /\ f.trav[m].s \in Scopes /\ f.trav[m].s \notin Reach(ch, d)
              /\ m < L => /\ f.trav[m].i > 0
                          /\ ch[f.trav[m].s][f.trav[m].i] \in KidsIn(ch, f.trav[m].s)
                          /\ ch[f.trav[m].s][f.trav[m].i] \in Scopes
                          /\ f.s \in Reach(ch, ch[f.trav[m].s][f.trav[m].i])
    BY <1>2, CutWay
  <1>4. p \in Reach(ch, f.s)
    <2>1. PICK q \in Reach(ch, f.s) : d \in KidsIn(ch, q)
      BY <1>3, ReachSplit DEF Below
    <2>2. q \in Scopes
      BY <1>3, <2>1, ReachFacts
    <2> QED BY <2>1, <2>2 DEF Cut
  <1>5. ASSUME NEW m \in 1 .. L, m < L PROVE ch2[f.trav[m].s] = ch[f.trav[m].s]
    <2>1. f.trav[m].s # p
      <3>1. SUFFICES ASSUME f.trav[m].s = p PROVE FALSE
        OBVIOUS
      <3>2. PICK c \in Scopes : c \in KidsIn(ch, p) /\ f.s \in Reach(ch, c)
        BY <1>3, <1>5, <3>1
      <3>3. p \in Reach(ch, c)
        BY <1>4, <3>2, ReachTrans
      <3> QED BY <1>3, <3>1, <3>2, <3>3 DEF Acyclic
    <2> QED BY <1>3, <2>1 DEF Cut
  <1>6. ASSUME NEW s \in Scopes, NEW t \in Reach(ch, s), t \notin Reach(ch, d)
        PROVE  t \in Reach(ch2, s)
    BY <1>6, ReachCut DEF Cut
  <1>7. Counted(ch2, f)
    <2>1. ASSUME NEW m \in 1 .. L, f.trav[m].i > 0
          PROVE  f.trav[m].i <= f.trav[m].n /\ f.trav[m].n <= Len(ch2[f.trav[m].s])
      <3>1. m # L
        BY <1>3, <2>1
      <3>2. m < L
        BY <1>3, <3>1
      <3> QED BY <1>1, <1>2, <1>5, <2>1, <3>2 DEF Counted
    <2> QED BY <1>2, <2>1 DEF Counted
  <1>8. Descends(ch2, f)
    <2>1. ASSUME NEW m \in 1 .. L, NEW q \in 1 .. L, m < q
          PROVE  /\ f.trav[m].i > 0
                 /\ f.trav[q].s \in Reach(ch2, ch2[f.trav[m].s][f.trav[m].i])
      <3>1. m < L
        BY <1>3, <2>1
      <3>2. PICK c \in Scopes : c = ch[f.trav[m].s][f.trav[m].i] /\ c = ch2[f.trav[m].s][f.trav[m].i]
        BY <1>3, <1>5, <3>1
      <3>3. f.trav[q].s \in Reach(ch, c)
        BY <1>1, <1>2, <2>1, <3>2 DEF Descends
      <3>4. f.trav[q].s \in Reach(ch2, c)
        BY <1>3, <1>6, <3>3
      <3> QED BY <1>3, <3>1, <3>2, <3>4
    <2> QED BY <1>2, <2>1 DEF Descends
  <1>9. ASSUME NEW x \in f.left, x \notin Reach(ch, d)
        PROVE  \E m \in 1 .. L : Awaits(ch2, f.trav[m], x)
    <2>1. PICK m \in 1 .. L : Awaits(ch, f.trav[m], x)
      BY <1>1, <1>2, <1>9 DEF Covered
    <2>2. PICK a : a = f.trav[m]
      OBVIOUS
    <2>3. a.s \in Scopes
      BY <1>3, <2>2
    <2>4. CASE a.i = 0
      <3>1. PICK c \in KidsIn(ch, a.s) : x \in Reach(ch, c)
        BY <2>1, <2>2, <2>4 DEF Awaits
      <3>2. c \in Scopes /\ c # d
        BY <1>9, <2>3, <3>1, ReachFacts
      <3>3. c \in KidsIn(ch2, a.s) /\ x \in Reach(ch2, c)
        BY <1>6, <1>9, <2>3, <3>1, <3>2 DEF Cut
      <3> QED BY <2>2, <2>4, <3>3 DEF Awaits
    <2>5. CASE a.i # 0
      <3>1. PICK q \in a.i + 1 .. a.n : x \in Reach(ch, ch[a.s][q])
        BY <2>1, <2>2, <2>5 DEF Awaits
      <3>2. m < L
        <4>1. m # L
          BY <1>3, <2>2, <2>5
        <4> QED BY <1>3, <4>1
      <3>3. ch2[a.s] = ch[a.s]
        BY <1>5, <2>2, <3>2
      <3>4. ch[a.s][q] \in Scopes
        <4>1. f.trav[m] \in Activations /\ a.i > 0
          BY <1>2, <1>3, <2>2, <3>2
        <4>2. a.n <= Len(ch[a.s])
          BY <1>1, <1>2, <2>2, <4>1 DEF Counted
        <4>3. a.i \in Nat /\ a.n \in Nat /\ ch[a.s] \in Seq(Scopes)
          BY <2>2, <2>3, <4>1 DEF Activations, Trees
        <4>4. q \in 1 .. Len(ch[a.s])
          BY <4>2, <4>3
        <4> QED BY <4>3, <4>4
      <3>5. x \in Reach(ch2, ch2[a.s][q])
        BY <1>6, <1>9, <3>1, <3>3, <3>4
      <3> QED BY <2>2, <2>5, <3>5 DEF Awaits
    <2> QED BY <2>4, <2>5
  <1>10. Covered(ch2, g)
    BY <1>2, <1>9 DEF Covered
  <1> QED BY <1>1, <1>7, <1>8, <1>10 DEF Steady, Counted, Descends, Arrived

LEMMA CutUnder ==
  ASSUME NEW ch \in Trees, NEW ch2 \in Trees, NEW d \in Scopes, NEW p, Cut(ch, ch2, d, p),
         NEW f, f.s \in Scopes, NEW g, Under(ch, f, g),
         g.k = "destroy" => g.s \notin Reach(ch, d),
         g.k = "broadcast" => \A m \in 1 .. Len(g.trav) : g.trav[m].s \notin Reach(ch, d)
  PROVE  Under(ch2, f, g)
  <1>1. ASSUME NEW t \in Reach(ch, f.s), t \notin Reach(ch, d) PROVE t \in Reach(ch2, f.s)
    BY <1>1, ReachCut DEF Cut
  <1> QED BY <1>1 DEF Under, Below

LEMMA DetachNests ==
  ASSUME BInv, IInv', Detach
  PROVE  BNext
  <1>0. Top.s \in Scopes
    BY EventAssumption, DetachStack DEF BInv
  <1>1. PICK d \in Scopes, p \in {parent[Top.s]} : d = Top.s /\ p = parent[d]
    BY <1>0
  <1>2. /\ stack # <<>> /\ Top.k = "destroy" /\ Len(stack) \in Nat \ {0}
        /\ UNCHANGED <<born, parent>> /\ children' = [children EXCEPT ![p] = Without(@, d)]
    BY <1>1, EventAssumption, DetachStack DEF Detach, BInv
  <1>3. PICK ch \in Trees, ch2 \in Trees : ch = children /\ ch2 = children'
    BY DEF BInv, IInv, TypeOK, Trees
  <1>4. /\ \A q \in Scopes : KidsIn(ch, q) \subseteq born
        /\ \A q \in Scopes : \A c \in KidsIn(ch, q) : parent[c] = q
        /\ \A s \in Scopes \ born : ch[s] = <<>>
        /\ Acyclic(ch)
    BY <1>3 DEF BInv, Planted
  <1>5. \A q \in Scopes : ch2[q] = IF q = p THEN Without(ch[q], d) ELSE ch[q]
    BY <1>2, <1>3 DEF Trees
  <1>6. ASSUME NEW q \in Scopes
        PROVE  KidsIn(ch2, q) \subseteq KidsIn(ch, q) /\ KidsIn(ch, q) \ {d} \subseteq KidsIn(ch2, q)
    <2>1. CASE q = p
      <3>1. PICK w : w = Without(ch[q], d)
        OBVIOUS
      <3>2. /\ \A j \in DOMAIN w : \E m \in DOMAIN ch[q] : w[j] = ch[q][m]
            /\ \A m \in DOMAIN ch[q] : ch[q][m] # d => \E j \in DOMAIN w : w[j] = ch[q][m]
        <4>1. ch[q] \in Seq(Scopes)
          BY DEF Trees
        <4> QED BY <3>1, <4>1, WithoutFacts
      <3>3. ch2[q] = w
        BY <1>5, <2>1, <3>1
      <3> QED BY <3>2, <3>3 DEF KidsIn
    <2>2. CASE q # p
      BY <1>5, <2>2 DEF KidsIn
    <2> QED BY <2>1, <2>2
  <1>7. Cut(ch, ch2, d, p)
    BY <1>1, <1>4, <1>5, <1>6 DEF Cut
  <1>8. Planted'
    <2>1. \A q \in Scopes : KidsIn(ch2, q) \subseteq born
      BY <1>4, <1>6
    <2>2. \A q \in Scopes : \A c \in KidsIn(ch2, q) : parent[c] = q
      BY <1>4, <1>6
    <2>3. \A s \in Scopes \ born : ch2[s] = <<>>
      <3>1. Without(<<>>, d) = <<>>
        BY DEF Without
      <3> QED BY <1>4, <1>5, <3>1
    <2>4. Acyclic(ch2)
      <3>1. ASSUME NEW q \in Scopes, NEW c \in KidsIn(ch2, q) PROVE q \notin Reach(ch2, c)
        <4>1. c \in Scopes /\ q \notin Reach(ch, c)
          BY <1>4, <1>6, ReachFacts DEF Acyclic
        <4>2. Reach(ch2, c) \subseteq Reach(ch, c)
          BY <1>6, <4>1, ReachGrows
        <4> QED BY <4>1, <4>2
      <3> QED BY <3>1 DEF Acyclic
    <2> QED BY <1>2, <1>3, <2>1, <2>2, <2>3, <2>4 DEF Planted
  <1>9. PICK st : st = stack'
    OBVIOUS
  <1>10. Len(st) = Len(stack) - 1
    BY <1>9, EventAssumption, DetachStack DEF BInv
  <1>11. ASSUME NEW j \in 1 .. Len(st)
         PROVE  /\ j \in 1 .. Len(stack) /\ stack[j] \in Frames /\ Under(ch, stack[j], Top)
                /\ Steady(ch, stack[j]) /\ Called(stack, j)
                /\ \A l \in 1 .. Len(st) : j < l => Under(ch, stack[j], stack[l])
                /\ st[j].k = stack[j].k /\ st[j].pc = stack[j].pc /\ st[j].s = stack[j].s
                /\ st[j].at = stack[j].at /\ st[j].trav = stack[j].trav
                /\ st[j].left = stack[j].left \ Reach(ch, d)
    <2>1. j \in 1 .. Len(stack) - 1 /\ \A l \in 1 .. Len(st) : l \in 1 .. Len(stack)
      BY <1>2, <1>10
    <2>2. PICK f \in Frames : f = stack[j]
      BY <2>1, StackFacts DEF BInv
    <2>3. PICK R : R = Reach(ch, d)
      OBVIOUS
    <2>4. st[j] = [f EXCEPT !.left = f.left \ R]
      <3>1. Subtree(d) = R
        BY <1>3, <2>3, SubtreeIsReach
      <3>2. stack'[j] = [stack[j] EXCEPT !.left = @ \ Subtree(d)]
        BY <1>1, <2>1, EventAssumption, DetachStack DEF BInv
      <3> QED BY <1>9, <2>2, <3>1, <3>2
    <2>5. /\ st[j].k = f.k /\ st[j].pc = f.pc /\ st[j].s = f.s /\ st[j].at = f.at
          /\ st[j].trav = f.trav /\ st[j].left = f.left \ R
      BY <2>4 DEF Frames
    <2>6. Under(ch, stack[j], Top)
      BY <1>2, <1>3, <2>1, TopNests DEF BInv
    <2>7. /\ Steady(ch, stack[j]) /\ Called(stack, j)
          /\ \A l \in 1 .. Len(st) : j < l => Under(ch, stack[j], stack[l])
      BY <1>3, <2>1 DEF BInv, Nested
    <2> QED BY <2>1, <2>2, <2>3, <2>5, <2>6, <2>7
  <1>12. ASSUME NEW j \in 1 .. Len(st), stack[j].k \in {"broadcast", "destroy"}
         PROVE  (stack[j].k = "broadcast" => stack[j].pc = "fire") /\ d \in Below(ch, stack[j].s)
    BY <1>1, <1>2, <1>11, <1>12 DEF Under
  <1>13. ASSUME NEW j \in 1 .. Len(st) PROVE Steady(ch2, st[j])
    <2>1. PICK f \in Frames, g \in {st[j]} : f = stack[j] /\ g = st[j]
      BY <1>11
    <2>2. CASE f.k = "broadcast"
      <3>1. f.pc = "fire" /\ Steady(ch, f) /\ d \in Below(ch, f.s)
        BY <1>11, <1>12, <2>1, <2>2
      <3>2. g.k = f.k /\ g.pc = f.pc /\ g.s = f.s /\ g.trav = f.trav /\ g.left = f.left \ Reach(ch, d)
        BY <1>11, <2>1
      <3>3. Steady(ch2, g)
        BY <1>4, <1>7, <2>2, <3>1, <3>2, CutSteady
      <3> QED BY <2>1, <3>3
    <2>3. CASE f.k # "broadcast"
      BY <1>11, <2>1, <2>3 DEF Steady
    <2> QED BY <2>2, <2>3
  <1>14. ASSUME NEW j \in 1 .. Len(st) PROVE Called(st, j)
    <2>1. Called(stack, j)
      BY <1>11
    <2>2. ASSUME j > 1 PROVE st[j - 1].k = stack[j - 1].k
      <3>1. j - 1 \in 1 .. Len(st)
        BY <2>2, <1>2, <1>10
      <3> QED BY <1>11, <3>1
    <2> QED BY <1>11, <2>1, <2>2 DEF Called
  <1>15. ASSUME NEW j \in 1 .. Len(st), NEW l \in 1 .. Len(st), j < l
         PROVE  Under(ch2, st[j], st[l])
    <2>1. PICK f \in Frames, g \in Frames : f = stack[j] /\ g = stack[l]
      BY <1>11
    <2>2. Under(ch, f, g) /\ f.s \in Scopes /\ g.s \in Scopes
      BY <1>11, <1>15, <2>1 DEF Frames
    <2>3. g.k = "destroy" => g.s \notin Reach(ch, d)
      BY <1>4, <1>12, <2>1, <2>2, NoLoop
    <2>4. ASSUME g.k = "broadcast"
          PROVE  \A m \in 1 .. Len(g.trav) : g.trav[m].s \notin Reach(ch, d)
      <3>1. g.pc = "fire" /\ Steady(ch, g) /\ d \in Below(ch, g.s)
        BY <1>11, <1>12, <2>1, <2>4
      <3> QED BY <1>4, <2>4, <3>1, CutWay
    <2>5. Under(ch2, f, g)
      BY <1>7, <2>2, <2>3, <2>4, CutUnder
    <2>6. PICK f2, g2 : f2 = st[j] /\ g2 = st[l]
      OBVIOUS
    <2>7. /\ f2.k = f.k /\ f2.pc = f.pc /\ f2.s = f.s
          /\ g2.k = g.k /\ g2.at = g.at /\ g2.s = g.s /\ g2.trav = g.trav
      BY <1>11, <2>1, <2>6
    <2>8. Under(ch2, f2, g2)
      BY <2>5, <2>7 DEF Under
    <2> QED BY <2>6, <2>8
  <1>16. Nested(ch2, st)
    BY <1>13, <1>14, <1>15 DEF Nested
  <1> QED BY <1>3, <1>8, <1>9, <1>16 DEF BNext

-----------------------------------------------------------------------------
(* Every step keeps it                                                      *)

LEMMA InitNests ==
  ASSUME EventAssumption, Init
  PROVE  Planted /\ Nested(children, stack)
  <1>1. stack = <<>>
    BY DEF Init
  <1>2. Nested(children, stack)
    <2>1. Len(stack) = 0
      BY <1>1
    <2>2. \A j : j \notin 1 .. Len(stack)
      BY <2>1
    <2> QED BY <2>2 DEF Nested
  <1>3. PICK kids : kids = {InitKids[j] : j \in DOMAIN InitKids}
    OBVIOUS
  <1>4. /\ born = {Root} \cup kids
        /\ parent = [s \in Scopes |-> IF s \in kids THEN Root ELSE Null]
        /\ children = [s \in Scopes |-> IF s = Root THEN InitKids ELSE <<>>]
    BY <1>3 DEF Init
  <1>5. kids \subseteq Scopes \ {Root} /\ Root \in Scopes
    BY <1>3 DEF EventAssumption
  <1>6. KidsIn(children, Root) = kids /\ \A s \in Scopes \ {Root} : KidsIn(children, s) = {}
    BY <1>3, <1>4, <1>5 DEF KidsIn
  <1>7. children \in Trees
    BY InitInv DEF IInv, TypeOK, Trees
  <1>8. Acyclic(children)
    <2>1. ASSUME NEW p \in Scopes, NEW c \in KidsIn(children, p) PROVE p \notin Reach(children, c)
      <3>1. p = Root /\ c \in kids /\ c \in Scopes /\ c # Root
        BY <1>5, <1>6
      <3>2. {c} \in SUBSET Scopes /\ c \in {c} /\ \A q \in {c} : KidsIn(children, q) \subseteq {c}
        BY <1>6, <3>1
      <3>3. Reach(children, c) \subseteq {c}
        BY <1>7, <3>1, <3>2, ReachFacts
      <3> QED BY <3>1, <3>3
    <2> QED BY <2>1 DEF Acyclic
  <1>9. Planted
    BY <1>4, <1>5, <1>6, <1>8 DEF Planted
  <1> QED BY <1>2, <1>9

LEMMA StepNests ==
  ASSUME EventAssumption, Gentle, BInv, [Next]_vars
  PROVE  BNext
  <1>1. IInv'
    BY StepKeeps DEF BInv
  <1>2. CASE BeginTurn
    BY <1>2, BeginTurnNests
  <1>3. CASE UserOp
    <2>1. CASE \E s \in Scopes, n \in Names, l \in Listeners : On(s, n, l)
      BY <2>1, OnNests
    <2>2. CASE \E l \in Listeners : Off(l)
      BY <2>2, OffNests
    <2>3. CASE \E p, c \in Scopes : NewScope(p, c)
      BY <1>1, <2>3, NewScopeNests
    <2>4. CASE \E s \in Scopes, n \in Fired : Emit(s, n) \/ Broadcast(s, n)
      BY <2>4, EmitNests, BroadcastNests
    <2>5. CASE \E s \in Scopes : Destroy(s)
      BY <2>5, DestroyNests
    <2>6. CASE StopPropagation \/ Return
      BY <2>6, StopPropagationNests, DoneNests
    <2> QED BY <1>3, <2>1, <2>2, <2>3, <2>4, <2>5, <2>6 DEF UserOp
  <1>4. CASE Visit \/ EmptySlot \/ CallListener \/ Compact
    BY <1>1, <1>4, VisitNests, EmptySlotNests, CallListenerNests, CompactNests
  <1>5. CASE EmitUp \/ EmitDone
    BY <1>5, EmitUpNests, DoneNests
  <1>6. CASE EnterChild \/ LeaveScope \/ BroadcastDone
    BY <1>1, <1>6, EnterChildNests, LeaveScopeNests, DoneNests
  <1>7. CASE Detach
    BY <1>1, <1>7, DetachNests
  <1>8. CASE UNCHANGED vars
    BY <1>8, TreeStays DEF BInv, BNext, vars, tree
  <1> QED BY <1>2, <1>3, <1>4, <1>5, <1>6, <1>7, <1>8 DEF Next, Engine

LEMMA DoneReaches ==
  ASSUME BInv, BroadcastDone
  PROVE  Top.left = {}
  <1>1. stack # <<>> /\ Top.pc = "move" /\ Top.k = "broadcast" /\ Top.trav = <<>>
    BY DEF BroadcastDone, At
  <1>2. Steady(children, Top)
    BY <1>1, TopNests DEF BInv
  <1>3. Covered(children, Top) /\ Len(Top.trav) = 0
    BY <1>1, <1>2 DEF Steady
  <1>4. \A m : m \notin 1 .. Len(Top.trav)
    BY <1>3
  <1> QED BY <1>1, <1>3, <1>4 DEF Covered

\* Every other step either takes away no frame or takes away another's.
LEMMA StepReaches ==
  ASSUME EventAssumption, BInv, Next, stack # <<>>, Top.k = "broadcast", Len(stack') < Len(stack)
  PROVE  Top.left = {}
  <1>1. Len(stack) \in Nat \ {0}
    BY TopFacts DEF BInv, IInv
  <1>2. Top.pc # "run"
    <2>1. Len(stack) \in 1 .. Len(stack)
      BY <1>1
    <2>2. Sound(Top, heap)
      BY <2>1, StackFacts DEF BInv, Top
    <2> QED BY <2>2 DEF Sound
  <1>3. ASSUME NEW f, stack' = With(f) PROVE FALSE
    <2>1. stack' = [stack EXCEPT ![Len(stack)] = f]
      BY <1>3 DEF With
    <2>2. stack \in Seq(Frames)
      BY StackFacts DEF BInv
    <2>3. Len([stack EXCEPT ![Len(stack)] = f]) = Len(stack)
      BY <2>2
    <2> QED BY <1>1, <2>1, <2>3
  <1>4. ~BeginTurn /\ ~UserOp
    BY <1>2, Zenon DEF BeginTurn, UserOp, On, Off, NewScope, Emit, Broadcast, Destroy,
                       StopPropagation, Return, May, At
  <1>5. ~Visit /\ ~EmptySlot /\ ~Compact /\ ~EmitUp /\ ~EnterChild /\ ~LeaveScope
    BY <1>3, Zenon DEF Visit, EmptySlot, Compact, EmitUp, EnterChild, LeaveScope
  <1>6. ~EmitDone /\ ~Detach
    BY DEF EmitDone, Detach
  <1>7. ~CallListener
    <2>1. SUFFICES ASSUME CallListener PROVE FALSE
      OBVIOUS
    <2>2. PICK f, u : /\ f = [Top EXCEPT !.i = @ + 1, !.owed = Top.owed \ {Slot}]
                      /\ u = UserFrame(Top.k, Slot)
      OBVIOUS
    <2>3. stack' = Append(With(f), u) /\ Firing /\ Top.i <= Len(heap[Top.arr])
      BY <2>1, <2>2 DEF CallListener
    <2>4. f \in Frames
      BY <2>2, <2>3, TurnFacts DEF BInv
    <2>5. u \in Frames
      <3>1. Slot \in Listeners \cup {Null} /\ Top.k \in Contexts
        BY <2>3, FiringFacts DEF BInv, Contexts
      <3> QED BY <2>2, <3>1, FrameTypes
    <2>6. With(f) \in Seq(Frames) /\ Len(With(f)) = Len(stack)
      BY <2>4, TopFacts DEF BInv, IInv
    <2>7. Len(stack') = Len(stack) + 1
      BY <2>3, <2>5, <2>6, AppendFacts
    <2> QED BY <1>1, <2>7
  <1>8. BroadcastDone
    BY <1>4, <1>5, <1>6, <1>7 DEF Next, Engine
  <1> QED BY <1>8, DoneReaches

\* Where no listener of a broadcast emits, broadcasts or destroys a scope that is
\* not below its own, a broadcast ends when every scope that was below its origin
\* when it began, and was not destroyed since, has been visited ($broadcast).
THEOREM BroadcastsReach ==
  ASSUME Ops["broadcast"] \cap {"emit", "broadcast", "destroy"} = {}
  PROVE  Spec => BroadcastReaches
  <1>0. Gentle
    BY DEF Gentle
  <1>1. Init => BInv
    BY EventAssumption, InitInv, InitNests DEF BInv
  <1>2. BInv /\ [Next]_vars => BInv'
    <2>1. ASSUME BInv, [Next]_vars PROVE BInv'
      <3>1. IInv' /\ BNext
        BY <1>0, <2>1, EventAssumption, StepKeeps, StepNests DEF BInv
      <3> QED BY <3>1 DEF BInv, BNext
    <2> QED BY <2>1
  <1>3. BInv /\ [Next]_vars =>
          [stack # <<>> /\ Top.k = "broadcast" /\ Len(stack') < Len(stack) => Top.left = {}]_vars
    BY EventAssumption, StepReaches
  <1> QED BY <1>1, <1>2, <1>3, PTL DEF Spec, BroadcastReaches
=============================================================================
