---------------------------- MODULE Expressions ----------------------------
(***************************************************************************)
(* The expression language: the recursive-descent parser over the lexer's    *)
(* tokens, the tree-walking interpreter, the flags watches go by, and the    *)
(* second implementation of assignment that two-way bindings write with.     *)
(* An expression is parsed once and evaluated against a scope whose objects  *)
(* live on a heap, in turn with writes of application code.                  *)
(***************************************************************************)
EXTENDS Integers, Sequences, FiniteSets, SequencesExt, TLC

CONSTANTS
  Sources,       \* expressions as written: sequences of lexemes [form, text, n]
  Trees,         \* expressions a developer means; each is printed and parsed
  Heaps,         \* what scope and locals hold at first
  MaxSteps       \* bound: evaluations and writes

VARIABLES
  meant,         \* the tree, or None for a source
  source,        \* the lexemes
  tree,          \* what the parser made of them: a tree, or Error
  heap,          \* objects: functions from keys to values; 0 is scope, 1 locals
  value,         \* the last result: <<>> before, <<v>> after, or Error
  steps          \* counter

expressionVars == <<meant, source, tree, heap, value, steps>>

Error == <<"error">>
None == <<"none">>
Undef == <<"undef">>
NullValue == <<"null">>
NaN == <<"nan">>
Num(n) == <<"num", n>>
Str(s) == <<"str", s>>
Bool(b) == <<"bool", b>>
Ref(k) == <<"ref", k>>
Fn(name) == <<"fn", name>>

-----------------------------------------------------------------------------
(* Tokens: a string literal's text is its content, with nothing to tell it    *)
(* from a symbol or a keyword of the same text.                              *)

Keywords == {"true", "false", "null"}
Token(l) ==
  CASE l.form = "word" -> [text |-> l.text, identifier |-> l.text \notin Keywords, value |-> Undef]
    [] l.form = "symbol" -> [text |-> l.text, identifier |-> FALSE, value |-> Undef]
    [] l.form = "string" -> [text |-> l.text, identifier |-> FALSE, value |-> Str(l.text)]
    [] l.form = "number" -> [text |-> l.text, identifier |-> FALSE, value |-> Num(l.n)]
Lexable(ls) == \A k \in DOMAIN ls : ls[k].form # "stray"
Lex(ls) == [k \in DOMAIN ls |-> Token(ls[k])]

-----------------------------------------------------------------------------
(* The grammar.  Each rule takes the tokens and the cursor and gives a tree,  *)
(* Error for a throw, and the cursor after it.                              *)

At(ts, c, texts) == c <= Len(ts) /\ ts[c].text \in texts
Got(t, c) == [t |-> t, c |-> c]
Thrown(c) == Got(Error, c)
Closed(r, ts, close, t) ==
  IF r.t # Error /\ At(ts, r.c, {close}) THEN Got(t, r.c + 1) ELSE Thrown(r.c)
Constant(text) == <<"lit", IF text = "null" THEN NullValue ELSE Bool(text = "true")>>

\* A mistake the properties rule out: || binds closer than &&.
BinaryLevelsSwapped ==
  <<{"&&"}, {"||"}, {"==", "!=", "===", "!=="}, {"<", "<=", ">", ">="}, {"+", "-"}, {"*", "/", "%"}>>

BinaryLevels ==
  <<{"||"}, {"&&"}, {"==", "!=", "===", "!=="}, {"<", "<=", ">", ">="}, {"+", "-"}, {"*", "/", "%"}>>

RECURSIVE Assignment(_, _), FilterChain(_, _), Filters(_, _), Arguments(_, _, _), Ternary(_, _),
          Binary(_, _, _), Chain(_, _, _), Unary(_, _), Primary(_, _), Postfix(_, _),
          Items(_, _, _, _), Properties(_, _, _)

Assignment(ts, c) ==
  LET left == FilterChain(ts, c) IN
  IF left.t = Error \/ ~At(ts, left.c, {"="}) THEN left
  ELSE IF left.t[1] \notin {"id", "dot", "index"} THEN Thrown(left.c)
  ELSE LET right == Assignment(ts, left.c + 1)
       IN  IF right.t = Error THEN right ELSE Got(<<"assign", left.t, right.t>>, right.c)

FilterChain(ts, c) == Filters(ts, Ternary(ts, c))
Filters(ts, left) ==
  IF left.t = Error \/ ~At(ts, left.c, {"|"}) THEN left
  ELSE IF ~(left.c < Len(ts) /\ ts[left.c + 1].identifier) THEN Thrown(left.c)
  ELSE LET args == Arguments(ts, left.c + 2, <<>>)
       IN  IF args.t = Error THEN args
           ELSE Filters(ts, Got(<<"filter", ts[left.c + 1].text, left.t, args.t>>, args.c))
Arguments(ts, c, args) ==
  IF ~At(ts, c, {":"}) THEN Got(args, c)
  ELSE LET arg == Assignment(ts, c + 1)
       IN  IF arg.t = Error THEN arg ELSE Arguments(ts, arg.c, Append(args, arg.t))

Ternary(ts, c) ==
  LET test == Binary(1, ts, c) IN
  IF test.t = Error \/ ~At(ts, test.c, {"?"}) THEN test
  ELSE LET yes == Ternary(ts, test.c + 1) IN
       IF yes.t = Error \/ ~At(ts, yes.c, {":"}) THEN Thrown(yes.c)
       ELSE LET no == Ternary(ts, yes.c + 1)
            IN  IF no.t = Error THEN no ELSE Got(<<"cond", test.t, yes.t, no.t>>, no.c)

\* logicalOR down to multiplicative, each left-associative.
Binary(level, ts, c) ==
  IF level > Len(BinaryLevels) THEN Unary(ts, c) ELSE Chain(level, ts, Binary(level + 1, ts, c))
Chain(level, ts, left) ==
  IF left.t = Error \/ ~At(ts, left.c, BinaryLevels[level]) THEN left
  ELSE LET right == Binary(level + 1, ts, left.c + 1)
       IN  IF right.t = Error THEN right
           ELSE Chain(level, ts, Got(<<"binary", ts[left.c].text, left.t, right.t>>, right.c))

Unary(ts, c) ==
  IF ~At(ts, c, {"!", "+", "-"}) THEN Primary(ts, c)
  ELSE LET r == Unary(ts, c + 1)
       IN  IF r.t = Error THEN r ELSE Got(<<"unary", ts[c].text, r.t>>, r.c)

\* Any token that starts nothing else is taken for a literal with its value.
Primary(ts, c) ==
  IF c > Len(ts) THEN Thrown(c)
  ELSE LET text == ts[c].text IN
       CASE text = "(" -> LET r == Assignment(ts, c + 1) IN Postfix(ts, Closed(r, ts, ")", r.t))
         [] text = "[" -> LET r == Items(ts, c + 1, "]", <<>>)
                          IN  Postfix(ts, Closed(r, ts, "]", <<"array", r.t>>))
         [] text = "{" -> LET r == Properties(ts, c + 1, <<>>)
                          IN  Postfix(ts, Closed(r, ts, "}", <<"object", r.t>>))
         [] text \in Keywords -> Postfix(ts, Got(Constant(text), c + 1))
         [] ts[c].identifier ->
              Postfix(ts, Got(IF text = "this" THEN <<"this">> ELSE <<"id", text>>, c + 1))
         [] OTHER -> Postfix(ts, Got(<<"lit", ts[c].value>>, c + 1))

Postfix(ts, r) ==
  IF r.t = Error \/ ~At(ts, r.c, {".", "[", "("}) THEN r
  ELSE CASE ts[r.c].text = "." ->
              IF r.c < Len(ts) /\ ts[r.c + 1].identifier
              THEN Postfix(ts, Got(<<"dot", r.t, ts[r.c + 1].text>>, r.c + 2)) ELSE Thrown(r.c)
         [] ts[r.c].text = "[" ->
              LET key == Assignment(ts, r.c + 1)
              IN  Postfix(ts, Closed(key, ts, "]", <<"index", r.t, key.t>>))
         [] OTHER ->
              LET args == Items(ts, r.c + 1, ")", <<>>)
              IN  Postfix(ts, Closed(args, ts, ")", <<"call", r.t, args.t>>))

\* Only an array may end in a comma.
Items(ts, c, close, items) ==
  IF At(ts, c, {close}) /\ (items = <<>> \/ close = "]") THEN Got(items, c)
  ELSE LET item == Assignment(ts, c) IN
       IF item.t = Error THEN item
       ELSE IF At(ts, item.c, {","}) THEN Items(ts, item.c + 1, close, Append(items, item.t))
       ELSE Got(Append(items, item.t), item.c)

Properties(ts, c, properties) ==
  IF At(ts, c, {"}"}) /\ properties = <<>> THEN Got(properties, c)
  ELSE IF c > Len(ts) \/ ~At(ts, c + 1, {":"}) THEN Thrown(c)
  ELSE LET item == Assignment(ts, c + 2) IN
       IF item.t = Error THEN item
       ELSE LET all == Append(properties, <<ts[c].text, item.t>>)
            IN  IF At(ts, item.c, {","}) THEN Properties(ts, item.c + 1, all) ELSE Got(all, item.c)

\* parse: the one-time prefix, the tokens and the tree; what is left of the
\* tokens behind the tree is not looked at.
Colons == [form |-> "symbol", text |-> ":", n |-> 0]
Doubled(ts) == \E k \in 1 .. Len(ts) - 1 : ts[k].text = ":" /\ ts[k + 1].text = ":"
OneTime(ls) == IsPrefix(<<Colons, Colons>>, ls)
Bare(ls) == IF OneTime(ls) THEN SubSeq(ls, 3, Len(ls)) ELSE ls
Parsed(ls) ==
  IF ~Lexable(Bare(ls)) \/ Doubled(Lex(Bare(ls))) THEN Error ELSE Assignment(Lex(Bare(ls)), 1).t

-----------------------------------------------------------------------------
(* Flags                                                                   *)

Parts(t) ==
  CASE t[1] \in {"lit", "id", "this"} -> {}
    [] t[1] = "array" -> Range(t[2])
    [] t[1] = "object" -> {p[2] : p \in Range(t[2])}
    [] t[1] = "dot" -> {t[2]}
    [] t[1] = "call" -> {t[2]} \cup Range(t[3])
    [] t[1] = "unary" -> {t[3]}
    [] t[1] = "binary" -> {t[3], t[4]}
    [] t[1] = "cond" -> {t[2], t[3], t[4]}
    [] t[1] = "filter" -> {t[3]} \cup Range(t[4])
    [] OTHER -> {t[2], t[3]}

RECURSIVE IsConstant(_), HasFilter(_)
IsConstant(t) ==
  t[1] \notin {"id", "this", "dot", "index", "call", "assign"} /\ \A p \in Parts(t) : IsConstant(p)
HasFilter(t) == t[1] = "filter" \/ \E p \in Parts(t) : HasFilter(p)
ConstantFlag(t) == IsConstant(t) /\ ~HasFilter(t)

-----------------------------------------------------------------------------
(* Evaluation, which gives a value, the heap after it, and whether it threw   *)

Done(v, h) == [v |-> v, h |-> h, threw |-> FALSE]
Threw(h) == [v |-> Undef, h |-> h, threw |-> TRUE]

Truthy(v) == v \notin {Undef, NullValue, NaN, Bool(FALSE), Num(0), Str("")}
ToNumber(v) ==
  CASE v[1] = "num" -> v
    [] v[1] = "bool" -> Num(IF v[2] THEN 1 ELSE 0)
    [] v = NullValue \/ v = Str("") -> Num(0)
    [] OTHER -> NaN
ToText(v) ==
  CASE v[1] = "str" -> v[2]
    [] v[1] = "num" -> ToString(v[2])
    [] v[1] = "bool" -> ToString(v[2])
    [] OTHER -> v[1]
Arithmetic(op, l, r) ==
  LET a == ToNumber(l) b == ToNumber(r) IN
  IF a = NaN \/ b = NaN \/ (op \in {"/", "%"} /\ b = Num(0)) THEN NaN
  ELSE CASE op = "+" -> Num(a[2] + b[2])
         [] op = "-" -> Num(a[2] - b[2])
         [] op = "*" -> Num(a[2] * b[2])
         [] op = "/" -> Num(a[2] \div b[2])
         [] OTHER -> Num(a[2] % b[2])
Compare(op, l, r) ==
  LET a == ToNumber(l) b == ToNumber(r) IN
  Bool(a # NaN /\ b # NaN /\
       CASE op = "<" -> a[2] < b[2] [] op = "<=" -> a[2] <= b[2]
         [] op = ">" -> a[2] > b[2] [] OTHER -> a[2] >= b[2])
LooselyEqual(l, r) ==
  IF l[1] = r[1] THEN l = r /\ l # NaN
  ELSE IF {l, r} \subseteq {Undef, NullValue} THEN TRUE
  ELSE {l[1], r[1]} \subseteq {"num", "bool", "str"} /\ ToNumber(l) = ToNumber(r) /\ ToNumber(l) # NaN
Operate(op, l, r) ==
  CASE op = "+" /\ (l[1] = "str" \/ r[1] = "str") -> Str(ToText(l) \o ToText(r))
    [] op \in {"+", "-", "*", "/", "%"} -> Arithmetic(op, l, r)
    [] op \in {"<", "<=", ">", ">="} -> Compare(op, l, r)
    [] op = "==" -> Bool(LooselyEqual(l, r))
    [] op = "!=" -> Bool(~LooselyEqual(l, r))
    [] op = "===" -> Bool(l = r /\ l # NaN)
    [] OTHER -> Bool(l # r \/ l = NaN)

Objects == {"ref", "fn"}
ObjectLike(v) == v[1] \in Objects
Property(h, v, key) ==
  IF v[1] = "ref" /\ key \in DOMAIN h[v[2]] THEN h[v[2]][key] ELSE Undef
PutProperty(h, v, key, x) == [h EXCEPT ![v[2]] = [k \in DOMAIN @ \cup {key} |-> IF k = key THEN x ELSE @[k]]]
Alloc(h, object) == [v |-> Ref(Cardinality(DOMAIN h)),
                     h |-> [k \in DOMAIN h \cup {Cardinality(DOMAIN h)} |->
                              IF k \in DOMAIN h THEN h[k] ELSE object]]
Empty == [k \in {} |-> Undef]
Owner(h, name) == IF name \in DOMAIN h[1] THEN Ref(1) ELSE Ref(0)

\* ensureChild: a missing object on the way is made; which other values may
\* be gone through differs between the two writers.  (Functions are values
\* without properties here.)
EnsureChild(h, parent, key, through) ==
  LET current == Property(h, parent, key) IN
  IF current \in {Undef, NullValue}
  THEN LET fresh == Alloc(h, Empty) IN Done(fresh.v, PutProperty(fresh.h, parent, key, fresh.v))
  ELSE IF current[1] \in through THEN Done(current, h) ELSE Threw(h)

\* Functions of the application and filters, by what they give back.
Called(name, self, args) == IF name = "self" \/ args = <<>> THEN self ELSE args[1]
Filtered(name, v, args) == IF args = <<>> THEN Str(name) ELSE args[1]
KnownFilters == {"f", "g"}

RECURSIVE Eval(_, _), EvalAll(_, _), EnsurePath(_, _)
EvalAll(ts, h) ==
  IF ts = <<>> THEN Done(<<>>, h)
  ELSE LET first == Eval(Head(ts), h) IN
       IF first.threw THEN first
       ELSE LET rest == EvalAll(Tail(ts), first.h)
            IN  IF rest.threw THEN rest ELSE Done(<<first.v>> \o rest.v, rest.h)

\* The key of a member: its name, or the value of the expression in brackets.
Key(t, h) ==
  IF t[1] = "dot" THEN Done(t[3], h)
  ELSE LET k == Eval(t[3], h) IN IF k.threw THEN k ELSE Done(ToText(k.v), k.h)

EnsurePath(t, h) ==
  CASE t[1] = "id" -> EnsureChild(h, Owner(h, t[2]), t[2], Objects)
    [] t[1] = "this" -> Done(Ref(0), h)
    [] t[1] \in {"dot", "index"} ->
         LET parent == EnsurePath(t[2], h) IN
         IF parent.threw THEN parent
         ELSE LET key == Key(t, parent.h)
              IN  IF key.threw THEN key ELSE EnsureChild(key.h, parent.v, key.v, Objects)
    [] OTHER -> Threw(h)
Assign(t, x, h) ==
  IF t[1] = "id" THEN Done(x, PutProperty(h, Owner(h, t[2]), t[2], x))
  ELSE LET object == EnsurePath(t[2], h) IN
       IF object.threw THEN object
       ELSE LET key == Key(t, object.h)
            IN  IF key.threw THEN key ELSE Done(x, PutProperty(key.h, object.v, key.v, x))

Member(t, h) ==
  LET object == Eval(t[2], h) IN
  IF object.threw \/ ~ObjectLike(object.v) THEN [object EXCEPT !.v = Undef]
  ELSE LET key == Key(t, object.h)
       IN  IF key.threw THEN key ELSE Done(Property(key.h, object.v, key.v), key.h)

Call(t, h) ==
  LET method == t[2][1] \in {"dot", "index"}
      self == IF method THEN Eval(t[2][2], h) ELSE Done(Ref(0), h)
      fn == IF self.threw THEN self
            ELSE IF method THEN Member(t[2], h) ELSE Eval(t[2], h)
  IN  IF fn.threw \/ fn.v[1] # "fn" THEN [fn EXCEPT !.v = Undef]
      ELSE LET args == EvalAll(t[3], fn.h)
           IN  IF args.threw THEN args ELSE Done(Called(fn.v[2], self.v, args.v), args.h)

Eval(t, h) ==
  CASE t[1] = "lit" -> Done(t[2], h)
    [] t[1] = "id" -> Done(Property(h, Owner(h, t[2]), t[2]), h)
    [] t[1] = "this" -> Done(Ref(0), h)
    [] t[1] = "array" ->
         LET items == EvalAll(t[2], h) IN
         IF items.threw THEN items
         ELSE LET a == Alloc(items.h, [k \in {ToString(i - 1) : i \in DOMAIN items.v} |->
                                         items.v[CHOOSE i \in DOMAIN items.v : ToString(i - 1) = k]])
              IN  Done(a.v, a.h)
    [] t[1] = "object" ->
         LET items == EvalAll([i \in DOMAIN t[2] |-> t[2][i][2]], h) IN
         IF items.threw THEN items
         ELSE LET a == Alloc(items.h, [k \in {p[1] : p \in Range(t[2])} |->
                         items.v[CHOOSE i \in DOMAIN t[2] : t[2][i][1] = k /\
                                   \A j \in DOMAIN t[2] : t[2][j][1] = k => j <= i]])
              IN  Done(a.v, a.h)
    [] t[1] \in {"dot", "index"} -> Member(t, h)
    [] t[1] = "call" -> Call(t, h)
    [] t[1] = "unary" ->
         LET r == Eval(t[3], h) IN
         IF r.threw THEN r
         ELSE Done(CASE t[2] = "!" -> Bool(~Truthy(r.v))
                     [] t[2] = "-" -> Arithmetic("-", Num(0), r.v)
                     [] OTHER -> ToNumber(r.v), r.h)
    [] t[1] = "binary" ->
         LET l == Eval(t[3], h) IN
         IF l.threw \/ (t[2] = "&&" /\ ~Truthy(l.v)) \/ (t[2] = "||" /\ Truthy(l.v)) THEN l
         ELSE LET r == Eval(t[4], l.h)
              IN  IF r.threw \/ t[2] \in {"&&", "||"} THEN r ELSE Done(Operate(t[2], l.v, r.v), r.h)
    [] t[1] = "cond" ->
         LET test == Eval(t[2], h)
         IN  IF test.threw THEN test ELSE Eval(IF Truthy(test.v) THEN t[3] ELSE t[4], test.h)
    [] t[1] = "assign" ->
         LET r == Eval(t[3], h) IN IF r.threw THEN r ELSE Assign(t[2], r.v, r.h)
    [] t[1] = "filter" ->
         LET all == EvalAll(<<t[3]>> \o t[4], h)
         IN  IF t[2] \notin KnownFilters THEN Threw(h)
             ELSE IF all.threw THEN all ELSE Done(Filtered(t[2], Head(all.v), Tail(all.v)), all.h)

\* The compiler's own writer, for "=" bindings and ngRef: a key in brackets is
\* looked up in the object it indexes.
Assignable(t) == t[1] \in {"id", "dot", "index"}
KeyForWrite(t, h, parent) ==
  IF t[1] = "dot" THEN t[3]
  ELSE ToText(CASE t[3][1] = "lit" -> t[3][2]
                [] t[3][1] = "id" -> Property(h, parent, t[3][2])
                [] OTHER -> Undef)
RECURSIVE EnsurePathForWrite(_, _)
EnsurePathForWrite(t, h) ==
  CASE t[1] = "id" -> EnsureChild(h, Ref(0), t[2], {"ref"})
    [] t[1] = "this" -> Done(Ref(0), h)
    [] t[1] \in {"dot", "index"} ->
         LET parent == EnsurePathForWrite(t[2], h)
         IN  IF parent.threw THEN parent
             ELSE EnsureChild(parent.h, parent.v, KeyForWrite(t, parent.h, parent.v), {"ref"})
    [] OTHER -> Threw(h)
WriteAssignable(t, x, h) ==
  IF t[1] = "id" THEN Done(x, PutProperty(h, Ref(0), t[2], x))
  ELSE LET object == EnsurePathForWrite(t[2], h)
       IN  IF object.threw THEN object
           ELSE Done(x, PutProperty(object.h, object.v, KeyForWrite(t, object.h, object.v), x))

-----------------------------------------------------------------------------
(* How a tree is written: with parentheses only where the documentation's     *)
(* precedence asks for them.  Filters chain from left to right.              *)

Documented ==
  <<{"||"}, {"&&"}, {"==", "!=", "===", "!=="}, {"<", ">", "<=", ">="}, {"+", "-"}, {"*", "/", "%"}>>
Level(t) ==
  CASE t[1] = "assign" -> 0
    [] t[1] = "filter" -> 1
    [] t[1] = "cond" -> 2
    [] t[1] = "binary" -> 2 + CHOOSE k \in DOMAIN Documented : t[2] \in Documented[k]
    [] t[1] = "unary" -> 9
    [] OTHER -> 10
Symbol(text) == <<[form |-> "symbol", text |-> text, n |-> 0]>>
Word(text) == <<[form |-> "word", text |-> text, n |-> 0]>>
Separated(parts, text) ==
  FoldLeft(LAMBDA all, k : all \o (IF k = 1 THEN <<>> ELSE Symbol(text)) \o parts[k],
           <<>>, [k \in DOMAIN parts |-> k])
Literal(v) ==
  CASE v[1] = "str" -> <<[form |-> "string", text |-> v[2], n |-> 0]>>
    [] v[1] = "num" -> <<[form |-> "number", text |-> ToString(v[2]), n |-> v[2]]>>
    [] v = NullValue -> Word("null")
    [] OTHER -> Word(IF v[2] THEN "true" ELSE "false")

RECURSIVE Written(_, _)
Written(t, level) ==
  LET list(ts, close) == Separated([k \in DOMAIN ts |-> Written(ts[k], 0)], ",") \o Symbol(close)
      bare ==
        CASE t[1] = "lit" -> Literal(t[2])
          [] t[1] = "id" -> Word(t[2])
          [] t[1] = "this" -> Word("this")
          [] t[1] = "array" -> Symbol("[") \o list(t[2], "]")
          [] t[1] = "object" ->
               Symbol("{") \o Separated([k \in DOMAIN t[2] |->
                 Word(t[2][k][1]) \o Symbol(":") \o Written(t[2][k][2], 0)], ",") \o Symbol("}")
          [] t[1] = "dot" -> Written(t[2], 10) \o Symbol(".") \o Word(t[3])
          [] t[1] = "index" -> Written(t[2], 10) \o Symbol("[") \o Written(t[3], 0) \o Symbol("]")
          [] t[1] = "call" -> Written(t[2], 10) \o Symbol("(") \o list(t[3], ")")
          [] t[1] = "unary" -> Symbol(t[2]) \o Written(t[3], 9)
          [] t[1] = "binary" -> Written(t[3], Level(t)) \o Symbol(t[2]) \o Written(t[4], Level(t) + 1)
          [] t[1] = "cond" ->
               Written(t[2], 3) \o Symbol("?") \o Written(t[3], 2) \o Symbol(":") \o Written(t[4], 2)
          [] t[1] = "assign" -> Written(t[2], 10) \o Symbol("=") \o Written(t[3], 0)
          [] OTHER ->
               Written(t[3], 1) \o Symbol("|") \o Word(t[2])
                 \o FoldLeft(LAMBDA all, arg : all \o Symbol(":") \o Written(arg, 2), <<>>, t[4])
  IN  IF Level(t) < level THEN Symbol("(") \o bare \o Symbol(")") ELSE bare

-----------------------------------------------------------------------------
(* An expression in use                                                     *)

Init ==
  /\ \/ meant \in Trees /\ source = Written(meant, 0)
     \/ meant = None /\ source \in Sources
  /\ tree = Parsed(source)
  /\ heap \in Heaps
  /\ value = <<>> /\ steps = 0

Evaluate ==
  /\ tree # Error /\ steps < MaxSteps
  /\ LET r == Eval(tree, heap)
     IN  heap' = r.h /\ value' = (IF r.threw THEN Error ELSE <<r.v>>)
  /\ steps' = steps + 1
  /\ UNCHANGED <<meant, source, tree>>

\* A two-way binding or ngRef writes to the expression.
Write(x) ==
  /\ tree # Error /\ steps < MaxSteps /\ Assignable(tree)
  /\ LET r == WriteAssignable(tree, x, heap)
     IN  heap' = r.h /\ value' = (IF r.threw THEN Error ELSE <<r.v>>)
  /\ steps' = steps + 1
  /\ UNCHANGED <<meant, source, tree>>

Next == Evaluate \/ Write(Num(7)) \/ Write(Str("new"))

-----------------------------------------------------------------------------
(* Properties                                                              *)

\* The tree of an expression is the one its writer meant, by the documented
\* precedence, and what the documentation calls invalid is refused.
ParsedAsMeant == tree = (IF meant = None THEN Error ELSE meant)

\* An expression flagged constant, which a watch evaluates only once, has the
\* same value whatever the scope holds, and changes none of its objects.
Shown(r) == IF r.threw THEN Error ELSE IF r.v[1] = "ref" THEN r.h[r.v[2]] ELSE r.v
ConstantHolds ==
  tree # Error /\ ConstantFlag(tree) =>
    \A h \in Heaps : LET r == Eval(tree, h) IN
      Shown(r) = Shown(Eval(tree, heap)) /\ \A k \in DOMAIN h : r.h[k] = h[k]

\* What an assignment or a two-way binding has written is what the expression
\* reads from then on, and both write to the same place.
WrittenIsRead ==
  [][steps' > steps /\ value' # Error =>
       /\ (Evaluate /\ tree[1] = "assign" => Eval(tree[2], heap').v = value'[1])
       /\ (~Evaluate =>
             Eval(tree, [heap' EXCEPT ![1] = Empty]).v = value'[1])]_expressionVars
=============================================================================
