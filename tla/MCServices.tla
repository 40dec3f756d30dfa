----------------------------- MODULE MCServices -----------------------------
(***************************************************************************)
(* What an application declares and the services it then calls: Startup,    *)
(* NgModule, Expressions, Filters, Values, HttpConfig, Sce and Sanitize.    *)
(* They do not share state, so a behaviour is one of one of them: part says *)
(* which, and the others stay at one of their initial states.               *)
(***************************************************************************)
EXTENDS Integers, Sequences, FiniteSets, TLC

CONSTANTS
  Parts,         \* the parts to check
  LateDeclares,  \* whether the started application goes on to declare
  Sites,         \* Sites of NgModule
  Failed, Loop, Self, Undefined, Nothing, Refused

VARIABLES
  part,
  declared, startInjector, starting, threw, marked, compiled, brokenStarts, index, late, accepted,
  ngPhase, ngRequires, ngCalls, next, ngInjector, plan, wanted, outcomes,
  meant, source, syntax, cells, result, steps,
  shown, asked, filters,
  fields, lastCopy, settled, changesTold, writes,
  defaults, cookies, config, sent, earlier, answer, sends,
  trusting, service, advanced, wrappers, verdicts, trustSettings, trustCalls,
  accepting, allowed, read, machine, ended, settings

startupVars == <<declared, startInjector, starting, threw, marked, compiled, brokenStarts, index,
                 late, accepted>>
ngVars == <<ngPhase, ngRequires, ngCalls, next, ngInjector, plan, wanted, outcomes>>
expressionVars == <<meant, source, syntax, cells, result, steps>>
filterVars == <<shown, asked, filters>>
valueVars == <<fields, lastCopy, settled, changesTold, writes>>
configVars == <<defaults, cookies, config, sent, earlier, answer, sends>>
sceVars == <<trusting, service, advanced, wrappers, verdicts, trustSettings, trustCalls>>
sanitizeVars == <<accepting, allowed, read, machine, ended, settings>>
vars == <<part, startupVars, ngVars, expressionVars, filterVars, valueVars, configVars, sceVars,
          sanitizeVars>>

-----------------------------------------------------------------------------
(* Declarations, and the services of ng                                     *)

Plain == [restrict |-> "EA", scope |-> "no", transclude |-> "no", replace |-> FALSE,
          template |-> "no", templateUrl |-> "no", controllerAs |-> "no", controller |-> "no",
          bindings |-> "no", require |-> "no", priority |-> "no"]
Factory(ddo) == [shape |-> "invokable", throws |-> FALSE, ddo |-> ddo]
Good == Factory(Plain)
Directives(pairs) == [op |-> "directive", pairs |-> pairs]
ReadsOnly == {[op |-> "ask", name |-> "a"], [op |-> "ask", name |-> "b"]}
Declares == {Directives(<<<<"a", Good>>>>), [op |-> "filter", pairs |-> <<<<"b", [shape |-> "invokable"]>>>>],
             [op |-> "set", setting |-> "debugInfoEnabled", value |-> "other"]}
S == INSTANCE Startup WITH
       Names <- {"a", "b", "!"}, BadName <- "!",
       Blocks <-
         {Directives(<<<<"a", Good>>>>),
          Directives(<<<<"a", [Good EXCEPT !.throws = TRUE]>>,
                       <<"b", Factory([Plain EXCEPT !.controller = "good"])>>>>),
          Directives(<<<<"a", Factory([Plain EXCEPT !.template = "good", !.templateUrl = "good"])>>,
                       <<"b", [Good EXCEPT !.shape = "none"]>>>>),
          Directives(<<<<"a", Factory([Plain EXCEPT !.controllerAs = "good"])>>>>),
          [op |-> "component", name |-> "b", ddo |-> [Plain EXCEPT !.templateUrl = "good"]],
          [op |-> "component", name |-> "!", ddo |-> Plain],
          [op |-> "controller", pairs |-> <<<<"a", [shape |-> "invokable"]>>, <<"b", [shape |-> "none"]>>>>],
          [op |-> "filter", pairs |-> <<<<"a", [shape |-> "invokable"]>>>>],
          [op |-> "set", setting |-> "debugInfoEnabled", value |-> "other"],
          [op |-> "set", setting |-> "aHrefSanitizationTrustedUrlList", value |-> "bad"],
          [op |-> "ask", name |-> "a"],
          [op |-> "throw"], [op |-> "bootstrap"]},
       LateBlocks <- IF LateDeclares THEN ReadsOnly \cup Declares ELSE ReadsOnly,
       Document <- <<"b", "a">>, Reentrant <- FALSE, MaxDeclared <- 3, MaxBoots <- 2, MaxLate <- 1,
       injector <- startInjector, throwing <- threw, linked <- compiled,
       broken <- brokenStarts

Call(op, name, deps, by) == [op |-> op, name |-> name, deps |-> deps, by |-> by]
M == INSTANCE NgModule WITH
       RequiresChoices <- {<<"ng">>, <<>>, <<"ng", "missing">>},
       AppCalls <-
         {Call("factory", "$exceptionHandler", <<>>, "app1"),
          Call("decorator", "$exceptionHandler", <<"svc">>, "app2"),
          Call("factory", "svc", <<"$http">>, "app3"), Call("interceptor", "svc", <<>>, "app4"),
          Call("filter", "svc", <<"$locale">>, "app5"), Call("directive", "ngBind", <<"svc">>, "app6"),
          Call("component", "pane", <<>>, "app7"), Call("controller", "Ctl", <<>>, "app8"),
          Call("value", "$sanitize", <<>>, "app9"), Call("constant", "svc", <<>>, "app10"),
          Call("provide", "$locale", <<"ngBindDirective">>, "app11"),
          Call("run", "", <<"$compile">>, "app12"), Call("wrap", "$sanitize", <<>>, "app13"),
          Call("provider", "$filter", <<>>, "app14"), Call("service", "$compile", <<>>, "app15")},
       Asked <- {"$http", "$sce", "$compile", "$timeout", "svc", "svcFilter", "ngBindDirective",
                 "ngPluralizeDirective", "$rootScope"},
       MaxCalls <- 2, MaxGets <- 2,
       phase <- ngPhase, requires <- ngRequires, calls <- ngCalls, injector <- ngInjector

-----------------------------------------------------------------------------
(* Expressions and filters                                                  *)

Num(n) == [type |-> "number", number |-> n]
String(s) == [type |-> "string", string |-> s]
NullValue == [type |-> "null"]
Missing == [type |-> "undefined"]
Fields(pairs) == [type |-> "object", fields |-> pairs, prim |-> Self]
Items(values) == [kind |-> "array", items |-> values]
Person(name, age) == Fields(<<<<"name", name>>, <<"age", age>>>>)
Named(name) == Person(Fields(<<<<"first", name>>>>), NullValue)
Words ==
  [s \in {"Bob", "bob", "Al", "b", "1", "2"} |->
     CASE s \in {"Bob", "bob"} -> [rank |-> 4, parts |-> {"b", "bob"}]
       [] s = "Al" -> [rank |-> 2, parts |-> {"al"}]
       [] s = "b" -> [rank |-> 3, parts |-> {"b"}]
       [] s = "1" -> [rank |-> 0, parts |-> {"1"}]
       [] s = "2" -> [rank |-> 1, parts |-> {"2"}]]
By(key, descending) == [key |-> key, descending |-> descending]
Keyed(pairs) == [keys |-> pairs]
Collections ==
  {Items(<<Person(String("Bob"), Num(2)), Person(String("Al"), NullValue), Person(String("bob"), Num(1)),
           Person(String("Bob"), Missing)>>),
   Items(<<Num(2), String("Bob"), NullValue, Num(1), String("Al")>>),
   Items(<<Named(String("Bob")), Person(String("Al"), Num(1)), Named(String("Al"))>>),
   [kind |-> "string", items |-> <<"h", "e", "l", "l", "o">>],
   [kind |-> "other", items |-> <<>>], Items(<<>>)}
F == INSTANCE Filters WITH
       Sources <- Collections, Text <- Words,
       Orders <-
         [predicates : {<<By("name", FALSE)>>, <<By("age", TRUE), By("name", FALSE)>>,
                        <<By("", FALSE)>>, <<By("age", FALSE)>>,
                        <<By("name", FALSE), By("age", TRUE)>>},
          reverse : BOOLEAN, comparator : {"default"}]
         \cup [predicates : {<<By("age", TRUE)>>}, reverse : BOOLEAN, comparator : {"same", "types"}],
       Expressions <-
         [form : {String("b"), Num(1), [not |-> String("b")], Keyed(<<<<"name", String("b")>>>>),
                  Keyed(<<<<"$", String("b")>>, <<"age", Num(1)>>>>),
                  Keyed(<<<<"name", Keyed(<<<<"first", String("b")>>>>)>>>>),
                  Keyed(<<<<"name", Missing>>>>)},
          strict : {FALSE}]
         \cup [form : {String("Bob"), Keyed(<<<<"name", String("bob")>>>>)}, strict : {TRUE}],
       Limits <- [limit : {0, 1, 2, 9, -1, -9}, begin : {0, 1, 4, -1}], MaxFilters <- 2

-----------------------------------------------------------------------------
(* Expressions: trees that a developer means, as the parser builds them,     *)
(* lexemes that are no expression, and scopes.                               *)

Id(name) == <<"id", name>>
Literal(value) == <<"lit", value>>
Two == Literal(<<"num", 2>>)
Text == Literal(<<"str", "s">>)
Binary(op, left, right) == <<"binary", op, left, right>>
Choose(test, left, right) == <<"cond", test, left, right>>
Piped(filter, input, args) == <<"filter", filter, input, args>>

Leaves == {Id("a"), Id("b"), <<"this">>, Two, Text, Literal(<<"null">>), Literal(<<"bool", TRUE>>)}

\* One operator of each kind.
Small ==
  LET operand == {Id("a"), Two}
  IN  {Binary(op, l, r) : op \in {"+", "*", "<", "==", "&&", "||"}, l \in operand, r \in operand}
      \cup {<<"unary", op, l>> : op \in {"!", "-"}, l \in operand}
      \cup {Choose(l, r, Id("b")) : l \in operand, r \in operand}
      \cup {<<"dot", Id("a"), "b">>, <<"index", Id("a"), Literal(<<"str", "k">>)>>,
            <<"call", Id("f"), <<Id("a")>>>>, <<"array", <<Two, Text>>>>, <<"array", <<>>>>,
            <<"object", <<<<"k", Two>>>>>>, <<"assign", Id("a"), Two>>,
            Piped("f", Id("a"), <<>>), Piped("f", Id("a"), <<Two>>)}

\* And one of them as the operand of another, but no filter with arguments piped
\* into a second one.
Nested ==
  {Binary(op, l, Id("b")) : op \in {"+", "-", "*", "<", "===", "&&", "||"}, l \in Small}
  \cup {Binary(op, Id("b"), r) : op \in {"-", "*", "<=", "!=", "&&", "||"}, r \in Small}
  \cup {<<"unary", op, l>> : op \in {"!", "-"}, l \in Small}
  \cup {Choose(t, l, r) : t \in {Id("a"), Choose(Id("a"), Id("b"), Id("c"))},
                          l \in Small, r \in {Id("a")} \cup Small}
  \cup {<<"assign", l, r>> : l \in {Id("a"), <<"dot", <<"dot", Id("a"), "b">>, "c">>,
                                    <<"index", Id("a"), Id("k")>>}, r \in Small}
  \cup {Piped("g", l, <<>>) : l \in {s \in Small : s[1] # "filter" \/ s[4] = <<>>}}
  \cup {Piped("g", Id("a"), <<l, Id("b")>>) : l \in Small}
  \cup {<<"call", <<"dot", Id("a"), "m">>, <<l, Id("b")>>>> : l \in Small}
  \cup {<<"array", <<l, Id("b")>>>> : l \in Small}
  \cup {<<"object", <<<<"k", l>>, <<"l", Id("b")>>>>>> : l \in Small}
  \cup {<<"unary", "!", <<"index", Id("a"), l>>>> : l \in Small}

WellFormed == Leaves \cup Small \cup Nested

\* What the passing run leaves out: a filter with arguments piped into another.
TwoFilters == {Piped("g", Piped("f", Id("a"), <<Two>>), <<>>)}

Sym(text) == [form |-> "symbol", text |-> text, n |-> 0]
Word(text) == [form |-> "word", text |-> text, n |-> 0]
Malformed ==
  {<<>>, <<Sym("("), Word("a")>>, <<Word("a"), Sym("?"), Word("b")>>, <<Word("a"), Sym("|"), Sym("+")>>,
   <<Sym("["), Word("a")>>, <<Word("a"), Sym("."), Sym("1")>>, <<Word("a"), Sym("+"), Word("b"), Sym("="), Word("c")>>,
   <<Word("a"), Sym(":"), Sym(":"), Word("b")>>, <<Sym(":"), Sym(":")>>,
   <<[form |-> "stray", text |-> "#", n |-> 0]>>, <<Sym("{"), Word("a"), Sym("}")>>,
   <<Word("f"), Sym("("), Word("a")>>}

\* Objects by number, 0 the scope and 1 the locals: nothing, an object with a
\* method and a null, and a local that hides a property of the scope.
NoProps == [k \in {} |-> 0]
Objects ==
  {<<NoProps, NoProps>>,
   <<[n \in {"a", "b", "f", "k"} |->
        CASE n = "a" -> <<"ref", 2>> [] n = "b" -> <<"num", 3>> [] n = "k" -> <<"str", "b">>
          [] OTHER -> <<"fn", "first">>],
     NoProps,
     [n \in {"b", "m"} |-> IF n = "b" THEN <<"null">> ELSE <<"fn", "self">>]>>,
   <<[n \in {"a", "b"} |-> IF n = "a" THEN <<"str", "s">> ELSE <<"num", 0>>],
     [n \in {"b"} |-> <<"num", 1>>]>>}
FromZero(objects) == [k \in 0 .. Len(objects) - 1 |-> objects[k + 1]]
Heaps == {FromZero(objects) : objects \in Objects}
E == INSTANCE Expressions WITH
       Sources <- Malformed, Trees <- WellFormed, Heaps <- Heaps,
       MaxSteps <- 2, tree <- syntax, heap <- cells, value <- result

\* An object, an array, a date and an object of theirs, joined in two ways.
Refs == {"root", "list", "leaf", "when"}
Joined(properties) == [r \in Refs |-> properties[r]]
Starts ==
  {Joined("root" :> ("a" :> "leaf" @@ "c" :> "when") @@ "list" :> ("a" :> "two")
          @@ "leaf" :> ("c" :> "when") @@ "when" :> ("a" :> "two")),
   Joined("root" :> ("a" :> "list") @@ "list" :> ("a" :> "leaf" @@ "$b" :> "one")
          @@ "leaf" :> ("c" :> "one") @@ "when" :> ("a" :> "one"))}
V == INSTANCE Values WITH
       Objects <- Refs,
       Kind <- [r \in Refs |-> CASE r = "list" -> "array" [] r = "when" -> "date" [] OTHER -> "object"],
       Keys <- <<"a", "$b", "c">>, Hidden <- {"$b"}, Leaves <- {"one", "two", "f", Undefined},
       Functions <- {"f"}, Root <- "root", Deepest <- 12, MaxWrites <- 2,
       Starts <- Starts,
       heap <- fields, last <- lastCopy, reports <- changesTold
-----------------------------------------------------------------------------
(* Requests, trusted values and markup                                      *)

Param(text) == [kind |-> "leaf", text |-> text]
Params(values) == [kind |-> "array", items |-> values]
Dict(pairs) == [kind |-> "object", fields |-> pairs, json |-> <<"json">>]
NoParam == [kind |-> "absent"]
Api(query) == [path |-> "/api", query |-> query]
Cdn == [path |-> "//cdn", query |-> <<>>]
Request(method) ==
  [method |-> method, url |-> Api(<<>>), params |-> <<>>, headers |-> [n \in {} |-> ""],
   data |-> [kind |-> "none"], transform |-> "default", serializer |-> "default"]
Char(c) == [char |-> c, escaped |-> FALSE]
q == <<"q">>
tags == <<"tags">>
Escapes == <<<<q, Param(<<"a", "&", "=">>)>>,
             <<tags, Params(<<Param(<<"x">>), NoParam, Param(<<"x">>)>>)>>>>
Swapped == <<Escapes[2], <<<<"none">>, NoParam>>, Escapes[1]>>
Nests == <<<<q, Dict(<<<<tags, Params(<<Dict(<<<<q, Param(<<"x">>)>>>>), Param(<<"y">>)>>)>>,
                       <<<<"k">>, NoParam>>>>)>>>>
Body == [kind |-> "structured", value |-> <<"v">>]
Said(looks, parses) == [kind |-> "text", looks |-> looks, parses |-> parses, value |-> <<"v">>]
H == INSTANCE HttpConfig WITH
       Configs <-
         {Request("GET"), [Request("GET") EXCEPT !.params = Escapes],
          [Request("GET") EXCEPT !.params = Swapped],
          [Request("GET") EXCEPT !.params = Escapes, !.url = Api(<<Char("v"), Char("="), Char("1")>>)],
          [Request("GET") EXCEPT !.params = Nests, !.serializer = "jq"],
          [Request("GET") EXCEPT !.params = Nests],
          [Request("GET") EXCEPT !.params = Escapes, !.serializer = "jq", !.url = Cdn],
          [Request("POST") EXCEPT !.data = Body],
          [Request("POST") EXCEPT !.data = Body,
                                  !.headers = "content-type" :> "mine" @@ "X-Mine" :> "1"],
          [Request("PUT") EXCEPT !.data = Body, !.url = Cdn, !.headers = "X-XSRF-TOKEN" :> "own"],
          [Request("PUT") EXCEPT !.data = [kind |-> "text", value |-> <<"v">>],
                                 !.transform = "wrap", !.headers = "accept" :> "all"],
          [Request("POST") EXCEPT !.transform = "throw"]},
       Defaults <- {[common |-> "Accept" :> "json", POST |-> "Content-Type" :> "json"],
                    [common |-> "Accept" :> "json" @@ "X-Mine" :> "0", PUT |-> "accept" :> "put"]},
       CookieJars <- {<<>>, <<<<"a", "1">>, <<"XSRF-TOKEN", "t">>, <<"XSRF-TOKEN", "u">>>>},
       Lower <- "Accept" :> "accept" @@ "accept" :> "accept" @@ "Content-Type" :> "content-type"
                @@ "content-type" :> "content-type" @@ "X-Mine" :> "x-mine"
                @@ "X-XSRF-TOKEN" :> "x-xsrf-token",
       Escaped <- {"&", "[", "]"}, SortedKeys <- <<<<"k">>, <<"none">>, q, tags>>,
       CookieName <- "XSRF-TOKEN", HeaderName <- "X-XSRF-TOKEN",
       Origin <- [p \in {"/api", "//cdn"} |-> p], Here <- "/api", JsonType <- "json",
       Answers <-
         {[headers |-> <<<<"Accept", "1">>, <<"X-Mine", "2">>, <<"accept", "3">>>>,
           data |-> Said(TRUE, TRUE)],
          [headers |-> <<>>, data |-> Said(TRUE, FALSE)]},
       MaxSends <- 2, given <- config

Deep == <<"h", ":", "/", "a", "/", "b">>
Flat == <<"h", ":", "/", "a", "b">>
Own == <<"s">>
Wild(pattern) == [kind |-> "string", pattern |-> pattern]
SelfEntry == [kind |-> "self"]
T == INSTANCE Sce WITH
       Texts <- {Deep, Flat, Own},
       Lists <- {<<Wild(<<"h", ":", "/", "*", "b">>)>>,
                 <<SelfEntry, [kind |-> "regexp", fits |-> {Deep}, global |-> FALSE, id |-> "r"]>>,
                 <<Wild(<<"h", "*", "*", "b">>), SelfEntry>>, <<SelfEntry, [kind |-> "invalid"]>>},
       Self <- {Own}, HasSanitizer <- TRUE, Sanitized <- [t \in {Deep, Flat, Own} |-> t],
       MaxSettings <- 2, MaxCalls <- 2,
       provider <- trusting, settings <- trustSettings, calls <- trustCalls

Open(tag) == [kind |-> "start", tag |-> tag, attrs |-> <<>>, unary |-> FALSE]
Close(tag) == [kind |-> "end", tag |-> tag]
Z == INSTANCE Sanitize WITH
       Tokens <-
         {Open("B"), Close("b"), Open("br"), [Open("br") EXCEPT !.unary = TRUE], Open("script"),
          Close("script"), Open("li"), Close("li"), Open("my-tag"),
          [Open("a") EXCEPT !.attrs = <<<<"href", "/x">>, <<"OnClick", "f">>, <<"Href", "x:">>,
                                        <<"title", "t">>>>],
          [Open("script") EXCEPT !.unary = TRUE],
          [kind |-> "text"], [kind |-> "comment"], [kind |-> "stray"]},
       Lower <- [n \in {"B", "b", "br", "script", "li", "my-tag", "a", "href", "Href", "OnClick",
                        "onclick", "title"} |->
                   CASE n = "B" -> "b" [] n = "Href" -> "href" [] n = "OnClick" -> "onclick"
                     [] OTHER -> n],
       Uris <- {"/x"}, Extras <- {<<{"my-tag"}>>, <<{"my-tag"}, {"bad"}, {"script"}>>},
       BadName <- "bad", MaxTokens <- 3, MaxSettings <- 1,
       provider <- accepting, lists <- allowed

-----------------------------------------------------------------------------

Init ==
  /\ part \in Parts
  /\ part # "ng" => ngRequires = <<>>
  /\ part # "expressions" => meant = Two /\ cells = FromZero(<<NoProps, NoProps>>)
  /\ part # "filters" => shown = Items(<<>>)
  /\ part # "values" => fields = CHOOSE start \in Starts : TRUE
  /\ part # "requests" => cookies = <<>> /\ defaults = [common |-> "Accept" :> "json", POST |-> "Content-Type" :> "json"]
  /\ S!Init /\ M!Init /\ E!Init /\ F!Init /\ V!Init /\ H!Init /\ T!Init /\ Z!Init

Still == UNCHANGED vars
Idle(rest) == UNCHANGED <<part, rest>>
Next ==
  \/ part = "startup" /\ S!Next
     /\ Idle(<<ngVars, expressionVars, filterVars, valueVars, configVars, sceVars, sanitizeVars>>)
  \/ part = "ng" /\ M!Next
     /\ Idle(<<startupVars, expressionVars, filterVars, valueVars, configVars, sceVars, sanitizeVars>>)
  \/ part = "expressions" /\ E!Next
     /\ Idle(<<startupVars, ngVars, filterVars, valueVars, configVars, sceVars, sanitizeVars>>)
  \/ part = "filters" /\ F!Next
     /\ Idle(<<startupVars, ngVars, expressionVars, valueVars, configVars, sceVars, sanitizeVars>>)
  \/ part = "values" /\ V!Next
     /\ Idle(<<startupVars, ngVars, expressionVars, filterVars, configVars, sceVars, sanitizeVars>>)
  \/ part = "requests" /\ H!Next
     /\ Idle(<<startupVars, ngVars, expressionVars, filterVars, valueVars, sceVars, sanitizeVars>>)
  \/ part = "sce" /\ T!Next
     /\ Idle(<<startupVars, ngVars, expressionVars, filterVars, valueVars, configVars, sanitizeVars>>)
  \/ part = "sanitize" /\ Z!Next
     /\ Idle(<<startupVars, ngVars, expressionVars, filterVars, valueVars, configVars, sceVars>>)

Spec == Init /\ [][Next]_vars

-----------------------------------------------------------------------------
(* What is declared is what is there, and what a service is asked is what it *)
(* does.                                                                    *)

StartupSound ==
  part = "startup" =>
    /\ S!DirectivesSound /\ S!NoHalfRegistration /\ S!LateRefused
    /\ S!StartedOnce /\ S!SettingsHold
ServicesAgree == part = "ng" => M!ServicesAgree
TreesMeant == E!ParsedAsMeant /\ E!ConstantHolds
ChangesHeard == V!ChangesHeard /\ V!PlainIsWatched
TrustKept ==
  /\ part = "sce" => T!TrustKept
  /\ part = "sanitize" => Z!SanitizeSound
AnswersReadable == part = "requests" => H!AnswersReadable
RequestsAsAsked == H!RequestsAsAsked
Performed == E!WrittenIsRead /\ F!FiltersKeepTheirWord
=============================================================================
