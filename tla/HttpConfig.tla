------------------------------ MODULE HttpConfig ------------------------------
(***************************************************************************)
(* What $http makes of a request before it is sent, and of an answer before   *)
(* it is delivered: headers in layers, transforms, the query, the token.     *)
(* Http models when this happens; this module what it comes to.              *)
(*                                                                         *)
(* A text is a sequence of characters or words; a header bag a function from  *)
(* names; an object a sequence of fields <<key, value>>, in the order it was  *)
(* written; a value is of kind leaf, array, object or absent.                *)
(***************************************************************************)
EXTENDS Integers, Sequences, FiniteSets, SequencesExt, TLC

CONSTANTS
  Configs,       \* requests: [method, url, params, headers, data, transform, serializer]
  Defaults,      \* what $httpProvider.defaults may hold: a bag for common and each method
  CookieJars,    \* what document.cookie may hold: a sequence of <<name, value>>
  Lower,         \* the lower-case form of each header name
  Escaped,       \* the characters a query escapes
  SortedKeys,    \* every key, sorted
  CookieName, HeaderName,
  Origin,        \* of each path of Configs
  Here,          \* the origin of the document
  JsonType,      \* application/json;charset=utf-8
  Answers,       \* raw answers: [headers: a sequence of <<name, value>>, data]
  Nothing,       \* no request, no answer
  MaxSends       \* bound

VARIABLES
  defaults,      \* $httpProvider.defaults.headers
  cookies,
  given,         \* the request as the application asked for it
  sent,          \* mergedConfig, which the backend and the answer's config get
  earlier,       \* what was asked for so far: [given, url]
  answer,        \* what was delivered
  sends

configVars == <<defaults, cookies, given, sent, earlier, answer, sends>>

Init ==
  /\ defaults \in Defaults /\ cookies \in CookieJars
  /\ given = Nothing /\ sent = Nothing /\ earlier = {} /\ answer = Nothing
  /\ sends = 0

-----------------------------------------------------------------------------
(* Headers                                                                 *)

NoHeaders == [n \in {} |-> ""]
Lowered(names) == {Lower[n] : n \in names}
\* A mistake the properties rule out: names are compared as they are written.
LayerHeadersByCase(base, incoming) ==
  incoming @@ [n \in DOMAIN base \ DOMAIN incoming |-> base[n]]

LayerHeaders(base, incoming) ==
  incoming @@ [n \in {m \in DOMAIN base : Lower[m] \notin Lowered(DOMAIN incoming)} |-> base[n]]

MergeHeaders(method, own) ==
  LET perMethod == IF method \in DOMAIN defaults THEN defaults[method] ELSE NoHeaders
  IN  LayerHeaders(LayerHeaders(defaults.common, perMethod), own)

\* The first cookie of that name.
Token ==
  LET named == SelectSeq(cookies, LAMBDA c : c[1] = CookieName)
  IN  IF named = <<>> THEN "" ELSE Head(named)[2]

WithToken(headers, path) ==
  IF Origin[path] = Here /\ Token # "" THEN HeaderName :> Token @@ headers ELSE headers

-----------------------------------------------------------------------------
(* The body                                                                *)

\* A structured body becomes JSON text; the application's own transform wraps.
TransformRequest(transform, data, headers) ==
  CASE transform = "wrap" -> <<[kind |-> "text", value |-> <<"wrapped", data.value>>], headers>>
    [] transform = "default" /\ data.kind = "structured" ->
         <<[kind |-> "text", value |-> data.value],
           IF "content-type" \in Lowered(DOMAIN headers) THEN headers ELSE "Content-Type" :> JsonType @@ headers>>
    [] OTHER -> <<data, headers>>

-----------------------------------------------------------------------------
(* The query                                                               *)

Encoded(text) == [k \in DOMAIN text |-> [char |-> text[k], escaped |-> text[k] \in Escaped]]
Mark(c) == <<[char |-> c, escaped |-> FALSE]>>
Part(key, text) == <<Encoded(key) \o Mark("=") \o Encoded(text)>>
ValueOf(fields, key) == fields[CHOOSE k \in DOMAIN fields : fields[k][1] = key][2]
KeysOf(fields) == SelectSeq(SortedKeys, LAMBDA key : \E k \in DOMAIN fields : fields[k][1] = key)
Flat(lists) == FlattenSeq(lists)
Text(value) == IF value.kind = "object" THEN value.json ELSE value.text

ParamSerializer(fields) ==
  LET Parts(key, value) ==
        LET items == SelectSeq(IF value.kind = "array" THEN value.items ELSE <<value>>, LAMBDA v : v.kind # "absent")
        IN  Flat([k \in DOMAIN items |-> Part(key, Text(items[k]))])
      keys == KeysOf(fields)
  IN  Flat([k \in DOMAIN keys |-> Parts(keys[k], ValueOf(fields, keys[k]))])

RECURSIVE JqLikeSerialize(_, _)
JqLikeSerialize(value, prefix) ==
  LET Under(name) == prefix \o <<"[">> \o name \o <<"]">>
      Structured(v) == v.kind \in {"array", "object"}
      keys == KeysOf(value.fields)
  IN  CASE value.kind = "absent" -> <<>>
        [] value.kind = "array" ->
             Flat([k \in DOMAIN value.items |->
               JqLikeSerialize(value.items[k], Under(IF Structured(value.items[k]) THEN <<ToString(k - 1)>> ELSE <<>>))])
        [] value.kind = "object" ->
             Flat([k \in DOMAIN keys |-> JqLikeSerialize(ValueOf(value.fields, keys[k]), Under(keys[k]))])
        [] OTHER -> Part(prefix, value.text)

ParamSerializerJQLike(fields) ==
  LET keys == KeysOf(fields)
  IN  Flat([k \in DOMAIN keys |-> JqLikeSerialize(ValueOf(fields, keys[k]), keys[k])])

Serialize(c) == IF c.serializer = "jq" THEN ParamSerializerJQLike(c.params) ELSE ParamSerializer(c.params)

Joined(parts) == FoldLeft(LAMBDA done, part : IF done = <<>> THEN part ELSE done \o Mark("&") \o part, <<>>, parts)
BuildUrl(url, parts) ==
  IF parts = <<>> THEN url
  ELSE [url EXCEPT !.query = IF @ = <<>> THEN Joined(parts) ELSE @ \o Mark("&") \o Joined(parts)]

-----------------------------------------------------------------------------
(* Sending                                                                 *)

\* transformRequest throws: the promise is rejected, nothing was sent.
Refuse(c) ==
  /\ sends < MaxSends /\ c.transform = "throw"
  /\ sends' = sends + 1 /\ given' = Nothing /\ sent' = Nothing /\ answer' = Nothing
  /\ UNCHANGED <<defaults, cookies, earlier>>

ServerRequest(c) ==
  LET merged == MergeHeaders(c.method, c.headers)
      body == TransformRequest(c.transform, c.data, merged)
      url == BuildUrl(c.url, Serialize(c))
  IN  /\ sends < MaxSends /\ c.transform # "throw"
      /\ sent' = [c EXCEPT !.url = url, !.headers = WithToken(body[2], c.url.path), !.data = body[1]]
      /\ sends' = sends + 1 /\ answer' = Nothing
      /\ UNCHANGED <<defaults, cookies>>

Send(c) == ServerRequest(c) /\ given' = c /\ earlier' = earlier \cup {[given |-> c, url |-> sent'.url]}
\* An interceptor sends the request an answer tells of once more.
Retry == sent # Nothing /\ answer # Nothing /\ ServerRequest(sent) /\ UNCHANGED <<given, earlier>>

-----------------------------------------------------------------------------
(* The answer                                                              *)

ParseHeaders(lines) ==
  LET Values(name) == SelectSeq(lines, LAMBDA l : Lower[l[1]] = name)
  IN  [name \in Lowered({l[1] : l \in Range(lines)}) |-> [k \in DOMAIN Values(name) |-> Values(name)[k][2]]]
HeadersGetter(parsed, name) == IF Lower[name] \in DOMAIN parsed THEN parsed[Lower[name]] ELSE <<>>

\* Text that begins like JSON is parsed, and left as it is when that fails.
TransformResponse(data) ==
  IF data.kind = "text" /\ data.looks /\ data.parses THEN [kind |-> "structured", value |-> data.value] ELSE data

Deliver(raw) ==
  /\ sent # Nothing /\ answer = Nothing
  /\ answer' = [headers |-> ParseHeaders(raw.headers), data |-> TransformResponse(raw.data), raw |-> raw]
  /\ UNCHANGED <<defaults, cookies, given, sent, earlier, sends>>

SetCookies(jar) ==
  /\ cookies # jar /\ cookies' = jar /\ UNCHANGED <<defaults, given, sent, earlier, answer, sends>>

Next ==
  \/ \E c \in Configs : Send(c) \/ Refuse(c)
  \/ Retry
  \/ \E raw \in Answers : Deliver(raw)
  \/ \E jar \in CookieJars : SetCookies(jar)

-----------------------------------------------------------------------------
(* Properties                                                              *)

\* Whatever the case it is written in, a header is sent once, with the value of
\* the innermost layer that has it: the token, the request, its method, all.
HeadersLayered(c, headers) ==
  LET token == IF Origin[c.url.path] = Here /\ Token # "" THEN HeaderName :> Token ELSE NoHeaders
      json == IF c.transform = "default" /\ c.data.kind = "structured" THEN "Content-Type" :> JsonType ELSE NoHeaders
      perMethod == IF c.method \in DOMAIN defaults THEN defaults[c.method] ELSE NoHeaders
      layers == <<token, c.headers, perMethod, defaults.common, json>>
      Has(k, name) == name \in Lowered(DOMAIN layers[k])
  IN  /\ Lowered(DOMAIN headers) = UNION {Lowered(DOMAIN layers[k]) : k \in DOMAIN layers}
      /\ \A n \in DOMAIN headers : \E k \in DOMAIN layers : \E m \in DOMAIN layers[k] :
           /\ Lower[m] = Lower[n] /\ layers[k][m] = headers[n]
           /\ \A j \in 1 .. k - 1 : ~Has(j, Lower[n])
      /\ \A m, n \in DOMAIN headers : Lower[m] = Lower[n] => m = n

\* What a server makes of a query: pairs of texts, at the first = of each part.
Decoded(query) ==
  FoldLeft(LAMBDA pairs, a :
             LET last == pairs[Len(pairs)]
             IN  CASE ~a.escaped /\ a.char = "&" -> Append(pairs, <<<<>>, <<>>, FALSE>>)
                   [] ~a.escaped /\ a.char = "=" /\ ~last[3] -> [pairs EXCEPT ![Len(pairs)][3] = TRUE]
                   [] OTHER -> IF last[3] THEN [pairs EXCEPT ![Len(pairs)][2] = Append(@, a.char)]
                               ELSE [pairs EXCEPT ![Len(pairs)][1] = Append(@, a.char)],
           <<<<<<>>, <<>>, FALSE>>>>, query)
\* The leaves of a value, each with the names that lead to it.
RECURSIVE Leaves(_, _)
Leaves(value, path) ==
  LET Under(name) == path \o <<"[">> \o name \o <<"]">>
  IN  CASE value.kind = "absent" -> <<>>
        [] value.kind = "array" ->
             Flat([k \in DOMAIN value.items |->
               Leaves(value.items[k], Under(IF value.items[k].kind \in {"array", "object"} THEN <<ToString(k - 1)>> ELSE <<>>))])
        [] value.kind = "object" ->
             Flat([k \in DOMAIN value.fields |-> Leaves(value.fields[k][2], Under(value.fields[k][1]))])
        [] OTHER -> <<<<path, value.text, TRUE>>>>
Asked(c) ==
  Flat([k \in DOMAIN c.params |->
    LET key == c.params[k][1]  value == c.params[k][2]
        items == SelectSeq(IF value.kind = "array" THEN value.items ELSE <<value>>, LAMBDA v : v.kind # "absent")
    IN  IF c.serializer = "jq" THEN Leaves(value, key)
        ELSE [i \in DOMAIN items |-> <<key, Text(items[i]), TRUE>>]])
SameBag(s, t) == \A v \in Range(s) \cup Range(t) :
  Len(SelectSeq(s, LAMBDA u : u = v)) = Len(SelectSeq(t, LAMBDA u : u = v))

\* Every parameter that has a value reaches the server as it was, and what the
\* url had already with it.
ParamsArrive(c, url) ==
  LET before == IF c.url.query = <<>> THEN <<>> ELSE Decoded(c.url.query)
  IN  IF url.query = <<>> THEN Asked(c) = <<>> /\ before = <<>> ELSE SameBag(Decoded(url.query), before \o Asked(c))

\* The same parameters, in whatever order and with whatever is absent, are the
\* same url, which is the key under which an answer is cached.
Present(fields) == {f \in Range(fields) : f[2].kind # "absent"}
SameQuery ==
  \A a, b \in earlier :
    (a.given.url = b.given.url /\ a.given.serializer = b.given.serializer /\ Present(a.given.params) = Present(b.given.params))
      => a.url = b.url

\* What is sent is what was asked for, in every layer and every parameter.
RequestsAsAsked ==
  [][sends' > sends =>
       /\ \A c \in Configs : Send(c) => HeadersLayered(c, sent'.headers) /\ ParamsArrive(c, sent'.url)
       /\ SameQuery']_configVars

\* Every header of an answer is found under its name in any case, and where one
\* came twice both values are, in the order they came.
AnswersReadable ==
  answer # Nothing =>
    \A l \in Range(answer.raw.headers), n \in DOMAIN Lower : Lower[n] = Lower[l[1]] =>
      HeadersGetter(answer.headers, n)
        = [k \in DOMAIN SelectSeq(answer.raw.headers, LAMBDA m : Lower[m[1]] = Lower[n]) |->
             SelectSeq(answer.raw.headers, LAMBDA m : Lower[m[1]] = Lower[n])[k][2]]

\* An interceptor that sends response.config again repeats the request.
RetriesRepeat ==
  [][Retry => sent'.url = sent.url /\ sent'.data = sent.data /\ sent'.method = sent.method]_configVars
=============================================================================
