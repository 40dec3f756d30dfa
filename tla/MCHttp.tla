------------------------------- MODULE MCHttp -------------------------------
(* Constants for the runs of Http *)
EXTENDS Http

CONSTANTS u, c1, c2, none

Config(m, c, l) == [url |-> u, method |-> m, cache |-> c, limit |-> l]

\* Two cacheable requests, for one URL and two caches, and a JSONP request.
SomeConfigs ==
  {Config("GET", c1, "number"), Config("GET", c2, "promise"), Config("JSONP", none, "number")}

\* One caller has no limit, the other has.
MixedConfigs == {Config("GET", c1, "none"), Config("GET", c1, "number")}

Observer == [request |-> TRUE, requestError |-> FALSE,
             response |-> FALSE, responseError |-> FALSE]
Full     == [request |-> TRUE, requestError |-> TRUE,
             response |-> TRUE, responseError |-> TRUE]

\* Three calls without interceptors, two with the longest chain.
SomeCalls == [s \in {<<>>, <<Full, Observer>>} |-> IF s = <<>> THEN 3 ELSE 2]
TwoDirect == [s \in {<<>>} |-> 2]
=============================================================================
