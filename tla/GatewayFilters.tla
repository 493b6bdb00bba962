--------------------------- MODULE GatewayFilters ---------------------------
(***************************************************************************)
(* One exchange on its way through the gateway: the WASM predicate of its  *)
(* route, the WASM request or response filter, and the upstream server.    *)
(*                                                                         *)
(* Exchanges share nothing in this code but the loaders, whose threads     *)
(* WasmLoader interleaves; here a loader refuses, throws or grants a       *)
(* runner, as the lease of RunnerLease allows.  What a plugin answers is   *)
(* what Promises says and GuestPlugin shows the C code to do.              *)
(***************************************************************************)
EXTENDS Naturals, Sequences, Promises

CONSTANTS
    Names, Values,  \* of headers
    Bodies,         \* bodies other than the empty one
    Routes,         \* configurations
    Refusals,       \* what may go wrong: no runner, an exception for one, a trap
    NoRequest

ASSUME GatewayAssumption ==
    /\ "one" \in Names /\ "two" \in Values
    /\ "" \notin Bodies
    /\ Routes \subseteq [predicate : {"none", "headers", "body"},
                         filter : {"none", "request", "requestBody", "response", "responseBody"}]
    /\ Refusals \subseteq {"absent", "throws", "traps"}

VARIABLES
    route,      \* its configuration
    pc,
    stage,      \* the function of the plugin the exchange is about to call
    request,    \* the request, as the exchange has it now
    cached,     \* the exchange's attribute WASM_CACHED_REQUEST
    response,   \* the response as far as it is known
    runner,     \* does the exchange hold a runner?
    matched,    \* what the predicate answered
    status,     \* 200, 404, 500, or 0 as long as there is none
    received,   \* history: the request as it arrived
    upstream,   \* history: the request the upstream server got, and
    answer,     \* what it answered
    answered    \* history: the functions of the plugin that answered

vars == <<route, pc, stage, request, cached, response, runner, matched, status,
          received, upstream, answer, answered>>

(* new byte[0] *)
NoBody == ""

(* An absent header has no values. *)
Headers == [Names -> Seq(Values)]
Payloads == Bodies \union {NoBody}
NoHeaders == [n \in Names |-> <<>>]
SomeValues == {<<>>} \union {<<v>> : v \in Values} \union {p \in Values \X Values : p[1] # p[2]}
SomeHeaders == [Names -> SomeValues]

Init ==
    /\ route \in Routes
    /\ request \in [headers : SomeHeaders, body : Payloads]
    /\ pc = "predicate"
    /\ stage = "none"
    /\ cached = NoRequest
    /\ response = [headers |-> NoHeaders, body |-> NoBody]
    /\ runner = FALSE
    /\ matched = TRUE
    /\ status = 0
    /\ received = request
    /\ upstream = NoRequest
    /\ answer = response
    /\ answered = {}

-----------------------------------------------------------------------------
(* MessageUtils *)

(* getFirst: of several values of a header only the first is passed on. *)
FromHeaders(headers, data) ==
    [payload |-> data,
     headers |-> [n \in {m \in Names : headers[m] # <<>>} |-> Head(headers[n])]]

(* put: a header of the message takes the place of all values it had. *)
PutHeaders(headers, message) ==
    [n \in Names |-> IF n \in DOMAIN message.headers THEN <<message.headers[n]>> ELSE headers[n]]

(* Faulty: only the plugin's headers are kept. *)
ToRequest_OnlyMessage(req, message) ==
    [headers |-> PutHeaders(NoHeaders, message), body |-> message.payload]

(* The payload the plugin returns is not looked at. *)
ToRequest(req, message) == [req EXCEPT !.headers = PutHeaders(@, message)]

(* Faulty: headers the response already has are left alone. *)
ToResponse_IfAbsent(resp, message) ==
    [headers |-> [n \in Names |-> IF resp.headers[n] # <<>> THEN resp.headers[n]
                                  ELSE PutHeaders(resp.headers, message)[n]],
     body |-> message.payload]

ToResponse(resp, message) ==
    [headers |-> PutHeaders(resp.headers, message), body |-> message.payload]

-----------------------------------------------------------------------------
Stop(code) == pc' = "done" /\ status' = code

(* The exchange asks for a runner to call a function with. *)
Ask(function) == pc' = "ask" /\ stage' = function

(* CustomWASMPredicate.applyAsync.  With readBody the predicate is applied to *)
(* a body once it was read: a request without one does not match.             *)
Predicates ==
    /\ pc = "predicate"
    /\ \/ route.predicate = "none" /\ pc' = "filter" /\ UNCHANGED <<stage, status>>
       \/ route.predicate = "body" /\ request.body = NoBody /\ Stop(404) /\ UNCHANGED stage
       \/ /\ route.predicate # "none"
          /\ route.predicate = "body" => request.body # NoBody
          /\ Ask("predicate") /\ UNCHANGED status
    /\ UNCHANGED <<route, request, cached, response, runner, matched, received, upstream, answer, answered>>

(* The filters' apply. *)
Filters ==
    /\ pc = "filter"
    /\ \/ route.filter \in {"request", "response"} /\ Ask(route.filter)
       \/ route.filter = "requestBody" /\ pc' = "readBody" /\ UNCHANGED stage
       \/ route.filter \in {"none", "responseBody"} /\ pc' = "upstream" /\ UNCHANGED stage
    /\ UNCHANGED <<route, request, cached, response, runner, matched, status, received, upstream,
                   answer, answered>>

(* The body is cached and then read again from the exchange, which is not the *)
(* one with the cached body: it comes again, or nothing does, or that fails.  *)
ReadsBody ==
    /\ pc = "readBody"
    /\ \/ request.body # NoBody /\ Ask("request") /\ UNCHANGED status
       \/ pc' = "relay" /\ UNCHANGED <<stage, status>>
       \/ Stop(500) /\ UNCHANGED stage
    /\ UNCHANGED <<route, request, cached, response, runner, matched, received, upstream, answer, answered>>

(* Where the exchange goes on once the runner is closed, or was not there. *)
After(function) ==
    CASE function = "predicate" -> "matched"
      [] function = "request" -> IF route.filter = "requestBody" THEN "relay" ELSE "upstream"
      [] function = "response" -> IF route.filter = "responseBody" THEN "sent" ELSE "upstream"

(* A request goes to the attribute if the body was read, else to the chain. *)
Hands(req) ==
    IF route.filter = "requestBody" THEN cached' = req /\ UNCHANGED request
    ELSE request' = req /\ UNCHANGED cached

Granted ==
    /\ pc = "ask"
    /\ runner' = TRUE
    /\ pc' = "call"
    /\ UNCHANGED <<route, stage, request, cached, response, matched, status, received, upstream,
                   answer, answered>>

(* Faulty: no runner, and the route matches all the same. *)
Absent_Matches ==
    /\ pc = "ask" /\ "absent" \in Refusals
    /\ IF stage = "request" THEN Hands(request) ELSE UNCHANGED <<request, cached>>
    /\ pc' = After(stage)
    /\ UNCHANGED <<route, stage, response, runner, matched, status, received, upstream, answer, answered>>

(* runner == null: no match, and the filters pass on what they were given. *)
Absent ==
    /\ pc = "ask" /\ "absent" \in Refusals
    /\ matched' = (stage # "predicate" /\ matched)
    /\ IF stage = "request" THEN Hands(request) ELSE UNCHANGED <<request, cached>>
    /\ pc' = After(stage)
    /\ UNCHANGED <<route, stage, response, runner, status, received, upstream, answer, answered>>

(* An exception: an error of the exchange; the gateway takes a predicate's *)
(* for no match.                                                           *)
Fails == IF stage = "predicate" THEN Stop(404) \/ Stop(500) ELSE Stop(500)

AskThrows ==
    /\ pc = "ask" /\ "throws" \in Refusals
    /\ Fails
    /\ UNCHANGED <<route, stage, request, cached, response, runner, matched, received, upstream,
                   answer, answered>>

(* The body a function of the plugin is given. *)
Data ==
    CASE stage = "response" -> response.body
      [] stage = "predicate" -> IF route.predicate = "body" THEN request.body ELSE NoBody
      [] stage = "request" -> IF route.filter = "requestBody" THEN request.body ELSE NoBody

CallPredicate ==
    /\ pc = "call" /\ stage = "predicate"
    /\ matched' = Promise("predicate", FromHeaders(request.headers, Data))
    /\ answered' = answered \union {stage}
    /\ pc' = "close"
    /\ UNCHANGED <<route, stage, request, cached, response, runner, status, received, upstream, answer>>

CallRequest ==
    /\ pc = "call" /\ stage = "request"
    /\ Hands(ToRequest(request, Promise("request", FromHeaders(request.headers, Data))))
    /\ answered' = answered \union {stage}
    /\ pc' = "close"
    /\ UNCHANGED <<route, stage, response, runner, matched, status, received, upstream, answer>>

(* Without readBody the body toResponse returns is dropped. *)
CallResponse ==
    /\ pc = "call" /\ stage = "response"
    /\ response' =
         LET changed == ToResponse(response, Promise("response", FromHeaders(response.headers, Data)))
         IN IF route.filter = "responseBody" THEN changed ELSE [changed EXCEPT !.body = NoBody]
    /\ answered' = answered \union {stage}
    /\ pc' = "close"
    /\ UNCHANGED <<route, stage, request, cached, runner, matched, status, received, upstream, answer>>

(* The call throws, and try closes the runner on the way out. *)
CallThrows ==
    /\ pc = "call" /\ "traps" \in Refusals
    /\ runner' = FALSE
    /\ Fails
    /\ UNCHANGED <<route, stage, request, cached, response, matched, received, upstream, answer, answered>>

(* Faulty: the runner is not closed. *)
Close_Forgets ==
    /\ pc = "close"
    /\ pc' = After(stage)
    /\ UNCHANGED <<route, stage, request, cached, response, runner, matched, status, received,
                   upstream, answer, answered>>

Close ==
    /\ pc = "close"
    /\ runner' = FALSE
    /\ pc' = After(stage)
    /\ UNCHANGED <<route, stage, request, cached, response, matched, status, received, upstream,
                   answer, answered>>

(* The gateway goes by what the predicate said. *)
Matches ==
    /\ pc = "matched"
    /\ IF matched THEN pc' = "filter" /\ UNCHANGED status ELSE Stop(404)
    /\ UNCHANGED <<route, stage, request, cached, response, runner, matched, received, upstream,
                   answer, answered>>

(* Faulty: what the attribute holds is not looked at. *)
Relay_Unchecked ==
    /\ pc = "relay"
    /\ request' = cached
    /\ cached' = NoRequest
    /\ pc' = "upstream"
    /\ UNCHANGED <<route, stage, response, runner, matched, status, received, upstream, answer,
                   answered>>

(* Faulty: without a request in the attribute the body is read again. *)
Relay_Retries ==
    /\ pc = "relay"
    /\ IF cached = NoRequest THEN pc' = "readBody" /\ UNCHANGED <<request, cached>>
       ELSE /\ request' = cached
            /\ cached' = NoRequest
            /\ pc' = "upstream"
    /\ UNCHANGED <<route, stage, response, runner, matched, status, received, upstream, answer,
                   answered>>

(* Assert.notNull(cachedRequest, ...): the exchange fails without one. *)
Relay ==
    /\ pc = "relay"
    /\ IF cached = NoRequest THEN Stop(500) /\ UNCHANGED <<request, cached>>
       ELSE /\ request' = cached
            /\ cached' = NoRequest
            /\ pc' = "upstream" /\ UNCHANGED status
    /\ UNCHANGED <<route, stage, response, runner, matched, received, upstream, answer, answered>>

(* The upstream server answers; its headers join those the response has. With *)
(* responseBody the rewrite function is called with the body of the answer.   *)
Upstream ==
    /\ pc = "upstream"
    /\ upstream' = request
    /\ answer' \in [headers : SomeHeaders,
                    body : IF route.filter = "responseBody" THEN Bodies ELSE Payloads]
    /\ response' = [headers |-> [n \in Names |-> IF answer'.headers[n] # <<>> THEN answer'.headers[n]
                                                  ELSE response.headers[n]],
                    body |-> answer'.body]
    /\ IF route.filter = "responseBody" THEN Ask("response") ELSE pc' = "sent" /\ UNCHANGED stage
    /\ UNCHANGED <<route, request, cached, runner, matched, status, received, answered>>

Sends ==
    /\ pc = "sent"
    /\ Stop(200)
    /\ UNCHANGED <<route, stage, request, cached, response, runner, matched, received, upstream,
                   answer, answered>>

Done == pc = "done" /\ UNCHANGED vars

Step ==
    \/ Predicates \/ Filters \/ ReadsBody
    \/ Granted \/ Absent \/ AskThrows
    \/ CallPredicate \/ CallRequest \/ CallResponse \/ CallThrows
    \/ Close \/ Matches \/ Relay \/ Upstream \/ Sends

Next == Step \/ Done

Spec == Init /\ [][Next]_vars

(* Reactor runs every signal of an exchange; loaders, plugins and the *)
(* upstream server come back.                                         *)
FairSpec == Spec /\ WF_vars(Step)

-----------------------------------------------------------------------------
TypeOK ==
    /\ route \in Routes
    /\ pc \in {"predicate", "ask", "call", "close", "matched", "filter", "readBody", "relay",
               "upstream", "sent", "done"}
    /\ stage \in {"none", "predicate", "request", "response"}
    /\ request \in [headers : Headers, body : Payloads]
    /\ cached \in [headers : Headers, body : Payloads] \union {NoRequest}
    /\ response \in [headers : Headers, body : Payloads]
    /\ runner \in BOOLEAN /\ matched \in BOOLEAN
    /\ status \in {0, 200, 404, 500}
    /\ answered \subseteq {"predicate", "request", "response"}

(* On a route with the predicate the upstream server gets no request without *)
(* the header, whatever fails on the way, and none the plugin has not seen.  *)
OnlyMatchedRouted ==
    upstream # NoRequest /\ route.predicate # "none" =>
        received.headers["one"] # <<>> /\ "predicate" \in answered

(* What the plugin leaves of a header: all of it, or its first value. *)
Kept(headers, original) ==
    \A n \in Names :
        headers[n] = original[n] \/ (original[n] # <<>> /\ headers[n] = <<Head(original[n])>>)

(* The upstream server gets the request that came: with its body, every      *)
(* header with at least its first value, and no other, though request went   *)
(* through the plugin, and through an attribute of the exchange.             *)
RequestKept ==
    upstream # NoRequest =>
        /\ upstream.body = received.body
        /\ Kept(upstream.headers, received.headers)

(* The client gets the upstream server's body and headers.  A response filter *)
(* whose plugin answered adds the header "one"; only with readBody does it    *)
(* have the plugin's value even if the server sent one.                       *)
ResponseKept ==
    status = 200 =>
        /\ response.body = answer.body
        /\ Kept([response.headers EXCEPT !["one"] = answer.headers["one"]], answer.headers)
        /\ "response" \in answered => response.headers["one"] # <<>>
        /\ "response" \in answered /\ route.filter = "responseBody" =>
              response.headers["one"] = <<"two">>

(* A runner is given back before the exchange goes on, however its call ends. *)
RunnerReturned == runner => pc \in {"call", "close"}

(* Every exchange gets an answer. *)
ExchangeEnds == <>(pc = "done" /\ status # 0)

(* DemoApplication.java:126: "cached request shouldn't be null". *)
CachedRequestThere == pc = "relay" => cached # NoRequest
=============================================================================
