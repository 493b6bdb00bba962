------------------------ MODULE GatewayFiltersProofs ------------------------
(***************************************************************************)
(* What the exchange through the gateway promises, for all names, values,  *)
(* bodies and configurations.                                              *)
(*                                                                         *)
(* Each property is proved from an inductive invariant that says what the  *)
(* exchange knows at each place: before and after the predicate, before    *)
(* and after the upstream server.                                          *)
(***************************************************************************)
EXTENDS GatewayFilters, TLAPS

Requests == [headers : Headers, body : Payloads]

Places == {"predicate", "ask", "call", "close", "matched", "filter", "readBody", "relay",
           "upstream", "sent", "done"}
Functions == {"predicate", "request", "response"}

(* TypeOK but for runner, the history variables' types too, and a stage       *)
(* wherever one is used.                                                      *)
Typed ==
    /\ route \in Routes
    /\ pc \in Places
    /\ stage \in Functions \union {"none"}
    /\ request \in Requests
    /\ cached \in Requests \union {NoRequest}
    /\ response \in Requests
    /\ matched \in BOOLEAN
    /\ status \in {0, 200, 404, 500}
    /\ received \in Requests
    /\ upstream \in Requests \union {NoRequest}
    /\ answer \in Requests
    /\ answered \subseteq Functions
    /\ pc \in {"ask", "call", "close"} => stage \in Functions

-----------------------------------------------------------------------------
(* What the plugin makes of headers. *)

First(h) == IF h = <<>> THEN <<>> ELSE <<Head(h)>>

LEMMA FirstTyped == ASSUME NEW h \in Seq(Values) PROVE First(h) \in Seq(Values)
<1>1. CASE h = <<>>
  BY <1>1 DEF First
<1>2. CASE h # <<>>
  <2>1. Head(h) \in Values
    BY <1>2
  <2> QED  BY <1>2, <2>1 DEF First
<1> QED  BY <1>1, <1>2

LEMMA FromHeadersGives ==
    ASSUME NEW h, NEW d
    PROVE  /\ FromHeaders(h, d).payload = d
           /\ FromHeaders(h, d).headers =
                 [n \in {m \in Names : h[m] # <<>>} |-> Head(h[n])]
BY DEF FromHeaders

(* request hands the first value of each header back. *)
LEMMA RequestPuts ==
    ASSUME NEW h \in Headers, NEW d
    PROVE  PutHeaders(h, Promise("request", FromHeaders(h, d)))
              = [n \in Names |-> First(h[n])]
<1> DEFINE message == Promise("request", FromHeaders(h, d))
<1>1. message.headers = [n \in {m \in Names : h[m] # <<>>} |-> Head(h[n])]
  BY FromHeadersGives DEF Promise, Request
<1> HIDE DEF message
<1>2. \A n \in Names : (IF n \in DOMAIN message.headers THEN <<message.headers[n]>> ELSE h[n])
                          = First(h[n])
  BY <1>1 DEF First
<1> QED  BY <1>2 DEF PutHeaders, message

(* response does so too, but for "one". *)
LEMMA ResponsePuts ==
    ASSUME NEW h \in Headers, NEW d
    PROVE  /\ Promise("response", FromHeaders(h, d)).payload = d
           /\ PutHeaders(h, Promise("response", FromHeaders(h, d)))
                 = [n \in Names |-> IF n = "one" THEN <<"two">> ELSE First(h[n])]
<1> DEFINE given == FromHeaders(h, d)
           names == {m \in Names : h[m] # <<>>}
           message == Promise("response", given)
<1>1. /\ DOMAIN given = {"payload", "headers"}
      /\ given.payload = d
      /\ given.headers = [n \in names |-> Head(h[n])]
  BY DEF FromHeaders
<1>2. message = Response(given)
  BY DEF Promise
<1> HIDE DEF given
<1>3. /\ message.payload = given.payload
      /\ message.headers = [n \in DOMAIN given.headers \union {"one"} |->
                                IF n = "one" THEN "two" ELSE given.headers[n]]
  BY <1>1, <1>2 DEF Response
<1>4. message.headers = [n \in names \union {"one"} |-> IF n = "one" THEN "two" ELSE Head(h[n])]
  <2> HIDE DEF names, message
  <2>1. DOMAIN given.headers = names
    BY <1>1
  <2>2. \A n \in names : given.headers[n] = Head(h[n])
    BY <1>1
  <2> QED  BY <2>1, <2>2, <1>3
<1>5. \A n \in Names : (IF n \in DOMAIN message.headers THEN <<message.headers[n]>> ELSE h[n])
                          = IF n = "one" THEN <<"two">> ELSE First(h[n])
  <2> HIDE DEF message
  <2> QED  BY <1>4 DEF First
<1>6. PutHeaders(h, message)
         = [n \in Names |-> IF n = "one" THEN <<"two">> ELSE First(h[n])]
  BY <1>5, Zenon DEF PutHeaders
<1> QED  BY <1>1, <1>3, <1>6 DEF given

(* First values of what was kept are still kept. *)
LEMMA KeptFirst ==
    ASSUME NEW g \in Headers, NEW h \in Headers, Kept(g, h)
    PROVE  Kept([n \in Names |-> First(g[n])], h)
<1> SUFFICES ASSUME NEW n \in Names
             PROVE  \/ First(g[n]) = h[n]
                    \/ h[n] # <<>> /\ First(g[n]) = <<Head(h[n])>>
  BY DEF Kept
<1>1. h[n] \in Seq(Values)
  BY DEF Headers
<1>2. CASE g[n] = h[n]
  BY <1>2 DEF First
<1>3. CASE h[n] # <<>> /\ g[n] = <<Head(h[n])>>
  BY <1>3 DEF First
<1> QED  BY <1>2, <1>3 DEF Kept

(* What request makes of a request, and response of a response. *)
LEMMA ToRequestGives ==
    ASSUME NEW r \in Requests, NEW d
    PROVE  LET made == ToRequest(r, Promise("request", FromHeaders(r.headers, d)))
           IN /\ made \in Requests
              /\ made.body = r.body
              /\ made.headers = [n \in Names |-> First(r.headers[n])]
<1>1. PutHeaders(r.headers, Promise("request", FromHeaders(r.headers, d)))
         = [n \in Names |-> First(r.headers[n])]
  BY RequestPuts DEF Requests
<1>2. [n \in Names |-> First(r.headers[n])] \in Headers
  BY FirstTyped DEF Requests, Headers
<1> QED  BY <1>1, <1>2 DEF ToRequest, Requests

LEMMA ToResponseGives ==
    ASSUME NEW r \in Requests, NEW d \in Payloads
    PROVE  LET made == ToResponse(r, Promise("response", FromHeaders(r.headers, d)))
           IN /\ made \in Requests
              /\ made.body = d
              /\ made.headers =
                    [n \in Names |-> IF n = "one" THEN <<"two">> ELSE First(r.headers[n])]
<1>1. /\ Promise("response", FromHeaders(r.headers, d)).payload = d
      /\ PutHeaders(r.headers, Promise("response", FromHeaders(r.headers, d)))
           = [n \in Names |-> IF n = "one" THEN <<"two">> ELSE First(r.headers[n])]
  BY ResponsePuts DEF Requests
<1>2. [n \in Names |-> IF n = "one" THEN <<"two">> ELSE First(r.headers[n])] \in Headers
  <2>1. \A n \in Names : First(r.headers[n]) \in Seq(Values)
    BY FirstTyped DEF Requests, Headers
  <2>2. "two" \in Values
    BY GatewayAssumption DEF GatewayAssumption
  <2> QED  BY <2>1, <2>2 DEF Headers
<1> QED  BY <1>1, <1>2 DEF ToResponse, Requests
-----------------------------------------------------------------------------
(* Every step is one of the actions. *)
LEMMA StepIs ==
    ASSUME [Next]_vars
    PROVE  \/ Predicates \/ Filters \/ ReadsBody \/ Granted \/ Absent \/ AskThrows
           \/ CallPredicate \/ CallRequest \/ CallResponse \/ CallThrows
           \/ Close \/ Matches \/ Relay \/ Upstream \/ Sends \/ UNCHANGED vars
BY DEF Next, Step, Done

LEMMA SomeHeadersTyped == SomeHeaders \subseteq Headers
<1>1. SomeValues \subseteq Seq(Values)
  <2>1. \A v \in Values : <<v>> \in Seq(Values)
    OBVIOUS
  <2>2. \A v, w \in Values : <<v, w>> \in Seq(Values)
    OBVIOUS
  <2>3. \A p \in Values \X Values : \E v, w \in Values : p = <<v, w>>
    OBVIOUS
  <2> QED
    <3> SUFFICES ASSUME NEW s \in SomeValues PROVE s \in Seq(Values)
      OBVIOUS
    <3>1. CASE s = <<>>
      BY <3>1
    <3>2. CASE \E v \in Values : s = <<v>>
      BY <3>2, <2>1
    <3>3. CASE s \in Values \X Values
      BY <3>3, <2>2, <2>3, Zenon
    <3> QED  BY <3>1, <3>2, <3>3 DEF SomeValues
<1> QED  BY <1>1 DEF SomeHeaders, Headers

LEMMA TypedInit == Init => Typed
<1> SUFFICES ASSUME Init PROVE Typed
  OBVIOUS
<1>1. NoHeaders \in Headers /\ NoBody \in Payloads
  BY DEF NoHeaders, Headers, Payloads
<1>2. request \in Requests /\ response \in Requests
  BY <1>1, SomeHeadersTyped DEF Init, Requests
<1> QED  BY <1>2 DEF Init, Typed, Places, Functions

LEMMA TypedStep == ASSUME Typed, [Next]_vars PROVE Typed'
<1> USE DEF Typed, Places, Functions
<1>1. CASE Predicates
  BY <1>1 DEF Predicates, Stop, Ask
<1>2. CASE Filters
  BY <1>2 DEF Filters, Ask
<1>3. CASE ReadsBody
  BY <1>3 DEF ReadsBody, Stop, Ask
<1>4. CASE Granted
  BY <1>4 DEF Granted
<1>5. CASE Absent
  BY <1>5 DEF Absent, Hands, After
<1>6. CASE AskThrows
  BY <1>6 DEF AskThrows, Fails, Stop
<1>7. CASE CallPredicate
  BY <1>7 DEF CallPredicate, Promise, Predicate
<1>8. CASE CallRequest
  <2>1. ToRequest(request, Promise("request", FromHeaders(request.headers, Data))) \in Requests
    BY ToRequestGives
  <2> QED  BY <1>8, <2>1 DEF CallRequest, Hands
<1>9. CASE CallResponse
  <2>1. NoBody \in Payloads /\ response.body \in Payloads
    BY DEF Payloads, Requests
  <2>2. Data \in Payloads
    BY <1>9, <2>1 DEF Data, CallResponse
  <2>3. ToResponse(response, Promise("response", FromHeaders(response.headers, Data))) \in Requests
    BY <2>2, ToResponseGives
  <2>4. \A r \in Requests : [r EXCEPT !.body = NoBody] \in Requests
    BY <2>1 DEF Requests
  <2> QED  BY <1>9, <2>3, <2>4 DEF CallResponse
<1>10. CASE CallThrows
  BY <1>10 DEF CallThrows, Fails, Stop
<1>11. CASE Close
  BY <1>11 DEF Close, After
<1>12. CASE Matches
  BY <1>12 DEF Matches, Stop
<1>13. CASE Relay
  BY <1>13 DEF Relay, Stop
<1>14. CASE Upstream
  <2>1. answer' \in Requests
    BY <1>14, SomeHeadersTyped DEF Upstream, Requests, Payloads
  <2>2. [n \in Names |-> IF answer'.headers[n] # <<>> THEN answer'.headers[n]
                         ELSE response.headers[n]] \in Headers
    BY <2>1 DEF Requests, Headers
  <2>3. response' \in Requests
    BY <1>14, <2>1, <2>2 DEF Upstream, Requests
  <2> QED  BY <1>14, <2>1, <2>3 DEF Upstream, Ask
<1>15. CASE Sends
  BY <1>15 DEF Sends, Stop
<1>16. CASE UNCHANGED vars
  BY <1>16 DEF vars
<1> QED
  BY StepIs, <1>1, <1>2, <1>3, <1>4, <1>5, <1>6, <1>7, <1>8, <1>9, <1>10, <1>11, <1>12,
     <1>13, <1>14, <1>15, <1>16

(* A runner is held only from its grant to its close. *)
RunnerInv == runner \in BOOLEAN /\ (runner => pc \in {"call", "close"})

LEMMA RunnerStep == ASSUME RunnerInv, [Next]_vars PROVE RunnerInv'
<1> USE DEF RunnerInv
<1>1. CASE Granted
  BY <1>1, Zenon DEF Granted
<1>2. CASE CallThrows
  BY <1>2, Zenon DEF CallThrows
<1>3. CASE Close
  BY <1>3, Zenon DEF Close
<1>4. CASE \/ Predicates \/ Filters \/ ReadsBody \/ Absent \/ AskThrows
           \/ Matches \/ Relay \/ Upstream \/ Sends
  <2>1. runner' = runner /\ pc \notin {"call", "close"}
    BY <1>4 DEF Predicates, Filters, ReadsBody, Absent, AskThrows, Matches, Relay, Upstream, Sends
  <2> QED  BY <2>1, Zenon
<1>5. CASE CallPredicate \/ CallRequest \/ CallResponse
  <2>1. runner' = runner /\ pc' = "close"
    BY <1>5 DEF CallPredicate, CallRequest, CallResponse
  <2> QED  BY <2>1, Zenon
<1>6. CASE UNCHANGED vars
  BY <1>6, Zenon DEF vars
<1> QED  BY StepIs, <1>1, <1>2, <1>3, <1>4, <1>5, <1>6, Zenon

(* Whatever the plugin answers and wherever a call fails, the exchange stays *)
(* one the gateway knows, with its headers and bodies of their kind.         *)
THEOREM GatewayTypeCorrect == Spec => []TypeOK
<1>1. Spec => []Typed
  BY TypedInit, TypedStep, PTL DEF Spec
<1>2. Spec => []RunnerInv
  <2>1. Init => RunnerInv
    BY Zenon DEF Init, RunnerInv
  <2> QED  BY <2>1, RunnerStep, PTL DEF Spec
<1>3. Typed /\ RunnerInv => TypeOK
  BY DEF Typed, RunnerInv, TypeOK, Places, Functions, Requests
<1> QED  BY <1>1, <1>2, <1>3, PTL

(* However a call ends, its runner is closed before the exchange goes on. *)
THEOREM RunnerReturnedCorrect == Spec => []RunnerReturned
<1>1. Init => RunnerInv
  BY Zenon DEF Init, RunnerInv
<1>2. RunnerInv => RunnerReturned
  BY Zenon DEF RunnerInv, RunnerReturned
<1> QED  BY <1>1, <1>2, RunnerStep, PTL DEF Spec

-----------------------------------------------------------------------------
(* The request that came, but for values of a header after the first. *)
Original(r) == r.body = received.body /\ Kept(r.headers, received.headers)

KeepInv ==
    /\ Original(request)
    /\ cached # NoRequest => Original(cached)
    /\ upstream # NoRequest => Original(upstream)

(* Steps that touch none of the requests. *)
LEMMA KeepSame ==
    ASSUME KeepInv, UNCHANGED <<request, cached, upstream, received>>
    PROVE  KeepInv'
BY DEF KeepInv, Original

LEMMA KeepStep == ASSUME Typed, KeepInv, [Next]_vars PROVE KeepInv'
<1>1. CASE CallRequest
  <2> DEFINE made == ToRequest(request, Promise("request", FromHeaders(request.headers, Data)))
  <2>1. request \in Requests /\ received \in Requests
    BY DEF Typed
  <2>2. /\ made.body = request.body
        /\ made.headers = [n \in Names |-> First(request.headers[n])]
    BY <2>1, ToRequestGives
  <2>3. request.headers \in Headers /\ received.headers \in Headers
    BY <2>1 DEF Requests
  <2>4. Original(made)
    BY <2>2, <2>3, KeptFirst DEF KeepInv, Original
  <2>5. /\ received' = received /\ upstream' = upstream
        /\ \/ request' = made /\ cached' = cached
           \/ request' = request /\ cached' = made
    BY <1>1 DEF CallRequest, Hands
  <2> HIDE DEF made
  <2> QED  BY <2>4, <2>5 DEF KeepInv, Original
<1>2. CASE Absent
  <2>1. /\ received' = received /\ upstream' = upstream /\ request' = request
        /\ cached' = cached \/ cached' = request
    BY <1>2 DEF Absent, Hands
  <2> QED  BY <2>1 DEF KeepInv, Original
<1>3. CASE Relay
  <2>1. /\ received' = received /\ upstream' = upstream
        /\ \/ request' = request /\ cached' = cached
           \/ cached # NoRequest /\ request' = cached /\ cached' = NoRequest
    BY <1>3 DEF Relay
  <2> QED  BY <2>1 DEF KeepInv, Original
<1>4. CASE Upstream
  <2>1. received' = received /\ upstream' = request /\ request' = request /\ cached' = cached
    BY <1>4 DEF Upstream
  <2> QED  BY <2>1 DEF KeepInv, Original
<1>5. CASE \/ Predicates \/ Filters \/ ReadsBody \/ Granted \/ AskThrows \/ CallPredicate
           \/ CallResponse \/ CallThrows \/ Close \/ Matches \/ Sends \/ UNCHANGED vars
  <2>1. UNCHANGED <<request, cached, upstream, received>>
    BY <1>5 DEF Predicates, Filters, ReadsBody, Granted, AskThrows, CallPredicate,
       CallResponse, CallThrows, Close, Matches, Sends, vars
  <2> QED  BY <2>1, KeepSame
<1> QED  BY StepIs, <1>1, <1>2, <1>3, <1>4, <1>5

LEMMA KeepInit == Init => KeepInv
BY DEF Init, KeepInv, Original, Kept

LEMMA KeepAlways == Spec => [](Typed /\ KeepInv)
BY TypedInit, TypedStep, KeepInit, KeepStep, PTL DEF Spec

(* The upstream server gets the request that came, whether it went there by  *)
(* the plugin, by the attribute or by both.                                  *)
THEOREM RequestKeptCorrect == Spec => []RequestKept
<1>1. KeepInv => RequestKept
  BY DEF KeepInv, Original, RequestKept
<1> QED  BY <1>1, KeepAlways, PTL

-----------------------------------------------------------------------------
(* The request has the header, and the plugin was asked about it. *)
Seen == received.headers["one"] # <<>> /\ "predicate" \in answered

(* The exchange is past the predicate. *)
Routed ==
    \/ pc \in {"filter", "readBody", "relay", "upstream", "sent"}
    \/ pc \in {"ask", "call", "close"} /\ stage # "predicate"

RouteInv ==
    route.predicate # "none" =>
        /\ Routed \/ upstream # NoRequest => Seen
        /\ pc = "matched" /\ matched => Seen
        /\ pc = "close" /\ stage = "predicate" /\ matched => Seen

LEMMA RouteStep == ASSUME Typed, KeepInv, RouteInv, [Next]_vars PROVE RouteInv'
<1> USE DEF RouteInv, Routed, Seen
<1>1. CASE Predicates
  BY <1>1 DEF Predicates, Stop, Ask
<1>2. CASE Filters
  BY <1>2 DEF Filters, Ask
<1>3. CASE ReadsBody
  BY <1>3 DEF ReadsBody, Stop, Ask
<1>4. CASE Granted
  BY <1>4 DEF Granted
<1>5. CASE Absent
  <2>1. matched' => stage # "predicate"
    BY <1>5, Zenon DEF Absent
  <2>2. /\ pc = "ask" /\ pc' = After(stage) /\ stage \in Functions
        /\ UNCHANGED <<route, stage, received, upstream, answered>>
    BY <1>5 DEF Absent, Typed
  <2> QED  BY <2>1, <2>2 DEF After, Functions
<1>6. CASE AskThrows \/ CallThrows
  BY <1>6 DEF AskThrows, CallThrows, Fails, Stop
<1>7. CASE CallPredicate
  <2> DEFINE given == FromHeaders(request.headers, Data)
  <2>1. matched' = ("one" \in DOMAIN given.headers)
    BY <1>7, Zenon DEF CallPredicate, Promise, Predicate
  <2>2. DOMAIN given.headers = {m \in Names : request.headers[m] # <<>>}
    <3>1. given.headers = [n \in {m \in Names : request.headers[m] # <<>>} |-> Head(request.headers[n])]
      BY FromHeadersGives
    <3> HIDE DEF given
    <3> QED  BY <3>1
  <2> HIDE DEF given
  <2>3. matched' => "one" \in Names /\ request.headers["one"] # <<>>
    BY <2>1, <2>2, Zenon
  <2>4. matched' => received.headers["one"] # <<>>
    BY <2>3 DEF KeepInv, Original, Kept
  <2> QED  BY <1>7, <2>4 DEF CallPredicate
<1>8. CASE CallRequest \/ CallResponse
  BY <1>8 DEF CallRequest, CallResponse
<1>9. CASE Close
  BY <1>9 DEF Close, After, Typed, Functions
<1>10. CASE Matches
  BY <1>10 DEF Matches, Stop
<1>11. CASE Relay
  BY <1>11 DEF Relay, Stop
<1>12. CASE Upstream
  BY <1>12 DEF Upstream, Ask
<1>13. CASE Sends
  BY <1>13 DEF Sends, Stop
<1>14. CASE UNCHANGED vars
  BY <1>14 DEF vars
<1> QED
  BY StepIs, <1>1, <1>2, <1>3, <1>4, <1>5, <1>6, <1>7, <1>8, <1>9, <1>10, <1>11, <1>12,
     <1>13, <1>14

(* Behind a WASM predicate the upstream server sees no request the plugin    *)
(* has not matched: not by a missing module, not by an exception.            *)
THEOREM OnlyMatchedRoutedCorrect == Spec => []OnlyMatchedRouted
<1>1. Init => RouteInv
  BY DEF Init, RouteInv, Routed
<1>2. RouteInv => OnlyMatchedRouted
  BY DEF RouteInv, Seen, OnlyMatchedRouted
<1> QED  BY <1>1, <1>2, RouteStep, KeepAlways, PTL DEF Spec

-----------------------------------------------------------------------------
(* The body of the answer is being rewritten: the one call of the plugin that *)
(* comes after the upstream server.                                           *)
Rewriting == stage = "response" /\ route.filter = "responseBody"

Before ==
    \/ pc \in {"predicate", "matched", "filter", "readBody", "relay", "upstream"}
    \/ pc \in {"ask", "call", "close"} /\ ~Rewriting

Answered == pc = "sent" \/ (pc \in {"ask", "call", "close"} /\ Rewriting)

KeptName(n) ==
    \/ response.headers[n] = answer.headers[n]
    \/ answer.headers[n] # <<>> /\ response.headers[n] = <<Head(answer.headers[n])>>

Good ==
    /\ response.body = answer.body
    /\ \A n \in Names : n # "one" => KeptName(n)
    /\ "response" \in answered =>
          /\ response.headers["one"] # <<>>
          /\ route.filter = "responseBody" => response.headers["one"] = <<"two">>

OnlyOne ==
    /\ \A n \in Names : n # "one" => response.headers[n] = <<>>
    /\ "response" \in answered =>
          route.filter # "responseBody" /\ response.headers["one"] = <<"two">>

ResponseInv ==
    /\ Before => OnlyOne
    /\ Answered => Good
    /\ status = 200 => pc = "done" /\ Good

(* Steps that leave the response alone keep what is known of it, unless they *)
(* take the exchange from before the upstream server to after it.            *)
LEMMA ResponseSame ==
    ASSUME ResponseInv,
           UNCHANGED <<route, response, answer>>,
           "response" \in answered' => "response" \in answered,
           Before' => Before,
           Answered' => Answered,
           status' = 200 => \/ status = 200 /\ pc' = "done"
                            \/ Answered /\ pc' = "done"
    PROVE  ResponseInv'
BY DEF ResponseInv, OnlyOne, Good, KeptName

LEMMA UpstreamAnswers ==
    ASSUME Typed, ResponseInv, Upstream
    PROVE  ResponseInv'
<1>1. OnlyOne
  BY DEF ResponseInv, Before, Upstream
<1>2. /\ answer' \in Requests /\ response \in Requests
      /\ UNCHANGED <<route, answered, status>>
      /\ response'.body = answer'.body
      /\ response'.headers = [n \in Names |-> IF answer'.headers[n] # <<>> THEN answer'.headers[n]
                                              ELSE response.headers[n]]
  BY SomeHeadersTyped DEF Upstream, Typed, Requests, Payloads
<1>3. \A n \in Names : response'.headers[n] = IF answer'.headers[n] # <<>> THEN answer'.headers[n]
                                              ELSE response.headers[n]
  BY <1>2
<1>4. Good'
  <2>1. \A n \in Names : n # "one" => KeptName(n)'
    BY <1>1, <1>3 DEF OnlyOne, KeptName
  <2>2. "one" \in Names
    BY GatewayAssumption, Zenon
  <2>3. "response" \in answered' =>
           response'.headers["one"] # <<>> /\ route'.filter # "responseBody"
    BY <1>1, <1>2, <1>3, <2>2 DEF OnlyOne
  <2> QED  BY <1>2, <2>1, <2>3 DEF Good
<1>5. ~Before' /\ status' # 200
  BY <1>2 DEF Upstream, Ask, Before, Rewriting, ResponseInv
<1> QED  BY <1>4, <1>5 DEF ResponseInv

LEMMA PluginResponds ==
    ASSUME Typed, ResponseInv, CallResponse
    PROVE  ResponseInv'
<1> DEFINE made == ToResponse(response, Promise("response", FromHeaders(response.headers, response.body)))
<1>1. response \in Requests /\ response.body \in Payloads /\ "one" \in Names
  BY GatewayAssumption DEF Typed, Requests
<1>2. /\ made.body = response.body
      /\ made.headers =
            [n \in Names |-> IF n = "one" THEN <<"two">> ELSE First(response.headers[n])]
  BY <1>1, ToResponseGives
<1>3. /\ pc = "call" /\ pc' = "close" /\ stage = "response"
      /\ UNCHANGED <<route, stage, status, answer>>
      /\ response' = IF route.filter = "responseBody" THEN made ELSE [made EXCEPT !.body = NoBody]
  BY DEF CallResponse, Data
<1> HIDE DEF made
<1>4. /\ response'.headers["one"] = <<"two">>
      /\ \A n \in Names : n # "one" => response'.headers[n] = First(response.headers[n])
  BY <1>1, <1>2, <1>3
<1>5. CASE Rewriting
  <2>1. Good
    BY <1>3, <1>5 DEF ResponseInv, Answered
  <2>2. response'.body = answer'.body
    BY <1>2, <1>3, <1>5, <2>1 DEF Good, Rewriting
  <2>3. \A n \in Names : n # "one" => KeptName(n)'
    <3> SUFFICES ASSUME NEW n \in Names, n # "one" PROVE KeptName(n)'
      OBVIOUS
    <3>1. answer'.headers = answer.headers /\ response'.headers[n] = First(response.headers[n])
      BY <1>3, <1>4
    <3>2. CASE response.headers[n] = answer.headers[n]
      BY <3>1, <3>2 DEF KeptName, First
    <3>3. CASE answer.headers[n] # <<>> /\ response.headers[n] = <<Head(answer.headers[n])>>
      <4>1. First(response.headers[n]) = response.headers[n]
        BY <3>3 DEF First
      <4> QED  BY <3>1, <3>3, <4>1 DEF KeptName
    <3> QED  BY <2>1, <3>2, <3>3 DEF Good, KeptName
  <2>4. Good'
    BY <1>4, <2>2, <2>3 DEF Good
  <2>5. ~Before' /\ status' # 200
    BY <1>3, <1>5 DEF Before, Rewriting, ResponseInv
  <2> QED  BY <2>4, <2>5 DEF ResponseInv
<1>6. CASE ~Rewriting
  <2>1. OnlyOne
    BY <1>3, <1>6 DEF ResponseInv, Before
  <2>2. OnlyOne'
    BY <1>3, <1>4, <1>6, <2>1 DEF OnlyOne, First, Rewriting
  <2>3. ~Answered' /\ status' # 200
    BY <1>3, <1>6 DEF Answered, Rewriting, ResponseInv
  <2> QED  BY <2>2, <2>3 DEF ResponseInv
<1> QED  BY <1>5, <1>6

LEMMA ResponseStep == ASSUME Typed, ResponseInv, [Next]_vars PROVE ResponseInv'
<1> USE DEF Before, Answered, Rewriting
<1>0. status = 200 => pc = "done"
  BY DEF ResponseInv
<1>1. CASE Predicates
  BY <1>0, <1>1, ResponseSame DEF Predicates, Stop, Ask
<1>2. CASE Filters
  BY <1>0, <1>2, ResponseSame DEF Filters, Ask
<1>3. CASE ReadsBody
  BY <1>0, <1>3, ResponseSame DEF ReadsBody, Stop, Ask
<1>4. CASE Granted
  BY <1>0, <1>4, ResponseSame DEF Granted
<1>5. CASE Absent
  BY <1>0, <1>5, ResponseSame DEF Absent, After, Typed, Functions
<1>6. CASE AskThrows
  BY <1>0, <1>6, ResponseSame DEF AskThrows, Fails, Stop
<1>7. CASE CallPredicate
  BY <1>0, <1>7, ResponseSame DEF CallPredicate
<1>8. CASE CallRequest
  BY <1>0, <1>8, ResponseSame DEF CallRequest
<1>9. CASE CallResponse
  BY <1>9, PluginResponds
<1>10. CASE CallThrows
  BY <1>0, <1>10, ResponseSame DEF CallThrows, Fails, Stop
<1>11. CASE Close
  BY <1>0, <1>11, ResponseSame DEF Close, After, Typed, Functions
<1>12. CASE Matches
  BY <1>0, <1>12, ResponseSame DEF Matches, Stop
<1>13. CASE Relay
  BY <1>0, <1>13, ResponseSame DEF Relay, Stop
<1>14. CASE Upstream
  BY <1>14, UpstreamAnswers
<1>15. CASE Sends
  BY <1>0, <1>15, ResponseSame DEF Sends, Stop
<1>16. CASE UNCHANGED vars
  BY <1>0, <1>16, ResponseSame DEF vars, ResponseInv
<1> QED
  BY StepIs, <1>1, <1>2, <1>3, <1>4, <1>5, <1>6, <1>7, <1>8, <1>9, <1>10, <1>11, <1>12,
     <1>13, <1>14, <1>15, <1>16

(* The client gets the upstream server's answer, with the plugin's header    *)
(* where the response filter of the route promises it.                       *)
THEOREM ResponseKeptCorrect == Spec => []ResponseKept
<1>1. Init => ResponseInv
  BY DEF Init, ResponseInv, Before, Answered, OnlyOne, NoHeaders
<1>2. Typed /\ ResponseInv => ResponseKept
  <2> SUFFICES ASSUME Typed, ResponseInv, status = 200 PROVE ResponseKept
    BY DEF ResponseKept
  <2>1. Good /\ response \in Requests
    BY DEF ResponseInv, Typed
  <2>2. Kept([response.headers EXCEPT !["one"] = answer.headers["one"]], answer.headers)
    BY <2>1 DEF Good, KeptName, Kept, Requests, Headers
  <2> QED  BY <2>1, <2>2 DEF Good, ResponseKept
<1>3. Spec => [](Typed /\ ResponseInv)
  BY <1>1, TypedInit, TypedStep, ResponseStep, PTL DEF Spec
<1> QED  BY <1>2, <1>3, PTL
=============================================================================
