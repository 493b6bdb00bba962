------------------------ MODULE GuestObjectsProofs --------------------------
(***************************************************************************)
(* Proofs about GuestObjects: the guests' functions keep their promises    *)
(* and their memory in order, for any messages and any allocator.          *)
(***************************************************************************)
EXTENDS GuestObjects, Integers, TLAPS

Entry == [key : STRING, value : STRING]

Distinct(entries) == \A i, j \in DOMAIN entries : entries[i].key = entries[j].key => i = j

-----------------------------------------------------------------------------
(* Entries with different keys are read one by one. *)
LEMMA HeadersRead ==
    ASSUME NEW entries \in Seq(Entry), Distinct(entries)
    PROVE  /\ DOMAIN HeadersIn(entries) = {entries[i].key : i \in DOMAIN entries}
           /\ \A i \in DOMAIN entries : HeadersIn(entries)[entries[i].key] = entries[i].value
<1>1. DOMAIN HeadersIn(entries) = {entries[i].key : i \in DOMAIN entries}
  BY DEF HeadersIn
<1>2. ASSUME NEW i \in DOMAIN entries PROVE HeadersIn(entries)[entries[i].key] = entries[i].value
  <2> DEFINE Latest(n) == /\ entries[n].key = entries[i].key
                          /\ \A j \in DOMAIN entries : entries[j].key = entries[i].key => j <= n
             last == CHOOSE n \in DOMAIN entries : Latest(n)
  <2>1. i \in Nat /\ Latest(i)
    BY DEF Distinct
  <2>2. last \in DOMAIN entries /\ Latest(last)
    BY <2>1
  <2>3. last = i
    BY <2>2 DEF Distinct
  <2>4. HeadersIn(entries)[entries[i].key] = entries[last].value
    BY DEF HeadersIn
  <2> QED
    BY <2>3, <2>4
<1> QED
  BY <1>1, <1>2

(* An entry appended to them overrides the one with its key, and no other. *)
LEMMA HeadersAppended ==
    ASSUME NEW entries \in Seq(Entry), Distinct(entries)
    PROVE  HeadersIn(Append(entries, Header)) =
               [name \in DOMAIN HeadersIn(entries) \cup {"one"} |->
                   IF name = "one" THEN "two" ELSE HeadersIn(entries)[name]]
<1> DEFINE more == Append(entries, Header)
           Latest(k, n) == /\ more[n].key = k
                           /\ \A j \in DOMAIN more : more[j].key = k => j <= n
           last(k) == CHOOSE n \in DOMAIN more : Latest(k, n)
           keys == {more[i].key : i \in DOMAIN more}
<1>1. /\ Len(entries) \in Nat /\ DOMAIN entries = 1..Len(entries)
      /\ DOMAIN more = 1..(Len(entries) + 1)
      /\ more[Len(entries) + 1] = Header
      /\ \A i \in DOMAIN entries : more[i] = entries[i]
  BY DEF Header, Entry
<1>2. Header.key = "one" /\ Header.value = "two"
  BY DEF Header
<1>3. ASSUME NEW k, NEW n \in DOMAIN more, Latest(k, n)
      PROVE  last(k) \in DOMAIN more /\ Latest(k, last(k))
  <2> HIDE DEF more, Latest
  <2> QED
    BY <1>3
<1> HIDE DEF more, last
<1>4. keys = DOMAIN HeadersIn(entries) \cup {"one"}
  <2>1. DOMAIN HeadersIn(entries) = {entries[i].key : i \in DOMAIN entries}
    BY HeadersRead
  <2>2. DOMAIN more = DOMAIN entries \cup {Len(entries) + 1}
    BY <1>1
  <2> QED
    BY <1>1, <1>2, <2>1, <2>2
<1>5. more[last("one")].value = "two"
  <2>1. Latest("one", Len(entries) + 1)
    BY <1>1, <1>2
  <2>2. last("one") \in DOMAIN more /\ Latest("one", last("one"))
    BY <1>1, <1>3, <2>1
  <2>3. last("one") = Len(entries) + 1
    BY <1>1, <1>2, <2>2
  <2> QED
    BY <1>1, <1>2, <2>3
<1>6. ASSUME NEW k \in DOMAIN HeadersIn(entries), k # "one"
      PROVE  more[last(k)].value = HeadersIn(entries)[k]
  <2>1. PICK i \in DOMAIN entries : entries[i].key = k
    BY HeadersRead
  <2>2. \A j \in DOMAIN more : more[j].key = k => j = i
    BY <1>1, <1>2, <1>6, <2>1 DEF Distinct
  <2>3. i \in DOMAIN more /\ Latest(k, i)
    BY <1>1, <2>1, <2>2
  <2>4. last(k) \in DOMAIN more /\ Latest(k, last(k))
    BY <1>3, <2>3
  <2>5. last(k) = i
    BY <2>2, <2>4
  <2>6. HeadersIn(entries)[entries[i].key] = entries[i].value
    BY HeadersRead
  <2> QED
    BY <1>1, <2>1, <2>5, <2>6
<1>7. HeadersIn(more) = [k \in keys |-> more[last(k)].value]
  BY DEF HeadersIn, last
<1>8. HeadersIn(more) = [name \in DOMAIN HeadersIn(entries) \cup {"one"} |->
                            IF name = "one" THEN "two" ELSE HeadersIn(entries)[name]]
  <2> HIDE DEF keys
  <2> QED
    BY <1>4, <1>5, <1>6, <1>7
<1> QED
  BY <1>8 DEF more

-----------------------------------------------------------------------------
(* What the functions do to a message, and what Java reads of it. *)
LEMMA SpringContent ==
    ASSUME NEW f \in Exports, NEW c \in Contents[f], f # "filter"
    PROVE  /\ c = [payload |-> c.payload, headers |-> c.headers]
           /\ c.headers \in Seq(Entry) /\ Distinct(c.headers)
BY ObjectsAssumption DEF Entry, Distinct

LEMMA PredicateSays ==
    ASSUME "predicate" \in Exports, NEW c \in Contents["predicate"]
    PROVE  (\E i \in DOMAIN c.headers : c.headers[i].key = "one")
               = Promise("predicate", JavaMessage("predicate", c))
<1> DEFINE found == \E i \in DOMAIN c.headers : c.headers[i].key = "one"
           has == "one" \in DOMAIN HeadersIn(c.headers)
<1>1. DOMAIN HeadersIn(c.headers) = {c.headers[i].key : i \in DOMAIN c.headers}
  BY SpringContent, HeadersRead
<1>2. found <=> has
  BY <1>1, SMT
<1>3. JavaMessage("predicate", c).headers = HeadersIn(c.headers)
  BY DEF JavaMessage
<1>4. Promise("predicate", JavaMessage("predicate", c)) = has
  BY <1>3 DEF Promise, Predicate
<1>5. found \in BOOLEAN /\ has \in BOOLEAN
  OBVIOUS
<1> HIDE DEF found, has
<1>6. found = has
  BY <1>2, <1>5
<1> QED
  BY <1>4, <1>6 DEF found

LEMMA RequestSays ==
    ASSUME NEW c
    PROVE  JavaMessage("request", c) = Promise("request", JavaMessage("request", c))
BY DEF Promise, Request

LEMMA ResponseSays ==
    ASSUME "response" \in Exports, NEW c \in Contents["response"]
    PROVE  JavaMessage("response", [c EXCEPT !.headers = Append(@, Header)])
               = Promise("response", JavaMessage("response", c))
<1>1. /\ c = [payload |-> c.payload, headers |-> c.headers]
      /\ c.headers \in Seq(Entry) /\ Distinct(c.headers)
  BY SpringContent
<1>2. [c EXCEPT !.headers = Append(@, Header)]
          = [payload |-> c.payload, headers |-> Append(c.headers, Header)]
  <2> DEFINE payload == c.payload
             headers == c.headers
  <2>1. c = [payload |-> payload, headers |-> headers] /\ c.headers = headers
    BY <1>1
  <2> HIDE DEF payload, headers
  <2>2. [c EXCEPT !.headers = Append(@, Header)]
            = [payload |-> payload, headers |-> Append(headers, Header)]
    BY <2>1
  <2> QED
    BY <2>2 DEF payload, headers
<1>3. JavaMessage("response", [c EXCEPT !.headers = Append(@, Header)])
          = [payload |-> c.payload, headers |-> HeadersIn(Append(c.headers, Header))]
  BY <1>2 DEF JavaMessage
<1>4. JavaMessage("response", c) = [payload |-> c.payload, headers |-> HeadersIn(c.headers)]
  BY DEF JavaMessage
<1>5. Promise("response", JavaMessage("response", c))
          = [payload |-> c.payload,
             headers |-> [name \in DOMAIN HeadersIn(c.headers) \cup {"one"} |->
                             IF name = "one" THEN "two" ELSE HeadersIn(c.headers)[name]]]
  BY <1>4 DEF Promise, Response
<1> QED
  BY <1>1, <1>3, <1>5, HeadersAppended

LEMMA FilterSays ==
    ASSUME "filter" \in Exports, NEW c \in Contents["filter"]
    PROVE  JavaMessage("filter", [c EXCEPT !["id"] = "1-5150"])
               = Promise("filter", JavaMessage("filter", c))
<1> DEFINE other == [c EXCEPT !["id"] = "1-5150"]
<1>1. c = [name \in Parts("filter") |-> c[name]]
  BY ObjectsAssumption
<1>2. /\ DOMAIN other = DOMAIN c /\ other.id = "1-5150"
      /\ \A name \in DOMAIN c \ {"id"} : other[name] = c[name]
  BY <1>1 DEF Parts
<1> HIDE DEF other
<1>3. JavaMessage("filter", other)
          = [id |-> "1-5150", others |-> [name \in DOMAIN c \ {"id"} |-> c[name]]]
  BY <1>2 DEF JavaMessage
<1>4. JavaMessage("filter", c)
          = [id |-> c.id, others |-> [name \in DOMAIN c \ {"id"} |-> c[name]]]
  BY DEF JavaMessage
<1> QED
  BY <1>3, <1>4 DEF Promise, Filter, other

-----------------------------------------------------------------------------
Messages(f) == [at : Addresses, refs : Layouts[f], says : Contents[f]]

(* The objects of a result are the function's own or the message's. *)
LEMMA SharedObjects ==
    ASSUME NEW m, NEW a, m = [at |-> m.at, refs |-> m.refs, says |-> m.says]
    PROVE  Objects([m EXCEPT !.at = a]) \subseteq {a} \cup Objects(m)
<1>1. [m EXCEPT !.at = a] = [at |-> a, refs |-> m.refs, says |-> m.says]
  OBVIOUS
<1> QED
  BY <1>1 DEF Objects

LEMMA ResponseObjects ==
    ASSUME NEW m, NEW struct, DOMAIN struct.refs = {"payload", "headers", "entries"},
           m.refs \in [Parts("response") -> SUBSET Addresses],
           struct.refs["payload"] = m.refs["payload"],
           NEW mine, mine = {struct.at} \cup struct.refs["headers"]
                                \cup (struct.refs["entries"] \ m.refs["entries"])
    PROVE  Objects(struct) \subseteq mine \cup Objects(m)
<1>1. \A p \in {"payload", "headers", "entries"} : m.refs[p] \subseteq Objects(m)
  BY DEF Objects, Parts
<1>2. \A p \in DOMAIN struct.refs : struct.refs[p] \subseteq mine \cup Objects(m)
  BY <1>1
<1> QED
  BY <1>2 DEF Objects

LEMMA FilterObjects ==
    ASSUME NEW m, NEW a, NEW struct, struct.at = a, struct.refs = [m.refs EXCEPT !["id"] = {}],
           m.refs \in [Parts("filter") -> SUBSET Addresses]
    PROVE  Objects(struct) \subseteq {a} \cup Objects(m)
<1>1. /\ DOMAIN struct.refs = DOMAIN m.refs
      /\ \A p \in DOMAIN m.refs : struct.refs[p] \subseteq m.refs[p]
  BY DEF Parts
<1> QED
  BY <1>1 DEF Objects

-----------------------------------------------------------------------------
(***************************************************************************)
(* SoundObjects and MessageReleased are not inductive: while a function    *)
(* runs, what is allocated is its own and the message's, which overlap     *)
(* nowhere, and the result says what was promised of the message called    *)
(* with.                                                                   *)
(***************************************************************************)
HasMessage == pc \in {"unpacked", "built", "measured", "packed"}
HasResult == pc \in {"built", "measured", "packed"}

CallInv ==
    /\ pc \in {"idle", "called"} \cup {"unpacked", "built", "measured", "packed"}
    /\ pc = "idle" => call = Nothing
    /\ pc # "idle" =>
          /\ call.function \in Exports /\ input \in Contents[call.function]
          /\ call = [function |-> call.function, message |-> JavaMessage(call.function, input)]

MessageInv ==
    /\ ~HasMessage => allocated = own
    /\ HasMessage =>
          /\ msg \in Messages(call.function) /\ msg.says = input
          /\ Objects(msg) \cap own = {} /\ allocated = own \cup Objects(msg)

ResultInv ==
    /\ HasResult =>
          /\ result.at \in own /\ Objects(result) \subseteq allocated
          /\ JavaMessage(call.function, result.says) = Promise(call.function, call.message)
    /\ pc \in {"measured", "packed"} => buffer \in own
    /\ pc = "packed" => packed = result.says

ObjectsInv == CallInv /\ MessageInv /\ ResultInv

LEMMA CallStep ==
    ASSUME ObjectsInv, [Next]_vars
    PROVE  CallInv'
<1> USE DEF ObjectsInv, CallInv
<1>1. ASSUME Called PROVE CallInv'
  <2>1. PICK f \in Exports : \E c \in Contents[f] :
            call' = [function |-> f, message |-> JavaMessage(f, c)] /\ input' = c
    BY <1>1 DEF Called
  <2> QED
    BY <1>1, <2>1 DEF Called
<1>2. CASE Unpacks
  BY <1>2 DEF Unpacks
<1>3. CASE Scans
  BY <1>3 DEF Scans, Ends
<1>4. CASE BuildsRequest \/ BuildsResponse \/ BuildsFilter
  BY <1>4 DEF BuildsRequest, BuildsResponse, WithHeader, BuildsFilter, Builds, UnpackedBy
<1>5. CASE Measures
  BY <1>5 DEF Measures
<1>6. CASE Packs
  BY <1>6 DEF Packs
<1>7. CASE Returns
  BY <1>7 DEF Returns, Ends
<1>8. CASE UNCHANGED vars
  BY <1>8 DEF vars
<1> QED
  BY <1>1, <1>2, <1>3, <1>4, <1>5, <1>6, <1>7, <1>8 DEF Next

LEMMA MessageStep ==
    ASSUME ObjectsInv, [Next]_vars
    PROVE  MessageInv'
<1> USE DEF ObjectsInv, MessageInv, HasMessage
<1>1. CASE Called
  BY <1>1 DEF Called
<1>2. ASSUME Unpacks PROVE MessageInv'
  <2>1. /\ pc = "called" /\ pc' = "unpacked" /\ UNCHANGED <<call, input, own>>
        /\ msg' \in [at : Addresses, refs : Layouts[call.function], says : {input}]
        /\ Objects(msg') \cap allocated = {}
        /\ allocated' = allocated \cup Objects(msg')
    BY <1>2 DEF Unpacks
  <2>2. input \in Contents[call.function]
    BY <2>1 DEF CallInv
  <2>3. msg' \in Messages(call.function) /\ msg'.says = input
    BY <2>1, <2>2 DEF Messages
  <2> QED
    BY <2>1, <2>3 DEF Messages, Objects
<1>3. ASSUME Scans \/ Returns PROVE MessageInv'
  <2>1. /\ HasMessage /\ pc' = "idle" /\ own' = own
        /\ allocated' = allocated \ Objects(msg)
    BY <1>3 DEF Scans, Returns, Ends, UnpackedBy
  <2> QED
    BY <2>1
<1>4. ASSUME NEW mine, Takes(mine), HasMessage, HasMessage', UNCHANGED <<call, input, msg>>
      PROVE  MessageInv'
  BY <1>4 DEF Takes, Messages, Objects
<1>5. ASSUME BuildsRequest \/ BuildsResponse \/ BuildsFilter PROVE MessageInv'
  BY <1>4, <1>5 DEF BuildsRequest, BuildsResponse, WithHeader, BuildsFilter, Builds, UnpackedBy
<1>6. CASE Measures
  BY <1>4, <1>6 DEF Measures
<1>7. CASE Packs
  BY <1>7 DEF Packs, Messages, Objects
<1>8. CASE UNCHANGED vars
  BY <1>8 DEF vars, Messages, Objects
<1> QED
  BY <1>1, <1>2, <1>3, <1>5, <1>6, <1>7, <1>8 DEF Next

(* The function that runs, and the message it was called with. *)
LEMMA CalledWith ==
    ASSUME CallInv, MessageInv, NEW f, UnpackedBy(f)
    PROVE  /\ f \in Exports /\ input \in Contents[f]
           /\ msg = [at |-> msg.at, refs |-> msg.refs, says |-> input]
           /\ msg.refs \in [Parts(f) -> SUBSET Addresses]
           /\ call.message = JavaMessage(f, input)
<1>1. /\ f \in Exports /\ input \in Contents[f] /\ HasMessage
      /\ call = [function |-> f, message |-> JavaMessage(f, input)]
  BY DEF CallInv, UnpackedBy, HasMessage
<1>2. msg \in Messages(f) /\ msg.says = input
  BY <1>1 DEF MessageInv
<1> QED
  BY <1>1, <1>2, ObjectsAssumption DEF Messages

LEMMA BuildsStep ==
    ASSUME CallInv, MessageInv, NEW f, UnpackedBy(f), NEW mine, NEW struct,
           Takes(mine), Builds(struct), struct.at \in mine,
           Objects(struct) \subseteq mine \cup Objects(msg),
           JavaMessage(f, struct.says) = Promise(f, JavaMessage(f, input))
    PROVE  ResultInv'
<1>1. call.message = JavaMessage(f, input) /\ call.function = f /\ pc = "unpacked"
  BY CalledWith DEF UnpackedBy
<1>2. /\ pc' = "built" /\ result' = struct /\ call' = call
      /\ allocated' = allocated \cup mine /\ own' = own \cup mine
  BY DEF Builds, Takes
<1>3. Objects(msg) \subseteq allocated
  BY <1>1 DEF MessageInv, HasMessage
<1>4. Objects(result') \subseteq allocated'
  BY <1>2, <1>3
<1> QED
  BY <1>1, <1>2, <1>4 DEF ResultInv, HasResult, Objects

LEMMA ResultStep ==
    ASSUME ObjectsInv, [Next]_vars
    PROVE  ResultInv'
<1> USE DEF ObjectsInv
<1>1. CASE Called
  BY <1>1 DEF Called, ResultInv, HasResult
<1>2. CASE Unpacks
  BY <1>2 DEF Unpacks, ResultInv, HasResult
<1>3. CASE Scans \/ Returns
  BY <1>3 DEF Scans, Returns, Ends, ResultInv, HasResult
<1>4. ASSUME BuildsRequest PROVE ResultInv'
  <2>1. UnpackedBy("request")
    BY <1>4 DEF BuildsRequest
  <2>2. PICK a \in Addresses : Takes({a}) /\ Builds([msg EXCEPT !.at = a])
    BY <1>4 DEF BuildsRequest
  <2>3. msg = [at |-> msg.at, refs |-> msg.refs, says |-> msg.says] /\ msg.says = input
    BY <2>1, CalledWith
  <2>4. [msg EXCEPT !.at = a] = [at |-> a, refs |-> msg.refs, says |-> input]
    BY <2>3
  <2>5. Objects([msg EXCEPT !.at = a]) \subseteq {a} \cup Objects(msg)
    BY <2>3, SharedObjects
  <2>6. JavaMessage("request", [msg EXCEPT !.at = a].says)
            = Promise("request", JavaMessage("request", input))
    BY <2>4, RequestSays
  <2>7. [msg EXCEPT !.at = a].at \in {a}
    BY <2>4
  <2> QED
    BY <2>1, <2>2, <2>5, <2>6, <2>7, BuildsStep
<1>5. ASSUME BuildsResponse PROVE ResultInv'
  <2>1. UnpackedBy("response")
    BY <1>5 DEF BuildsResponse, WithHeader
  <2> DEFINE says == [msg.says EXCEPT !.headers = Append(msg.says.headers, Header)]
             mine == {result'.at} \cup result'.refs.headers
                         \cup (result'.refs.entries \ msg.refs.entries)
  <2>2. /\ msg.refs \in [Parts("response") -> SUBSET Addresses] /\ msg.says = input
        /\ "response" \in Exports /\ input \in Contents["response"]
    BY <2>1, CalledWith
  <2>3. Takes(mine) /\ Builds(result')
    BY <1>5 DEF BuildsResponse, WithHeader, Builds
  <2>4. /\ DOMAIN result'.refs = {"payload", "headers", "entries"}
        /\ result'.refs["payload"] = msg.refs["payload"]
        /\ result'.says = says
    <3>1. /\ result'.refs \in [payload : {msg.refs.payload},
                              headers : {{array} : array \in Addresses},
                              entries : {msg.refs.entries \cup {header} :
                                            header \in Addresses \ allocated}]
          /\ result'.says \in {says}
      <4> HIDE DEF says
      <4> QED
        BY <1>5 DEF BuildsResponse, WithHeader, says
    <3> QED
      BY <3>1
  <2>5. Objects(result') \subseteq mine \cup Objects(msg)
    BY <2>2, <2>4, ResponseObjects
  <2>6. JavaMessage("response", result'.says)
            = Promise("response", JavaMessage("response", input))
    BY <2>2, <2>4, ResponseSays
  <2>7. result'.at \in mine
    OBVIOUS
  <2> HIDE DEF mine
  <2> QED
    BY <2>1, <2>3, <2>5, <2>6, <2>7, BuildsStep
<1>6. ASSUME BuildsFilter PROVE ResultInv'
  <2>1. UnpackedBy("filter")
    BY <1>6 DEF BuildsFilter
  <2>2. PICK a \in Addresses :
            /\ Takes({a})
            /\ Builds([at |-> a, refs |-> [msg.refs EXCEPT !["id"] = {}],
                       says |-> [msg.says EXCEPT !["id"] = "1-5150"]])
    BY <1>6 DEF BuildsFilter
  <2>3. /\ msg.refs \in [Parts("filter") -> SUBSET Addresses] /\ msg.says = input
        /\ "filter" \in Exports /\ input \in Contents["filter"]
    BY <2>1, CalledWith
  <2>4. PICK struct : /\ struct.at = a /\ Builds(struct)
                      /\ struct.refs = [msg.refs EXCEPT !["id"] = {}]
                      /\ struct.says = [input EXCEPT !["id"] = "1-5150"]
    <3> DEFINE refs == [msg.refs EXCEPT !["id"] = {}]
               says == [msg.says EXCEPT !["id"] = "1-5150"]
               made == [at |-> a, refs |-> refs, says |-> says]
    <3>1. Builds(made) /\ says = [input EXCEPT !["id"] = "1-5150"]
      BY <2>2, <2>3
    <3> HIDE DEF refs, says
    <3>2. made.at = a /\ made.refs = refs /\ made.says = says
      OBVIOUS
    <3> QED
      BY <3>1, <3>2 DEF refs
  <2>5. Objects(struct) \subseteq {a} \cup Objects(msg)
    BY <2>3, <2>4, FilterObjects
  <2>6. JavaMessage("filter", struct.says) = Promise("filter", JavaMessage("filter", input))
    BY <2>3, <2>4, FilterSays
  <2>7. struct.at \in {a}
    BY <2>4
  <2> QED
    BY <2>1, <2>2, <2>4, <2>5, <2>6, <2>7, BuildsStep
<1>7. CASE Measures
  BY <1>7 DEF Measures, Takes, ResultInv, HasResult, Objects
<1>8. CASE Packs
  BY <1>8 DEF Packs, ResultInv, HasResult, Objects
<1>9. CASE UNCHANGED vars
  BY <1>9 DEF vars, ResultInv, HasResult, Objects
<1> QED
  BY <1>1, <1>2, <1>3, <1>4, <1>5, <1>6, <1>7, <1>8, <1>9 DEF Next

-----------------------------------------------------------------------------
LEMMA ObjectsAlways == Spec => []ObjectsInv
<1>1. Init => ObjectsInv
  BY DEF Init, ObjectsInv, CallInv, MessageInv, ResultInv, HasMessage, HasResult
<1>2. ObjectsInv /\ [Next]_vars => ObjectsInv'
  BY CallStep, MessageStep, ResultStep DEF ObjectsInv
<1> QED
  BY <1>1, <1>2, PTL DEF Spec

(* The message's objects are there as long as message or result are used,   *)
(* and none of them is the function's own, wherever they lie.               *)
THEOREM SoundObjectsCorrect == Spec => []SoundObjects
<1>1. ObjectsInv => SoundObjects
  BY DEF ObjectsInv, MessageInv, ResultInv, HasMessage, HasResult, SoundObjects
<1> QED
  BY <1>1, ObjectsAlways, PTL

(* However many calls an instance has served, it keeps only what its        *)
(* functions took themselves.                                               *)
THEOREM MessageReleasedCorrect == Spec => []MessageReleased
<1>1. ObjectsInv => MessageReleased
  BY DEF ObjectsInv, MessageInv, HasMessage, MessageReleased
<1> QED
  BY <1>1, ObjectsAlways, PTL

LEMMA SamePromise == \A f, m : Answers!Promise(f, m) = Promise(f, m)
BY DEF Answers!Promise, Answers!Predicate, Answers!Request, Answers!Response, Answers!Filter,
       Promise, Predicate, Request, Response, Filter

LEMMA PluginStep ==
    ASSUME ObjectsInv, [Next]_vars
    PROVE  [Answers!Next]_(Answers!vars)
<1> USE DEF ObjectsInv, Answers!vars
<1>1. ASSUME Called PROVE Answers!Ask
  <2>1. PICK f \in Exports : \E c \in Contents[f] :
            call' = [function |-> f, message |-> JavaMessage(f, c)]
    BY <1>1 DEF Called
  <2>2. call' # Nothing /\ call'.function \in Exports
    BY <2>1, ObjectsAssumption
  <2> QED
    BY <1>1, <2>2 DEF Called, CallInv, Answers!Ask
<1>2. ASSUME Scans \/ Returns PROVE Answers!Answer
  <2>1. /\ call.function \in Exports /\ input \in Contents[call.function]
        /\ call = [function |-> call.function, message |-> JavaMessage(call.function, input)]
        /\ call' = Nothing
    BY <1>2 DEF Scans, Returns, Ends, UnpackedBy, CallInv
  <2>2. call # Nothing
    BY <2>1, ObjectsAssumption
  <2>3. CASE Scans
    <3>1. call.function = "predicate" /\ msg.says = input
      BY <2>3 DEF Scans, UnpackedBy, MessageInv, HasMessage
    <3>2. reply' = \E i \in DOMAIN input.headers : input.headers[i].key = "one"
      BY <2>3, <3>1, Zenon DEF Scans, Ends
    <3>3. call.message = JavaMessage("predicate", input)
      BY <2>1, <3>1
    <3>4. reply' = Promise(call.function, call.message)
      BY <2>1, <3>1, <3>2, <3>3, PredicateSays, Zenon
    <3> QED
      BY <2>1, <2>2, <3>4, SamePromise DEF Answers!Answer
  <2>4. CASE Returns
    <3>1. reply' = JavaMessage(call.function, result.says)
      BY <2>4 DEF Returns, Ends, ResultInv
    <3>2. reply' = Promise(call.function, call.message)
      BY <2>4, <3>1 DEF Returns, ResultInv, HasResult
    <3> QED
      BY <2>1, <2>2, <3>2, SamePromise DEF Answers!Answer
  <2> QED
    BY <1>2, <2>3, <2>4
<1>3. ASSUME Unpacks \/ BuildsRequest \/ BuildsResponse \/ BuildsFilter \/ Measures \/ Packs
      PROVE  UNCHANGED <<call, reply>>
  BY <1>3 DEF Unpacks, BuildsRequest, BuildsResponse, WithHeader, BuildsFilter, Builds,
              Measures, Packs
<1>4. CASE UNCHANGED vars
  BY <1>4 DEF vars
<1> QED
  BY <1>1, <1>2, <1>3, <1>4 DEF Next, Answers!Next

(* Java sees a plugin that answers each call with what was promised of its   *)
(* message, for any messages and wherever their objects lie.                 *)
THEOREM PluginCorrect == Spec => PluginSpec
<1>1. Init => Answers!Init
  BY DEF Init, Answers!Init
<1> QED
  BY <1>1, PluginStep, ObjectsAlways, PTL DEF Spec, PluginSpec, Answers!Spec
=============================================================================
