----------------------- MODULE GenericConverterProofs -----------------------
(***************************************************************************)
(* Theorems about GenericConverter, for all maps: of any size, nested as   *)
(* deep as may be, of objects of any classes.                              *)
(***************************************************************************)
EXTENDS GenericConverter, TLAPS

LEMMA Classes ==
    /\ DOMAIN Scalars = {"String", "Integer", "Long", "Boolean", "Float", "Double"}
    /\ DOMAIN Containers = {"Map", "List", "array"}
BY DEF Scalars, Containers

(* The six cases of scalars belong to one class each, and to no container. *)
LEMMA ScalarCases ==
    ASSUME NEW class \in DOMAIN Scalars
    PROVE  /\ ClassOf(Scalars[class]) = class
           /\ Scalars[class] \notin {"", "null_val", "bytes_val", "list_val", "message_val"}
<1>1. \A c \in DOMAIN Scalars : Scalars[c] = Scalars[class] => c = class
  BY DEF Scalars
<1>2. ClassOf(Scalars[class]) = class
  BY <1>1 DEF ClassOf
<1>3. Scalars[class] \in {"string_val", "int_val", "long_val", "bool_val", "float_val", "double_val"}
  BY Classes DEF Scalars
<1>. QED  BY <1>2, <1>3

(* What fromMap is given: nodes of the shape MapsAssumption asks for. *)
Node(val) ==
    /\ val = <<val[1], val[2]>>
    /\ val[1] = "null" => val[2] = 0
    /\ val[1] \in DOMAIN Containers => val[2] = <<>>

LEMMA MapNodes == ASSUME NEW tree \in Maps, NEW path \in DOMAIN tree PROVE Node(tree[path])
<1>1. tree = [p \in DOMAIN tree |-> <<tree[p][1], tree[p][2]>>]
  BY MapsAssumption
<1>2. tree[path] = <<tree[path][1], tree[path][2]>>
  BY <1>1
<1>. QED  BY <1>2, MapsAssumption DEF Node

(* One object, converted and read. *)
LEMMA ReadBack ==
    ASSUME NEW val, Node(val), ~Unsupported(val)
    PROVE  tcartex(extract(val)) = AsRead(val)
<1>1. CASE val[1] = "null"
  <2>1. extract(val) = <<"null_val", 0>> /\ AsRead(val) = val
    BY <1>1, Classes DEF extract, AsRead
  <2>2. val = <<"null", 0>>
    BY <1>1 DEF Node
  <2>. QED  BY <2>1, <2>2 DEF tcartex
<1>2. CASE val[1] \in DOMAIN Scalars
  <2>1. extract(val) = <<Scalars[val[1]], val[2]>>
    BY <1>2, Classes DEF extract
  <2>2. tcartex(extract(val)) = <<val[1], val[2]>>
    <3>1. extract(val)[1] = Scalars[val[1]] /\ extract(val)[2] = val[2]
      BY <2>1
    <3>2. /\ extract(val)[1] \notin {"", "null_val", "bytes_val", "list_val", "message_val"}
          /\ ClassOf(extract(val)[1]) = val[1]
      BY <1>2, <3>1, ScalarCases
    <3>. QED  BY <3>1, <3>2 DEF tcartex
  <2>3. AsRead(val) = val
    BY <1>2, Classes DEF AsRead
  <2>. QED  BY <2>2, <2>3 DEF Node
<1>3. CASE val[1] = "byte[]"
  <2>1. extract(val) = <<"bytes_val", val[2]>> /\ AsRead(val) = <<"ByteString", val[2]>>
    BY <1>3, Classes DEF extract, AsRead
  <2>. QED  BY <2>1 DEF tcartex
<1>4. CASE val[1] \in DOMAIN Containers
  <2>1. val[1] \in {"Map", "List", "array"}
    BY <1>4 DEF Containers
  <2>2. extract(val) = <<Containers[val[1]], <<>>>>
    BY <1>4, <2>1, Classes DEF extract
  <2>3. CASE val[1] = "Map"
    BY <1>4, <2>2, <2>3 DEF tcartex, AsRead, Node, Containers
  <2>4. CASE val[1] = "List"
    BY <1>4, <2>2, <2>4 DEF tcartex, AsRead, Node, Containers
  <2>5. CASE val[1] = "array"
    BY <1>4, <2>2, <2>5 DEF tcartex, AsRead, Node, Containers
  <2>. QED  BY <2>1, <2>3, <2>4, <2>5
<1>5. CASE val[1] = "ByteString"
  BY <1>5 DEF extract, tcartex, AsRead, Scalars, Containers
<1>. QED  BY <1>1, <1>2, <1>3, <1>4, <1>5 DEF Unsupported

(* One object, converted, read and converted again: without a byte[] the    *)
(* second conversion is the first, and it throws only at one that has bytes. *)
LEMMA ReadAgain ==
    ASSUME NEW val, Node(val), ~Unsupported(val)
    PROVE  /\ Unsupported(AsRead(val)) <=> extract(val)[1] = "bytes_val" /\ extract(val)[2] # <<>>
           /\ extract(val)[1] # "bytes_val" => extract(AsRead(val)) = extract(val)
<1>1. CASE val[1] = "null"
  <2>1. extract(val)[1] = "null_val" /\ AsRead(val) = val
    BY <1>1, Classes DEF extract, AsRead
  <2>. QED  BY <2>1
<1>2. CASE val[1] \in DOMAIN Scalars
  <2>1. extract(val)[1] = Scalars[val[1]]
    BY <1>2, Classes DEF extract
  <2>2. AsRead(val) = val
    BY <1>2, Classes DEF AsRead
  <2>. QED  BY <1>2, <2>1, <2>2, ScalarCases
<1>3. CASE val[1] = "byte[]"
  <2>1. extract(val) = <<"bytes_val", val[2]>> /\ AsRead(val) = <<"ByteString", val[2]>>
    BY <1>3, Classes DEF extract, AsRead
  <2>. QED  BY <2>1, Classes DEF Unsupported
<1>4. CASE val[1] \in DOMAIN Containers
  <2>1. val[1] \in {"Map", "List", "array"}
    BY <1>4 DEF Containers
  <2>2. extract(val) = <<Containers[val[1]], <<>>>> /\ Containers[val[1]] # "bytes_val"
    BY <1>4, <2>1, Classes DEF extract, Containers
  <2>3. CASE val[1] \in {"Map", "List"}
    BY <2>2, <2>3 DEF AsRead, Unsupported, Containers
  <2>4. CASE val[1] = "array"
    <3>1. AsRead(val) = <<"List", <<>>>>
      BY <2>4 DEF AsRead
    <3>2. extract(AsRead(val)) = <<"list_val", <<>>>>
      BY <3>1 DEF extract, Scalars, Containers
    <3>3. ~Unsupported(AsRead(val))
      BY <3>1 DEF Unsupported, Containers
    <3>. QED  BY <2>2, <2>4, <3>2, <3>3 DEF Containers
  <2>. QED  BY <2>1, <2>3, <2>4
<1>5. CASE val[1] = "ByteString"
  <2>1. extract(val) = <<"list_val", <<>>>> /\ AsRead(val) = <<"List", <<>>>>
    BY <1>5 DEF extract, AsRead, Scalars, Containers
  <2>2. extract(AsRead(val)) = <<"list_val", <<>>>>
    BY <2>1 DEF extract, Scalars, Containers
  <2>3. ~Unsupported(AsRead(val))
    BY <2>1 DEF Unsupported, Containers
  <2>. QED  BY <2>1, <2>2, <2>3
<1>. QED  BY <1>1, <1>2, <1>3, <1>4, <1>5 DEF Unsupported
-----------------------------------------------------------------------------
(* What there is at each place: the message of the map, the map of the      *)
(* message and the message of that, each made without an exception.         *)
ConverterInv ==
    /\ map \in Maps
    /\ pc \in {"start", "thrown", "message", "back", "thrownAgain", "again"}
    /\ pc \notin {"start", "thrown"} => ~Throws(map) /\ message = fromMap(map)
    /\ pc \in {"back", "thrownAgain", "again"} => back = toMap(message)
    /\ pc = "thrownAgain" => Throws(back)
    /\ pc = "again" => ~Throws(back) /\ again = fromMap(back)

LEMMA ConverterAlways == Spec => []ConverterInv
<1>1. Init => ConverterInv
  BY DEF Init, ConverterInv
<1>2. ConverterInv /\ [Next]_vars => ConverterInv'
  <2> SUFFICES ASSUME ConverterInv, [Next]_vars PROVE ConverterInv'
    OBVIOUS
  <2>1. CASE FromMap
    BY <2>1 DEF ConverterInv, FromMap
  <2>2. CASE ToMap
    BY <2>2 DEF ConverterInv, ToMap
  <2>3. CASE FromMapAgain
    BY <2>3 DEF ConverterInv, FromMapAgain
  <2>4. CASE Done \/ UNCHANGED vars
    BY <2>4 DEF ConverterInv, Done, vars
  <2>. QED  BY <2>1, <2>2, <2>3, <2>4 DEF Next
<1>. QED  BY <1>1, <1>2, PTL DEF Spec

(* The map read from a message, object by object. *)
LEMMA BackIs ==
    ASSUME map \in Maps, ~Throws(map), message = fromMap(map), back = toMap(message)
    PROVE  back = [path \in DOMAIN map |-> AsRead(map[path])]
<1>1. ASSUME NEW path \in DOMAIN map PROVE tcartex(message[path]) = AsRead(map[path])
  <2>1. Node(map[path]) /\ ~Unsupported(map[path])
    BY MapNodes DEF Throws
  <2>2. message[path] = extract(map[path])
    BY DEF fromMap
  <2>. QED  BY <2>1, <2>2, ReadBack
<1>2. DOMAIN message = DOMAIN map
  BY DEF fromMap
<1>. QED  BY <1>1, <1>2 DEF toMap

(* toMap inverts fromMap for every map: each object comes back at its path, *)
(* as a list or a ByteString if messages have no case for its class.        *)
THEOREM ConvertsBackCorrect == Spec => []ConvertsBack
<1>1. ConverterInv => ConvertsBack
  BY BackIs DEF ConverterInv, ConvertsBack
<1>. QED  BY <1>1, ConverterAlways, PTL

(* A map that came out of a message makes that message again; it throws     *)
(* exactly if there are bytes in it, and differs only by empty ones.        *)
THEOREM ConvertsAgainCorrect == Spec => []ConvertsAgain
<1>1. ASSUME ConverterInv, pc \in {"thrownAgain", "again"} PROVE ConvertsAgain
  <2>1. /\ map \in Maps /\ ~Throws(map) /\ message = fromMap(map) /\ back = toMap(message)
        /\ back = [path \in DOMAIN map |-> AsRead(map[path])]
    BY <1>1, BackIs DEF ConverterInv
  <2>2. DOMAIN message = DOMAIN map /\ DOMAIN back = DOMAIN map
    BY <2>1 DEF fromMap
  <2>3. ASSUME NEW path \in DOMAIN map
        PROVE  /\ Unsupported(back[path]) <=>
                      message[path][1] = "bytes_val" /\ message[path][2] # <<>>
               /\ message[path][1] # "bytes_val" => extract(back[path]) = message[path]
    <3>1. Node(map[path]) /\ ~Unsupported(map[path])
      BY <2>1, MapNodes DEF Throws
    <3>2. message[path] = extract(map[path]) /\ back[path] = AsRead(map[path])
      BY <2>1 DEF fromMap
    <3>. QED  BY <3>1, <3>2, ReadAgain
  <2>4. CASE pc = "thrownAgain"
    <3>1. PICK path \in DOMAIN map : Unsupported(back[path])
      BY <1>1, <2>2, <2>4 DEF ConverterInv, Throws
    <3>2. message[path][2] \in BytesIn(message) /\ message[path][2] # <<>>
      BY <2>2, <2>3, <3>1 DEF BytesIn
    <3>. QED  BY <2>4, <3>2 DEF ConvertsAgain
  <2>5. CASE pc = "again"
    <3>1. ~Throws(back) /\ again = fromMap(back)
      BY <1>1, <2>5 DEF ConverterInv
    <3>2. \A path \in DOMAIN map : message[path][1] = "bytes_val" => message[path][2] = <<>>
      BY <2>2, <2>3, <3>1 DEF Throws
    <3>3. BytesIn(message) \subseteq {<<>>}
      BY <2>2, <3>2 DEF BytesIn
    <3>4. ASSUME <<>> \notin BytesIn(message) PROVE again = message
      <4>1. \A path \in DOMAIN map : message[path][1] # "bytes_val"
        BY <2>2, <3>2, <3>4 DEF BytesIn
      <4>2. \A path \in DOMAIN map : extract(back[path]) = message[path]
        BY <2>3, <4>1
      <4>3. message = [path \in DOMAIN map |-> message[path]]
        BY <2>1 DEF fromMap
      <4>. QED  BY <2>2, <3>1, <4>2, <4>3 DEF fromMap
    <3>. QED  BY <2>5, <3>3, <3>4 DEF ConvertsAgain
  <2>. QED  BY <1>1, <2>4, <2>5
<1>2. ConverterInv => ConvertsAgain
  BY <1>1 DEF ConvertsAgain
<1>. QED  BY <1>2, ConverterAlways, PTL
=============================================================================
