-------------------------- MODULE GenericConverter --------------------------
(***************************************************************************)
(* GenericMessageConverterUtils: Java maps to GenericMessages and back.    *)
(*                                                                         *)
(* A map is the tree of the objects in it, a GenericMessage that of its    *)
(* values: a function from paths to nodes, where a path is the keys and    *)
(* indexes that lead to the node.  The recursive methods visit every node. *)
(* A node is <<class, content>> or <<case, content>>; the content of a     *)
(* byte[], a ByteString and bytes_val is a sequence, and that of a         *)
(* container, which has its elements at longer paths, is empty.            *)
(***************************************************************************)
EXTENDS Naturals, Sequences

CONSTANT Maps  \* the maps to convert

Scalars == [String |-> "string_val", Integer |-> "int_val", Long |-> "long_val",
            Boolean |-> "bool_val", Float |-> "float_val", Double |-> "double_val"]
Containers == [Map |-> "message_val", List |-> "list_val", array |-> "list_val"]

Parent(path) == SubSeq(path, 1, Len(path) - 1)

ASSUME MapsAssumption ==
    \A tree \in Maps :
        /\ tree = [path \in DOMAIN tree |-> <<tree[path][1], tree[path][2]>>]
        /\ <<>> \in DOMAIN tree /\ tree[<<>>][1] = "Map"
        /\ \A path \in DOMAIN tree :
              /\ path # <<>> => /\ Parent(path) \in DOMAIN tree
                                /\ tree[Parent(path)][1] \in DOMAIN Containers
              /\ tree[path][1] = "null" => tree[path][2] = 0
              /\ tree[path][1] \in DOMAIN Containers => tree[path][2] = <<>>

VARIABLES
    map,      \* what the caller converts
    message,  \* what fromMap makes of it
    back,     \* what toMap makes of that
    again,    \* and fromMap of that once more
    pc

vars == <<map, message, back, again, pc>>

(* extract throws IllegalArgumentException: for a class it does not know, and *)
(* for the Bytes of a ByteString, which is an Iterable.                       *)
Unsupported(val) ==
    \/ val[1] \notin {"null", "byte[]", "ByteString"}
                         \union DOMAIN Scalars \union DOMAIN Containers
    \/ val[1] = "ByteString" /\ val[2] # <<>>

(* Faulty: a Long is taken for an Integer. *)
extract_LongAsInt(val) ==
    CASE val[1] = "null" -> <<"null_val", 0>>
      [] val[1] = "Long" -> <<"int_val", val[2]>>
      [] val[1] \in DOMAIN Scalars \ {"Long"} -> <<Scalars[val[1]], val[2]>>
      [] val[1] = "byte[]" -> <<"bytes_val", val[2]>>
      [] val[1] \in DOMAIN Containers -> <<Containers[val[1]], <<>>>>
      [] val[1] = "ByteString" -> <<"list_val", <<>>>>

extract(val) ==
    CASE val[1] = "null" -> <<"null_val", 0>>
      [] val[1] \in DOMAIN Scalars -> <<Scalars[val[1]], val[2]>>
      [] val[1] = "byte[]" -> <<"bytes_val", val[2]>>
      [] val[1] \in DOMAIN Containers -> <<Containers[val[1]], <<>>>>
      [] val[1] = "ByteString" -> <<"list_val", <<>>>>

ClassOf(case) == CHOOSE class \in DOMAIN Scalars : Scalars[class] = case

(* Faulty: a float is widened. *)
tcartex_Widens(value) ==
    CASE value[1] \in {"", "null_val"} -> <<"null", 0>>
      [] value[1] = "bytes_val" -> <<"ByteString", value[2]>>
      [] value[1] = "list_val" -> <<"List", <<>>>>
      [] value[1] = "message_val" -> <<"Map", <<>>>>
      [] value[1] = "float_val" -> <<"Double", value[2]>>
      [] OTHER -> <<ClassOf(value[1]), value[2]>>

tcartex(value) ==
    CASE value[1] \in {"", "null_val"} -> <<"null", 0>>
      [] value[1] = "bytes_val" -> <<"ByteString", value[2]>>
      [] value[1] = "list_val" -> <<"List", <<>>>>
      [] value[1] = "message_val" -> <<"Map", <<>>>>
      [] OTHER -> <<ClassOf(value[1]), value[2]>>

Throws(tree) == \E path \in DOMAIN tree : Unsupported(tree[path])
fromMap(tree) == [path \in DOMAIN tree |-> extract(tree[path])]
toMap(msg) == [path \in DOMAIN msg |-> tcartex(msg[path])]

Init ==
    /\ map \in Maps
    /\ message = <<>> /\ back = <<>> /\ again = <<>>
    /\ pc = "start"

FromMap ==
    /\ pc = "start"
    /\ IF Throws(map) THEN pc' = "thrown" /\ UNCHANGED message
       ELSE pc' = "message" /\ message' = fromMap(map)
    /\ UNCHANGED <<map, back, again>>

ToMap ==
    /\ pc = "message"
    /\ back' = toMap(message)
    /\ pc' = "back"
    /\ UNCHANGED <<map, message, again>>

FromMapAgain ==
    /\ pc = "back"
    /\ IF Throws(back) THEN pc' = "thrownAgain" /\ UNCHANGED again
       ELSE pc' = "again" /\ again' = fromMap(back)
    /\ UNCHANGED <<map, message, back>>

Done == pc \in {"thrown", "thrownAgain", "again"} /\ UNCHANGED vars

Next == FromMap \/ ToMap \/ FromMapAgain \/ Done

Spec == Init /\ [][Next]_vars

-----------------------------------------------------------------------------
(* The object a reader of the message gets for one that was put in: arrays *)
(* come back as lists and byte arrays as ByteStrings.                      *)
AsRead(val) ==
    CASE val[1] = "byte[]" -> <<"ByteString", val[2]>>
      [] val[1] \in {"array", "ByteString"} -> <<"List", <<>>>>
      [] OTHER -> val

(* toMap inverts fromMap, whatever the maps nest: every object comes back   *)
(* where it was, and is of the class it had unless messages have none such. *)
ConvertsBack == pc = "back" => back = [path \in DOMAIN map |-> AsRead(map[path])]

BytesIn(msg) == {msg[path][2] : path \in {p \in DOMAIN msg : msg[p][1] = "bytes_val"}}

(* What came out of a message makes the same message again, but for bytes: a *)
(* ByteString is an Iterable of Bytes, which have no case.  With bytes in it *)
(* the second conversion throws; with empty ones it makes them a list.       *)
ConvertsAgain ==
    LET bytes == BytesIn(message)
    IN /\ pc = "thrownAgain" => bytes \ {<<>>} # {}
       /\ pc = "again" => bytes \subseteq {<<>>} /\ (again = message \/ <<>> \in bytes)
=============================================================================
