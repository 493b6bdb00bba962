------------------------ MODULE MCGenericConverter --------------------------
(* Maps of up to two entries, nested twice. *)
EXTENDS GenericConverter

Leaves ==
    {<<"null", 0>>, <<"String", "">>, <<"Integer", 1>>, <<"Long", 1>>, <<"Boolean", 0>>,
     <<"Float", 1>>, <<"Double", 1>>, <<"byte[]", <<>>>>, <<"byte[]", <<7>>>>, <<"Short", 1>>,
     <<"ByteString", <<>>>>, <<"ByteString", <<7>>>>}

Alone(nodes) == {[path \in {<<>>} |-> node] : node \in nodes}

\* A container of the given parts; keys and indexes are strings here.
Container(class, parts) ==
    [path \in {<<>>} \union UNION {{<<key>> \o p : p \in DOMAIN parts[key]} : key \in DOMAIN parts} |->
        IF path = <<>> THEN <<class, <<>>>> ELSE parts[Head(path)][Tail(path)]]

MapsOf(trees) ==
    {Container("Map", parts) : parts \in UNION {[keys -> trees] : keys \in SUBSET {"a", "b"}}}
Nested(trees) ==
    MapsOf(trees)
      \union {Container(class, [index \in indexes |-> tree]) :
                  class \in {"List", "array"}, indexes \in {{}, {"1"}}, tree \in trees}

SomeMaps ==
    LET some == Alone({<<"Integer", 1>>, <<"byte[]", <<>>>>, <<"byte[]", <<7>>>>, <<"Short", 1>>})
        deep == Nested(some \union Nested(some))
    IN MapsOf(Alone(Leaves))
         \union {Container("Map", [a |-> tree]) : tree \in deep \union Nested(Alone(Leaves))}
=============================================================================
