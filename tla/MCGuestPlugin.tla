--------------------------- MODULE MCGuestPlugin ----------------------------
(* Messages with up to two headers, and events with up to two attributes. *)
EXTENDS GuestPlugin, MCTrees

Sites ==
    ({<<>>} \X (0..8)) \cup ({<<<<id, i>>>> : id \in {2, 5, 8}, i \in 1..2} \X (0..2))
    \cup ({<<<<5, i>>, <<2, 1>>>> : i \in 1..2} \X (0..4))
    \cup ({<<<<5, i>>, <<2, 1>>, <<7, 1>>>> : i \in 1..2} \X {0})
HeapAddresses ==
    {<<n, <<>>, 0>> : n \in 1..10} \cup {<<n, site[1], site[2]>> : n \in {1, 2, 4, 6}, site \in Sites}

Token(id, value) == [id |-> id, value |-> value]
Optional(id, text) == {<<>>, <<Token(id, <<"text", text>>)>>}
Entries(id, keys, values) ==
    {Token(id, <<"message", <<Token(1, <<"text", k>>), Token(2, v)>>>>) : k \in keys, v \in values}
UpToTwo(entries) ==
    {<<>>} \union {<<e>> : e \in entries}
           \union {<<e, f>> \in entries \X entries : e.value[2][1] # f.value[2][1]}

SpringMessages ==
    {payload \o headers : payload \in Optional(1, "p"),
        headers \in UpToTwo(Entries(2, {"one", "a"}, {<<"text", "">>, <<"text", "b">>}))}

AttributeValues ==
    {<<"message", <<Token(field[1], field[2])>>>> :
        field \in {<<2, <<"number", 0>>>>, <<3, <<"text", "">>>>, <<4, <<"text", "x">>>>,
                   <<7, <<"message", <<Token(1, <<"number", 1>>)>>>>>>}}

Data ==
    {<<>>, <<Token(7, <<"text", "d">>)>>, <<Token(8, <<"message", <<Token(1, <<"text", "u">>),
                                                                    Token(2, <<"text", "v">>)>>>>)>>}
      \union {<<Token(6, <<"text", s>>)>> : s \in {"", "d"}}

Event(id, type, attributes, data) ==
    id \o <<Token(2, <<"text", "s">>)>> \o type \o attributes \o data

\* Every kind of data, and every pair of attributes.
CloudEvents ==
    {Event(id, type, <<>>, data) :
        id \in Optional(1, "i"), type \in Optional(4, "t"), data \in Data}
    \union
    {Event(<<Token(1, <<"text", "i">>)>>, <<>>, attributes, <<Token(6, <<"text", "d">>)>>) :
        attributes \in UpToTwo(Entries(5, {"", "a"}, AttributeValues))}

SpringTrees == {TreeOf("SpringMessage", tokens) : tokens \in SpringMessages}
EventTrees == {TreeOf("CloudEvent", tokens) : tokens \in CloudEvents}
SomeEncodings(f) == IF f = "filter" THEN EventTrees ELSE SpringTrees
=============================================================================
