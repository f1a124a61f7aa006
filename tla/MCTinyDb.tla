------------------------------ MODULE MCTinyDb ------------------------------
(* Statements of every kind for tinydb, and creates of up to three columns.   *)
EXTENDS TinyDb

Columns_ == {
    <<"a", "int">>, <<"b", "int">>, <<"a", "varchar(8)">>, <<"b", "varchar(0)">>,
    <<"a", "nope(8)">>, <<"c", "nope">>, <<"c">>, <<"b", "varchar(8)">>}
Pairs == {x \o y : x \in Columns_, y \in Columns_}
MCStatements ==
    {<<>>, <<"drop">>, <<"insert">>, <<"create">>, <<"create", "index">>, <<"create", "table">>,
     <<"select", "*", "from", "t">>, <<"select", "a", "from">>, <<"select", "a", "from", "t">>,
     <<"select", "a", "b", "from", "t">>, <<"select", "a", "b", "from">>, <<"select", "a", "b", "t">>}
    \cup {<<"create", "table", n>> \o c : n \in {"t", "u"}, c \in {<<>>} \cup Columns_ \cup Pairs}
    \cup {<<"create", "table", "t", "a", "int">> \o c : c \in Pairs}
=============================================================================
