------------------------------- MODULE MCZmap -------------------------------
(* A small instance of Zmap: 15 addresses at most, 8 ports, 3 shards. *)
EXTENDS Zmap

\* as in groups[], each prime is a little larger than a power of two
MCGroups ==
  << [prime |-> 5,   prime_factors |-> {2}],
     [prime |-> 17,  prime_factors |-> {2}],
     [prime |-> 67,  prime_factors |-> {2, 3, 11}],
     [prime |-> 131, prime_factors |-> {2, 5, 13}] >>

Field(name, type) == [name |-> name, type |-> type]

SomeFields == << Field("saddr", "string"), Field("sport", "int"),
                 Field("classification", "string"), Field("success", "bool"),
                 Field("repeat", "bool") >>

Synscan == [name |-> "synscan", port_args |-> TRUE, dynamic |-> FALSE,
            fields |-> SomeFields]
\* a module with dynamic output and without ports
Dynamic == [Synscan EXCEPT !.name = "dynamic", !.port_args = FALSE, !.dynamic = TRUE]
\* a module under development
NoSuccess == [Synscan EXCEPT !.name = "nosuccess", !.fields = <<Field("saddr", "string")>>]
SomeModules == {Synscan, Dynamic, NoSuccess}

Sources == {None, <<1, 2>>, <<6, 9>>, <<9>>}
SomeTargetPorts == {None, << <<1, 1>> >>, << <<1, 1>>, <<1, 2>> >>, << <<0, 7>> >>,
                << <<2, 1>> >>, << <<7, 8>> >>}
OutputArgs == {None, <<"*">>, <<"saddr", "nosuch">>}

Text(f) == [kind |-> "text", text |-> f]
Success == Comparison("success", "EQ", IntLit(1))
Fresh   == Comparison("repeat", "EQ", IntLit(0))
Rst     == Comparison("classification", "NEQ", StrLit("rst"))
Low     == Comparison("sport", "LT_EQ", IntLit(1))
High    == Comparison("sport", "GT_EQ", IntLit(15))
TextFilters ==
  { Chain(<<Success, Fresh>>, <<"AND">>),
    Chain(<<Success, Low, Fresh>>, <<"OR", "AND">>),
    Chain(<<Chain(<<Success, Low>>, <<"OR">>), Rst>>, <<"AND">>),
    High,
    Comparison("classification", "EQ", IntLit(1)),
    Comparison("success", "EQ", StrLit("rst")),
    Comparison("nosuch", "EQ", IntLit(1)) }
Filters ==
  {None, [kind |-> "empty", text |-> High], [kind |-> "unparsable", text |-> High]}
    \cup {Text(f) : f \in TextFilters}

SomeShard  == {None, 0, 2, 8}
SomeShards == {None, 2, 3, 0}
Number(n)  == [num |-> n, percent |-> FALSE]
SomeLimits == {None, Number(0), Number(3), Number(7), Number(200),
               [num |-> 5, percent |-> TRUE], [num |-> 50, percent |-> TRUE]}
Threads == {None, 0, 1, 3, 8}
=============================================================================
