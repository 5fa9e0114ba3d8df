------------------------------- MODULE MCZtee -------------------------------
(* Headers and rows for Ztee: with the fields in both orders, with a field *)
(* that only begins like a name looked for, and a single column.           *)
EXTENDS Ztee

SomeHeaders == {<<"saddr", "success">>, <<"success", "saddr">>, <<"ipid", "saddr">>,
                <<"saddr">>}

SomeRows == {<<"true", "a">>, <<"a", "1">>, <<"b", "true">>, <<"", "a">>}
=============================================================================
