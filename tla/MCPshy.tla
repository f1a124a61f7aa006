------------------------------- MODULE MCPshy -------------------------------
(* Lines of every kind, some longer than the first buffer: builtins (also by  *)
(* prefix), a program, a word that is none, spaces and nothing.               *)
EXTENDS Pshy

CONSTANTS p0, p1, p2

MCPids == {p0, p1, p2}
MCPrograms == {"ls"}
MCLines == {<<>>, <<" ">>, <<"exitnow">>, <<"cd">>, <<"cd", " ", "/tmp">>,
            <<"ls", " ", " ", "-l">>, <<"nope">>}
=============================================================================
