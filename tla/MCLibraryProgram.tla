-------------------------- MODULE MCLibraryProgram --------------------------
(* TLC instance of LibraryProgram: strings over a, b, a comma and a space,  *)
(* texts of one and two characters that can overlap themselves, and the     *)
(* paths of up to two of two keys.                                          *)
EXTENDS LibraryProgram

MCLetters == {"a", "b", ",", " "}
MCSeparators == {<<",">>, <<"a">>, <<"a", "a">>, <<"a", "b">>}
MCPaths == {<<Atom(<<"a">>)>>, <<Atom(<<"b">>)>>} \cup {<<Atom(<<"a">>), Atom(<<c>>)>> : c \in {"a", "b"}}
             \cup {<<Atom(<<"b">>), Atom(<<"a">>)>>}
=============================================================================
