----------------------------- MODULE MC_ConfigKeys -----------------------------
(* Instances of ConfigKeys.tla for TLC: a few characters, the keys a       *)
(* document may use, and the Lookup calls of static initialisation.        *)
EXTENDS ConfigKeys

KeyChars == {"a", "b", "9", "A", ".", "-"}
KeyLower == [c \in KeyChars |-> IF c = "A" THEN "a" ELSE c]

\* lowercase keys, one of them dotted and one ("-") outside both NameChars
\* and the documented [0-9a-z_.]
WalkKeys == {<<"a">>, <<"b">>, <<"-">>, <<"a", ".", "b">>}
\* lowercase keys with the digit 9, which only NameChars leaves out
LowerKeys == {<<"a">>, <<"b">>, <<"9">>, <<"a", ".", "b">>}
\* the same with an uppercase key (ConfigKeys_case.cfg, finding 22)
MixedKeys == {<<"a">>, <<"A">>, <<"b">>}

\* "a.b" as an int, "a" as a uint64_t, and "a.b" again with the wrong type
Calls   == << [name |-> <<"a", ".", "b">>, type |-> "int"],
             [name |-> <<"a">>, type |-> "uint64"],
             [name |-> <<"a", ".", "b">>, type |-> "uint64"] >>
\* a name with the digit 9, before a valid one
NineCalls == << [name |-> <<"b", "9">>, type |-> "int"],
               [name |-> <<"a">>, type |-> "int"] >>
=============================================================================
