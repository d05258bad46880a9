----------------------------- MODULE MCTemplate -----------------------------
(* Small instances of Template for TLC.                                    *)
EXTENDS TemplateReference
CONSTANT Longest

MCChars == {"{", "}", "x", "t", "u", "v", "w", "0"}
MCTexts == UNION {[1 .. n -> {"{", "}", "x", "t"}] : n \in 0 .. Longest}
Placeholder == <<"{", "{", "x", "}", "}">>
Pair == Placeholder \o <<"t">> \o Placeholder \o <<"t", "u">>
MCPayloads == MCTexts \cup {Pair}

(* Values of x that are empty, as long as the placeholder, or longer;      *)
(* values that bring in another one, in place or behind a character, and   *)
(* two that bring each other in.                                           *)
Other == <<"{", "{", "t", "}", "}">>
MCConfigs == {<<"x">> :> <<>>, <<"x">> :> <<"v", "v", "v", "v", "v">>,
              <<"x">> :> <<"v", "w", "v", "w", "v", "w">>,
              <<"x">> :> Other @@ <<"t">> :> <<"u">>,
              <<"x">> :> (<<"v">> \o Other) @@ <<"t">> :> <<"w">>,
              <<"x">> :> Other @@ <<"t">> :> Placeholder}
=============================================================================
