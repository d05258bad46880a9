------------------------------ MODULE Expansion ------------------------------
(***************************************************************************)
(* What fillTemplate promises to who calls it, on texts instead of slices: *)
(* one placeholder after the other is replaced by its value, from the      *)
(* first on, until there is none or one that does not end.                 *)
(*                                                                         *)
(* A value that is longer than its placeholder may be written over what    *)
(* follows it (interceptor.go:291): the text is `lossy` then, of the right *)
(* length and right up to the end of the value.                            *)
(***************************************************************************)
EXTENDS Placeholders

VARIABLES config, text, lossy, phase

expansionVars == <<config, text, lossy, phase>>

ExpansionInit == phase = "idle"

(* A call may come with any text.                                          *)
Call ==
    /\ phase = "idle"
    /\ phase' = "fill"
    /\ ~lossy'
    /\ UNCHANGED config

Replace ==
    LET next == Replaced(config, text)
        kept == Begin(text) - 1 + Len(Value(config, text))
    IN /\ phase = "fill" /\ phase' = phase
       /\ Begin(text) # 0 /\ Close(text) # 0
       /\ Len(text') = Len(next)
       /\ SubSeq(text', 1, kept) = SubSeq(next, 1, kept)
       /\ \/ lossy' = lossy /\ text' = next
          \/ /\ lossy'
             /\ Len(next) > Len(text)
             /\ After(text) # <<>>
       /\ UNCHANGED config

Finish ==
    /\ phase = "fill"
    /\ IF Begin(text) = 0 THEN phase' = "filled"
                           ELSE Close(text) = 0 /\ phase' = "refused"
    /\ UNCHANGED <<config, text, lossy>>

Leave ==
    /\ phase \in {"filled", "refused"}
    /\ phase' = "idle"
    /\ UNCHANGED <<config, text, lossy>>

ExpansionNext == Call \/ Replace \/ Finish \/ Leave

ExpansionSpec == ExpansionInit /\ [][ExpansionNext]_expansionVars
=============================================================================
