------------------------- MODULE TemplateReference -------------------------
(***************************************************************************)
(* What fillTemplate should return, on values instead of slices, and how   *)
(* far the code keeps to it.                                               *)
(***************************************************************************)
EXTENDS Template

Error == <<"error">>

Expand(c) ==
    LET E[s \in Seq(Chars)] ==
            IF Begin(s) = 0 THEN s
            ELSE IF Close(s) = 0 THEN Error
            ELSE E[Replaced(c, s)]
    IN E

Result == IF pc = "refused" THEN Error ELSE data

(* Unless a longer value was written over the rest of the payload, a tick  *)
(* expands exactly what v.Payload held when it began.                      *)
FillIsExact == pc \in {"filled", "refused"} /\ ~lossy => Result = Expand(config)[start]
=============================================================================
