---------------------------- MODULE Placeholders ----------------------------
(***************************************************************************)
(* The placeholders {{name}} of a payload, and what they stand for         *)
(* (src/internal/app/core/rpc/interceptor.go:259-277).                     *)
(***************************************************************************)
EXTENDS Naturals, SequencesExt

Open == "{"
Shut == "}"

(* bytes.Index for {{ and for }}, from a position on; 0 when there is none *)
FirstPair(s, c, from) ==
    LET at == {i \in from .. Len(s) - 1 : s[i] = c /\ s[i + 1] = c}
    IN IF at = {} THEN 0 ELSE Min(at)

Begin(s) == FirstPair(s, Open, 1)
Close(s) == FirstPair(s, Shut, Begin(s))

(* The last cell of the placeholder.                                       *)
End(s) == Close(s) + 1

(* strings.Trim takes braces off both ends of the placeholder.             *)
Inner(s) ==
    LET text == {i \in Begin(s) .. End(s) : s[i] \notin {Open, Shut}}
    IN IF text = {} THEN <<>> ELSE SubSeq(s, Min(text), Max(text))

(* Mutant of Value: an unknown name is left as it stands.                  *)
KeepUnknown(config, s) ==
    LET name == Inner(s)
    IN IF name \in DOMAIN config THEN config[name]
       ELSE SubSeq(s, Begin(s), End(s))
(* obj.Config.Get(name).Str(), which is empty for an unknown name.         *)
Value(config, s) ==
    LET name == Inner(s)
    IN IF name \in DOMAIN config THEN config[name] ELSE <<>>

Before(s) == SubSeq(s, 1, Begin(s) - 1)
After(s) == SubSeq(s, End(s) + 1, Len(s))

(* The text with its first placeholder replaced.                           *)
Replaced(config, s) == Before(s) \o Value(config, s) \o After(s)
=============================================================================
