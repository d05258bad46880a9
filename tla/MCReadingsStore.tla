--------------------------- MODULE MCReadingsStore ---------------------------
(* Instances of ReadingsStore: two parameters, one inside the other, with  *)
(* an expression for some of their readings.  An expression makes a number *)
(* with more than six decimals of a1; b1 is raw bytes: JSON keeps neither. *)
EXTENDS ReadingsStore
CONSTANTS a, b, a1, b1, b2, ca1, cb1, sixDecimals, base64

MCKeys == {<<a>>, <<a, b>>, <<b>>}
MCKeyOf(v) == IF v = a1 THEN <<a>> ELSE IF v = b1 THEN <<a, b>> ELSE <<b>>
MCCode(v) == IF v = a1 THEN ca1 ELSE IF v = b1 THEN cb1 ELSE v
MCStored(v) == IF v = ca1 THEN sixDecimals ELSE IF v = b1 THEN base64 ELSE v
MCValues == {a1, b1, b2, ca1, cb1, sixDecimals, base64}
=============================================================================
