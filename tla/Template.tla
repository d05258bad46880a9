------------------------------ MODULE Template ------------------------------
(***************************************************************************)
(* fillTemplate (src/internal/app/core/rpc/interceptor.go:259-297)         *)
(* replaces every {{name}} of a payload by a value of the object's         *)
(* configuration.  It edits the payload in place, with copy and append on  *)
(* slices that share one array.  The array of a scheduled action is the    *)
(* one its ActionConfig holds, for every tick (buildJobFn, 220-225).       *)
(*                                                                         *)
(* A payload is a sequence of characters.  A slice is an array and a       *)
(* length; all slices here start at the first cell of their array.         *)
(***************************************************************************)
EXTENDS Placeholders

CONSTANTS Chars,        \* the characters of payloads and values
          Payloads,     \* what fillPayload has marshalled
          Configs,      \* the functions from names to values
          MaxTicks,     \* bound on the ticks of the job
          MaxSlack      \* bound on the spare cells append may allocate

(* An unused cell of an array holds "0".                                   *)
ASSUME TextsAssumption ==
    /\ "0" \in Chars
    /\ Payloads \subseteq Seq(Chars)
    /\ \A c \in Configs : \A name \in DOMAIN c : c[name] \in Seq(Chars)
ASSUME TicksAssumption == MaxTicks \in Nat
ASSUME SlackAssumption == MaxSlack \in Nat

VARIABLES
    payload,    \* the payload as it was configured
    config,     \* object.Config
    shared,     \* the array of v.Payload
    start,      \* what v.Payload held when this tick began
    own,        \* whether data is in an array of its own
    array,      \* that array
    len,        \* len(data)
    ticks,      \* ticks so far
    lossy,      \* history: this tick has written over what it had to keep
    pc

fillVars ==
    <<payload, config, shared, start, own, array, len, ticks, lossy, pc>>

Cells == IF own THEN array ELSE shared
data == SubSeq(Cells, 1, len)

(* Mutant of Width: one cell is not counted.                               *)
WidthShort(s) == End(s) - Begin(s)
Width(s) == End(s) - Begin(s) + 1

(* Mutant of Overwrite: copy begins one cell too early.                    *)
OverwriteEarly(cells, i, t) ==
    [j \in 1 .. Len(cells) |->
        IF j \in i - 1 .. i + Len(t) - 2 THEN t[j - i + 2] ELSE cells[j]]
(* copy into a slice: the cells from i on become t.                        *)
Overwrite(cells, i, t) ==
    [j \in 1 .. Len(cells) |->
        IF j \in i .. i + Len(t) - 1 THEN t[j - i + 1] ELSE cells[j]]

Fits(n) == n <= Len(Cells)

(* append beyond the capacity moves the slice to an array of its own.      *)
Grown(s) == {s \o [j \in 1 .. n |-> "0"] : n \in 0 .. MaxSlack}

FillInit ==
    /\ payload \in Payloads
    /\ config \in Configs
    /\ shared = payload
    /\ start = payload
    /\ own = FALSE
    /\ array = <<>>
    /\ len = 0
    /\ ticks = 0
    /\ lossy = FALSE
    /\ pc = "idle"

(* The job's goroutine calls Call with v.Payload.                          *)
Tick ==
    /\ pc = "idle"
    /\ ticks < MaxTicks
    /\ ticks' = ticks + 1
    /\ start' = shared
    /\ own' = FALSE
    /\ array' = <<>>
    /\ len' = Len(shared)
    /\ lossy' = FALSE
    /\ pc' = "fill"
    /\ UNCHANGED <<payload, config, shared>>

Replacing == pc = "fill" /\ Begin(data) # 0 /\ Close(data) # 0

(* Nothing more to replace: data goes on to Unmarshal.                     *)
Filled ==
    /\ pc = "fill"
    /\ Begin(data) = 0
    /\ pc' = "filled"
    /\ UNCHANGED <<payload, config, shared, start, own, array, len, ticks,
                   lossy>>

(* "begin found but end not found"                                         *)
Unclosed ==
    /\ pc = "fill"
    /\ Begin(data) # 0
    /\ Close(data) = 0
    /\ pc' = "refused"
    /\ UNCHANGED <<payload, config, shared, start, own, array, len, ticks,
                   lossy>>

Write(cells) ==
    IF own THEN array' = cells /\ UNCHANGED shared
    ELSE shared' = cells /\ UNCHANGED array

(* The value is not longer: it and the rest move to the front, in place.   *)
Shrink ==
    LET s == data
        v == Value(config, s)
    IN /\ Replacing
       /\ Len(v) <= Width(s)
       /\ Write(Overwrite(Overwrite(Cells, Begin(s), v),
                          Begin(s) + Len(v), After(s)))
       /\ len' = len - (Width(s) - Len(v))
       /\ UNCHANGED <<payload, config, start, own, ticks, lossy, pc>>

(* after := data[end:] aliases the array; cells is what the array holds by *)
(* the time after is read.                                                 *)
Rest(cells, s) == SubSeq(cells, End(s) + 1, Len(s))

(* The value is longer and there is room for it: the first append writes   *)
(* it over the cells that after still refers to, the second appends them.  *)
GrowInPlace ==
    LET s == data
        v == Value(config, s)
        cells == Overwrite(Cells, Begin(s), v)
        filled == SubSeq(cells, 1, Begin(s) - 1 + Len(v))
        whole == filled \o Rest(cells, s)
    IN /\ Replacing
       /\ Len(v) > Width(s)
       /\ Fits(Begin(s) - 1 + Len(v))
       /\ lossy' = (lossy \/ End(s) # Len(s))
       /\ len' = Len(whole)
       /\ IF Fits(Len(whole))
          THEN Write(Overwrite(cells, 1, whole)) /\ UNCHANGED own
          ELSE /\ own' = TRUE
               /\ array' \in Grown(whole)
               /\ shared' = IF own THEN shared ELSE cells
       /\ UNCHANGED <<payload, config, start, ticks, pc>>

(* There is no room: append copies what is before the value elsewhere.     *)
GrowAway ==
    LET s == data
        v == Value(config, s)
        whole == Before(s) \o v \o Rest(Cells, s)
    IN /\ Replacing
       /\ Len(v) > Width(s)
       /\ ~Fits(Begin(s) - 1 + Len(v))
       /\ own' = TRUE
       /\ array' \in Grown(whole)
       /\ len' = Len(whole)
       /\ UNCHANGED <<payload, config, shared, start, ticks, lossy, pc>>

(* Call returns, and the job waits for its next tick.                      *)
Return ==
    /\ pc \in {"filled", "refused"}
    /\ pc' = "idle"
    /\ UNCHANGED <<payload, config, shared, start, own, array, len, ticks,
                   lossy>>

FillStep == Filled \/ Unclosed \/ Shrink \/ GrowInPlace \/ GrowAway

FillNext == Tick \/ FillStep \/ Return

FillSpec == FillInit /\ [][FillNext]_fillVars /\ WF_fillVars(FillStep)

-----------------------------------------------------------------------------
(* The cells of the array that the job keeps are those of the payload; a   *)
(* text lies within its array, and has one of its own only inside a tick.  *)
FillTypeOK ==
    /\ payload \in Payloads /\ config \in Configs
    /\ shared \in Seq(Chars) /\ Len(shared) = Len(payload)
    /\ start \in Seq(Chars)
    /\ own \in BOOLEAN /\ array \in Seq(Chars)
    /\ len \in 0 .. Len(Cells)
    /\ ticks \in 0 .. MaxTicks
    /\ lossy \in BOOLEAN
    /\ pc \in {"idle", "fill", "filled", "refused"}

(* What stands before the first placeholder is never written, over all     *)
(* ticks, whatever happens behind it.                                      *)
BeforeIsKept ==
    LET n == IF Begin(payload) = 0 THEN Len(payload) ELSE Begin(payload) - 1
    IN /\ SubSeq(shared, 1, n) = SubSeq(payload, 1, n)
       /\ pc # "idle" => SubSeq(data, 1, n) = SubSeq(payload, 1, n)

(* On texts, fillTemplate replaces one placeholder after the other, and    *)
(* says where it may have lost what follows one.                           *)
Texts == INSTANCE Expansion WITH text <- data, phase <- pc
Expands == Texts!ExpansionSpec

(* The text has the placeholder of a name at a position.                   *)
PlaceAt(t, i, name) ==
    /\ i + Len(name) + 3 <= Len(t)
    /\ SubSeq(t, i, i + Len(name) + 3) =
           <<Open, Open>> \o name \o <<Shut, Shut>>

(* The names whose values a value brings in, and that its braces do no     *)
(* more than that.                                                         *)
BringsIn(c, name) ==
    {m \in DOMAIN c : \E i \in DOMAIN c[name] : PlaceAt(c[name], i, m)}
Whole(c, name) ==
    \A j \in DOMAIN c[name] : c[name][j] \in {Open, Shut} =>
        \E m \in DOMAIN c : \E i \in 1 .. j :
            j <= i + Len(m) + 3 /\ PlaceAt(c[name], i, m)

(* No value brings itself in, directly or through others.                  *)
Settles(c) ==
    /\ \A name \in DOMAIN c : Whole(c, name)
    /\ \E rank \in [DOMAIN c -> 1 .. Cardinality(DOMAIN c)] :
           \A name \in DOMAIN c : \A m \in BringsIn(c, name) :
               rank[m] < rank[name]

(* fillTemplate returns, for any payload, unless the values bring each     *)
(* other in without end: it goes over a value again once it is in place    *)
(* (interceptor.go:285, 294).                                              *)
FillEnds == (pc = "fill" /\ Settles(config)) ~> pc # "fill"
=============================================================================
