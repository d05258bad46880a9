----------------------------- MODULE StateStore -----------------------------
(***************************************************************************)
(* The state store of the core (src/pkg/store/state/state.go): a tree in   *)
(* memory, addressed by dotted keys, beside a flat bucket in the database. *)
(* Set changes the tree under the lock and the bucket in a later           *)
(* transaction; the relay and every read call run Set in goroutines of     *)
(* their own.  A start of the process loads the bucket into the tree.      *)
(*                                                                         *)
(* A dotted key is the sequence of its names.  The tree is the map from    *)
(* the keys of its leaves to their values.                                 *)
(*                                                                         *)
(* The tree keeps a value as it came, the bucket keeps its JSON: a number  *)
(* loses what follows the sixth decimal, and bytes become a string.        *)
(***************************************************************************)
EXTENDS Naturals, SequencesExt

CONSTANTS
    Names, Keys, Values, Writers, CleanChoices, None,
    Stored(_)     \* what is read back of a value from its JSON

ASSUME KeyAssumption == Keys \subseteq Seq(Names) \ {<<>>}
ASSUME CleanAssumption == CleanChoices \subseteq BOOLEAN
ASSUME StoredAssumption ==
    \A v \in Values : Stored(v) \in Values /\ Stored(Stored(v)) = Stored(v)
ASSUME NoneAssumption ==
    None \notin Values \cup [key : Keys, val : Values, alone : BOOLEAN]

VARIABLES
    mem,        \* s.state: the value at each leaf
    db,         \* the bucket: the value stored under each key
    set,        \* the Set of each goroutine that has changed mem but not db
    up,         \* the process runs
    agreed      \* history: keys last written by a Set that ran alone

storeVars == <<mem, db, set, up, agreed>>

(* One of the keys is the other one, or lies inside the other's subtree.   *)
Overlap(p, k) == IsPrefix(p, k) \/ IsPrefix(k, p)

(* Mutant of Put: only the leaf itself is replaced.                        *)
PutLeaf(tree, k, v) == [p \in Keys |-> IF p = k THEN v ELSE tree[p]]

(* objx.Map.Set: a leaf above k becomes a map, and what was below k goes.  *)
Put(tree, k, v) ==
    [p \in Keys |-> IF p = k THEN v
                    ELSE IF Overlap(p, k) THEN None ELSE tree[p]]

(* Get: the leaf, or the map below the key; the empty map stands for nil.  *)
Read(tree, k) ==
    IF tree[k] # None THEN tree[k]
    ELSE {<<p, tree[p]>> : p \in {q \in Keys : /\ IsPrefix(k, q)
                                               /\ tree[q] # None}}

Empty == [k \in Keys |-> None]

(* Mutant of Load: the values are read, but s.state stays empty.           *)
LoadNothing(bucket) == Empty

(* getAll puts every stored key into the top level of the tree under its   *)
(* whole name, where a selector with a dot does not find it.               *)
Load(bucket) == [k \in Keys |-> IF Len(k) = 1 THEN bucket[k] ELSE None]

Busy(k) == {w \in Writers : set[w] # None /\ Overlap(set[w].key, k)}

StoreInit ==
    /\ mem = Empty
    /\ db = Empty
    /\ set = [w \in Writers |-> None]
    /\ up = FALSE
    /\ agreed = {}

(* NewService: the transaction on the bucket, then getAll.                 *)
Start(clean) ==
    /\ ~up
    /\ up' = TRUE
    /\ db' = IF clean THEN Empty ELSE db
    /\ mem' = Load(db')
    /\ set' = [w \in Writers |-> None]
    /\ agreed' = {k \in Keys : Len(k) = 1 \/ db'[k] = None}

(* The first half of Set, under the lock.                                  *)
SetMemory(w, k, v) ==
    /\ up
    /\ set[w] = None
    /\ mem' = Put(mem, k, v)
    /\ set' = [x \in Writers |->
                 IF x = w THEN [key |-> k, val |-> v, alone |-> Busy(k) = {}]
                 ELSE IF x \in Busy(k) THEN [set[x] EXCEPT !.alone = FALSE]
                 ELSE set[x]]
    /\ agreed' = {p \in agreed : ~Overlap(p, k)}
    /\ UNCHANGED <<db, up>>

(* The second half: Marshal, the transaction commits, Set returns nil.     *)
Persist(w) ==
    /\ up
    /\ set[w] # None
    /\ db' = [db EXCEPT ![set[w].key] = Stored(set[w].val)]
    /\ set' = [set EXCEPT ![w] = None]
    /\ agreed' = IF set[w].alone THEN agreed \cup {set[w].key} ELSE agreed
    /\ UNCHANGED <<mem, up>>

(* Or Marshal or the transaction fails, and Set returns the error.         *)
PersistFails(w) ==
    /\ up
    /\ set[w] # None
    /\ set' = [set EXCEPT ![w] = None]
    /\ UNCHANGED <<mem, db, up, agreed>>

(* The process exits or crashes, between any two steps.                    *)
Stop == up /\ up' = FALSE /\ UNCHANGED <<mem, db, set, agreed>>

SetStep(w) == Persist(w) \/ PersistFails(w)

StoreNext ==
    \/ \E clean \in CleanChoices : Start(clean)
    \/ \E w \in Writers :
         \/ \E k \in Keys, v \in Values : SetMemory(w, k, v)
         \/ SetStep(w)
    \/ Stop

StoreSpec == StoreInit /\ [][StoreNext]_storeVars

-----------------------------------------------------------------------------
(* Types; and the tree is a tree: no leaf lies below another leaf.         *)
StoreTypeOK ==
    /\ mem \in [Keys -> Values \cup {None}]
    /\ db \in [Keys -> Values \cup {None}]
    /\ set \in [Writers ->
                 [key : Keys, val : Values, alone : BOOLEAN] \cup {None}]
    /\ up \in BOOLEAN
    /\ agreed \subseteq Keys
    /\ \A p, k \in Keys : mem[p] # None /\ mem[k] # None /\ Overlap(p, k)
                            => p = k

(* Set has no lock around its two halves.  Still, the database holds what  *)
(* JSON makes of the value in memory, and so the value itself if JSON      *)
(* keeps it, on a key after a Set that returned nil and met no other Set   *)
(* of an overlapping key, until the next one, whatever else fails or runs; *)
(* and on a key without dots after every start (state.go:88-104, 108-133). *)
OnDisk(v) == IF v = None THEN None ELSE Stored(v)
AgreedIsStored == \A k \in agreed : db[k] = OnDisk(mem[k])

=============================================================================
