------------------------- MODULE ReadingsStoreProofs -------------------------
(***************************************************************************)
(* What holds of the state store for every set of keys, values and         *)
(* goroutines, however the database fails and whenever the process stops.  *)
(* What the Lua machine hands to the state store is always a value of a    *)
(* parameter, so relay and read calls together take steps of the store     *)
(* only, and what is proved of the store holds of them.  An execution that *)
(* met no other one was alone with the global from its first step on.      *)
(***************************************************************************)
EXTENDS ReadingsStore, TLAPS

-----------------------------------------------------------------------------
(* The store                                                               *)


Sets == [key : Keys, val : Values, alone : BOOLEAN]

LEMMA OverlapFacts ==
  /\ \A k \in Keys : Overlap(k, k)
  /\ \A p, k : Overlap(p, k) <=> Overlap(k, p)
<1>1. ASSUME NEW k \in Keys
      PROVE  Overlap(k, k)
  BY <1>1, KeyAssumption DEF Overlap, IsPrefix
<1>2. \A p, k : Overlap(p, k) <=> Overlap(k, p)
  BY DEF Overlap
<1> QED BY <1>1, <1>2

(* A name alone has no other name alone in its subtree.                    *)
LEMMA NamesDoNotOverlap ==
  ASSUME NEW p \in Keys, NEW k \in Keys,
         Len(p) = 1, Len(k) = 1, Overlap(p, k)
  PROVE  p = k
<1>1. p \in Seq(Names) /\ k \in Seq(Names)
  BY KeyAssumption
<1>2. SubSeq(p, 1, 1) = p /\ SubSeq(k, 1, 1) = k
  BY <1>1
<1> QED BY <1>2 DEF Overlap, IsPrefix

LEMMA PutShape ==
  ASSUME NEW tree \in [Keys -> Values \cup {None}],
         \A p, k \in Keys : tree[p] # None /\ tree[k] # None /\ Overlap(p, k)
                              => p = k,
         NEW q \in Keys, NEW v \in Values
  PROVE  /\ Put(tree, q, v) \in [Keys -> Values \cup {None}]
         /\ Put(tree, q, v)[q] = v
         /\ \A p \in Keys : ~Overlap(p, q) => Put(tree, q, v)[p] = tree[p]
         /\ \A p, k \in Keys :
              Put(tree, q, v)[p] # None /\ Put(tree, q, v)[k] # None
                /\ Overlap(p, k) => p = k
<1>1. \A p \in Keys : Put(tree, q, v)[p] = IF p = q THEN v
                        ELSE IF Overlap(p, q) THEN None ELSE tree[p]
  BY DEF Put
<1>2. Overlap(q, q)
  BY OverlapFacts
<1>3. ASSUME NEW p \in Keys, NEW k \in Keys, Put(tree, q, v)[p] # None,
             Put(tree, q, v)[k] # None, Overlap(p, k)
      PROVE  p = k
  <2>1. CASE p = q /\ k # q
    BY <1>1, <1>3, <2>1, OverlapFacts
  <2>2. CASE p # q /\ k = q
    BY <1>1, <1>3, <2>2
  <2>3. CASE p # q /\ k # q
    BY <1>1, <1>3, <2>3
  <2> QED BY <2>1, <2>2, <2>3
<1>4. Put(tree, q, v) \in [Keys -> Values \cup {None}]
  BY DEF Put
<1>5. Put(tree, q, v)[q] = v
  BY <1>1
<1>6. \A p \in Keys : ~Overlap(p, q) => Put(tree, q, v)[p] = tree[p]
  BY <1>1, <1>2
<1> HIDE DEF Put
<1> QED BY <1>3, <1>4, <1>5, <1>6

LEMMA LoadShape ==
  ASSUME NEW bucket \in [Keys -> Values \cup {None}]
  PROVE  /\ Load(bucket) \in [Keys -> Values \cup {None}]
         /\ \A k \in Keys : Len(k) = 1 \/ bucket[k] = None
                              => Load(bucket)[k] = bucket[k]
         /\ \A p, k \in Keys :
              Load(bucket)[p] # None /\ Load(bucket)[k] # None
                /\ Overlap(p, k) => p = k
<1>1. \A k \in Keys : Load(bucket)[k] = IF Len(k) = 1 THEN bucket[k] ELSE None
  BY DEF Load
<1>2. Load(bucket) \in [Keys -> Values \cup {None}]
  BY DEF Load
<1>3. \A k \in Keys : Len(k) = 1 \/ bucket[k] = None
                        => Load(bucket)[k] = bucket[k]
  BY <1>1
<1>4. ASSUME NEW p \in Keys, NEW k \in Keys, Load(bucket)[p] # None,
             Load(bucket)[k] # None, Overlap(p, k)
      PROVE  p = k
  <2>1. Len(p) = 1 /\ Len(k) = 1
    BY <1>1, <1>4
  <2> QED BY <1>4, <2>1, NamesDoNotOverlap
<1> QED BY <1>2, <1>3, <1>4

-----------------------------------------------------------------------------
(* A key with a Set under way is not agreed; a Set that is still alone is  *)
(* the only one on its keys, and its value is the one in memory.           *)
BusyIsNotAgreed ==
    \A w \in Writers : set[w] # None =>
        \A k \in agreed : ~Overlap(k, set[w].key)

(* What the bucket holds was read back from JSON, and is so once more.     *)
BucketIsStored == \A k \in Keys : OnDisk(db[k]) = db[k]

AloneIsAlone ==
    \A w \in Writers : set[w] # None /\ set[w].alone =>
        /\ mem[set[w].key] = set[w].val
        /\ \A x \in Writers \ {w} :
              set[x] # None => ~Overlap(set[x].key, set[w].key)

StoreInv ==
    StoreTypeOK /\ BusyIsNotAgreed /\ AloneIsAlone /\ BucketIsStored /\ AgreedIsStored

LEMMA StoreInitInv == StoreInit => StoreInv
BY DEF StoreInit, StoreInv, StoreTypeOK, BusyIsNotAgreed, AloneIsAlone,
   BucketIsStored, AgreedIsStored, OnDisk, Empty

LEMMA StartKeeps ==
  ASSUME StoreInv, NEW clean \in BOOLEAN, Start(clean)
  PROVE  StoreInv'
<1>1. db' \in [Keys -> Values \cup {None}]
  BY DEF Start, StoreInv, StoreTypeOK, Empty
<1>2. mem' = Load(db')
  BY DEF Start
<1>3. StoreTypeOK'
  BY <1>1, <1>2, LoadShape DEF Start, StoreTypeOK
<1>4. BusyIsNotAgreed' /\ AloneIsAlone'
  BY DEF Start, BusyIsNotAgreed, AloneIsAlone
<1>5. BucketIsStored'
  BY DEF Start, StoreInv, BucketIsStored, OnDisk, Empty
<1>6. AgreedIsStored'
  <2> SUFFICES ASSUME NEW k \in agreed'
               PROVE  db'[k] = OnDisk(mem'[k])
    BY DEF AgreedIsStored
  <2>1. k \in Keys /\ (Len(k) = 1 \/ db'[k] = None)
    BY DEF Start
  <2>2. mem'[k] = db'[k]
    BY <1>1, <1>2, <2>1, LoadShape
  <2> QED BY <1>5, <2>1, <2>2 DEF BucketIsStored
<1> QED BY <1>3, <1>4, <1>5, <1>6 DEF StoreInv

LEMMA SetMemoryKeeps ==
  ASSUME StoreInv, NEW w \in Writers, NEW k \in Keys, NEW v \in Values,
         SetMemory(w, k, v)
  PROVE  StoreInv'
<1> DEFINE new == [key |-> k, val |-> v, alone |-> Busy(k) = {}]
<1>1. /\ set[w] = None
      /\ mem' = Put(mem, k, v)
      /\ UNCHANGED <<db, up>>
      /\ agreed' = {p \in agreed : ~Overlap(p, k)}
  BY DEF SetMemory
<1>2. new \in Sets
  BY DEF Sets
<1>3. set'[w] = new
  BY DEF SetMemory
<1>4. ASSUME NEW x \in Writers, x # w
      PROVE  set'[x] = IF x \in Busy(k) THEN [set[x] EXCEPT !.alone = FALSE]
                       ELSE set[x]
  BY <1>4 DEF SetMemory
<1>5. ASSUME NEW x \in Writers
      PROVE  set[x] \in Sets \cup {None}
  BY DEF StoreInv, StoreTypeOK, Sets
<1>6. /\ mem' \in [Keys -> Values \cup {None}]
      /\ mem'[k] = v
      /\ \A p \in Keys : ~Overlap(p, k) => mem'[p] = mem[p]
      /\ \A p, q \in Keys : mem'[p] # None /\ mem'[q] # None /\ Overlap(p, q)
                              => p = q
  BY <1>1, PutShape DEF StoreInv, StoreTypeOK
<1>7. ASSUME NEW x \in Writers, x # w
      PROVE  /\ set'[x] \in Sets \cup {None}
             /\ set'[x] # None => /\ set[x] # None
                                  /\ set'[x].key = set[x].key
                                  /\ set'[x].val = set[x].val
                                  /\ set'[x].alone =>
                                       set[x].alone /\ x \notin Busy(k)
  BY <1>4, <1>5, <1>7, NoneAssumption DEF Sets, Busy
<1>8. new # None
  BY <1>2, NoneAssumption DEF Sets
<1> HIDE DEF new
<1>9. StoreTypeOK'
  <2>1. set' \in [Writers -> Sets \cup {None}]
    <3>1. \A x \in Writers : set'[x] \in Sets \cup {None}
      BY <1>2, <1>3, <1>7
    <3>2. DOMAIN set' = Writers /\ set' = [x \in Writers |-> set'[x]]
      BY DEF SetMemory
    <3> QED BY <3>1, <3>2
  <2>2. up' \in BOOLEAN /\ agreed' \subseteq Keys
        /\ db' \in [Keys -> Values \cup {None}]
    BY <1>1 DEF StoreInv, StoreTypeOK
  <2> QED BY <1>6, <2>1, <2>2 DEF StoreTypeOK, Sets
<1>10. new.key = k /\ new.val = v /\ new.alone = (Busy(k) = {})
  BY DEF new
<1>11. BusyIsNotAgreed'
  <2> SUFFICES ASSUME NEW x \in Writers, set'[x] # None, NEW p \in agreed'
               PROVE  ~Overlap(p, set'[x].key)
    BY DEF BusyIsNotAgreed
  <2>1. CASE x = w
    BY <1>1, <1>3, <1>10, <2>1
  <2>2. CASE x # w
    BY <1>1, <1>7, <2>2 DEF StoreInv, BusyIsNotAgreed
  <2> QED BY <2>1, <2>2
<1>12. AloneIsAlone'
  <2> SUFFICES ASSUME NEW x \in Writers, set'[x] # None, set'[x].alone
               PROVE  /\ mem'[set'[x].key] = set'[x].val
                      /\ \A y \in Writers \ {x} : set'[y] # None =>
                            ~Overlap(set'[y].key, set'[x].key)
    BY DEF AloneIsAlone
  <2>1. CASE x = w
    <3>1. Busy(k) = {}
      BY <1>3, <1>10, <2>1
    <3>2. \A y \in Writers \ {w} : set'[y] # None =>
             /\ set[y] # None
             /\ set'[y].key = set[y].key
             /\ ~Overlap(set[y].key, k)
      BY <1>7, <3>1 DEF Busy
    <3> QED BY <1>3, <1>6, <1>10, <2>1, <3>2
  <2>2. CASE x # w
    <3>1. /\ set[x] # None /\ set[x].alone
          /\ set'[x].key = set[x].key /\ set'[x].val = set[x].val
          /\ ~Overlap(set[x].key, k)
      BY <1>7, <2>2 DEF Busy
    <3>2. set[x].key \in Keys
      BY <1>5, <3>1 DEF Sets
    <3>3. mem'[set'[x].key] = set'[x].val
      BY <1>6, <3>1, <3>2 DEF StoreInv, AloneIsAlone
    <3>4. ~Overlap(set'[w].key, set'[x].key)
      BY <1>3, <1>10, <3>1, OverlapFacts
    <3>5. ASSUME NEW y \in Writers \ {x}, y # w, set'[y] # None
          PROVE  ~Overlap(set'[y].key, set'[x].key)
      BY <1>7, <3>1, <3>5 DEF StoreInv, AloneIsAlone
    <3> QED BY <3>3, <3>4, <3>5
  <2> QED BY <2>1, <2>2
<1>13. AgreedIsStored'
  <2>1. agreed \subseteq Keys
    BY DEF StoreInv, StoreTypeOK
  <2> QED BY <1>1, <1>6, <2>1 DEF StoreInv, AgreedIsStored
<1>14. BucketIsStored'
  BY <1>1 DEF StoreInv, BucketIsStored
<1> QED BY <1>9, <1>11, <1>12, <1>13, <1>14 DEF StoreInv

LEMMA PersistKeeps ==
  ASSUME StoreInv, NEW w \in Writers, Persist(w)
  PROVE  StoreInv'
<1>1. set[w] \in Sets
  BY DEF Persist, StoreInv, StoreTypeOK, Sets
<1>2. PICK k \in Keys, v \in Values :
        set[w].key = k /\ set[w].val = v
  BY <1>1 DEF Sets
<1>3. /\ set[w] # None
      /\ db' = [db EXCEPT ![k] = Stored(v)]
      /\ set' = [set EXCEPT ![w] = None]
      /\ agreed' = IF set[w].alone THEN agreed \cup {k} ELSE agreed
      /\ UNCHANGED <<mem, up>>
  BY <1>2 DEF Persist
<1>4. StoreTypeOK'
  BY <1>3, StoredAssumption DEF StoreInv, StoreTypeOK
<1>5. ASSUME NEW x \in Writers, set'[x] # None
      PROVE  x # w /\ set'[x] = set[x]
  BY <1>3, <1>5 DEF StoreInv, StoreTypeOK
<1>6. BusyIsNotAgreed'
  <2> SUFFICES ASSUME NEW x \in Writers, set'[x] # None, NEW p \in agreed'
               PROVE  ~Overlap(p, set'[x].key)
    BY DEF BusyIsNotAgreed
  <2>1. CASE p \in agreed
    BY <1>5, <2>1 DEF StoreInv, BusyIsNotAgreed
  <2>2. CASE p \notin agreed
    <3>1. set[w].alone /\ p = k
      BY <1>3, <2>2
    <3>2. ~Overlap(set[x].key, k)
      BY <1>2, <1>3, <1>5, <3>1 DEF StoreInv, AloneIsAlone
    <3> QED BY <1>5, <3>1, <3>2, OverlapFacts
  <2> QED BY <2>1, <2>2
<1>7. AloneIsAlone'
  <2> SUFFICES ASSUME NEW x \in Writers, set'[x] # None, set'[x].alone
               PROVE  /\ mem'[set'[x].key] = set'[x].val
                      /\ \A y \in Writers \ {x} : set'[y] # None =>
                            ~Overlap(set'[y].key, set'[x].key)
    BY DEF AloneIsAlone
  <2> QED BY <1>3, <1>5 DEF StoreInv, AloneIsAlone
<1>8. AgreedIsStored'
  <2> SUFFICES ASSUME NEW p \in agreed'
               PROVE  db'[p] = OnDisk(mem'[p])
    BY DEF AgreedIsStored
  <2>1. CASE p \in agreed
    <3>1. p # k
      BY <1>2, <1>3, <2>1, OverlapFacts DEF StoreInv, BusyIsNotAgreed
    <3>2. p \in Keys
      BY <2>1 DEF StoreInv, StoreTypeOK
    <3> QED BY <1>3, <2>1, <3>1, <3>2
            DEF StoreInv, StoreTypeOK, AgreedIsStored
  <2>2. CASE p \notin agreed
    <3>1. set[w].alone /\ p = k
      BY <1>3, <2>2
    <3>2. mem[k] = v
      BY <1>2, <1>3, <3>1 DEF StoreInv, AloneIsAlone
    <3>3. db'[k] = Stored(v)
      BY <1>3 DEF StoreInv, StoreTypeOK
    <3> QED BY <1>3, <3>1, <3>2, <3>3, NoneAssumption DEF OnDisk
  <2> QED BY <2>1, <2>2
<1>9. BucketIsStored'
  <2> SUFFICES ASSUME NEW p \in Keys
               PROVE  OnDisk(db'[p]) = db'[p]
    BY DEF BucketIsStored
  <2>1. CASE p = k
    <3>1. db'[p] = Stored(v)
      BY <1>3, <2>1 DEF StoreInv, StoreTypeOK
    <3> QED BY <3>1, StoredAssumption, NoneAssumption DEF OnDisk
  <2>2. CASE p # k
    <3>1. db'[p] = db[p]
      BY <1>3, <2>2 DEF StoreInv, StoreTypeOK
    <3> QED BY <3>1 DEF StoreInv, BucketIsStored
  <2> QED BY <2>1, <2>2
<1> QED BY <1>4, <1>6, <1>7, <1>8, <1>9 DEF StoreInv

LEMMA PersistFailsKeeps ==
  ASSUME StoreInv, NEW w \in Writers, PersistFails(w)
  PROVE  StoreInv'
<1>1. /\ set' = [set EXCEPT ![w] = None]
      /\ UNCHANGED <<mem, db, up, agreed>>
  BY DEF PersistFails
<1>2. StoreTypeOK'
  BY <1>1 DEF StoreInv, StoreTypeOK
<1>3. ASSUME NEW x \in Writers, set'[x] # None
      PROVE  set'[x] = set[x]
  BY <1>1, <1>3 DEF StoreInv, StoreTypeOK
<1>4. BusyIsNotAgreed'
  BY <1>1, <1>3 DEF StoreInv, BusyIsNotAgreed
<1>5. AloneIsAlone'
  BY <1>1, <1>3 DEF StoreInv, AloneIsAlone
<1>6. BucketIsStored' /\ AgreedIsStored'
  BY <1>1 DEF StoreInv, BucketIsStored, AgreedIsStored
<1> QED BY <1>2, <1>4, <1>5, <1>6 DEF StoreInv

LEMMA StoreNextInv == StoreInv /\ [StoreNext]_storeVars => StoreInv'
<1> SUFFICES ASSUME StoreInv, [StoreNext]_storeVars
             PROVE  StoreInv'
  OBVIOUS
<1>1. ASSUME NEW clean \in CleanChoices, Start(clean)
      PROVE  StoreInv'
  BY <1>1, StartKeeps, CleanAssumption
<1>2. ASSUME NEW w \in Writers, NEW k \in Keys, NEW v \in Values,
             SetMemory(w, k, v)
      PROVE  StoreInv'
  BY <1>2, SetMemoryKeeps
<1>3. ASSUME NEW w \in Writers, SetStep(w)
      PROVE  StoreInv'
  BY <1>3, PersistKeeps, PersistFailsKeeps DEF SetStep
<1>4. CASE Stop
  BY <1>4 DEF Stop, StoreInv, StoreTypeOK, BusyIsNotAgreed, AloneIsAlone,
     BucketIsStored, AgreedIsStored
<1>5. CASE UNCHANGED storeVars
  BY <1>5 DEF storeVars, StoreInv, StoreTypeOK, BusyIsNotAgreed, AloneIsAlone,
     BucketIsStored, AgreedIsStored
<1> QED BY <1>1, <1>2, <1>3, <1>4, <1>5 DEF StoreNext

-----------------------------------------------------------------------------
(* The variables keep their types, and the tree stays a tree.              *)
THEOREM StoreTypeCorrect == StoreSpec => []StoreTypeOK
<1>1. StoreInv => StoreTypeOK
  BY DEF StoreInv
<1> QED BY <1>1, StoreInitInv, StoreNextInv, PTL DEF StoreSpec

(* A Set that met no other Set of an overlapping key leaves in the         *)
(* database what JSON makes of the value in memory, until the next one,    *)
(* through failures and crashes.                                           *)
THEOREM SetsAgree == StoreSpec => []AgreedIsStored
<1>1. StoreInv => AgreedIsStored
  BY DEF StoreInv
<1> QED BY <1>1, StoreInitInv, StoreNextInv, PTL DEF StoreSpec

-----------------------------------------------------------------------------
(* Readings and expressions                                                *)


LuaTypeOK ==
    /\ param \in Readings \cup {NoValue}
    /\ lua \in [Workers -> {"idle", "set", "run", "done"}]
    /\ arg \in [Workers -> Readings \cup {NoValue}]
    /\ res \in [Workers -> Values \cup {NoValue}]
    /\ mixed \subseteq Workers
    /\ killed \in BOOLEAN

LuaHasValues ==
    /\ \A w \in Workers :
          /\ lua[w] # "idle" => arg[w] \in Readings
          /\ lua[w] = "run" => param \in Readings
          /\ lua[w] = "done" => res[w] \in Values

LuaInv == LuaTypeOK /\ LuaHasValues

LEMMA LuaInitInv == LuaInit => LuaInv
BY DEF LuaInit, LuaInv, LuaTypeOK, LuaHasValues

LEMMA ExecuteTypes ==
    ASSUME LuaInv, NEW w \in Workers, NEW v \in Readings, Execute(w, v)
    PROVE  LuaInv'
<1> USE ReadingKeys DEF LuaInv, LuaTypeOK, LuaHasValues
<1>1. mixed' \subseteq Workers
  BY DEF Execute, Executing
<1>2. CASE v \in Coded \ Opaque
  BY <1>1, <1>2 DEF Execute
<1>3. CASE v \notin Coded \ Opaque
  BY <1>1, <1>3 DEF Execute
<1> QED BY <1>2, <1>3

LEMMA ConvertTypes ==
    ASSUME LuaInv, NEW w \in Workers, SetGlobal(w) \/ PCall(w) \/ Taken(w)
    PROVE  LuaInv'
<1> USE ReadingKeys DEF LuaInv, LuaTypeOK, LuaHasValues
<1>1. CASE SetGlobal(w)
  BY <1>1 DEF SetGlobal
<1>2. CASE PCall(w)
  <2>1. PICK v \in {Code(param), arg[w]} : res' = [res EXCEPT ![w] = v]
    BY <1>2 DEF PCall
  <2>2. v \in Values
    BY <1>2, <2>1 DEF PCall
  <2> QED BY <1>2, <2>1, <2>2 DEF PCall
<1>3. CASE Taken(w)
  BY <1>3 DEF Taken
<1> QED BY <1>1, <1>2, <1>3

(* The worker's part of a step either leaves the store alone, or hands it  *)
(* a value, or finishes what was handed over.                              *)
LEMMA ReadingsStep ==
    ASSUME LuaInv, [ReadingsNext]_readingVars
    PROVE  LuaInv' /\ [StoreNext]_storeVars
<1> USE ReadingKeys DEF LuaInv
<1>1. CASE UNCHANGED readingVars
  BY <1>1 DEF readingVars, luaVars, storeVars, LuaTypeOK, LuaHasValues
<1>2. CASE Restart
  BY <1>2 DEF Restart, StoreNext, luaVars, LuaTypeOK, LuaHasValues
<1>3. CASE Halt
  BY <1>3 DEF Halt, StoreNext, LuaTypeOK, LuaHasValues
<1>4. ASSUME NEW w \in Writers, NEW v \in Readings, Take(w, v)
      PROVE  LuaInv' /\ [StoreNext]_storeVars
  BY <1>4, ExecuteTypes DEF Take
<1>5. ASSUME NEW w \in Writers, Convert(w)
      PROVE  LuaInv' /\ [StoreNext]_storeVars
  BY <1>5, ConvertTypes DEF Convert
<1>6. ASSUME NEW w \in Writers, Keep(w)
      PROVE  LuaInv' /\ [StoreNext]_storeVars
  <2>1. LuaInv'
    BY <1>6, ConvertTypes DEF Keep
  <2>2. KeyOf(arg[w]) \in Keys /\ res[w] \in Values
    BY <1>6 DEF Keep, Taken, LuaHasValues
  <2>3. SetMemory(w, KeyOf(arg[w]), res[w])
    BY <1>6 DEF Keep
  <2>4. \E k \in Keys, v \in Values : SetMemory(w, k, v)
    BY <2>2, <2>3
  <2> QED BY <2>1, <2>4 DEF StoreNext
<1>7. ASSUME NEW w \in Writers, Finish(w)
      PROVE  LuaInv' /\ [StoreNext]_storeVars
  BY <1>7 DEF Finish, StoreNext, luaVars, LuaTypeOK, LuaHasValues
<1> QED BY <1>1, <1>2, <1>3, <1>4, <1>5, <1>6, <1>7 DEF ReadingsNext

(* Relay and read calls, with their expressions, use the store only as     *)
(* StateStore says, so what is proved of the store holds of them.          *)
LEMMA ReadingsUseStore == ReadingsSpec => StoreSpec
<1>1. ReadingsInit => StoreInit /\ LuaInv
  BY LuaInitInv DEF ReadingsInit
<1> QED BY <1>1, ReadingsStep, PTL DEF ReadingsSpec, StoreSpec

(* However many goroutines keep readings at the same time, a Set that met  *)
(* no other one has stored in the database what JSON makes of its value    *)
(* in memory, and the tree stays a tree.                                   *)
THEOREM ReadingsAgree == ReadingsSpec => [](StoreTypeOK /\ AgreedIsStored)
BY ReadingsUseStore, StoreTypeCorrect, SetsAgree, PTL

-----------------------------------------------------------------------------
(* The global `param'                                                      *)

AloneUnlessMixed ==
    \A w \in Executing \ mixed : /\ Executing = {w}
                                 /\ lua[w] = "run" => param = arg[w]

MixInv == LuaInv /\ AloneUnlessMixed /\ OwnUnlessMixed

LEMMA ExecuteMixes ==
    ASSUME MixInv, ~killed, NEW w \in Workers, NEW v \in Readings, Execute(w, v)
    PROVE  AloneUnlessMixed' /\ OwnUnlessMixed'
<1> USE DEF MixInv, LuaInv, LuaTypeOK, AloneUnlessMixed, OwnUnlessMixed, Executing
<1>1. CASE v \notin Coded \ Opaque
  BY <1>1 DEF Execute
<1>2. CASE v \in Coded \ Opaque /\ Executing = {}
  BY <1>2 DEF Execute
<1>3. CASE v \in Coded \ Opaque /\ Executing # {}
  <2>1. Executing' = Executing \cup {w} /\ Executing' \subseteq mixed'
    BY <1>3 DEF Execute
  <2> QED BY <1>3, <2>1 DEF Execute
<1> QED BY <1>1, <1>2, <1>3

LEMMA ConvertMixes ==
    ASSUME MixInv, ~killed, NEW w \in Workers, SetGlobal(w) \/ PCall(w) \/ Taken(w)
    PROVE  AloneUnlessMixed' /\ OwnUnlessMixed'
<1> USE DEF MixInv, LuaInv, LuaTypeOK, AloneUnlessMixed, OwnUnlessMixed, Executing
<1>1. CASE SetGlobal(w)
  <2>1. /\ w \in Executing /\ Executing' = Executing
        /\ \A x \in Workers \ {w} : lua'[x] = lua[x]
        /\ lua'[w] = "run" /\ param' = arg'[w]
        /\ UNCHANGED <<arg, res, mixed>>
    BY <1>1 DEF SetGlobal
  <2>2. killed' => Executing # {w}
    BY <1>1 DEF SetGlobal
  <2>3. killed' => mixed' # {}
    BY <2>1, <2>2
  <2> QED BY <2>1, <2>3
<1>2. CASE PCall(w)
  <2>1. PICK v \in {Code(param), arg[w]} : res' = [res EXCEPT ![w] = v]
    BY <1>2 DEF PCall
  <2>2. w \notin mixed => v \in {Code(arg[w]), arg[w]}
    BY <1>2, <2>1 DEF PCall
  <2>3. Executing' = Executing \ {w}
    BY <1>2 DEF PCall
  <2> QED BY <1>2, <2>1, <2>2, <2>3 DEF PCall
<1>3. CASE Taken(w)
  BY <1>3 DEF Taken
<1> QED BY <1>1, <1>2, <1>3

(* An expression is applied to the reading it was called for unless two    *)
(* executions met, and only then can the runtime end the process.          *)
THEOREM OwnReadings == ReadingsSpec => []OwnUnlessMixed
<1>1. ReadingsInit => MixInv
  BY LuaInitInv DEF ReadingsInit, LuaInit, MixInv, AloneUnlessMixed, OwnUnlessMixed,
     Executing
<1>2. MixInv /\ [ReadingsNext]_readingVars => MixInv'
  <2> SUFFICES ASSUME MixInv, [ReadingsNext]_readingVars
               PROVE  AloneUnlessMixed' /\ OwnUnlessMixed'
    BY ReadingsStep DEF MixInv
  <2> USE ReadingKeys
  <2>1. CASE UNCHANGED luaVars
    BY <2>1 DEF luaVars, MixInv, AloneUnlessMixed, OwnUnlessMixed, Executing
  <2>2. CASE Halt
    BY <2>2 DEF Halt, AloneUnlessMixed, OwnUnlessMixed, Executing
  <2>3. ASSUME ~killed, NEW w \in Writers, NEW v \in Readings, Take(w, v)
        PROVE  AloneUnlessMixed' /\ OwnUnlessMixed'
    BY <2>3, ExecuteMixes DEF Take
  <2>4. ASSUME ~killed, NEW w \in Writers, Convert(w) \/ Keep(w)
        PROVE  AloneUnlessMixed' /\ OwnUnlessMixed'
    BY <2>4, ConvertMixes DEF Convert, Keep
  <2>5. ASSUME NEW w \in Writers, Finish(w) \/ Restart
        PROVE  UNCHANGED luaVars
    BY <2>5 DEF Finish, Restart
  <2>6. Restart => UNCHANGED luaVars
    BY DEF Restart
  <2> QED BY <2>1, <2>2, <2>3, <2>4, <2>5, <2>6 DEF ReadingsNext, readingVars
<1> QED BY <1>1, <1>2, PTL DEF ReadingsSpec, MixInv
=============================================================================
