----------------------------- MODULE CloudProofs -----------------------------
(***************************************************************************)
(* What TLAPS proves of CloudModel for trees of any size and shape.        *)
(*                                                                         *)
(* As long as no node that upsets the path is behind it, every call of     *)
(* walk has in its slice the subsystems above the child it is at, in       *)
(* order, although the calls write into each other's arrays: what is       *)
(* written lies beyond the lengths of all the callers.                     *)
(***************************************************************************)
EXTENDS CloudModel, SequenceTheorems, WellFoundedInduction, TLAPS

ModelOK ==
  /\ kind \in [Nodes -> Kinds]
  /\ parent \in [Nodes -> 0 .. MaxNodes]
  /\ \A n \in Nodes : /\ parent[n] < n
                      /\ parent[n] # 0 => kind[parent[n]] \in Walkable
  /\ variant \in Variants

Ids == 0 .. MaxNodes
Paths == [array : Nat, length : Nat]

-----------------------------------------------------------------------------
(* append                                                                  *)

Within(h, path) ==
  /\ path.array \in 0 .. Len(h)
  /\ path.length \in 0 .. IF path.array = 0 THEN 0 ELSE Len(h[path.array])

(* What append makes of the heap and of a path: nothing that any slice of  *)
(* at most the same length can see has changed.                            *)
Extended(path, x, now) ==
  /\ now.heap \in Seq(Seq(Ids)) /\ Len(heap) <= Len(now.heap)
  /\ now.path \in Paths /\ Within(now.heap, now.path)
  /\ now.path.length = path.length + 1
  /\ now.path.array \in 1 .. Len(now.heap)
  /\ now.heap[now.path.array][path.length + 1] = x
  /\ \A j \in 1 .. path.length : now.heap[now.path.array][j] = heap[path.array][j]
  /\ \A k \in 1 .. Len(heap) :
        /\ Len(now.heap[k]) = Len(heap[k])
        /\ \A j \in 1 .. path.length : now.heap[k][j] = heap[k][j]

LEMMA AppendedFacts ==
  ASSUME heap \in Seq(Seq(Ids)), NEW path \in Paths, Within(heap, path), NEW x \in Nodes
  PROVE  Extended(path, x, Appended(path, x))
<1> DEFINE now == Appended(path, x)
           a == path.array
           n == path.length
<1>1. /\ a \in 0 .. Len(heap) /\ n \in Nat /\ Len(heap) \in Nat /\ x \in Ids
      /\ a # 0 => a \in 1 .. Len(heap) /\ heap[a] \in Seq(Ids) /\ n <= Len(heap[a])
      /\ a = 0 => n = 0
      /\ path = [array |-> a, length |-> n]
  BY DEF Within, Paths, Ids, Nodes
<1>2. CASE HasRoom(path)
  <2>1. a \in 1 .. Len(heap) /\ n + 1 \in 1 .. Len(heap[a])
    BY <1>1, <1>2 DEF HasRoom
  <2>2. now.heap = [heap EXCEPT ![a][n + 1] = x] /\ now.path = [path EXCEPT !.length = @ + 1]
    BY <1>2 DEF Appended
  <2>3. now.path.array = a /\ now.path.length = n + 1 /\ now.path \in Paths
    BY <1>1, <2>2 DEF Paths
  <2>4. /\ now.heap \in Seq(Seq(Ids)) /\ Len(now.heap) = Len(heap)
        /\ now.heap[a] = [heap[a] EXCEPT ![n + 1] = x]
        /\ \A k \in 1 .. Len(heap) : k # a => now.heap[k] = heap[k]
    <3>1. [heap[a] EXCEPT ![n + 1] = x] \in Seq(Ids)
      BY <1>1, <2>1
    <3>2. now.heap = [heap EXCEPT ![a] = [heap[a] EXCEPT ![n + 1] = x]]
      BY <2>2
    <3> QED BY <2>1, <3>1, <3>2
  <2>5. /\ Len(now.heap[a]) = Len(heap[a]) /\ now.heap[a][n + 1] = x
        /\ \A j \in 1 .. n : now.heap[a][j] = heap[a][j]
    BY <1>1, <2>1, <2>4
  <2> HIDE DEF now
  <2>6. /\ now.path.length \in 0 .. Len(now.heap[now.path.array]) /\ a # 0
        /\ now.path.array \in 1 .. Len(now.heap) /\ now.path.array \in 0 .. Len(now.heap)
    BY <1>1, <2>1, <2>3, <2>4, <2>5
  <2>7. Within(now.heap, now.path)
    BY <2>3, <2>6 DEF Within
  <2>8. \A k \in 1 .. Len(heap) : /\ Len(now.heap[k]) = Len(heap[k])
                                 /\ \A j \in 1 .. n : now.heap[k][j] = heap[k][j]
    BY <2>4, <2>5
  <2>9. Len(heap) <= Len(now.heap)
    BY <1>1, <2>4
  <2> QED BY <2>3, <2>4, <2>5, <2>6, <2>7, <2>8, <2>9, Zenon DEF Extended, now
<1>3. CASE ~HasRoom(path)
  <2> DEFINE new == Grown(path, x)
             size == IF n = 0 THEN 1 ELSE 2 * n
  <2>1. now.heap = Append(heap, new) /\ now.path = [array |-> Len(heap) + 1, length |-> n + 1]
    BY <1>3 DEF Appended
  <2>2. size \in Nat /\ n + 1 \in 1 .. size
    BY <1>1
  <2>3. new = [i \in 1 .. size |-> IF i <= n THEN heap[a][i] ELSE IF i = n + 1 THEN x ELSE 0]
    BY DEF Grown
  <2>4. /\ new \in Seq(Ids) /\ Len(new) = size /\ new[n + 1] = x
        /\ \A j \in 1 .. n : new[j] = heap[a][j]
    <3>1. \A i \in 1 .. size : i <= n => heap[a][i] \in Ids
      BY <1>1
    <3>2. 0 \in Ids
      BY CloudBounds DEF Ids
    <3>3. \A i \in 1 .. size : new[i] \in Ids
      BY <1>1, <2>3, <3>1, <3>2
    <3> HIDE DEF new, size
    <3>4. new \in Seq(Ids) /\ Len(new) = size
      BY <2>2, <2>3, <3>3
    <3>5. n + 1 \in 1 .. size /\ ~(n + 1 <= n)
      BY <1>1, <2>2
    <3>6. \A j \in 1 .. n : j \in 1 .. size /\ j <= n
      BY <1>1, <2>2
    <3> QED BY <2>3, <3>4, <3>5, <3>6
  <2> HIDE DEF new, size
  <2>5. /\ now.heap \in Seq(Seq(Ids)) /\ Len(now.heap) = Len(heap) + 1
        /\ now.heap[Len(heap) + 1] = new
        /\ \A k \in 1 .. Len(heap) : now.heap[k] = heap[k]
    BY <2>1, <2>4
  <2>6. /\ now.path.array = Len(heap) + 1 /\ now.path.length = n + 1 /\ now.path \in Paths
    BY <1>1, <2>1 DEF Paths
  <2> HIDE DEF now
  <2>7. /\ now.path.length \in 0 .. Len(now.heap[now.path.array]) /\ now.path.array # 0
        /\ now.path.array \in 1 .. Len(now.heap) /\ now.path.array \in 0 .. Len(now.heap)
    <3>1. Len(heap) \in Nat
      BY <1>1
    <3>2. now.path.array = Len(now.heap) /\ Len(now.heap) \in Nat /\ Len(now.heap) >= 1
      BY <2>5, <2>6, <3>1
    <3>3. now.heap[now.path.array] = new
      BY <2>5, <3>2
    <3>4. n + 1 \in 0 .. Len(new)
      BY <2>2, <2>4
    <3> QED BY <2>6, <3>2, <3>3, <3>4
  <2>8. Within(now.heap, now.path)
    BY <2>6, <2>7 DEF Within
  <2>9. Len(heap) <= Len(now.heap)
    BY <1>1, <2>5
  <2>10. \A k \in 1 .. Len(heap) : /\ Len(now.heap[k]) = Len(heap[k])
                                  /\ \A j \in 1 .. n : now.heap[k][j] = heap[k][j]
    BY <2>5
  <2>11. /\ now.heap[now.path.array][n + 1] = x
         /\ \A j \in 1 .. n : now.heap[now.path.array][j] = heap[a][j]
    BY <2>4, <2>5, <2>6
  <2> QED BY <2>5, <2>6, <2>7, <2>8, <2>9, <2>10, <2>11, Zenon DEF Extended, now
<1> QED BY <1>2, <1>3

-----------------------------------------------------------------------------
(* The stack of calls                                                      *)

Frames == [node : Ids, path : Paths]

(* IsAbove, with the tree as a parameter.                                  *)
AboveIn(tree, p, n) ==
    \A S \in SUBSET (1 .. n - 1) :
        (\A m \in S \cup {n} : tree[m] \in S \cup {0}) => p \in S

(* Calls further down are for nodes that contain the others.               *)
OrderOK ==
  \A i, j \in 1 .. Depth : i < j => /\ stack[i].node < stack[j].node
                                    /\ i > 1 => AboveIn(parent, stack[i].node, stack[j].node)

TypeInv == ModelOK /\ CloudTypeOK /\ OrderOK

(* What entering a child does to heap and path, whatever its kind.         *)
Growth(path, now) ==
  /\ now.heap \in Seq(Seq(Ids)) /\ Len(heap) <= Len(now.heap)
  /\ now.path \in Paths /\ Within(now.heap, now.path)
  /\ path.length <= now.path.length
  /\ \A j \in 1 .. path.length : now.heap[now.path.array][j] = heap[path.array][j]
  /\ \A k \in 1 .. Len(heap) :
        /\ Len(now.heap[k]) = Len(heap[k])
        /\ \A j \in 1 .. path.length : now.heap[k][j] = heap[k][j]

Listed(c) == kind[c] \in {"subsystem", "polled"}

LEMMA StackFacts ==
  ASSUME CloudTypeOK
  PROVE  /\ Depth \in Nat /\ heap \in Seq(Seq(Ids)) /\ Len(heap) \in Nat
         /\ \A i \in 1 .. Depth : /\ stack[i] \in Frames
                                  /\ stack[i].node \in Ids /\ stack[i].path \in Paths
                                  /\ Within(heap, stack[i].path)
         /\ \A i \in 2 .. Depth : /\ stack[i].node \in seen
                                  /\ parent[stack[i].node] = stack[i - 1].node
                                  /\ kind[stack[i].node] \in Walkable
         /\ phase = "walking" => /\ Depth \in 1 .. Depth /\ stack[1].node = 0
                                 /\ Top.path \in Paths /\ Top.node \in Ids
<1>1. stack \in Seq(Frames) /\ heap \in Seq(Seq(Ids))
  BY DEF CloudTypeOK, Frames, Ids, Paths
<1>2. Depth \in Nat /\ Len(heap) \in Nat /\ \A i \in 1 .. Depth : stack[i] \in Frames
  BY <1>1 DEF Depth
<1>3. \A i \in 1 .. Depth : Within(heap, stack[i].path)
  BY DEF CloudTypeOK, PathOK, Within
<1>4. phase = "walking" => Depth \in 1 .. Depth /\ stack[1].node = 0
  BY <1>2 DEF CloudTypeOK
<1>5. \A i \in 2 .. Depth : /\ stack[i].node \in seen
                            /\ parent[stack[i].node] = stack[i - 1].node
                            /\ kind[stack[i].node] \in Walkable
  BY DEF CloudTypeOK
<1> QED BY <1>1, <1>2, <1>3, <1>4, <1>5 DEF Top, Frames

LEMMA EnteredFacts ==
  ASSUME CloudTypeOK, phase = "walking", NEW c \in Nodes
  PROVE  /\ Growth(Top.path, Entered(c))
         /\ Listed(c) => Extended(Top.path, c, Entered(c))
         /\ ~Listed(c) => Entered(c) = [heap |-> heap, path |-> Top.path]
<1>1. Top.path \in Paths /\ Within(heap, Top.path) /\ heap \in Seq(Seq(Ids)) /\ Len(heap) \in Nat
  BY StackFacts DEF Top
<1>2. CASE Listed(c)
  <2>1. Entered(c) = Appended(Top.path, c)
    BY <1>2 DEF Entered, Listed
  <2>2. Extended(Top.path, c, Entered(c))
    BY <1>1, <2>1, AppendedFacts
  <2>3. Top.path.length <= Top.path.length + 1
    BY <1>1 DEF Paths
  <2>4. Growth(Top.path, Entered(c))
    BY <2>2, <2>3 DEF Extended, Growth
  <2> QED BY <1>2, <2>2, <2>4
<1>3. CASE ~Listed(c)
  <2>1. Entered(c) = [heap |-> heap, path |-> Top.path]
    BY <1>3 DEF Entered, Listed
  <2>2. Top.path.length <= Top.path.length /\ Len(heap) <= Len(heap)
    BY <1>1 DEF Paths
  <2>3. Entered(c).heap = heap /\ Entered(c).path = Top.path
    BY <2>1
  <2>4. Growth(Top.path, Entered(c))
    BY <1>1, <2>2, <2>3 DEF Growth
  <2> QED BY <1>3, <2>1, <2>4
<1> QED BY <1>2, <1>3

LEMMA WithinKept ==
  ASSUME NEW path, NEW now, Growth(path, now), NEW other \in Paths, Within(heap, other),
         Len(heap) \in Nat
  PROVE  Within(now.heap, other)
<1>1. Len(now.heap) \in Nat /\ Len(heap) <= Len(now.heap)
  BY DEF Growth
<1>2. other.array \in 0 .. Len(heap) /\ other.array \in 0 .. Len(now.heap)
  BY <1>1 DEF Within
<1>3. CASE other.array = 0
  BY <1>2, <1>3 DEF Within
<1>4. CASE other.array # 0
  <2>1. other.array \in 1 .. Len(heap)
    BY <1>2, <1>4
  <2>2. Len(now.heap[other.array]) = Len(heap[other.array])
    BY <2>1 DEF Growth
  <2> QED BY <1>2, <1>4, <2>2 DEF Within
<1> QED BY <1>3, <1>4

(* What contains the containing node contains the node.                    *)
LEMMA AboveParent ==
  ASSUME ModelOK, NEW c \in Nodes, NEW m \in Nodes, parent[c] = m, NEW p,
         p = m \/ AboveIn(parent, p, m)
  PROVE  AboveIn(parent, p, c)
<1> SUFFICES ASSUME NEW S \in SUBSET (1 .. c - 1), \A q \in S \cup {c} : parent[q] \in S \cup {0}
             PROVE  p \in S
  BY DEF AboveIn
<1>1. m \in S
  BY DEF Nodes
<1>2. CASE AboveIn(parent, p, m)
  <2> DEFINE R == {q \in S : q < m}
  <2>1. \A q \in S \cup {m} : q \in Nodes /\ q <= c /\ q \in Int
    <3>1. \A q \in S : q \in 1 .. c - 1
      OBVIOUS
    <3> QED BY <1>1, <3>1, CloudBounds DEF Nodes
  <2>2. \A q \in R \cup {m} : parent[q] \in S \cup {0} /\ parent[q] < q
    BY <1>1, <2>1 DEF ModelOK
  <2>3. \A q \in R \cup {m} : parent[q] \in R \cup {0}
    <3> SUFFICES ASSUME NEW q \in R \cup {m}, parent[q] # 0
                 PROVE  parent[q] \in R
      OBVIOUS
    <3>1. parent[q] \in S /\ parent[q] < q /\ q \in Nodes /\ q <= m
      BY <2>1, <2>2 DEF Nodes
    <3>2. parent[q] \in Nodes
      BY <2>1, <3>1
    <3> QED BY <3>1, <3>2 DEF Nodes
  <2>4. R \in SUBSET (1 .. m - 1)
    <3>1. \A q \in R : q \in Nodes /\ q < m
      BY <2>1
    <3>2. \A q \in R : q \in 1 .. m - 1
      BY <3>1, CloudBounds DEF Nodes
    <3> QED BY <3>2
  <2>5. p \in R
    <3> HIDE DEF R
    <3> QED BY <1>2, <2>3, <2>4 DEF AboveIn
  <2> QED BY <2>5
<1> QED BY <1>1, <1>2

(* The stack while a child is entered.                                     *)
Entering(c) == [stack EXCEPT ![Depth].path = Entered(c).path]

LEMMA EnteringFacts ==
  ASSUME CloudTypeOK, phase = "walking", NEW c \in Nodes
  PROVE  /\ Entering(c) \in Seq(Frames) /\ Len(Entering(c)) = Depth
         /\ \A i \in 1 .. Depth :
               /\ Entering(c)[i].node = stack[i].node
               /\ Entering(c)[i].path = IF i = Depth THEN Entered(c).path ELSE stack[i].path
               /\ Within(Entered(c).heap, Entering(c)[i].path)
<1> DEFINE now == Entered(c)
           new == [stack[Depth] EXCEPT !.path = now.path]
<1>1. /\ Depth \in 1 .. Depth /\ Len(heap) \in Nat
      /\ \A i \in 1 .. Depth : /\ stack[i] \in Frames /\ stack[i].path \in Paths
                               /\ Within(heap, stack[i].path)
  BY StackFacts
<1>2. Growth(Top.path, now) /\ now.path \in Paths /\ Within(now.heap, now.path)
  BY EnteredFacts DEF Growth
<1> HIDE DEF now
<1>3. new \in Frames /\ new.node = stack[Depth].node /\ new.path = now.path
  BY <1>1, <1>2 DEF Frames
<1>4. Entering(c) = [stack EXCEPT ![Depth] = new]
  BY DEF Entering, now
<1>5. stack \in Seq(Frames)
  BY DEF CloudTypeOK, Frames, Ids, Paths
<1> HIDE DEF new
<1>6. /\ Entering(c) \in Seq(Frames) /\ Len(Entering(c)) = Depth
      /\ Entering(c)[Depth] = new
      /\ \A i \in 1 .. Depth : i # Depth => Entering(c)[i] = stack[i]
  BY <1>1, <1>3, <1>4, <1>5 DEF Depth
<1>7. \A i \in 1 .. Depth : Within(now.heap, stack[i].path)
  BY <1>1, <1>2, WithinKept
<1> QED BY <1>2, <1>3, <1>6, <1>7 DEF now

LEMMA NextFacts ==
  ASSUME TypeInv, NEW c \in Nodes, Next(c)
  PROVE  /\ phase = "walking" /\ Depth \in 1 .. Depth /\ parent[c] = Top.node /\ c \notin seen
         /\ seen' = seen \cup {c} /\ seen' \in SUBSET Nodes /\ Top.node < c
         /\ UNCHANGED <<modelVars, jobVars>>
         /\ \A i \in 1 .. Depth : stack[i].node < c /\ (i > 1 => AboveIn(parent, stack[i].node, c))
<1>1. /\ phase = "walking" /\ parent[c] = Top.node /\ c \notin seen
      /\ seen' = seen \cup {c}
      /\ UNCHANGED <<modelVars, jobVars>>
  BY DEF Next, Ahead
<1>2. Depth \in Nat /\ Depth \in 1 .. Depth /\ \A i \in 1 .. Depth : stack[i].node \in Ids
  BY <1>1, StackFacts DEF TypeInv
<1>3. Top.node < c /\ seen \in SUBSET Nodes
  BY <1>1 DEF TypeInv, ModelOK, CloudTypeOK
<1>4. ASSUME NEW i \in 1 .. Depth
      PROVE  stack[i].node < c /\ (i > 1 => AboveIn(parent, stack[i].node, c))
  <2>1. i # Depth => /\ stack[i].node < Top.node
                     /\ i > 1 => AboveIn(parent, stack[i].node, Top.node)
    BY <1>2 DEF TypeInv, OrderOK, Top
  <2>2. stack[i].node < c
    <3>1. stack[i].node \in Int /\ Top.node \in Int /\ c \in Int
      BY <1>2 DEF Ids, Top, Nodes
    <3> QED BY <1>3, <2>1, <3>1 DEF Top
  <2>3. ASSUME i > 1
        PROVE  AboveIn(parent, stack[i].node, c)
    <3>1. Depth \in 2 .. Depth
      BY <1>2, <2>3
    <3>2. Top.node \in Nodes
      BY <3>1 DEF TypeInv, CloudTypeOK, Top
    <3>3. stack[i].node = Top.node \/ AboveIn(parent, stack[i].node, Top.node)
      BY <2>1, <2>3 DEF Top
    <3>4. ModelOK
      BY DEF TypeInv
    <3> QED BY <1>1, <3>2, <3>3, <3>4, AboveParent
  <2> QED BY <2>2, <2>3
<1> QED BY <1>1, <1>2, <1>3, <1>4

LEMMA ModelKept == ModelOK /\ UNCHANGED modelVars => ModelOK'
BY DEF ModelOK, modelVars

LEMMA TypeFromParts ==
  ASSUME ModelOK', heap' \in Seq(Seq(Ids)), stack' \in Seq(Frames), seen' \in SUBSET Nodes,
         (phase = "walking" => Depth > 0 /\ stack[1].node = 0)',
         \A i \in 1 .. Len(stack') : Within(heap', stack'[i].path),
         \A i \in 2 .. Len(stack') : /\ stack'[i].node \in seen'
                                     /\ parent'[stack'[i].node] = stack'[i - 1].node
                                     /\ kind'[stack'[i].node] \in Walkable,
         OrderOK'
  PROVE  TypeInv'
BY DEF TypeInv, CloudTypeOK, Frames, Ids, Paths, PathOK, Within, Depth

LEMMA TakeType ==
  ASSUME TypeInv, NEW c \in Nodes, Take(c)
  PROVE  TypeInv'
<1> DEFINE now == Entered(c)
<1>1. Next(c) /\ (\/ phase' = "dead" /\ UNCHANGED <<stack, heap, actions>>
                  \/ stack' = Entering(c) /\ heap' = now.heap /\ phase' = phase)
  BY DEF Take, Entering
<1>2. /\ phase = "walking" /\ seen' = seen \cup {c} /\ seen' \in SUBSET Nodes
      /\ UNCHANGED modelVars
  BY <1>1, NextFacts
<1>3. ModelOK'
  BY <1>2, ModelKept DEF TypeInv
<1>4. CASE phase' = "dead" /\ UNCHANGED <<stack, heap, actions>>
  <2>1. OrderOK'
    BY <1>2, <1>4 DEF TypeInv, OrderOK, modelVars, Depth
  <2>2. CloudTypeOK'
    BY <1>2, <1>4 DEF TypeInv, CloudTypeOK, PathOK, Depth, modelVars
  <2> QED BY <1>3, <2>1, <2>2 DEF TypeInv
<1>5. CASE stack' = Entering(c) /\ heap' = now.heap /\ phase' = phase
  <2>1. CloudTypeOK
    BY DEF TypeInv
  <2>2. /\ stack' \in Seq(Frames) /\ Len(stack') = Depth /\ Depth \in Nat /\ Depth \in 1 .. Depth
        /\ \A i \in 1 .. Depth : stack'[i].node = stack[i].node /\ Within(heap', stack'[i].path)
    BY <1>2, <1>5, <2>1, EnteringFacts, StackFacts
  <2>3. heap' \in Seq(Seq(Ids))
    BY <1>2, <1>5, <2>1, EnteredFacts DEF Growth
  <2>4. OrderOK'
    BY <1>2, <2>2 DEF TypeInv, OrderOK, modelVars, Depth
  <2>5. ASSUME NEW i \in 2 .. Len(stack')
        PROVE  /\ stack'[i].node \in seen'
               /\ parent'[stack'[i].node] = stack'[i - 1].node
               /\ kind'[stack'[i].node] \in Walkable
    <3>1. i \in 2 .. Depth /\ i \in 1 .. Depth /\ i - 1 \in 1 .. Depth
      BY <2>2
    <3> QED BY <1>2, <2>1, <2>2, <3>1, StackFacts DEF modelVars
  <2>6. (phase = "walking" => Depth > 0 /\ stack[1].node = 0)'
    <3>1. 1 \in 1 .. Depth /\ stack[1].node = 0
      BY <1>2, <2>1, <2>2, StackFacts
    <3> QED BY <2>2, <3>1 DEF Depth
  <2> QED BY <1>2, <1>3, <2>2, <2>3, <2>4, <2>5, <2>6, TypeFromParts
<1> QED BY <1>1, <1>4, <1>5

LEMMA DescendType ==
  ASSUME TypeInv, NEW c \in Nodes, Descend(c)
  PROVE  TypeInv'
<1> DEFINE now == Entered(c)
           frame == [node |-> c, path |-> now.path]
<1>1. /\ Next(c) /\ kind[c] \in Walkable /\ stack' = Append(Entering(c), frame)
      /\ heap' = now.heap /\ phase' = phase
  BY DEF Descend, Entering
<1>2. /\ phase = "walking" /\ seen' = seen \cup {c} /\ seen' \in SUBSET Nodes
      /\ UNCHANGED modelVars /\ parent[c] = Top.node
      /\ \A i \in 1 .. Depth : stack[i].node < c /\ (i > 1 => AboveIn(parent, stack[i].node, c))
  BY <1>1, NextFacts
<1>3. ModelOK'
  BY <1>2, ModelKept DEF TypeInv
<1>4. CloudTypeOK
  BY DEF TypeInv
<1>5. /\ Entering(c) \in Seq(Frames) /\ Len(Entering(c)) = Depth
      /\ Depth \in Nat /\ Depth \in 1 .. Depth
      /\ \A i \in 1 .. Depth : /\ Entering(c)[i].node = stack[i].node
                               /\ Within(heap', Entering(c)[i].path)
  BY <1>1, <1>2, <1>4, EnteringFacts, StackFacts
<1>6. heap' \in Seq(Seq(Ids)) /\ now.path \in Paths /\ Within(heap', now.path)
  BY <1>1, <1>2, <1>4, EnteredFacts DEF Growth
<1>7. frame \in Frames /\ frame.node = c /\ frame.path = now.path
  BY <1>6, CloudBounds DEF Frames, Ids, Nodes
<1> HIDE DEF frame, now
<1>8. /\ stack' \in Seq(Frames) /\ Len(stack') = Depth + 1
      /\ stack'[Depth + 1] = frame
      /\ \A i \in 1 .. Depth : stack'[i] = Entering(c)[i]
  BY <1>1, <1>5, <1>7
<1>9. /\ stack'[Depth + 1].node = c
      /\ \A i \in 1 .. Depth : stack'[i].node = stack[i].node
      /\ \A i \in 1 .. Depth + 1 : Within(heap', stack'[i].path)
      /\ \A i \in 1 .. Depth + 1 : i # Depth + 1 => i \in 1 .. Depth
  <2>1. \A i \in 1 .. Depth + 1 : i # Depth + 1 => i \in 1 .. Depth
    BY <1>5
  <2>2. \A i \in 1 .. Depth : stack'[i].node = stack[i].node /\ Within(heap', stack'[i].path)
    BY <1>5, <1>8
  <2>3. stack'[Depth + 1].node = c /\ Within(heap', stack'[Depth + 1].path)
    BY <1>6, <1>7, <1>8
  <2> QED BY <2>1, <2>2, <2>3
<1>10. OrderOK'
  <2> SUFFICES ASSUME NEW i \in 1 .. Depth + 1, NEW j \in 1 .. Depth + 1, i < j
               PROVE  /\ stack'[i].node < stack'[j].node
                      /\ i > 1 => AboveIn(parent', stack'[i].node, stack'[j].node)
    BY <1>8 DEF OrderOK, Depth
  <2>1. i \in 1 .. Depth /\ stack'[i].node = stack[i].node
    BY <1>5, <1>9
  <2>2. CASE j = Depth + 1
    BY <1>2, <1>9, <2>1, <2>2 DEF modelVars
  <2>3. CASE j # Depth + 1
    BY <1>2, <1>9, <2>1, <2>3 DEF TypeInv, OrderOK, modelVars
  <2> QED BY <2>2, <2>3
<1>11. ASSUME NEW i \in 2 .. Len(stack')
       PROVE  /\ stack'[i].node \in seen'
              /\ parent'[stack'[i].node] = stack'[i - 1].node
              /\ kind'[stack'[i].node] \in Walkable
  <2>1. CASE i = Depth + 1
    BY <1>1, <1>2, <1>5, <1>9, <2>1 DEF Top, modelVars
  <2>2. CASE i # Depth + 1
    <3>1. i \in 2 .. Depth /\ i \in 1 .. Depth /\ i - 1 \in 1 .. Depth
      BY <1>5, <1>8, <2>2
    <3> QED BY <1>2, <1>4, <1>9, <3>1, StackFacts DEF modelVars
  <2> QED BY <2>1, <2>2
<1>12. (phase = "walking" => Depth > 0 /\ stack[1].node = 0)'
  <2>1. 1 \in 1 .. Depth /\ stack[1].node = 0
    BY <1>2, <1>4, <1>5, StackFacts
  <2> QED BY <1>5, <1>8, <1>9, <2>1 DEF Depth
<1> QED BY <1>2, <1>3, <1>6, <1>8, <1>9, <1>10, <1>11, <1>12, TypeFromParts

LEMMA DroppedFacts ==
  ASSUME NEW path \in Paths, NEW h, Within(h, path)
  PROVE  /\ Dropped(path) \in Paths /\ Within(h, Dropped(path))
         /\ Dropped(path).array = path.array
         /\ Dropped(path).length = IF path.length > 0 THEN path.length - 1 ELSE path.length
BY DEF Dropped, Paths, Within

LEMMA ReturnFacts ==
  ASSUME TypeInv, Return
  PROVE  /\ phase = "walking" /\ UNCHANGED <<modelVars, phase, heap, seen, actions, jobVars>>
         /\ Depth \in Nat /\ Depth > 1 /\ Ahead(Top.node) = {}
         /\ stack' \in Seq(Frames) /\ Len(stack') = Depth - 1
         /\ \A i \in 1 .. Depth - 1 :
               /\ i \in 1 .. Depth
               /\ stack'[i].node = stack[i].node
               /\ stack'[i].path = IF i = Depth - 1 THEN Dropped(stack[i].path) ELSE stack[i].path
               /\ Within(heap, stack'[i].path)
<1> DEFINE last == Depth - 1
           back(i) == IF i < last THEN stack[i] ELSE [stack[i] EXCEPT !.path = Dropped(@)]
<1>1. /\ phase = "walking" /\ UNCHANGED <<modelVars, phase, heap, seen, actions, jobVars>>
      /\ Depth > 1 /\ Ahead(Top.node) = {} /\ stack' = [i \in 1 .. last |-> back(i)]
  BY DEF Return
<1>2. /\ Depth \in Nat
      /\ \A i \in 1 .. Depth : /\ stack[i] \in Frames /\ stack[i].path \in Paths
                               /\ Within(heap, stack[i].path)
  BY StackFacts DEF TypeInv
<1>3. last \in Nat /\ \A i \in 1 .. last : i \in 1 .. Depth /\ (~(i < last) <=> i = last)
  BY <1>1, <1>2
<1>4. ASSUME NEW i \in 1 .. last
      PROVE  /\ back(i) \in Frames /\ back(i).node = stack[i].node
             /\ back(i).path = IF i = last THEN Dropped(stack[i].path) ELSE stack[i].path
             /\ Within(heap, back(i).path)
  <2>1. stack[i] \in Frames /\ stack[i].path \in Paths /\ Within(heap, stack[i].path)
    BY <1>2, <1>3
  <2>2. Dropped(stack[i].path) \in Paths /\ Within(heap, Dropped(stack[i].path))
    BY <2>1, DroppedFacts
  <2> DEFINE d == Dropped(stack[i].path)
             g == [stack[i] EXCEPT !.path = d]
  <2> HIDE DEF d
  <2>3. g \in Frames /\ g.node = stack[i].node /\ g.path = d
    BY <2>1, <2>2 DEF Frames, d
  <2>4. CASE i = last
    <3>1. back(i) = g
      BY <1>3, <2>4 DEF d
    <3> HIDE DEF g, back
    <3> QED BY <2>2, <2>3, <2>4, <3>1 DEF d
  <2>5. CASE i # last
    <3>1. back(i) = stack[i]
      BY <1>3, <2>5
    <3> HIDE DEF back
    <3> QED BY <2>1, <2>5, <3>1
  <2> QED BY <2>4, <2>5
<1> HIDE DEF back
<1>5. stack' \in Seq(Frames) /\ Len(stack') = last /\ \A i \in 1 .. last : stack'[i] = back(i)
  BY <1>1, <1>3, <1>4
<1> QED BY <1>1, <1>2, <1>3, <1>4, <1>5

LEMMA ReturnType ==
  ASSUME TypeInv, Return
  PROVE  TypeInv'
<1>1. /\ phase = "walking" /\ phase' = phase /\ UNCHANGED modelVars /\ heap' = heap /\ seen' = seen
      /\ Depth \in Nat /\ Depth > 1
      /\ stack' \in Seq(Frames) /\ Len(stack') = Depth - 1
      /\ \A i \in 1 .. Depth - 1 : /\ i \in 1 .. Depth /\ stack'[i].node = stack[i].node
                                   /\ Within(heap, stack'[i].path)
  BY ReturnFacts
<1>2. ModelOK'
  BY <1>1, ModelKept DEF TypeInv
<1>3. OrderOK'
  BY <1>1 DEF TypeInv, OrderOK, modelVars, Depth
<1>4. heap' \in Seq(Seq(Ids)) /\ seen' \in SUBSET Nodes
  BY <1>1 DEF TypeInv, CloudTypeOK, Ids
<1>5. ASSUME NEW i \in 2 .. Len(stack')
      PROVE  /\ stack'[i].node \in seen'
             /\ parent'[stack'[i].node] = stack'[i - 1].node
             /\ kind'[stack'[i].node] \in Walkable
  <2>1. i \in 2 .. Depth /\ i \in 1 .. Depth - 1 /\ i - 1 \in 1 .. Depth - 1
    BY <1>1
  <2> QED BY <1>1, <2>1, StackFacts DEF TypeInv, modelVars
<1>6. (phase = "walking" => Depth > 0 /\ stack[1].node = 0)'
  <2>1. 1 \in 1 .. Depth - 1 /\ stack[1].node = 0
    BY <1>1, StackFacts DEF TypeInv
  <2> QED BY <1>1, <2>1 DEF Depth
<1> QED BY <1>1, <1>2, <1>3, <1>4, <1>5, <1>6, TypeFromParts

LEMMA InitType == CloudInit => TypeInv
<1> SUFFICES ASSUME CloudInit
             PROVE  TypeInv
  OBVIOUS
<1>1. ModelOK
  BY DEF CloudInit, ModelOK
<1>2. stack = <<>> /\ heap = <<>> /\ seen = {} /\ phase = "starting"
  BY DEF CloudInit
<1>3. OrderOK /\ CloudTypeOK
  BY <1>2 DEF OrderOK, CloudTypeOK, Depth
<1> QED BY <1>1, <1>3 DEF TypeInv

LEMMA NextType == TypeInv /\ [CloudNext]_cloudVars => TypeInv'
<1> SUFFICES ASSUME TypeInv, [CloudNext]_cloudVars
             PROVE  TypeInv'
  OBVIOUS
<1>1. ASSUME UNCHANGED <<modelVars, stack, heap>>, seen' \in SUBSET Nodes, seen \subseteq seen',
             phase' = phase \/ phase' # "walking"
      PROVE  TypeInv'
  <2>1. ModelOK'
    BY <1>1, ModelKept DEF TypeInv
  <2>2. OrderOK' /\ CloudTypeOK'
    BY <1>1 DEF TypeInv, OrderOK, CloudTypeOK, modelVars, PathOK, Depth
  <2> QED BY <2>1, <2>2 DEF TypeInv
<1>2. seen \in SUBSET Nodes
  BY DEF TypeInv, CloudTypeOK
<1>3. CASE Load
  <2>1. /\ UNCHANGED modelVars /\ heap' = heap /\ seen' = seen
        /\ stack' = <<[node |-> 0, path |-> Nil]>>
    BY <1>3 DEF Load
  <2>2. ModelOK'
    BY <2>1, ModelKept DEF TypeInv
  <2>3. /\ stack' \in Seq(Frames) /\ Len(stack') = 1 /\ stack'[1].node = 0 /\ stack'[1].path = Nil
    BY <2>1, CloudBounds DEF Frames, Ids, Paths, Nil
  <2>4. heap' \in Seq(Seq(Ids)) /\ Len(heap') \in Nat
    BY <2>1, StackFacts DEF TypeInv
  <2>5. Within(heap', Nil)
    BY <2>4 DEF Within, Nil
  <2>6. OrderOK'
    BY <2>3 DEF OrderOK, Depth
  <2>7. (phase = "walking" => Depth > 0 /\ stack[1].node = 0)'
    BY <2>3 DEF Depth
  <2>8. \A i \in 1 .. Len(stack') : Within(heap', stack'[i].path)
    BY <2>3, <2>5
  <2>9. \A i \in 2 .. Len(stack') : FALSE
    BY <2>3
  <2> QED BY <1>2, <2>1, <2>2, <2>3, <2>4, <2>6, <2>7, <2>8, <2>9, TypeFromParts
<1>4. CASE CloudIsDown
  BY <1>1, <1>2, <1>4 DEF CloudIsDown, walkVars
<1>5. ASSUME NEW c \in Nodes, Skip(c)
      PROVE  TypeInv'
  <2>1. Next(c) /\ UNCHANGED <<phase, stack, heap>>
    BY <1>5 DEF Skip
  <2>2. seen' = seen \cup {c} /\ UNCHANGED modelVars
    BY <2>1 DEF Next
  <2> QED BY <1>1, <1>2, <2>1, <2>2
<1>6. ASSUME NEW c \in Nodes, Take(c)
      PROVE  TypeInv'
  BY <1>6, TakeType
<1>7. ASSUME NEW c \in Nodes, Descend(c)
      PROVE  TypeInv'
  BY <1>7, DescendType
<1>8. CASE Return
  BY <1>8, ReturnType
<1>9. CASE Prepared
  <2>1. /\ UNCHANGED modelVars /\ heap' = heap /\ seen' = seen /\ stack' = <<>>
        /\ phase' # "walking"
    BY <1>9 DEF Prepared, AfterWalk
  <2>2. ModelOK'
    BY <2>1, ModelKept DEF TypeInv
  <2>3. stack' \in Seq(Frames) /\ Len(stack') = 0
    BY <2>1
  <2>4. OrderOK'
    BY <2>3 DEF OrderOK, Depth
  <2>5. heap' \in Seq(Seq(Ids))
    BY <2>1, StackFacts DEF TypeInv
  <2> QED BY <1>2, <2>1, <2>2, <2>3, <2>4, <2>5, TypeFromParts
<1>10. ASSUME NEW a \in actions, Spawn(a)
       PROVE  TypeInv'
  BY <1>1, <1>2, <1>10 DEF Spawn, walkVars
<1>11. CASE Ready
  BY <1>1, <1>2, <1>11 DEF Ready, walkVars
<1>12. CASE UNCHANGED cloudVars
  BY <1>1, <1>2, <1>12 DEF cloudVars, walkVars
<1> QED BY <1>3, <1>4, <1>5, <1>6, <1>7, <1>8, <1>9, <1>10, <1>11, <1>12 DEF CloudNext

(* A path lies within its array, and the calls are those for the nodes     *)
(* that contain the child the walk is at (types.go:172-229).               *)
THEOREM WalkTypeCorrect == CloudSpec => []CloudTypeOK
<1>1. TypeInv => CloudTypeOK
  BY DEF TypeInv
<1> QED BY <1>1, InitType, NextType, PTL DEF CloudSpec

-----------------------------------------------------------------------------
(* What the slices hold while nothing upsets them                          *)

NodesOf(calls, i) == {calls[j].node : j \in 2 .. i}
Subsystems(calls, types, i) == {n \in NodesOf(calls, i) : types[n] = "subsystem"}

(* A path has the given ids, in order.                                     *)
Lists(h, path, ids) ==
  /\ \A j \in 1 .. path.length : h[path.array][j] \in ids
  /\ \A n \in ids : \E j \in 1 .. path.length : h[path.array][j] = n
  /\ \A i, j \in 1 .. path.length : i < j => h[path.array][i] < h[path.array][j]

Begins(h, path, other) ==
  /\ path.length <= other.length
  /\ \A j \in 1 .. path.length : h[path.array][j] = h[other.array][j]

(* A call has put the id of the child it has called walk for on its path.  *)
Listing(h, calls, types) ==
  /\ \A i \in 1 .. Len(calls) :
        Lists(h, calls[i].path,
              Subsystems(calls, types, IF i < Len(calls) THEN i + 1 ELSE i))
  /\ \A i, j \in 1 .. Len(calls) : i < j => Begins(h, calls[i].path, calls[j].path)

(* What upsets a path is not behind the walk, only above it.               *)
Clean == \A n \in seen : Upsets(n) => n \in NodesOf(stack, Depth)

PathsOK == phase = "walking" /\ Clean => Listing(heap, stack, kind)

PathInv == TypeInv /\ PathsOK

LEMMA EntriesKept ==
  ASSUME NEW path \in Paths, NEW now, Growth(path, now), NEW other \in Paths,
         Within(heap, other), Len(heap) \in Nat, other.length <= path.length
  PROVE  \A j \in 1 .. other.length : now.heap[other.array][j] = heap[other.array][j]
<1> SUFFICES ASSUME NEW j \in 1 .. other.length
             PROVE  now.heap[other.array][j] = heap[other.array][j]
  OBVIOUS
<1>1. other.array \in 1 .. Len(heap) /\ j \in 1 .. path.length
  BY DEF Within, Paths
<1> QED BY <1>1 DEF Growth

LEMMA ListsKept ==
  ASSUME NEW h, NEW g, NEW path \in Paths, NEW other \in Paths, NEW ids,
         path.length = other.length,
         \A j \in 1 .. path.length : h[path.array][j] = g[other.array][j],
         Lists(h, path, ids)
  PROVE  Lists(g, other, ids)
BY DEF Lists

LEMMA ListsMore ==
  ASSUME TypeInv, NEW path \in Paths, NEW c \in Nodes, NEW now, Extended(path, c, now),
         NEW ids \in SUBSET Nodes, \A n \in ids : n < c, Lists(heap, path, ids)
  PROVE  Lists(now.heap, now.path, ids \cup {c})
<1> DEFINE n == path.length
           e(j) == now.heap[now.path.array][j]
<1>1. /\ n \in Nat /\ now.path.length = n + 1 /\ e(n + 1) = c
      /\ \A j \in 1 .. n : e(j) = heap[path.array][j]
  BY DEF Extended, Paths
<1> HIDE DEF n, e
<1>2. \A j \in 1 .. n + 1 : j = n + 1 \/ j \in 1 .. n
  BY <1>1
<1>3. \A j \in 1 .. n : e(j) \in ids /\ j \in 1 .. n + 1
  BY <1>1 DEF Lists, n
<1>4. \A x \in ids : \E j \in 1 .. n : e(j) = x
  BY <1>1 DEF Lists, n
<1>5. n + 1 \in 1 .. n + 1
  BY <1>1
<1>6. \A i, j \in 1 .. n + 1 : i < j => e(i) < e(j)
  <2> SUFFICES ASSUME NEW i \in 1 .. n + 1, NEW j \in 1 .. n + 1, i < j
               PROVE  e(i) < e(j)
    OBVIOUS
  <2>1. i \in 1 .. n
    BY <1>1
  <2>2. CASE j = n + 1
    BY <1>1, <1>3, <2>1, <2>2
  <2>3. CASE j \in 1 .. n
    BY <1>1, <2>1, <2>3 DEF Lists, n
  <2> QED BY <1>2, <2>2, <2>3
<1>7. \A j \in 1 .. now.path.length : e(j) \in ids \cup {c}
  BY <1>1, <1>2, <1>3
<1>8. \A x \in ids \cup {c} : \E j \in 1 .. now.path.length : e(j) = x
  BY <1>1, <1>3, <1>4, <1>5
<1>9. \A i, j \in 1 .. now.path.length : i < j => e(i) < e(j)
  BY <1>1, <1>6
<1> QED BY <1>7, <1>8, <1>9 DEF Lists, e

(* The greatest id is the last.                                            *)
LEMMA GreatestIsLast ==
  ASSUME NEW h, NEW path \in Paths, NEW ids \in SUBSET Nodes, Lists(h, path, ids),
         NEW p \in ids, \A n \in ids : n <= p
  PROVE  path.length > 0 /\ h[path.array][path.length] = p
<1> DEFINE e(j) == h[path.array][j]
<1>1. PICK j \in 1 .. path.length : e(j) = p
  BY DEF Lists
<1>2. path.length \in Nat /\ path.length \in 1 .. path.length
  BY <1>1 DEF Paths
<1>3. e(path.length) \in ids /\ (j < path.length => e(j) < e(path.length))
  BY <1>2 DEF Lists
<1> HIDE DEF e
<1>4. e(path.length) \in Nat /\ p \in Nat
  <2>1. e(path.length) \in Nodes /\ p \in Nodes
    BY <1>3
  <2> QED BY <2>1, CloudBounds DEF Nodes
<1>5. j = path.length
  BY <1>1, <1>2, <1>3, <1>4
<1> QED BY <1>1, <1>2, <1>5 DEF e

LEMMA ListsFewer ==
  ASSUME NEW h, NEW path \in Paths, NEW ids \in SUBSET Nodes, Lists(h, path, ids),
         NEW p \in ids, \A n \in ids : n <= p
  PROVE  Lists(h, Dropped(path), ids \ {p})
<1> DEFINE e(j) == h[path.array][j]
           n == path.length
<1>1. n > 0 /\ e(n) = p /\ n \in Nat
  BY GreatestIsLast DEF Paths
<1>2. Dropped(path).array = path.array /\ Dropped(path).length = n - 1
  BY <1>1 DEF Dropped, Paths
<1>3. \A j \in 1 .. n - 1 : j \in 1 .. n /\ n \in 1 .. n /\ j < n
  BY <1>1
<1>4. \A j \in 1 .. n : e(j) \in ids /\ (j < n => e(j) < e(n))
  BY <1>1 DEF Lists
<1> HIDE DEF e
<1>5. \A j \in 1 .. n - 1 : e(j) \in ids \ {p}
  <2> TAKE j \in 1 .. n - 1
  <2>1. e(j) \in ids /\ e(j) < p
    BY <1>1, <1>3, <1>4
  <2>2. e(j) \in Int
    <3>1. e(j) \in Nodes
      BY <2>1
    <3> QED BY <3>1, CloudBounds DEF Nodes
  <2> QED BY <2>1, <2>2
<1>6. ASSUME NEW x \in ids \ {p}
      PROVE  \E j \in 1 .. n - 1 : e(j) = x
  <2>1. PICK j \in 1 .. n : e(j) = x
    BY DEF Lists, e
  <2>2. j # n
    BY <1>1, <2>1
  <2>3. j \in 1 .. n - 1
    BY <1>1, <2>2
  <2> QED BY <2>1, <2>3
<1>7. \A i, j \in 1 .. n - 1 : i < j => e(i) < e(j)
  BY <1>3 DEF Lists, e
<1> QED BY <1>2, <1>5, <1>6, <1>7 DEF Lists, e

LEMMA NodesFacts ==
  ASSUME TypeInv, NEW i \in 1 .. Depth
  PROVE  /\ NodesOf(stack, i) \in SUBSET Nodes /\ Subsystems(stack, kind, i) \in SUBSET Nodes
         /\ NodesOf(stack, i) \subseteq seen
         /\ i > 1 => NodesOf(stack, i) = NodesOf(stack, i - 1) \cup {stack[i].node}
<1>1. Depth \in Nat /\ seen \in SUBSET Nodes
      /\ \A j \in 2 .. Depth : stack[j].node \in seen
  BY StackFacts DEF TypeInv, CloudTypeOK
<1>2. NodesOf(stack, i) \subseteq seen
  BY <1>1 DEF NodesOf
<1>3. i > 1 => i - 1 \in Nat /\ \A j : j \in 2 .. i <=> j \in 2 .. i - 1 \/ j = i
  BY <1>1
<1> QED BY <1>1, <1>2, <1>3 DEF NodesOf, Subsystems

LEMMA DescendFacts ==
  ASSUME TypeInv, NEW c \in Nodes, Descend(c)
  PROVE  /\ Next(c) /\ kind[c] \in Walkable /\ phase' = phase /\ actions' = actions
         /\ heap' = Entered(c).heap /\ Len(stack') = Depth + 1
         /\ stack'[Depth + 1].node = c
         /\ \A i \in 1 .. Depth : stack'[i].node = stack[i].node
         /\ \A i \in 1 .. Depth + 1 :
               stack'[i].path = IF i < Depth THEN stack[i].path ELSE Entered(c).path
<1> DEFINE frame == [node |-> c, path |-> Entered(c).path]
<1>1. /\ Next(c) /\ kind[c] \in Walkable /\ stack' = Append(Entering(c), frame)
      /\ heap' = Entered(c).heap /\ phase' = phase /\ actions' = actions
  BY DEF Descend, Entering
<1>2. phase = "walking" /\ CloudTypeOK
  BY <1>1, NextFacts DEF TypeInv
<1>3. /\ Entering(c) \in Seq(Frames) /\ Len(Entering(c)) = Depth /\ Depth \in Nat
      /\ \A i \in 1 .. Depth :
            /\ Entering(c)[i].node = stack[i].node
            /\ Entering(c)[i].path = IF i = Depth THEN Entered(c).path ELSE stack[i].path
  BY <1>2, EnteringFacts, StackFacts
<1>4. Entered(c).path \in Paths
  BY <1>2, EnteredFacts DEF Growth
<1>5. frame \in Frames /\ frame.node = c /\ frame.path = Entered(c).path
  BY <1>4, CloudBounds DEF Frames, Ids, Nodes
<1> HIDE DEF frame
<1>6. /\ Len(stack') = Depth + 1 /\ stack'[Depth + 1] = frame
      /\ \A i \in 1 .. Depth : stack'[i] = Entering(c)[i]
  BY <1>1, <1>3, <1>5
<1>7. \A i \in 1 .. Depth + 1 : i = Depth + 1 \/ i \in 1 .. Depth
  BY <1>3
<1>8. ASSUME NEW i \in 1 .. Depth + 1
      PROVE  stack'[i].path = IF i < Depth THEN stack[i].path ELSE Entered(c).path
  <2>1. CASE i = Depth + 1
    BY <1>3, <1>5, <1>6, <2>1
  <2>2. CASE i \in 1 .. Depth
    BY <1>3, <1>6, <2>2
  <2> QED BY <1>7, <2>1, <2>2
<1> QED BY <1>1, <1>3, <1>5, <1>6, <1>8

(* While a child is entered, the callers see nothing of it in their paths, *)
(* and the walk's own path gets the child if it is a subsystem.            *)
LEMMA EnteringLists ==
  ASSUME TypeInv, Listing(heap, stack, kind), NEW c \in Nodes, Next(c),
         kind[c] = "subsystem" \/ ~Listed(c)
  PROVE  LET now == Entered(c)
             below == Subsystems(stack, kind, Depth)
         IN /\ Lists(now.heap, now.path,
                     IF kind[c] = "subsystem" THEN below \cup {c} ELSE below)
            /\ \A i \in 1 .. Depth : Begins(now.heap, stack[i].path, now.path)
            /\ \A i, k \in 1 .. Depth :
                  i < k => Begins(now.heap, stack[i].path, stack[k].path)
            /\ \A i \in 1 .. Depth - 1 :
                  Lists(now.heap, stack[i].path, Subsystems(stack, kind, i + 1))
<1> DEFINE now == Entered(c)
           below == Subsystems(stack, kind, Depth)
           entry(h, p, j) == h[p.array][j]
<1>1. /\ phase = "walking" /\ CloudTypeOK /\ Depth \in 1 .. Depth /\ Depth \in Nat
      /\ \A i \in 1 .. Depth : stack[i].node < c
  BY NextFacts, StackFacts DEF TypeInv
<1>2. /\ Growth(Top.path, now) /\ Len(heap) \in Nat /\ Top.path \in Paths /\ Within(heap, Top.path)
      /\ \A i \in 1 .. Depth : stack[i].path \in Paths /\ Within(heap, stack[i].path)
  BY <1>1, StackFacts, EnteredFacts DEF Top
<1>3. \A i \in 1 .. Depth : Begins(heap, stack[i].path, Top.path)
  <2> TAKE i \in 1 .. Depth
  <2>1. CASE i = Depth
    BY <1>2, <2>1 DEF Begins, Paths, Top
  <2>2. CASE i # Depth
    <3>1. i < Depth
      BY <1>1, <2>2
    <3> QED BY <1>1, <3>1 DEF Listing, Top, Depth
  <2> QED BY <2>1, <2>2
<1>4. \A i \in 1 .. Depth : \A j \in 1 .. stack[i].path.length :
         now.heap[stack[i].path.array][j] = heap[stack[i].path.array][j]
  <2> TAKE i \in 1 .. Depth
  <2>1. stack[i].path.length <= Top.path.length
    BY <1>3 DEF Begins
  <2> HIDE DEF now
  <2> QED BY <1>2, <2>1, EntriesKept
<1>5. \A i \in 1 .. Depth : Begins(now.heap, stack[i].path, now.path)
  <2> TAKE i \in 1 .. Depth
  <2>1. /\ stack[i].path.length \in Nat /\ Top.path.length \in Nat /\ now.path.length \in Nat
        /\ stack[i].path.length <= Top.path.length /\ Top.path.length <= now.path.length
    BY <1>2, <1>3 DEF Begins, Growth, Paths
  <2>2. ASSUME NEW j \in 1 .. stack[i].path.length
        PROVE  now.heap[stack[i].path.array][j] = now.heap[now.path.array][j]
    <3>1. j \in 1 .. Top.path.length
      BY <2>1
    <3>2. now.heap[stack[i].path.array][j] = heap[stack[i].path.array][j]
      BY <1>4
    <3>3. heap[stack[i].path.array][j] = heap[Top.path.array][j]
      BY <1>3 DEF Begins
    <3>4. now.heap[now.path.array][j] = heap[Top.path.array][j]
      BY <1>2, <3>1 DEF Growth
    <3> QED BY <3>2, <3>3, <3>4
  <2>3. stack[i].path.length <= now.path.length
    BY <2>1
  <2> QED BY <2>2, <2>3 DEF Begins
<1>6. ASSUME NEW i \in 1 .. Depth, NEW k \in 1 .. Depth, i < k
      PROVE  Begins(now.heap, stack[i].path, stack[k].path)
  <2>1. Begins(heap, stack[i].path, stack[k].path)
    BY <1>6 DEF Listing, Depth
  <2>2. \A j \in 1 .. stack[i].path.length : j \in 1 .. stack[k].path.length
    BY <1>2, <2>1 DEF Begins, Paths
  <2> HIDE DEF now
  <2> QED BY <1>4, <2>1, <2>2 DEF Begins
<1>7. ASSUME NEW i \in 1 .. Depth - 1
      PROVE  Lists(now.heap, stack[i].path, Subsystems(stack, kind, i + 1))
  <2>1. i \in 1 .. Depth /\ i < Depth
    BY <1>1
  <2>2. Lists(heap, stack[i].path, Subsystems(stack, kind, i + 1))
    BY <2>1 DEF Listing, Depth
  <2> HIDE DEF now
  <2> QED BY <1>2, <1>4, <2>1, <2>2 DEF Lists
<1>8. below \in SUBSET Nodes /\ Lists(heap, Top.path, below)
  BY <1>1, NodesFacts DEF Listing, Top, Depth
<1>9. \A n \in below : n < c
  <2> SUFFICES ASSUME NEW j \in 2 .. Depth
               PROVE  stack[j].node < c
    BY DEF Subsystems, NodesOf
  <2>1. j \in 1 .. Depth
    BY <1>1
  <2> QED BY <1>1, <2>1
<1>10. Lists(now.heap, now.path, IF kind[c] = "subsystem" THEN below \cup {c} ELSE below)
  <2>1. CASE kind[c] = "subsystem"
    <3>1. Extended(Top.path, c, now)
      BY <1>1, <2>1, EnteredFacts DEF Listed
    <3> HIDE DEF now, below
    <3> QED BY <1>2, <1>8, <1>9, <2>1, <3>1, ListsMore
  <2>2. CASE kind[c] # "subsystem"
    <3>1. now = [heap |-> heap, path |-> Top.path]
      BY <1>1, <2>2, EnteredFacts
    <3>2. now.heap = heap /\ now.path = Top.path
      BY <3>1
    <3> HIDE DEF now
    <3> QED BY <1>8, <2>2, <3>2
  <2> QED BY <2>1, <2>2
<1> HIDE DEF now, below
<1> QED BY <1>5, <1>6, <1>7, <1>10 DEF now, below

LEMMA DescendLists ==
  ASSUME TypeInv, Listing(heap, stack, kind), NEW c \in Nodes, Descend(c),
         kind[c] = "subsystem" \/ ~Listed(c)
  PROVE  Listing(heap', stack', kind')
<1> DEFINE now == Entered(c)
           below == Subsystems(stack, kind, Depth)
<1>1. /\ Next(c) /\ heap' = now.heap /\ Len(stack') = Depth + 1
      /\ stack'[Depth + 1].node = c
      /\ \A i \in 1 .. Depth : stack'[i].node = stack[i].node
      /\ \A i \in 1 .. Depth + 1 :
            stack'[i].path = IF i < Depth THEN stack[i].path ELSE now.path
  BY DescendFacts
<1>2. kind' = kind /\ Depth \in Nat /\ Depth \in 1 .. Depth
  BY <1>1, NextFacts, StackFacts DEF TypeInv, modelVars
<1>3. /\ Lists(now.heap, now.path, IF kind[c] = "subsystem" THEN below \cup {c} ELSE below)
      /\ \A i \in 1 .. Depth : Begins(now.heap, stack[i].path, now.path)
      /\ \A i, k \in 1 .. Depth : i < k => Begins(now.heap, stack[i].path, stack[k].path)
      /\ \A i \in 1 .. Depth - 1 :
            Lists(now.heap, stack[i].path, Subsystems(stack, kind, i + 1))
  BY <1>1, EnteringLists
<1>4. ASSUME NEW k \in 1 .. Depth
      PROVE  Subsystems(stack', kind', k) = Subsystems(stack, kind, k)
  <2>1. \A j \in 2 .. k : stack'[j].node = stack[j].node
    BY <1>1, <1>2
  <2> QED BY <1>2, <2>1 DEF Subsystems, NodesOf
<1>5. Subsystems(stack', kind', Depth + 1)
        = IF kind[c] = "subsystem" THEN below \cup {c} ELSE below
  <2>1. \A j : j \in 2 .. Depth + 1 <=> j \in 2 .. Depth \/ j = Depth + 1
    BY <1>2
  <2>2. \A j \in 2 .. Depth : stack'[j].node = stack[j].node
    BY <1>1, <1>2
  <2>3. NodesOf(stack', Depth + 1) = NodesOf(stack, Depth) \cup {c}
    BY <1>1, <2>1, <2>2 DEF NodesOf
  <2> QED BY <1>2, <2>3 DEF Subsystems
<1> HIDE DEF now, below
<1>6. Begins(now.heap, now.path, now.path)
  <2>1. now.path \in Paths
    BY <1>1, EnteredFacts, NextFacts DEF Growth, TypeInv, now
  <2> QED BY <2>1 DEF Begins, Paths
<1>7. ASSUME NEW i \in 1 .. Depth + 1
      PROVE  Lists(heap', stack'[i].path,
                   Subsystems(stack', kind', IF i < Depth + 1 THEN i + 1 ELSE i))
  <2>1. CASE i < Depth
    <3>1. i + 1 \in 1 .. Depth /\ i \in 1 .. Depth - 1 /\ i < Depth + 1
      BY <1>2, <2>1
    <3>2. Lists(now.heap, stack[i].path, Subsystems(stack', kind', i + 1))
      BY <1>3, <1>4, <3>1
    <3> QED BY <1>1, <2>1, <3>1, <3>2
  <2>2. CASE ~(i < Depth)
    <3>1. (IF i < Depth + 1 THEN i + 1 ELSE i) = Depth + 1
      BY <1>2, <2>2
    <3>2. Lists(now.heap, now.path, Subsystems(stack', kind', Depth + 1))
      BY <1>3, <1>5
    <3> QED BY <1>1, <2>2, <3>1, <3>2
  <2> QED BY <2>1, <2>2
<1>8. ASSUME NEW i \in 1 .. Depth + 1, NEW k \in 1 .. Depth + 1, i < k
      PROVE  Begins(heap', stack'[i].path, stack'[k].path)
  <2>1. i \in 1 .. Depth
    BY <1>2, <1>8
  <2>2. CASE k < Depth
    <3>1. i < Depth /\ k \in 1 .. Depth
      BY <1>2, <1>8, <2>2
    <3>2. Begins(now.heap, stack[i].path, stack[k].path)
      BY <1>3, <1>8, <2>1, <3>1
    <3> QED BY <1>1, <2>2, <3>1, <3>2
  <2>3. CASE ~(k < Depth) /\ i < Depth
    <3>1. Begins(now.heap, stack[i].path, now.path)
      BY <1>3, <2>1
    <3> QED BY <1>1, <2>3, <3>1
  <2>4. CASE ~(k < Depth) /\ ~(i < Depth)
    BY <1>1, <1>6, <2>4
  <2> QED BY <2>2, <2>3, <2>4
<1> QED BY <1>1, <1>7, <1>8 DEF Listing

(* The callee's subsystem is the last of its caller's path, and of no path *)
(* further down.                                                           *)
LEMMA ReturnLists ==
  ASSUME TypeInv, Listing(heap, stack, kind), Return, kind[Top.node] = "subsystem"
  PROVE  Listing(heap', stack', kind')
<1> DEFINE last == Depth - 1
           path == stack[last].path
           p == Top.node
           below == Subsystems(stack, kind, last)
<1>1. /\ heap' = heap /\ kind' = kind /\ Depth \in Nat /\ Depth > 1
      /\ Len(stack') = last
      /\ \A i \in 1 .. last :
            /\ i \in 1 .. Depth /\ stack'[i].node = stack[i].node
            /\ stack'[i].path = IF i = last THEN Dropped(stack[i].path) ELSE stack[i].path
  BY ReturnFacts DEF modelVars
<1>2. /\ last \in Nat /\ last \in 1 .. last /\ last \in 1 .. Depth /\ Depth \in 1 .. Depth
      /\ last < Depth /\ last + 1 = Depth
  BY <1>1
<1>3. \A i \in 1 .. Depth : stack[i].path \in Paths /\ stack[i].node \in Ids
  BY StackFacts DEF TypeInv
<1>4. /\ below \in SUBSET Nodes
      /\ Subsystems(stack, kind, Depth) = below \cup {p}
  <2>1. NodesOf(stack, Depth) = NodesOf(stack, last) \cup {p}
    BY <1>1, <1>2, NodesFacts DEF Top
  <2> QED BY <1>2, <2>1, NodesFacts DEF Subsystems
<1>5. \A j \in 1 .. last : stack[j].node < p
  BY <1>1, <1>2 DEF TypeInv, OrderOK, Top
<1>6. p \in Int /\ p \in Nodes /\ \A n \in below : n < p
  <2>1. \A n \in below : n < p
    BY <1>2, <1>5 DEF Subsystems, NodesOf
  <2>2. Depth \in 2 .. Depth
    BY <1>1
  <2>3. p \in Nodes
    BY <2>2 DEF TypeInv, CloudTypeOK, Top
  <2> QED BY <2>1, <2>3, CloudBounds DEF Nodes
<1>7. p \notin below
  BY <1>6
<1>8. Lists(heap, path, below \cup {p})
  <2>1. Lists(heap, path, Subsystems(stack, kind, last + 1))
    BY <1>2 DEF Listing, Depth
  <2> QED BY <1>2, <1>4, <2>1
<1> HIDE DEF below
<1>9. \A n \in below \cup {p} : n <= p
  <2>1. \A n \in below : n \in Int
    BY <1>4, CloudBounds DEF Nodes
  <2> QED BY <1>6, <2>1
<1>10. path \in Paths /\ below \cup {p} \in SUBSET Nodes /\ p \in below \cup {p}
  BY <1>2, <1>3, <1>4, <1>6
<1> HIDE DEF p, path
<1>11. Lists(heap, Dropped(path), below)
  <2>1. Lists(heap, Dropped(path), (below \cup {p}) \ {p})
    BY <1>8, <1>9, <1>10, ListsFewer
  <2>2. (below \cup {p}) \ {p} = below
    BY <1>7
  <2> QED BY <2>1, <2>2
<1>12. path.length > 0 /\ heap[path.array][path.length] = p
  BY <1>8, <1>9, <1>10, GreatestIsLast
<1>13. /\ Dropped(path).array = path.array /\ Dropped(path).length = path.length - 1
       /\ path.length \in Nat
  BY <1>10, <1>12 DEF Dropped, Paths
<1>14. ASSUME NEW k \in 1 .. last
       PROVE  Subsystems(stack', kind', k) = Subsystems(stack, kind, k)
  <2>1. \A j \in 2 .. k : stack'[j].node = stack[j].node
    BY <1>1, <1>2
  <2> QED BY <1>1, <2>1 DEF Subsystems, NodesOf
<1>15. ASSUME NEW i \in 1 .. last, i < last
       PROVE  /\ i + 1 \in 1 .. last /\ i \in 1 .. Depth /\ i < Depth
              /\ Lists(heap, stack[i].path, Subsystems(stack, kind, i + 1))
              /\ Begins(heap, stack[i].path, path)
  <2>1. i + 1 \in 1 .. last /\ i \in 1 .. Depth /\ i < Depth
    BY <1>2, <1>15
  <2> QED BY <1>2, <1>15, <2>1 DEF Listing, Depth, path
<1>16. ASSUME NEW i \in 1 .. last
       PROVE  Lists(heap', stack'[i].path,
                    Subsystems(stack', kind', IF i < last THEN i + 1 ELSE i))
  <2>1. CASE i < last
    BY <1>1, <1>14, <1>15, <2>1
  <2>2. CASE i = last
    <3>1. below = Subsystems(stack', kind', i)
      BY <1>14, <2>2 DEF below
    <3>2. stack'[i].path = Dropped(path) /\ ~(i < last)
      BY <1>1, <1>2, <2>2 DEF path
    <3> QED BY <1>1, <1>11, <3>1, <3>2
  <2> QED BY <1>2, <2>1, <2>2
<1>17. ASSUME NEW i \in 1 .. last, i < last
       PROVE  Begins(heap, stack[i].path, Dropped(path))
  <2> DEFINE len == stack[i].path.length
  <2>1. /\ len \in Nat /\ len <= path.length
        /\ \A j \in 1 .. len : heap[stack[i].path.array][j] = heap[path.array][j]
    BY <1>3, <1>15, <1>17 DEF Begins, Paths
  <2>2. len # path.length
    <3> SUFFICES ASSUME len = path.length
                 PROVE  FALSE
      OBVIOUS
    <3>1. len \in 1 .. len
      BY <1>12, <2>1
    <3>2. heap[stack[i].path.array][len] \in Subsystems(stack, kind, i + 1)
      BY <1>15, <1>17, <3>1 DEF Lists
    <3>3. p \in NodesOf(stack, i + 1)
      BY <1>12, <2>1, <3>1, <3>2 DEF Subsystems
    <3>4. \A j \in 2 .. i + 1 : j \in 1 .. last
      BY <1>2, <1>15, <1>17
    <3> QED BY <1>5, <1>6, <3>3, <3>4 DEF NodesOf, p
  <2>3. len <= path.length - 1
    BY <1>13, <2>1, <2>2
  <2> QED BY <1>13, <2>1, <2>3 DEF Begins
<1>18. ASSUME NEW i \in 1 .. last, NEW k \in 1 .. last, i < k
       PROVE  Begins(heap', stack'[i].path, stack'[k].path)
  <2>1. i < last /\ i # last
    BY <1>2, <1>18
  <2>2. CASE k = last
    BY <1>1, <1>17, <2>1, <2>2 DEF path
  <2>3. CASE k # last
    <3>1. Begins(heap, stack[i].path, stack[k].path)
      BY <1>1, <1>18 DEF Listing, Depth
    <3> QED BY <1>1, <2>1, <2>3, <3>1
  <2> QED BY <2>2, <2>3
<1> QED BY <1>1, <1>16, <1>18 DEF Listing

LEMMA CleanBefore ==
  ASSUME TypeInv, NEW c \in Nodes, Next(c), Clean',
         NodesOf(stack', Len(stack')) \subseteq NodesOf(stack, Depth) \cup {c}
  PROVE  Clean
<1>1. seen' = seen \cup {c} /\ c \notin seen /\ kind' = kind
  BY NextFacts DEF modelVars
<1> SUFFICES ASSUME NEW n \in seen, Upsets(n)
             PROVE  n \in NodesOf(stack, Depth)
  BY DEF Clean
<1>2. n \in seen' /\ Upsets(n)'
  BY <1>1 DEF Upsets
<1>3. n \in NodesOf(stack', Len(stack'))
  BY <1>2 DEF Clean, Depth
<1> QED BY <1>1, <1>3

(* A read that is no subsystem leaves path and heap as they are.           *)
LEMMA TakeSame ==
  ASSUME TypeInv, NEW c \in Nodes, Next(c), ~Listed(c)
  PROVE  Entering(c) = stack /\ Entered(c).heap = heap /\ Entered(c).path = Top.path
<1>1. CloudTypeOK /\ phase = "walking" /\ Depth \in 1 .. Depth
  BY NextFacts DEF TypeInv
<1>2. Entered(c).heap = heap /\ Entered(c).path = stack[Depth].path
  BY <1>1, EnteredFacts DEF Top
<1>3. stack \in Seq(Frames) /\ stack[Depth] \in Frames
  BY <1>1, StackFacts DEF CloudTypeOK, Frames, Ids, Paths
<1>4. [stack[Depth] EXCEPT !.path = stack[Depth].path] = stack[Depth]
  BY <1>3 DEF Frames
<1>5. Entering(c) = [stack EXCEPT ![Depth] = stack[Depth]]
  BY <1>2, <1>4 DEF Entering
<1>6. [stack EXCEPT ![Depth] = stack[Depth]] = stack
  BY <1>1, <1>3
<1> QED BY <1>2, <1>5, <1>6 DEF Top

LEMMA TakePaths ==
  ASSUME PathInv, NEW c \in Nodes, Take(c)
  PROVE  PathsOK'
<1> SUFFICES ASSUME (phase = "walking")', Clean'
             PROVE  Listing(heap', stack', kind')
  BY DEF PathsOK
<1>1. /\ TypeInv /\ Next(c) /\ Reading(c) /\ stack' = Entering(c) /\ heap' = Entered(c).heap
  BY DEF PathInv, Take, Entering
<1>2. /\ phase = "walking" /\ CloudTypeOK /\ Depth \in Nat /\ Depth \in 1 .. Depth
      /\ c \notin seen /\ seen' = seen \cup {c} /\ kind' = kind
  BY <1>1, NextFacts, StackFacts DEF TypeInv, modelVars
<1>3. NodesOf(stack', Len(stack')) = NodesOf(stack, Depth)
  <2>1. Len(stack') = Depth /\ \A i \in 1 .. Depth : stack'[i].node = stack[i].node
    BY <1>1, <1>2, EnteringFacts
  <2>2. \A j \in 2 .. Depth : j \in 1 .. Depth
    BY <1>2
  <2> QED BY <2>1, <2>2 DEF NodesOf
<1>4. c \notin NodesOf(stack, Depth)
  BY <1>1, <1>2, NodesFacts
<1>5. kind[c] # "polled"
  BY <1>2, <1>3, <1>4 DEF Clean, Upsets, Depth
<1>6. ~Listed(c)
  BY <1>1, <1>5 DEF Listed, Reading
<1>7. Listing(heap, stack, kind)
  BY <1>1, <1>2, <1>3, CleanBefore DEF PathInv, PathsOK
<1> QED BY <1>1, <1>2, <1>6, <1>7, TakeSame

LEMMA DescendPaths ==
  ASSUME PathInv, NEW c \in Nodes, Descend(c)
  PROVE  PathsOK'
<1> SUFFICES ASSUME Clean'
             PROVE  Listing(heap', stack', kind')
  BY DEF PathsOK
<1>1. /\ TypeInv /\ Next(c) /\ kind[c] \in Walkable
      /\ Len(stack') = Depth + 1 /\ stack'[Depth + 1].node = c
      /\ \A i \in 1 .. Depth : stack'[i].node = stack[i].node
  BY DescendFacts DEF PathInv
<1>2. phase = "walking" /\ Depth \in Nat
  BY <1>1, NextFacts, StackFacts DEF TypeInv
<1>3. NodesOf(stack', Len(stack')) \subseteq NodesOf(stack, Depth) \cup {c}
  <2>1. \A j \in 2 .. Depth + 1 : j = Depth + 1 \/ (j \in 2 .. Depth /\ j \in 1 .. Depth)
    BY <1>2
  <2> QED BY <1>1, <2>1 DEF NodesOf
<1>4. Listing(heap, stack, kind)
  BY <1>1, <1>2, <1>3, CleanBefore DEF PathInv, PathsOK
<1>5. kind[c] = "subsystem" \/ ~Listed(c)
  BY <1>1 DEF Walkable, Listed
<1> QED BY <1>1, <1>4, <1>5, DescendLists

LEMMA ReturnPaths ==
  ASSUME PathInv, Return
  PROVE  PathsOK'
<1> SUFFICES ASSUME Clean'
             PROVE  Listing(heap', stack', kind')
  BY DEF PathsOK
<1>1. /\ TypeInv /\ phase = "walking" /\ seen' = seen /\ kind' = kind
      /\ Depth \in Nat /\ Depth > 1 /\ Len(stack') = Depth - 1
      /\ \A i \in 1 .. Depth - 1 : i \in 1 .. Depth /\ stack'[i].node = stack[i].node
  BY ReturnFacts DEF PathInv, modelVars
<1>2. /\ Depth \in 2 .. Depth /\ Depth \in 1 .. Depth
      /\ \A j \in 2 .. Depth - 1 : j \in 1 .. Depth - 1 /\ j \in 2 .. Depth
  BY <1>1
<1>3. NodesOf(stack', Len(stack')) = NodesOf(stack, Depth - 1)
  BY <1>1, <1>2 DEF NodesOf
<1>4. NodesOf(stack, Depth - 1) \subseteq NodesOf(stack, Depth)
  BY <1>2 DEF NodesOf
<1>5. Clean
  BY <1>1, <1>3, <1>4 DEF Clean, Depth, Upsets
<1>6. Top.node \in seen /\ kind[Top.node] \in Walkable
  BY <1>1, <1>2, StackFacts DEF TypeInv, Top
<1>7. Top.node \notin NodesOf(stack, Depth - 1)
  <2>1. \A j \in 2 .. Depth - 1 : stack[j].node < Top.node
    <3>1. \A j \in 2 .. Depth - 1 : j \in 1 .. Depth /\ j < Depth
      BY <1>1, <1>2
    <3> QED BY <1>1, <1>2, <3>1 DEF TypeInv, OrderOK, Top
  <2>2. Top.node \in Nodes
    BY <1>1, <1>6 DEF TypeInv, CloudTypeOK
  <2>3. Top.node \in Int
    BY <2>2, CloudBounds DEF Nodes
  <2> QED BY <2>1, <2>3 DEF NodesOf
<1>8. kind[Top.node] = "subsystem"
  <2>1. ~Upsets(Top.node)
    BY <1>1, <1>3, <1>6, <1>7 DEF Clean, Upsets, Depth
  <2> QED BY <1>6, <2>1 DEF Upsets, Walkable
<1> QED BY <1>1, <1>5, <1>8, ReturnLists DEF PathInv, PathsOK

LEMMA NextPaths == PathInv /\ [CloudNext]_cloudVars => PathInv'
<1> SUFFICES ASSUME PathInv, [CloudNext]_cloudVars
             PROVE  PathsOK'
  BY NextType DEF PathInv
<1>1. (phase' # "walking") => PathsOK'
  BY DEF PathsOK
<1>2. CASE Load
  <2>1. stack' = <<[node |-> 0, path |-> Nil]>>
    BY <1>2 DEF Load
  <2>2. Len(stack') = 1 /\ stack'[1].path = Nil
    BY <2>1
  <2>3. NodesOf(stack', 1) = {}
    BY DEF NodesOf
  <2>4. Lists(heap', Nil, Subsystems(stack', kind', 1))
    BY <2>3 DEF Lists, Nil, Subsystems
  <2>5. \A i \in 1 .. 1 : i = 1 /\ ~(i < 1)
    OBVIOUS
  <2> QED BY <2>2, <2>4, <2>5 DEF PathsOK, Listing
<1>3. CASE CloudIsDown
  BY <1>1, <1>3 DEF CloudIsDown
<1>4. ASSUME NEW c \in Nodes, Skip(c)
      PROVE  PathsOK'
  <2> SUFFICES ASSUME Clean'
               PROVE  Listing(heap', stack', kind')
    BY DEF PathsOK
  <2>1. TypeInv /\ Next(c) /\ stack' = stack /\ heap' = heap
    BY <1>4 DEF Skip, PathInv
  <2>2. phase = "walking" /\ kind' = kind
    BY <2>1, NextFacts DEF modelVars
  <2>3. Clean
    BY <2>1, CleanBefore DEF Depth
  <2> QED BY <2>1, <2>2, <2>3 DEF PathInv, PathsOK
<1>5. ASSUME NEW c \in Nodes, Take(c)
      PROVE  PathsOK'
  BY <1>5, TakePaths
<1>6. ASSUME NEW c \in Nodes, Descend(c)
      PROVE  PathsOK'
  BY <1>6, DescendPaths
<1>7. CASE Return
  BY <1>7, ReturnPaths
<1>8. CASE Prepared
  BY <1>1, <1>8 DEF Prepared, AfterWalk
<1>9. ASSUME NEW a \in actions, Spawn(a)
      PROVE  PathsOK'
  BY <1>1, <1>9 DEF Spawn
<1>10. CASE Ready
  BY <1>1, <1>10 DEF Ready
<1>11. CASE UNCHANGED cloudVars
  BY <1>11 DEF PathInv, PathsOK, Clean, Upsets, Depth, cloudVars, walkVars, modelVars
<1> QED BY <1>2, <1>3, <1>4, <1>5, <1>6, <1>7, <1>8, <1>9, <1>10, <1>11 DEF CloudNext

LEMMA InitPaths == CloudInit => PathInv
BY InitType DEF CloudInit, PathInv, PathsOK

-----------------------------------------------------------------------------
(* The connector of a read                                                 *)

(* What contains the child that the walk has come to is on the stack.      *)
LEMMA AboveIsStack ==
  ASSUME TypeInv, NEW c \in Nodes, Next(c), NEW p
  PROVE  IsAbove(p, c) <=> p \in NodesOf(stack, Depth)
<1> DEFINE S == NodesOf(stack, Depth)
<1>1. /\ phase = "walking" /\ Depth \in Nat /\ Depth \in 1 .. Depth /\ parent[c] = Top.node
      /\ stack[1].node = 0
      /\ \A i \in 1 .. Depth : stack[i].node < c /\ (i > 1 => AboveIn(parent, stack[i].node, c))
      /\ \A i \in 2 .. Depth : parent[stack[i].node] = stack[i - 1].node
  BY NextFacts, StackFacts DEF TypeInv
<1>2. \A i \in 2 .. Depth : i \in 1 .. Depth /\ i > 1 /\ (i - 1 = 1 \/ i - 1 \in 2 .. Depth)
  BY <1>1
<1>3. ASSUME p \in S
      PROVE  AboveIn(parent, p, c)
  BY <1>1, <1>2, <1>3 DEF NodesOf
<1>4. ASSUME AboveIn(parent, p, c)
      PROVE  p \in S
  <2>1. S \in SUBSET (1 .. c - 1)
    <3>1. S \in SUBSET Nodes
      BY <1>1, NodesFacts
    <3>2. \A n \in S : n < c
      BY <1>1, <1>2 DEF NodesOf
    <3> HIDE DEF S
    <3>3. \A n \in S : n \in 1 .. c - 1
      <4> TAKE n \in S
      <4>1. n \in Nodes /\ n < c
        BY <3>1, <3>2
      <4> QED BY <4>1, CloudBounds DEF Nodes
    <3> QED BY <3>3
  <2>2. parent[c] \in S \cup {0}
    BY <1>1, <1>2 DEF NodesOf, Top
  <2>3. \A m \in S : parent[m] \in S \cup {0}
    <3> SUFFICES ASSUME NEW i \in 2 .. Depth
                 PROVE  parent[stack[i].node] \in S \cup {0}
      BY DEF NodesOf
    <3> QED BY <1>1, <1>2 DEF NodesOf
  <2> HIDE DEF S
  <2> QED BY <1>4, <2>1, <2>2, <2>3 DEF AboveIn
<1>5. IsAbove(p, c) <=> AboveIn(parent, p, c)
  BY DEF IsAbove, AboveIn
<1> QED BY <1>3, <1>4, <1>5

(* The nearest subsystem is the greatest on the stack.                     *)
LEMMA NearestIsGreatest ==
  ASSUME TypeInv, NEW c \in Nodes, Next(c), kind[c] # "polled"
  PROVE  /\ \A p \in Subsystems(stack, kind, Depth) :
               (\A n \in Subsystems(stack, kind, Depth) : n <= p) => Nearest(c) = p
         /\ Subsystems(stack, kind, Depth) = {} => Nearest(c) = 0
<1> DEFINE below == Subsystems(stack, kind, Depth)
           above == {s \in 1 .. c - 1 : kind[s] = "subsystem" /\ IsAbove(s, c)}
<1>1. Depth \in 1 .. Depth /\ \A i \in 1 .. Depth : stack[i].node < c
  BY NextFacts
<1>2. below \in SUBSET Nodes /\ NodesOf(stack, Depth) \in SUBSET Nodes
  BY <1>1, NodesFacts
<1>3. \A n \in NodesOf(stack, Depth) : n \in 1 .. c - 1
  <2>1. \A n \in NodesOf(stack, Depth) : n \in Nodes /\ n < c
    <3>1. \A i \in 2 .. Depth : i \in 1 .. Depth
      BY <1>1, StackFacts DEF TypeInv
    <3> QED BY <1>1, <1>2, <3>1 DEF NodesOf
  <2> QED BY <2>1, CloudBounds DEF Nodes
<1>4. above = below
  BY <1>3, AboveIsStack DEF Subsystems
<1>5. Nearest(c) = Max(below \cup {0})
  BY <1>4 DEF Nearest
<1>6. \A n \in below : n \in Nat
  BY <1>2, CloudBounds DEF Nodes
<1> HIDE DEF below
<1>7. ASSUME NEW p \in below \cup {0}, \A n \in below \cup {0} : n <= p
      PROVE  Max(below \cup {0}) = p
  <2>1. \A n \in below \cup {0} : n \in Int
    BY <1>6
  <2>2. \A n \in below \cup {0} : p >= n
    BY <1>7, <2>1
  <2>3. ASSUME NEW q \in below \cup {0}, \A n \in below \cup {0} : q >= n
        PROVE  q = p
    BY <1>7, <2>1, <2>3
  <2> QED BY <2>2, <2>3 DEF Max
<1>8. ASSUME NEW p \in below, \A n \in below : n <= p
      PROVE  Nearest(c) = p
  <2>1. \A n \in below \cup {0} : n <= p
    BY <1>6, <1>8
  <2> QED BY <1>5, <1>7, <2>1
<1>9. ASSUME below = {}
      PROVE  Nearest(c) = 0
  BY <1>5, <1>7, <1>9
<1> QED BY <1>8, <1>9 DEF below

(* A path that lists ids ends with the greatest, and is empty without.     *)
LEMMA ListsLast ==
  ASSUME NEW h, NEW path \in Paths, NEW ids \in SUBSET Nodes, Lists(h, path, ids)
  PROVE  /\ path.length = 0 => ids = {}
         /\ path.length # 0 => /\ LastId(h, path) \in ids
                               /\ \A n \in ids : n <= LastId(h, path)
<1> DEFINE e(j) == h[path.array][j]
           n == path.length
<1>1. /\ n \in Nat /\ \A j \in 1 .. n : e(j) \in ids
      /\ \A x \in ids : \E j \in 1 .. n : e(j) = x
      /\ \A i, j \in 1 .. n : i < j => e(i) < e(j)
  BY DEF Lists, Paths
<1>2. LastId(h, path) = e(n)
  BY DEF LastId
<1>3. \A x \in ids : x \in Int
  BY CloudBounds DEF Nodes
<1> HIDE DEF e, n
<1>4. n # 0 => n \in 1 .. n
  BY <1>1
<1>5. n = 0 => ids = {}
  BY <1>1
<1>6. ASSUME n # 0, NEW x \in ids
      PROVE  x <= e(n)
  <2>1. PICK j \in 1 .. n : e(j) = x
    BY <1>1
  <2>2. j = n \/ j < n
    BY <1>1
  <2> QED BY <1>1, <1>3, <1>4, <1>6, <2>1, <2>2
<1> QED BY <1>1, <1>2, <1>4, <1>5, <1>6 DEF n

LEMMA TakeIsNearest ==
  ASSUME PathInv, NEW c \in Nodes, Next(c), Reading(c), Clean
  PROVE  LET now == Entered(c)
         IN /\ now.path.length # 0 => LastId(now.heap, now.path) = Nearest(c)
            /\ now.path.length = 0 => Nearest(c) = 0
<1> DEFINE now == Entered(c)
           below == Subsystems(stack, kind, Depth)
<1>1. TypeInv /\ CloudTypeOK /\ phase = "walking" /\ Depth \in 1 .. Depth /\ Top.path \in Paths
  BY NextFacts, StackFacts DEF PathInv, TypeInv
<1>2. CASE kind[c] = "polled"
  <2>1. Extended(Top.path, c, now)
    BY <1>1, <1>2, EnteredFacts DEF Listed
  <2> HIDE DEF now
  <2>2. Top.path.length \in Nat /\ now.path.length = Top.path.length + 1
        /\ now.heap[now.path.array][Top.path.length + 1] = c
    BY <1>1, <2>1 DEF Extended, Paths
  <2>3. now.path.length # 0 /\ LastId(now.heap, now.path) = c
    BY <2>2 DEF LastId
  <2>4. Nearest(c) = c
    BY <1>2 DEF Nearest
  <2> QED BY <2>3, <2>4 DEF now
<1>3. CASE kind[c] # "polled"
  <2>1. ~Listed(c)
    BY <1>3 DEF Listed, Reading
  <2>2. now.heap = heap /\ now.path = Top.path
    BY <1>1, <2>1, TakeSame
  <2> HIDE DEF now
  <2>3. below \in SUBSET Nodes /\ Lists(heap, Top.path, below)
    BY <1>1, NodesFacts DEF PathInv, PathsOK, Listing, Top, Depth
  <2>4. /\ Top.path.length = 0 => below = {}
        /\ Top.path.length # 0 => /\ LastId(heap, Top.path) \in below
                                  /\ \A n \in below : n <= LastId(heap, Top.path)
    BY <1>1, <2>3, ListsLast
  <2>5. /\ \A p \in below : (\A n \in below : n <= p) => Nearest(c) = p
        /\ below = {} => Nearest(c) = 0
    BY <1>1, <1>3, NearestIsGreatest
  <2> HIDE DEF below
  <2> QED BY <2>2, <2>4, <2>5 DEF now
<1> QED BY <1>2, <1>3

(* A read goes to the connector of the subsystem that contains it, as long *)
(* as no other node before it upsets the path (types.go:179-226).          *)
THEOREM ReadsAreConnected == CloudSpec => ConnectorIsNearest
<1> DEFINE Connected == \A a \in actions' \ actions :
                           (\A n \in seen : Upsets(n) => IsAbove(n, a.node))
                              => a.connector = Nearest(a.node)
<1>1. PathInv /\ [CloudNext]_cloudVars => [Connected]_cloudVars
  <2> SUFFICES ASSUME PathInv, CloudNext, NEW a \in actions' \ actions,
                      \A n \in seen : Upsets(n) => IsAbove(n, a.node)
               PROVE  a.connector = Nearest(a.node)
    OBVIOUS
  <2>1. PICK c \in Nodes : Take(c)
    <3>1. actions' # actions
      OBVIOUS
    <3> QED BY <3>1 DEF CloudNext, Load, CloudIsDown, Skip, Descend, Return, Prepared, Spawn,
                        Ready, walkVars
  <2> DEFINE now == Entered(c)
             noted == [name |-> Name(c), node |-> c, connector |-> LastId(now.heap, now.path)]
  <2>2. Next(c) /\ Reading(c)
    BY <2>1 DEF Take
  <2>3. now.path.length # 0 /\ a = noted
    <3>1. \/ now.path.length = 0 /\ actions' = actions
          \/ /\ now.path.length # 0
             /\ actions' = {b \in actions : b.name # Name(c)} \cup {noted}
      BY <2>1 DEF Take
    <3> HIDE DEF now, noted
    <3> QED BY <3>1
  <2>4. a.node = c /\ a.connector = LastId(now.heap, now.path)
    BY <2>3
  <2>5. Clean
    BY <2>2, <2>4, AboveIsStack DEF Clean, PathInv
  <2> HIDE DEF now
  <2> QED BY <2>2, <2>3, <2>4, <2>5, TakeIsNearest DEF now
<1> QED BY <1>1, InitPaths, NextPaths, PTL DEF CloudSpec, ConnectorIsNearest

LEMMA NearestKept ==
  ASSUME UNCHANGED modelVars, NEW n
  PROVE  (Reading(n)' <=> Reading(n)) /\ Nearest(n)' = Nearest(n) /\ (Upsets(n)' <=> Upsets(n))
<1>1. parent' = parent /\ kind' = kind
  BY DEF modelVars
<1>2. \A s : IsAbove(s, n)' <=> IsAbove(s, n)
  BY <1>1 DEF IsAbove
<1>3. {s \in 1 .. n - 1 : kind'[s] = "subsystem" /\ IsAbove(s, n)'}
        = {s \in 1 .. n - 1 : kind[s] = "subsystem" /\ IsAbove(s, n)}
  BY <1>1, <1>2
<1>4. Nearest(n)' = Nearest(n)
  BY <1>1, <1>3 DEF Nearest
<1> QED BY <1>1, <1>4 DEF Reading, Upsets

(* The start panics only when something before upsets the path, over a     *)
(* read outside of every subsystem, or over a command without parameters   *)
(* (types.go:212-218, interceptor.go:199-233).                             *)
THEOREM PanicsHaveReasons == CloudSpec => []DeadHasReason
<1> DEFINE Inv == PathInv /\ DeadHasReason
           reason == \/ variant = "no params"
                     \/ \E n \in seen : Upsets(n)
                     \/ \E r \in Reads \cap seen : Nearest(r) = 0
<1>1. CloudInit => Inv
  BY InitPaths DEF CloudInit, DeadHasReason
<1>2. Inv /\ [CloudNext]_cloudVars => Inv'
  <2> SUFFICES ASSUME PathInv, DeadHasReason, [CloudNext]_cloudVars
               PROVE  DeadHasReason'
    BY NextPaths
  <2>1. UNCHANGED modelVars
    BY DEF CloudNext, Load, CloudIsDown, Skip, Take, Descend, Next, Return, Prepared, Spawn,
           Ready, cloudVars
  <2>2. /\ variant' = variant
        /\ \A n \in Nodes : (Reading(n)' <=> Reading(n)) /\ Nearest(n)' = Nearest(n)
        /\ \A n \in seen' : Upsets(n)' <=> Upsets(n)
    BY <2>1, NearestKept DEF modelVars
  <2>3. ASSUME reason, seen \subseteq seen'
        PROVE  DeadHasReason'
    <3>1. CASE variant = "no params"
      BY <2>2, <3>1 DEF DeadHasReason
    <3>2. CASE \E n \in seen : Upsets(n)
      BY <2>2, <2>3, <3>2 DEF DeadHasReason
    <3>3. CASE \E r \in Reads \cap seen : Nearest(r) = 0
      <4>1. PICK r \in Reads \cap seen : Nearest(r) = 0
        BY <3>3
      <4>2. r \in Reads' /\ Nearest(r)' = 0 /\ r \in seen'
        BY <2>2, <2>3, <4>1 DEF Reads
      <4> QED BY <4>2 DEF DeadHasReason
    <3> QED BY <2>3, <3>1, <3>2, <3>3
  <2>4. CASE phase' # "dead"
    BY <2>4 DEF DeadHasReason
  <2>5. ASSUME phase' = "dead", phase = "dead"
        PROVE  DeadHasReason'
    <3>1. reason
      BY <2>5 DEF DeadHasReason
    <3>2. seen' = seen
      BY <2>5 DEF CloudNext, Load, CloudIsDown, Skip, Take, Descend, Next, Return, Prepared,
                  Spawn, Ready, cloudVars, walkVars
    <3> QED BY <2>3, <3>1, <3>2
  <2>6. ASSUME phase' = "dead", phase # "dead"
        PROVE  Prepared \/ \E c \in Nodes : Take(c)
    BY <2>6 DEF CloudNext, Load, CloudIsDown, Skip, Descend, Return, Spawn, Ready, cloudVars
  <2>7. CASE Prepared /\ phase' = "dead"
    <3>1. variant = "no params" /\ seen' = seen
      BY <2>7 DEF Prepared, AfterWalk
    <3> QED BY <2>3, <3>1
  <2>8. ASSUME NEW c \in Nodes, Take(c), phase' = "dead", phase # "dead"
        PROVE  DeadHasReason'
    <3>1. Next(c) /\ Reading(c) /\ Entered(c).path.length = 0
      BY <2>8 DEF Take
    <3>2. seen' = seen \cup {c} /\ seen \in SUBSET Nodes /\ TypeInv /\ c \notin seen
      BY <3>1, NextFacts DEF PathInv, TypeInv, CloudTypeOK
    <3>3. CASE \E n \in seen : Upsets(n)
      BY <2>3, <3>2, <3>3
    <3>4. CASE ~\E n \in seen : Upsets(n)
      <4>1. Nearest(c) = 0
        BY <3>1, <3>4, TakeIsNearest DEF Clean
      <4>2. c \in Reads' /\ c \in seen' /\ Nearest(c)' = 0
        BY <2>2, <3>1, <3>2, <4>1 DEF Reads
      <4> QED BY <4>2 DEF DeadHasReason
    <3> QED BY <3>3, <3>4
  <2> QED BY <2>4, <2>5, <2>6, <2>7, <2>8
<1> QED BY <1>1, <1>2, PTL DEF CloudSpec

-----------------------------------------------------------------------------
(* What a started core runs                                                *)

(* A node that the walk has returned from has no child left.               *)
WalkedOK ==
  /\ phase = "starting" => seen = {}
  /\ phase = "walking" => \A m \in seen : kind[m] \in Walkable /\ m \notin NodesOf(stack, Depth)
                                             => Ahead(m) = {}
  /\ phase \in {"spawning", "ready"} => seen = Nodes

(* Under every name of a read that was seen there is one action.           *)
ActionsOK ==
  /\ \A a \in actions : a.name = Name(a.node) /\ a.node \in Reads \cap seen
  /\ \A a, b \in actions : a.name = b.name => a = b
  /\ phase # "dead" => \A r \in Reads \cap seen : \E a \in actions : a.name = Name(r)

JobsOK ==
  /\ jobs \cup listening \subseteq {a.node : a \in actions}
  /\ phase \in {"starting", "walking"} => jobs \cup listening = {}
  /\ phase \in {"spawning", "ready"} =>
        (actions # {} => variant \in {"none", "same name"})
  /\ \A n \in jobs \cup listening : kind[n] # "mistyped"
  /\ phase = "ready" => Spawned = actions

DoneInv == TypeInv /\ WalkedOK /\ ActionsOK /\ JobsOK

(* The walk ends when it has seen every node.                              *)
LEMMA AllSeen ==
  ASSUME DoneInv, phase = "walking", Depth = 1, Ahead(Top.node) = {}
  PROVE  seen = Nodes
<1> DEFINE Unseen(n) == n \in Nodes /\ n \notin seen
<1>1. Top.node = 0 /\ NodesOf(stack, Depth) = {} /\ seen \in SUBSET Nodes
  <2>1. stack[1].node = 0
    BY StackFacts DEF DoneInv, TypeInv
  <2> QED BY <2>1 DEF Top, NodesOf, DoneInv, TypeInv, CloudTypeOK
<1>2. \A m \in seen : kind[m] \in Walkable => Ahead(m) = {}
  BY <1>1 DEF DoneInv, WalkedOK
<1> SUFFICES ASSUME NEW n \in Nodes, n \notin seen
             PROVE  FALSE
  BY <1>1
<1>3. \A k \in Nat : (\A m \in 0 .. k - 1 : m \in Nodes => m \in seen)
                        => (k \in Nodes => k \in seen)
  <2> SUFFICES ASSUME NEW k \in Nodes, \A m \in 0 .. k - 1 : m \in Nodes => m \in seen,
                      k \notin seen
               PROVE  FALSE
    OBVIOUS
  <2>1. parent[k] \in 0 .. MaxNodes /\ parent[k] < k /\ k \in Ahead(parent[k])
    BY DEF DoneInv, TypeInv, ModelOK, Ahead
  <2>2. parent[k] # 0
    BY <1>1, <2>1
  <2>3. parent[k] \in Nodes /\ parent[k] \in 0 .. k - 1 /\ kind[parent[k]] \in Walkable
    BY <2>1, <2>2, CloudBounds DEF DoneInv, TypeInv, ModelOK, Nodes
  <2> QED BY <1>2, <2>1, <2>3
<1> DEFINE S == {k \in Nat : k \in Nodes /\ k \notin seen}
<1>4. n \in S /\ S \subseteq Nat
  BY CloudBounds DEF Nodes
<1>5. PICK k \in S : \A m \in S : ~(m < k)
  <2> DEFINE R == OpToRel(<, Nat)
  <2>1. \A x, y : <<x, y>> \in R <=> x \in Nat /\ y \in Nat /\ x < y
    BY DEF OpToRel
  <2>2. \E x \in S : \A y \in S : ~(<<y, x>> \in R)
    <3> HIDE DEF S, R
    <3> QED BY <1>4, NatLessThanWellFounded, WFMin DEF R
  <2> HIDE DEF R
  <2> QED BY <1>4, <2>1, <2>2
<1>6. \A m \in 0 .. k - 1 : m \in Nodes => m \in seen
  <2> SUFFICES ASSUME NEW m \in 0 .. k - 1, m \in Nodes, m \notin seen
               PROVE  FALSE
    OBVIOUS
  <2>1. m \in S /\ m < k
    OBVIOUS
  <2> QED BY <1>5, <2>1
<1> QED BY <1>3, <1>5, <1>6

LEMMA AheadFewer ==
  ASSUME UNCHANGED modelVars, seen \subseteq seen', NEW m, Ahead(m) = {}
  PROVE  Ahead(m)' = {}
BY DEF Ahead, modelVars

LEMMA TreeKept ==
  ASSUME UNCHANGED modelVars
  PROVE  Reads' = Reads /\ (\A n : Name(n)' = Name(n)) /\ variant' = variant /\ kind' = kind
<1>1. kind' = kind /\ variant' = variant
  BY DEF modelVars
<1> QED BY <1>1 DEF Reads, Reading, Name

(* A step of the walk that comes to c.                                     *)
LEMMA WalkStep ==
  ASSUME DoneInv, NEW c \in Nodes, Next(c), phase' # "starting",
         phase' \notin {"spawning", "ready"},
         \A m \in NodesOf(stack, Depth) : phase' = "walking" => m \in NodesOf(stack', Len(stack')),
         phase' = "walking" /\ kind[c] \in Walkable => c \in NodesOf(stack', Len(stack')),
         \/ actions' = actions /\ ~Reading(c)
         \/ phase' = "dead" /\ actions' = actions
         \/ /\ Reading(c)
            /\ \E x : actions' = {a \in actions : a.name # Name(c)} \cup
                                   {[name |-> Name(c), node |-> c, connector |-> x]}
  PROVE  WalkedOK' /\ ActionsOK' /\ JobsOK'
<1>1. /\ phase = "walking" /\ seen' = seen \cup {c} /\ UNCHANGED <<modelVars, jobVars>>
      /\ seen \subseteq seen'
  BY NextFacts DEF DoneInv
<1>2. Reads' = Reads /\ (\A n : Name(n)' = Name(n)) /\ variant' = variant /\ kind' = kind
  BY <1>1, TreeKept
<1>3. WalkedOK'
  <2> SUFFICES ASSUME phase' = "walking", NEW m \in seen', kind[m] \in Walkable,
                      m \notin NodesOf(stack', Len(stack'))
               PROVE  Ahead(m)' = {}
    BY <1>2 DEF WalkedOK, Depth, Walkable
  <2>1. m # c /\ m \in seen /\ m \notin NodesOf(stack, Depth)
    BY <1>1
  <2>2. Ahead(m) = {}
    BY <1>1, <2>1 DEF DoneInv, WalkedOK
  <2> QED BY <1>1, <2>2, AheadFewer
<1>4. ActionsOK'
  <2>1. CASE actions' = actions /\ ~Reading(c)
    <3>1. Reads \cap seen' = Reads \cap seen
      BY <1>1, <2>1 DEF Reads
    <3> QED BY <1>1, <1>2, <2>1, <3>1 DEF DoneInv, ActionsOK
  <2>2. CASE phase' = "dead" /\ actions' = actions
    BY <1>1, <1>2, <2>2 DEF DoneInv, ActionsOK
  <2>3. ASSUME Reading(c), NEW x,
               actions' = {a \in actions : a.name # Name(c)} \cup
                            {[name |-> Name(c), node |-> c, connector |-> x]}
        PROVE  ActionsOK'
    <3> DEFINE noted == [name |-> Name(c), node |-> c, connector |-> x]
    <3>1. /\ noted.name = Name(c) /\ noted.node = c
          /\ actions' = {a \in actions : a.name # Name(c)} \cup {noted}
      BY <2>3
    <3> HIDE DEF noted
    <3>2. c \in Reads \cap seen'
      BY <1>1, <2>3 DEF Reads
    <3>3. \A a \in actions' : a.name = Name(a.node) /\ a.node \in Reads \cap seen'
      BY <1>1, <3>1, <3>2 DEF DoneInv, ActionsOK
    <3>4. \A a, b \in actions' : a.name = b.name => a = b
      BY <3>1 DEF DoneInv, ActionsOK
    <3>5. ASSUME NEW r \in Reads \cap seen'
          PROVE  \E a \in actions' : a.name = Name(r)
      <4>1. CASE Name(r) = Name(c)
        BY <3>1, <4>1
      <4>2. CASE Name(r) # Name(c)
        <5>1. r \in Reads \cap seen
          BY <1>1, <4>2
        <5>2. PICK a \in actions : a.name = Name(r)
          BY <1>1, <5>1 DEF DoneInv, ActionsOK
        <5> QED BY <3>1, <4>2, <5>2
      <4> QED BY <4>1, <4>2
    <3> QED BY <1>2, <3>3, <3>4, <3>5 DEF ActionsOK
  <2> QED BY <2>1, <2>2, <2>3
<1>5. JobsOK'
  <2>1. jobs \cup listening = {} /\ (jobs \cup listening)' = {}
    BY <1>1 DEF DoneInv, JobsOK, jobVars
  <2> QED BY <2>1 DEF JobsOK
<1> QED BY <1>3, <1>4, <1>5

LEMMA InitDone == CloudInit => DoneInv
BY InitType DEF CloudInit, DoneInv, WalkedOK, ActionsOK, JobsOK

LEMMA NextDone == DoneInv /\ [CloudNext]_cloudVars => DoneInv'
<1> SUFFICES ASSUME DoneInv, [CloudNext]_cloudVars
             PROVE  WalkedOK' /\ ActionsOK' /\ JobsOK'
  BY NextType DEF DoneInv
<1>1. TypeInv
  BY DEF DoneInv
<1>2. UNCHANGED modelVars
  BY DEF CloudNext, Load, CloudIsDown, Skip, Take, Descend, Next, Return, Prepared, Spawn,
         Ready, cloudVars
<1>3. Reads' = Reads /\ (\A n : Name(n)' = Name(n)) /\ variant' = variant /\ kind' = kind
  BY <1>2, TreeKept
<1>4. ASSUME seen' = seen, actions' = actions, phase # "dead" \/ phase' = "dead"
      PROVE  ActionsOK'
  BY <1>3, <1>4 DEF DoneInv, ActionsOK
<1>5. CASE Load
  <2>1. phase' = "walking" /\ seen = {} /\ UNCHANGED <<seen, actions, jobVars>> /\ phase = "starting"
    BY <1>5 DEF Load, DoneInv, WalkedOK
  <2>2. WalkedOK'
    BY <2>1 DEF WalkedOK
  <2>3. JobsOK'
    BY <2>1 DEF DoneInv, JobsOK, jobVars
  <2> QED BY <1>4, <2>1, <2>2, <2>3
<1>6. CASE CloudIsDown
  <2>1. phase' = "failed" /\ UNCHANGED <<seen, actions, jobVars>> /\ phase = "starting"
    BY <1>6 DEF CloudIsDown, walkVars
  <2> QED BY <1>4, <2>1 DEF DoneInv, WalkedOK, JobsOK, jobVars
<1>7. ASSUME NEW c \in Nodes, Skip(c)
      PROVE  WalkedOK' /\ ActionsOK' /\ JobsOK'
  <2>1. Next(c) /\ UNCHANGED <<phase, stack, actions>> /\ kind[c] \in {"inactive", "command"}
    BY <1>7 DEF Skip
  <2>2. phase = "walking"
    BY <1>1, <2>1, NextFacts
  <2>3. ~Reading(c) /\ kind[c] \notin Walkable
    BY <2>1 DEF Reading, Walkable
  <2> QED BY <2>1, <2>2, <2>3, WalkStep DEF Depth
<1>8. ASSUME NEW c \in Nodes, Take(c)
      PROVE  WalkedOK' /\ ActionsOK' /\ JobsOK'
  <2> DEFINE x == LastId(Entered(c).heap, Entered(c).path)
  <2>1. /\ Next(c) /\ Reading(c)
        /\ \/ phase' = "dead" /\ actions' = actions
           \/ /\ phase' = phase /\ stack' = Entering(c)
              /\ actions' = {a \in actions : a.name # Name(c)} \cup
                              {[name |-> Name(c), node |-> c, connector |-> x]}
    BY <1>8 DEF Take, Entering
  <2> HIDE DEF x
  <2>2. phase = "walking" /\ CloudTypeOK
    BY <1>1, <2>1, NextFacts DEF TypeInv
  <2>3. kind[c] \notin Walkable
    BY <2>1 DEF Reading, Walkable
  <2>4. CASE phase' = "dead" /\ actions' = actions
    BY <2>1, <2>3, <2>4, WalkStep
  <2>5. CASE /\ phase' = phase /\ stack' = Entering(c)
             /\ actions' = {a \in actions : a.name # Name(c)} \cup
                             {[name |-> Name(c), node |-> c, connector |-> x]}
    <3>1. Len(stack') = Depth /\ \A i \in 1 .. Depth : stack'[i].node = stack[i].node
      BY <2>2, <2>5, EnteringFacts
    <3>2. \A j \in 2 .. Depth : j \in 1 .. Depth
      BY <2>2, StackFacts
    <3>3. NodesOf(stack', Len(stack')) = NodesOf(stack, Depth)
      BY <3>1, <3>2 DEF NodesOf
    <3>4. \E y : actions' = {a \in actions : a.name # Name(c)} \cup
                              {[name |-> Name(c), node |-> c, connector |-> y]}
      BY <2>5
    <3>5. phase' # "starting" /\ phase' \notin {"spawning", "ready"}
      BY <2>2, <2>5
    <3> QED BY <2>1, <2>3, <3>3, <3>4, <3>5, WalkStep
  <2> QED BY <2>1, <2>4, <2>5
<1>9. ASSUME NEW c \in Nodes, Descend(c)
      PROVE  WalkedOK' /\ ActionsOK' /\ JobsOK'
  <2>1. /\ Next(c) /\ kind[c] \in Walkable /\ phase' = phase /\ actions' = actions
        /\ Len(stack') = Depth + 1 /\ stack'[Depth + 1].node = c
        /\ \A i \in 1 .. Depth : stack'[i].node = stack[i].node
    BY <1>1, <1>9, DescendFacts
  <2>2. phase = "walking" /\ Depth \in Nat /\ Depth \in 1 .. Depth
    BY <1>1, <2>1, NextFacts, StackFacts DEF TypeInv
  <2>3. ~Reading(c)
    BY <2>1 DEF Reading, Walkable
  <2>4. /\ Depth + 1 \in 2 .. Depth + 1
        /\ \A j \in 2 .. Depth : j \in 1 .. Depth /\ j \in 2 .. Depth + 1
    BY <2>2
  <2>5. /\ \A m \in NodesOf(stack, Depth) : m \in NodesOf(stack', Len(stack'))
        /\ c \in NodesOf(stack', Len(stack'))
    BY <2>1, <2>4 DEF NodesOf
  <2> QED BY <2>1, <2>2, <2>3, <2>5, WalkStep
<1>10. CASE Return
  <2>1. /\ phase = "walking" /\ phase' = phase /\ UNCHANGED <<seen, actions, jobVars>>
        /\ Depth \in Nat /\ Depth > 1 /\ Ahead(Top.node) = {} /\ Len(stack') = Depth - 1
        /\ \A i \in 1 .. Depth - 1 : i \in 1 .. Depth /\ stack'[i].node = stack[i].node
    BY <1>1, <1>10, ReturnFacts
  <2>2. /\ Depth \in 1 .. Depth
        /\ \A j \in 2 .. Depth - 1 : j \in 1 .. Depth - 1
    BY <2>1
  <2>3. NodesOf(stack', Len(stack')) = NodesOf(stack, Depth - 1)
    BY <2>1, <2>2 DEF NodesOf
  <2>4. NodesOf(stack, Depth) = NodesOf(stack, Depth - 1) \cup {Top.node}
    BY <1>1, <2>1, <2>2, NodesFacts DEF Top
  <2>5. WalkedOK'
    <3> SUFFICES ASSUME NEW m \in seen, kind[m] \in Walkable,
                        m \notin NodesOf(stack', Len(stack'))
                 PROVE  Ahead(m)' = {}
      BY <1>3, <2>1 DEF WalkedOK, Depth, Walkable
    <3>1. Ahead(m) = {}
      BY <2>1, <2>3, <2>4 DEF DoneInv, WalkedOK
    <3> QED BY <1>2, <2>1, <3>1, AheadFewer
  <2>6. JobsOK'
    BY <2>1 DEF DoneInv, JobsOK, jobVars
  <2> QED BY <1>4, <2>1, <2>5, <2>6
<1>11. CASE Prepared
  <2>1. /\ phase = "walking" /\ UNCHANGED <<seen, actions, jobVars>>
        /\ Depth = 1 /\ Ahead(Top.node) = {}
        /\ phase' = IF variant = "bad expression" THEN "failed" ELSE AfterWalk
    BY <1>11 DEF Prepared
  <2>2. seen' = Nodes
    BY <2>1, AllSeen
  <2>3. /\ phase' \in {"failed", "dead", "spawning"}
        /\ phase' = "spawning" /\ actions # {} =>
              variant \notin {"bad expression", "no such command", "bad payload", "no params"}
    BY <2>1 DEF AfterWalk
  <2>4. WalkedOK'
    BY <2>2, <2>3 DEF WalkedOK
  <2>5. variant \in Variants
    BY <1>1 DEF TypeInv, ModelOK
  <2>6. JobsOK'
    <3>1. jobs \cup listening = {} /\ (jobs \cup listening)' = {}
      BY <2>1 DEF DoneInv, JobsOK, jobVars
    <3> QED BY <1>3, <2>1, <2>3, <2>5, <3>1 DEF JobsOK, Variants
  <2> QED BY <1>4, <2>1, <2>3, <2>4, <2>6
<1>12. ASSUME NEW a \in actions, Spawn(a)
       PROVE  WalkedOK' /\ ActionsOK' /\ JobsOK'
  <2>1. /\ phase = "spawning" /\ UNCHANGED <<seen, actions>>
        /\ \/ phase' = "failed" /\ UNCHANGED jobVars
           \/ /\ kind[a.node] # "mistyped" /\ phase' = phase
              /\ (jobs \cup listening)' = jobs \cup listening \cup {a.node}
    BY <1>12 DEF Spawn, walkVars
  <2>2. WalkedOK'
    BY <2>1 DEF DoneInv, WalkedOK
  <2>3. JobsOK'
    <3>1. CASE phase' = "failed" /\ UNCHANGED jobVars
      BY <1>3, <2>1, <3>1 DEF DoneInv, JobsOK, jobVars
    <3>2. CASE /\ kind[a.node] # "mistyped" /\ phase' = phase
               /\ (jobs \cup listening)' = jobs \cup listening \cup {a.node}
      BY <1>3, <2>1, <3>2 DEF DoneInv, JobsOK
    <3> QED BY <2>1, <3>1, <3>2
  <2> QED BY <1>4, <2>1, <2>2, <2>3
<1>13. CASE Ready
  <2>1. phase = "spawning" /\ phase' = "ready" /\ UNCHANGED <<seen, actions, jobVars>>
        /\ Spawned = actions
    BY <1>13 DEF Ready, walkVars
  <2>2. WalkedOK'
    BY <2>1 DEF DoneInv, WalkedOK
  <2>3. Spawned' = actions'
    BY <2>1 DEF Spawned, jobVars
  <2>4. JobsOK'
    BY <1>3, <2>1, <2>3 DEF DoneInv, JobsOK, jobVars
  <2> QED BY <1>4, <2>1, <2>2, <2>4
<1>14. CASE UNCHANGED cloudVars
  <2>1. UNCHANGED <<phase, stack, seen, actions, jobVars>>
    BY <1>14 DEF cloudVars, walkVars
  <2>2. WalkedOK'
    <3>1. Depth' = Depth /\ (\A m : Ahead(m) = {} => Ahead(m)' = {})
      BY <1>2, <2>1, AheadFewer DEF Depth
    <3> QED BY <1>3, <2>1, <3>1 DEF DoneInv, WalkedOK, Walkable
  <2>3. JobsOK'
    <3>1. Spawned' = Spawned
      BY <2>1 DEF Spawned, jobVars
    <3> QED BY <1>3, <2>1, <3>1 DEF DoneInv, JobsOK, jobVars
  <2> QED BY <1>4, <2>1, <2>2, <2>3
<1> QED BY <1>5, <1>6, <1>7, <1>8, <1>9, <1>10, <1>11, <1>12, <1>13, <1>14 DEF CloudNext

(* A core that has started runs every read of its model, and only models   *)
(* without a fault: a start that a read of an unknown type has ended in    *)
(* the middle never counts as one.  Of reads with one name it runs one     *)
(* (types.go:217, interceptor.go:239-257).                                 *)
THEOREM StartedCoreRunsAll == CloudSpec => []ReadyIsComplete
<1>1. DoneInv => ReadyIsComplete
  <2> SUFFICES ASSUME DoneInv, phase = "ready"
               PROVE  /\ Reads # {} => variant \in {"none", "same name"}
                      /\ \A r \in jobs \cup listening : kind[r] # "mistyped"
                      /\ variant = "same name" =>
                            (Reads # {} => \E r \in Reads : jobs \cup listening = {r})
                      /\ variant # "same name" => jobs \cup listening = Reads
    BY DEF ReadyIsComplete
  <2> DEFINE running == jobs \cup listening
  <2>1. /\ \A a \in actions : a.node \in running /\ a.node \in Reads /\ a.name = Name(a.node)
        /\ \A a, b \in actions : a.name = b.name => a = b
        /\ \A r \in Reads : \E a \in actions : a.name = Name(r)
        /\ \A n \in running : \E a \in actions : a.node = n
    <3>1. Reads \cap seen = Reads
      BY DEF DoneInv, WalkedOK, Reads
    <3> QED BY <3>1 DEF DoneInv, ActionsOK, JobsOK, Spawned
  <2>2. Reads # {} => variant \in {"none", "same name"}
    <3>1. Reads # {} => actions # {}
      BY <2>1
    <3> QED BY <3>1 DEF DoneInv, JobsOK
  <2> HIDE DEF running
  <2>3. ASSUME variant = "same name", NEW r \in Reads
        PROVE  \E q \in Reads : running = {q}
    <3>1. PICK a \in actions : a.name = Name(r)
      BY <2>1
    <3>2. \A b \in actions : b = a
      BY <2>1, <2>3 DEF Name
    <3>3. running = {a.node} /\ a.node \in Reads
      BY <2>1, <3>2
    <3> QED BY <3>3
  <2>4. ASSUME variant # "same name"
        PROVE  running = Reads
    <3>1. \A n : Name(n) = n
      BY <2>4 DEF Name
    <3> QED BY <2>1, <3>1
  <2>5. \A r \in running : kind[r] # "mistyped"
    BY DEF DoneInv, JobsOK, running
  <2> QED BY <2>2, <2>3, <2>4, <2>5 DEF running
<1> QED BY <1>1, InitDone, NextDone, PTL DEF CloudSpec
=============================================================================
