------------------------------ MODULE CloudModel ------------------------------
(***************************************************************************)
(* How the core gets its jobs: LoadObject and LoadModel, the walk over the *)
(* tree of the model (internal/pkg/core/cloud/types.go) and spawnJobs      *)
(* (internal/app/core/rpc/interceptor.go).                                 *)
(*                                                                         *)
(* A node is a number larger than its parent's; children come in the order *)
(* of their numbers.  walk calls itself for the children of a node: its    *)
(* calls are a stack.  The path of a call is a Go slice, an array and a    *)
(* length: who appends to it may write into the array of its caller.       *)
(***************************************************************************)
EXTENDS Integers, Sequences, SequencesExt

CONSTANT MaxNodes
ASSUME CloudBounds == MaxNodes \in Nat

Nodes == 1 .. MaxNodes

(* Type and read configuration: "group" is every other type without a read *)
(* command, "polled" a subsystem with one, "mistyped" a read of an unknown *)
(* type.                                                                   *)
Kinds == {"subsystem", "polled", "command", "schedule", "subscribe", "mistyped",
          "group", "inactive"}
(* What is unusual about the reads of a model.                             *)
Variants == {"none", "same name", "no such command", "bad payload", "no params",
             "bad expression"}

VARIABLES
    parent,    \* of each node, 0 at the top
    kind,      \* of each node
    variant,   \* what is unusual
    phase,     \* "starting", "walking", "spawning", "ready", "failed" or "dead"
    stack,     \* the calls of walk: of each the node and its path
    heap,      \* the arrays of the paths
    seen,      \* the nodes that the loops have come to
    actions,   \* Model.actions: under each name a node and its connector
    jobs,      \* reads handed to the cron library
    listening  \* reads that were subscribed

modelVars == <<parent, kind, variant>>
walkVars == <<stack, heap, seen, actions>>
jobVars == <<jobs, listening>>
cloudVars == <<modelVars, phase, walkVars, jobVars>>

Name(n) == IF variant = "same name" THEN 0 ELSE n
Reading(n) == kind[n] \in {"polled", "schedule", "subscribe", "mistyped"}
Walkable == {"subsystem", "group"}

-----------------------------------------------------------------------------
(* The slice `path`: an array of the heap and a length                     *)

Nil == [array |-> 0, length |-> 0]

(* append doubles the capacity when it has to move.                        *)
Grown(path, x) ==
    [i \in 1 .. IF path.length = 0 THEN 1 ELSE 2 * path.length |->
        IF i <= path.length THEN heap[path.array][i]
        ELSE IF i = path.length + 1 THEN x ELSE 0]

HasRoom(path) == path.array # 0 /\ path.length < Len(heap[path.array])

Appended(path, x) ==
    IF HasRoom(path)
      THEN [heap |-> [heap EXCEPT ![path.array][path.length + 1] = x],
            path |-> [path EXCEPT !.length = @ + 1]]
      ELSE [heap |-> Append(heap, Grown(path, x)),
            path |-> [array |-> Len(heap) + 1, length |-> path.length + 1]]

\* Mutant of Dropped: one id too many.
DroppedTwo(path) == [path EXCEPT !.length = IF @ > 1 THEN @ - 2 ELSE 0]

Dropped(path) == [path EXCEPT !.length = IF @ > 0 THEN @ - 1 ELSE @]

\* Mutant of LastId: the connector is that of the first subsystem.
FirstId(h, path) == h[path.array][1]

(* path[len(path)-1]                                                       *)
LastId(h, path) == h[path.array][path.length]

-----------------------------------------------------------------------------
(* walk                                                                    *)

Depth == Len(stack)
Top == stack[Depth]
Ahead(n) == {k \in Nodes : parent[k] = n /\ k \notin seen}

(* The loop of the topmost call comes to its next child.                   *)
Next(c) ==
    /\ phase = "walking"
    /\ c \in Ahead(Top.node)
    /\ \A k \in Ahead(Top.node) : c <= k
    /\ seen' = seen \cup {c}
    /\ UNCHANGED <<modelVars, jobVars>>

Skip(c) ==
    /\ Next(c)
    /\ kind[c] \in {"inactive", "command"}
    /\ UNCHANGED <<phase, stack, heap, actions>>

(* The id of a subsystem goes on the path.                                 *)
Entered(c) ==
    IF kind[c] \in {"subsystem", "polled"} THEN Appended(Top.path, c)
    ELSE [heap |-> heap, path |-> Top.path]

(* A read is noted under the name of its parameter; without a subsystem    *)
(* walk panics.                                                            *)
Take(c) ==
    /\ Next(c)
    /\ Reading(c)
    /\ LET now == Entered(c)
       IN IF now.path.length = 0
            THEN phase' = "dead" /\ UNCHANGED <<stack, heap, actions>>
            ELSE /\ actions' = {a \in actions : a.name # Name(c)} \cup
                                 {[name |-> Name(c), node |-> c,
                                   connector |-> LastId(now.heap, now.path)]}
                 /\ stack' = [stack EXCEPT ![Depth].path = now.path]
                 /\ heap' = now.heap
                 /\ UNCHANGED phase

(* The callee gets a copy of the path, and the same array.                 *)
Descend(c) ==
    /\ Next(c)
    /\ kind[c] \in Walkable
    /\ LET now == Entered(c)
       IN /\ stack' = Append([stack EXCEPT ![Depth].path = now.path],
                             [node |-> c, path |-> now.path])
          /\ heap' = now.heap
    /\ UNCHANGED <<phase, actions>>

Return ==
    /\ phase = "walking"
    /\ Depth > 1
    /\ Ahead(Top.node) = {}
    /\ stack' = [i \in 1 .. Depth - 1 |->
                    IF i < Depth - 1 THEN stack[i]
                    ELSE [stack[i] EXCEPT !.path = Dropped(@)]]
    /\ UNCHANGED <<modelVars, phase, heap, seen, actions, jobVars>>

(* afterWalk and fillPayload: `failed`, or `dead` when the parameters of a *)
(* command are a nil map.                                                  *)
AfterWalk ==
    IF actions # {} /\ variant \in {"no such command", "bad payload", "no params"}
      THEN IF variant = "no params" THEN "dead" ELSE "failed"
      ELSE "spawning"

-----------------------------------------------------------------------------

(* What other nodes contain is not walked into; it is left out.            *)
CloudInit ==
    /\ kind \in [Nodes -> Kinds]
    /\ parent \in [Nodes -> 0 .. MaxNodes]
    /\ \A n \in Nodes : /\ parent[n] < n
                        /\ parent[n] # 0 => kind[parent[n]] \in Walkable
    /\ variant \in Variants
    /\ phase = "starting"
    /\ stack = <<>> /\ heap = <<>> /\ seen = {}
    /\ actions = {} /\ jobs = {} /\ listening = {}

(* LoadObject and LoadModel up to the walk.                                *)
Load ==
    /\ phase = "starting"
    /\ phase' = "walking"
    /\ stack' = <<[node |-> 0, path |-> Nil]>>
    /\ UNCHANGED <<modelVars, heap, seen, actions, jobVars>>

CloudIsDown ==
    /\ phase = "starting"
    /\ phase' = "failed"
    /\ UNCHANGED <<modelVars, walkVars, jobVars>>

(* The rest of prepare, and the expressions of the model.                  *)
Prepared ==
    /\ phase = "walking"
    /\ Depth = 1 /\ Ahead(Top.node) = {}
    /\ phase' = IF variant = "bad expression" THEN "failed" ELSE AfterWalk
    /\ stack' = <<>>
    /\ UNCHANGED <<modelVars, heap, seen, actions, jobVars>>

Spawned == {a \in actions : a.node \in jobs \cup listening}

\* Mutant of Spawn: what is no subscription is taken for a schedule.
SpawnAny(a) ==
    /\ phase = "spawning"
    /\ a \notin Spawned
    /\ IF kind[a.node] = "subscribe"
         THEN listening' = listening \cup {a.node} /\ UNCHANGED jobs
         ELSE jobs' = jobs \cup {a.node} /\ UNCHANGED listening
    /\ UNCHANGED <<modelVars, walkVars, phase>>

(* spawnJobs takes the actions in any order and stops at the first error;  *)
(* what it has started until then goes on.                                 *)
Spawn(a) ==
    /\ phase = "spawning"
    /\ a \notin Spawned
    /\ IF kind[a.node] = "mistyped"
         THEN phase' = "failed" /\ UNCHANGED jobVars
         ELSE /\ IF kind[a.node] = "subscribe"
                   THEN listening' = listening \cup {a.node} /\ UNCHANGED jobs
                   ELSE jobs' = jobs \cup {a.node} /\ UNCHANGED listening
              /\ UNCHANGED phase
    /\ UNCHANGED <<modelVars, walkVars>>

Ready ==
    /\ phase = "spawning"
    /\ Spawned = actions
    /\ phase' = "ready"
    /\ UNCHANGED <<modelVars, walkVars, jobVars>>

CloudNext ==
    \/ Load
    \/ CloudIsDown
    \/ \E c \in Nodes : Skip(c) \/ Take(c) \/ Descend(c)
    \/ Return
    \/ Prepared
    \/ \E a \in actions : Spawn(a)
    \/ Ready

CloudSpec == CloudInit /\ [][CloudNext]_cloudVars

-----------------------------------------------------------------------------
(* The reference: what contains a node, and the nodes whose visit takes an *)
(* id from the path that they have not put there, or leaves one.           *)

(* p is in every set that holds with a node what contains it, and holds    *)
(* what contains n.                                                        *)
IsAbove(p, n) ==
    \A S \in SUBSET (1 .. n - 1) :
        (\A m \in S \cup {n} : parent[m] \in S \cup {0}) => p \in S

(* The innermost subsystem that contains n, 0 if there is none.            *)
Nearest(n) ==
    IF kind[n] = "polled" THEN n
    ELSE Max({s \in 1 .. n - 1 : kind[s] = "subsystem" /\ IsAbove(s, n)} \cup {0})

Reads == {n \in Nodes : Reading(n)}
Upsets(n) == kind[n] \in {"group", "polled"}

(* A path lies within its array, and a call of walk was made for a child   *)
(* of its caller's node (types.go:172-229).                                *)
PathOK(path) ==
    /\ path.array \in 0 .. Len(heap)
    /\ path.length \in 0 .. IF path.array = 0 THEN 0 ELSE Len(heap[path.array])

CloudTypeOK ==
    /\ heap \in Seq(Seq(0 .. MaxNodes))
    /\ stack \in Seq([node : 0 .. MaxNodes, path : [array : Nat, length : Nat]])
    /\ seen \in SUBSET Nodes
    /\ phase = "walking" => Depth > 0 /\ stack[1].node = 0
    /\ \A i \in 1 .. Depth : PathOK(stack[i].path)
    /\ \A i \in 2 .. Depth : /\ stack[i].node \in seen
                             /\ parent[stack[i].node] = stack[i - 1].node
                             /\ kind[stack[i].node] \in Walkable

(* A read goes to the connector of the subsystem that contains it, as long *)
(* as no other node before it upsets the path: a parameter without a read  *)
(* command, or a subsystem with one (types.go:179-226).                    *)
ConnectorIsNearest ==
    [][\A a \in actions' \ actions :
          (\A n \in seen : Upsets(n) => IsAbove(n, a.node))
             => a.connector = Nearest(a.node)]_cloudVars

(* The start panics only when something before upsets the path, over a     *)
(* read outside of every subsystem, or over a command without parameters.  *)
DeadHasReason ==
    phase = "dead" => \/ variant = "no params"
                      \/ \E n \in seen : Upsets(n)
                      \/ \E r \in Reads \cap seen : Nearest(r) = 0

(* A core that has started runs every read of its model, and only models   *)
(* without a fault: a start that a read of an unknown type has ended in    *)
(* the middle never counts as one.  Of reads with one name it runs one     *)
(* (types.go:217, interceptor.go:239-257).                                 *)
ReadyIsComplete ==
    phase = "ready" =>
        /\ Reads # {} => variant \in {"none", "same name"}
        /\ \A r \in jobs \cup listening : kind[r] # "mistyped"
        /\ IF variant = "same name"
             THEN Reads # {} => \E r \in Reads : jobs \cup listening = {r}
             ELSE jobs \cup listening = Reads
=============================================================================
