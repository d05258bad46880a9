---------------------------- MODULE OpcuaHandler ---------------------------
(***************************************************************************)
(* The OPC-UA connector (src/internal/app/opcua/handler: handler.go,       *)
(* browse.go) with the server at the other end of gopcua.  A node has a    *)
(* class, references of three kinds in the server's order, and, if it is a *)
(* variable, a type and a value.  Values are numbers; Blank is the empty   *)
(* string, Null a value that is not there, NotText one not given as text.  *)
(***************************************************************************)
EXTENDS Handler, SequencesExt

CONSTANTS
    Nodes,
    Servers,    \* what a server may hold: records as in ServerType below
    MaxLevel,   \* 10: browse does not look below it
    Cuts,       \* of a node's references of a kind, how many a server gives
    Top,        \* the values a node may hold are 0..Top
    Rounded(_)  \* the value a "rounded" node keeps of another

VARIABLES
    server,     \* the server's nodes
    data        \* [Nodes -> values]

opcuaVars == <<server, data>>

Blank == -1
NotText == -2
Null == -3

(* browseChildren is called for these kinds of reference, in this order.   *)
RefTypes == <<"HasComponent", "Organizes", "HasProperty">>
Kinds == Range(RefTypes)

(* Of a node: is it a variable, its references, whether its attributes can *)
(* be read, and whether it can be written.  Types: "narrow" holds less     *)
(* than the others ("wide", "string"), "rounded" not every number (Float,  *)
(* and DateTime with its 100 ns); "other" is one write does not know.      *)
ServerType ==
    [variable : SUBSET Nodes, refs : [Nodes -> [Kinds -> Seq(Nodes)]],
     broken : SUBSET Nodes, readOnly : SUBSET Nodes,
     type : [Nodes -> {"narrow", "wide", "rounded", "string", "other"}]]

ASSUME ServerAssumption ==
    /\ Servers \subseteq ServerType /\ Top \in Nat /\ MaxLevel \in Nat
    /\ Cuts \subseteq [Nodes -> [Kinds -> Nat]]
    /\ \A v \in 0..Top : Rounded(v) \in 0..Top /\ Rounded(Rounded(v)) = Rounded(v)

OpcuaSame == UNCHANGED opcuaVars
OpcuaRefuse(op) == Call([op |-> op], Error) /\ OpcuaSame

Unseen == [variable |-> {}]

OpcuaInit ==
    /\ server = Unseen
    /\ data = [n \in Nodes |-> Null]

(* New looks for an endpoint and connects; what the server holds is seen   *)
(* for the first time.                                                     *)
OpcuaOpen ==
    \/ Open(FALSE, FALSE) /\ OpcuaSame
    \/ /\ Open(TRUE, TRUE)
       /\ IF server = Unseen THEN server' \in Servers ELSE UNCHANGED server
       /\ UNCHANGED data

\* ----------------------------------------------------------- read and write
ReadNode(n) ==
    \/ OpcuaRefuse("read")
    \/ /\ n \notin server.broken /\ data[n] # Null
       /\ Call([op |-> "read", node |-> n], Result(<<data[n]>>))
       /\ OpcuaSame

(* A node without a value is no result: Serve panics over that outside of  *)
(* the recover in call, and the process ends (jsonrpc.go:281-283).         *)
ReadNothing(n) ==
    /\ n \notin server.broken /\ data[n] = Null
    /\ up /\ up' = FALSE
    /\ asked' = [op |-> "read", node |-> n]
    /\ reply' = Panic
    /\ OpcuaSame

(* What write turns the text into for the type the node reports; Null if   *)
(* it does not parse or does not fit.  A number between two floats and a   *)
(* time between two ticks are no error.                                    *)
Converted(type, value) ==
    CASE type = "string" -> IF value = NotText THEN Blank ELSE value
      [] type = "narrow" -> IF value \in 0..Top - 1 THEN value ELSE Null
      [] type = "wide" -> IF value \in 0..Top THEN value ELSE Null
      [] type = "rounded" -> IF value \in 0..Top THEN Rounded(value) ELSE Null
      [] OTHER -> Null

(* The type is read from the node's value: a node that holds none has no   *)
(* type write knows.                                                       *)
GetType(n) == IF data[n] = Null THEN "other" ELSE server.type[n]

(* The server's status is the result, good (0) or bad (1).                 *)
WriteNode(n, value) ==
    \/ OpcuaRefuse("write")
    \/ /\ n \notin server.broken
       /\ Converted(GetType(n), value) # Null
       /\ data' = IF n \in server.readOnly THEN data
                  ELSE [data EXCEPT ![n] = Converted(GetType(n), value)]
       /\ \/ Call([op |-> "write", node |-> n, value |-> value],
                  Result(<<IF n \in server.readOnly THEN 1 ELSE 0>>))
          \/ Call([op |-> "write"], Error)
       /\ UNCHANGED server

ValuesOf(type) ==
    CASE type = "narrow" -> 0..Top - 1
      [] type = "rounded" -> {v \in 0..Top : Rounded(v) = v}
      [] OTHER -> 0..Top

(* The process the server stands for gives a variable a value.             *)
Produce(n) ==
    /\ up /\ n \in server.variable
    /\ \E v \in ValuesOf(server.type[n]) : data' = [data EXCEPT ![n] = v]
    /\ asked' = Idle
    /\ UNCHANGED <<up, reply, server>>

\* ------------------------------------------------------------------- browse
(* gopcua looks at no status of a browse, the first one or the ones that   *)
(* continue it (node.go:192-213): of a node's references of a kind it      *)
(* returns the first ones, or none, when the server refuses the others.    *)
Returned(cut) ==
    [n \in Nodes |-> [kind \in Kinds |->
        LET list == server.refs[n][kind]
        IN  SubSeq(list, 1, IF cut[n][kind] < Len(list) THEN cut[n][kind]
                                                        ELSE Len(list))]]

(* browse and buildNodeList: nothing below the last level; a node whose    *)
(* attributes cannot be read makes the whole call fail; a variable, then   *)
(* what its components, its organized nodes and its properties list.       *)
(* mutant of Cut: one level less *)
CutEarly(level) == level >= MaxLevel

Cut(level) == level > MaxLevel

Browsed(found) == [ok |-> TRUE, nodes |-> found]
BrowseFails == [ok |-> FALSE, nodes |-> <<>>]

Children(refs, n) == FlattenSeq([k \in DOMAIN RefTypes |-> refs[n][RefTypes[k]]])

Browse(refs, root) ==
    LET from[level \in 0..MaxLevel + 1] ==
          [n \in Nodes |->
             IF Cut(level) THEN Browsed(<<>>)
             ELSE IF n \in server.broken THEN BrowseFails
             ELSE LET below == [i \in DOMAIN Children(refs, n) |->
                                  from[level + 1][Children(refs, n)[i]]]
                      own == IF n \in server.variable THEN <<n>> ELSE <<>>
                  IN IF \E i \in DOMAIN below : ~below[i].ok THEN BrowseFails
                     ELSE Browsed(own \o FlattenSeq([i \in DOMAIN below |-> below[i].nodes]))]
    IN from[0][root]

BrowseNode(n) ==
    \/ OpcuaRefuse("browse")
    \/ \E cut \in Cuts :
          /\ Browse(Returned(cut), n).ok
          /\ Call([op |-> "browse", node |-> n, given |-> Returned(cut)],
                  Result(Browse(Returned(cut), n).nodes))
          /\ OpcuaSame

OpcuaClose == up /\ up' = FALSE /\ UNCHANGED <<asked, reply>> /\ OpcuaSame

OpcuaNext ==
    \/ OpcuaOpen
    \/ up /\ \E n \in Nodes :
         \/ ReadNode(n)
         \/ ReadNothing(n)
         \/ \E value \in (0..Top + 1) \cup {NotText} : WriteNode(n, value)
         \/ BrowseNode(n)
         \/ Produce(n)
    \/ OpcuaClose
    \/ UnknownMethod /\ OpcuaSame

\* --------------------------------------------------------------- properties
(* What a write that succeeds leaves: a string given without quotes is     *)
(* stored as empty, and a Float or a DateTime keeps what it can hold of    *)
(* the value (handler.go:313-319, 402-410).                                *)
Kept(type, value) ==
    IF value = NotText THEN Blank
    ELSE IF type = "rounded" THEN Rounded(value) ELSE value

(* A good status means that the node holds the value but for those two     *)
(* exceptions, and that no other node changed; a bad one that none did     *)
(* (handler.go:140-438).                                                   *)
OpcuaWriteIsDone ==
    [][(reply'.kind = "result" /\ asked'.op = "write") =>
          IF reply'.value = <<0>>
          THEN \A n \in Nodes :
                  data'[n] = IF n = asked'.node
                             THEN Kept(server.type[n], asked'.value) ELSE data[n]
          ELSE data' = data]_<<handlerVars, opcuaVars>>

(* What a node refers to: which reference of which kind, and its target.   *)
References(refs, n) ==
    UNION {{<<kind, i, refs[n][kind][i]>> : i \in DOMAIN refs[n][kind]} : kind \in Kinds}

(* The paths of at most MaxLevel references that begin at a node, and the  *)
(* node where one ends.                                                    *)
PathsFrom(refs, n) ==
    {p \in SeqOf(UNION {References(refs, m) : m \in Nodes}, MaxLevel) :
        \A i \in DOMAIN p : p[i] \in References(refs, IF i = 1 THEN n ELSE p[i - 1][3])}

End(n, p) == IF p = <<>> THEN n ELSE p[Len(p)][3]

(* browse lists a variable once for every path to it of at most MaxLevel   *)
(* references that the server gave, and nothing else; it answers only when *)
(* the attributes of every node on such a path can be read.  References    *)
(* that the server refused are left out without an error (browse.go:59-83, *)
(* 166-205).                                                               *)
BrowseIsExact ==
    (reply.kind = "result" /\ asked.op = "browse") =>
        LET paths == PathsFrom(asked.given, asked.node)
            to(n) == {p \in paths : End(asked.node, p) = n}
        IN /\ \A n \in server.broken : to(n) = {}
           /\ \A n \in Nodes :
                 Cardinality({i \in DOMAIN reply.value : reply.value[i] = n})
                   = IF n \in server.variable THEN Cardinality(to(n)) ELSE 0
=============================================================================
