---------------------------- MODULE MCConnectors ----------------------------
EXTENDS Connectors

CONSTANTS n1, n2

(* Bits and registers; lists longer than the client lets pass; nine items  *)
(* are one more than half of the 16 numbers a word of four bits has.       *)
MCNumbers == {-1, 0, 1, 4, 16}
MCLists ==
    [1..4 -> {0, 1}]
        \cup {<<>>, <<0, 1, 1>>, <<1, 2>>, <<15>>, <<0, 15>>, <<15, -1>>}
        \cup {[i \in 1..8 |-> 15], <<15, -1>> \o [i \in 1..7 |-> 15],
              <<-1>> \o [i \in 1..7 |-> 15]}

(* Two nodes that refer to each other and to themselves; the last node may *)
(* be one that cannot be read, or one that cannot be written; one keeps    *)
(* even numbers only.                                                      *)
MCTypes == {(n1 :> "string" @@ n2 :> "narrow"), (n1 :> "rounded" @@ n2 :> "wide")}
MCRounded(v) == v - (v % 2)

(* All references of all nodes, or one or none of one kind of one node.    *)
MCCuts ==
    LET all == [n \in Nodes |-> [kind \in Kinds |-> 2]]
    IN  {all} \cup {[all EXCEPT ![n][kind] = count] :
                       n \in Nodes, kind \in {"HasComponent", "Organizes"}, count \in 0..1}

MCServers ==
    {[variable |-> variable, broken |-> broken, type |-> type,
      readOnly |-> IF type[n1] = "string" THEN {n2} ELSE {},
      refs |-> [n \in Nodes |-> ("HasComponent" :> component[n] @@ "Organizes" :> organizes
                                   @@ "HasProperty" :> <<>>)]] :
        variable \in {{n2}, Nodes}, broken \in {{}, {n2}}, type \in MCTypes,
        component \in [Nodes -> {<<>>, <<n2>>, <<n1, n2>>}], organizes \in {<<>>, <<n1>>}}
=============================================================================
