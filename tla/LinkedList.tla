----------------------------- MODULE LinkedList -----------------------------
(***************************************************************************)
(* Singly linked lists, for the properties of the lock-free containers and *)
(* the memory pools.  The list of pointer b is b, f[b], f[f[b]] and so on  *)
(* up to end, which is not in nodes.                                       *)
(***************************************************************************)
EXTENDS Integers, FiniteSets

(* what one meets from b on along f, as far as a list of nodes can go *)
Walk(b, f, nodes, end) ==
    LET w[i \in 0 .. Cardinality(nodes)] ==
            IF i = 0 THEN b
            ELSE IF w[i - 1] \in nodes THEN f[w[i - 1]] ELSE end
    IN  w

(* how many nodes a walk meets, and which *)
Length(w, nodes) == Cardinality({i \in DOMAIN w : w[i] \in nodes})

Listed(w, nodes) == {w[i] : i \in DOMAIN w} \cap nodes

(* L is the list of b from its end to b: n nodes, no two of them the same *)
IsChain(L, n, b, f, nodes, end) ==
    /\ L[0] = end
    /\ L[n] = b
    /\ \A i \in 1 .. n : L[i] \in nodes /\ f[L[i]] = L[i - 1]
    /\ \A i, j \in 1 .. n : L[i] = L[j] => i = j

(* the list of b ends *)
HasChain(b, f, nodes, end) ==
    \E n \in 0 .. Cardinality(nodes) : \E L \in [0 .. n -> nodes \cup {end}] :
        IsChain(L, n, b, f, nodes, end)
=============================================================================
