---------------------------- MODULE PathSearchMC ----------------------------
EXTENDS PathSearch

CONSTANTS Nodes, MaxLines

\* Files whose lines are in the order of their sources, the first one leaving
\* node 0: lines of different sources may be exchanged without changing a list.
Lines == {e \in (Nodes \ {Max(Nodes)}) \X (Nodes \ {0}) : e[1] # e[2]}

SortedUpTo[k \in Nat] ==
    IF k = 0 THEN {<<>>}
    ELSE SortedUpTo[k - 1] \cup
         {f \in {Append(g, e) : g \in {h \in SortedUpTo[k - 1] : Len(h) = k - 1}, e \in Lines} :
             IF k = 1 THEN f[1][1] = 0 ELSE f[k - 1][1] <= f[k][1]}

\* A comment in front, and lines that name the largest node and close a cycle.
MCFiles == {<<<<>>>> \o f \o <<<<Max(Nodes), 0>>, <<0, 0>>>> : f \in SortedUpTo[MaxLines]}

\* Paths start at node 0, as the requests do.
Simple == {s \in UNION {[1..k -> Nodes] : k \in 1..Cardinality(Nodes)} :
              s[1] = 0 /\ \A i, j \in DOMAIN s : s[i] = s[j] => i = j}
MCItems == {[nodes |-> s, cap |-> IF Len(s) > PathCap THEN 2 * PathCap ELSE PathCap] : s \in Simple}
MCRequests == {<<0, 0>>, <<0, Max(Nodes)>>}
=============================================================================
