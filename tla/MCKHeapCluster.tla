--------------------------- MODULE MCKHeapCluster ---------------------------
EXTENDS KHeapCluster, TLC

MCSymmetry == Permutations(Clients)

\* Nodes that no row reaches are leaked struct KheapCluster objects: every
\* kmalloc of a node overwrites all of its fields, so their stale contents
\* are not part of the state.
MCView ==
    <<[kh EXCEPT !.node = [n \in Nodes |->
                            IF n \in Linked(kh) THEN kh.node[n]
                            ELSE [cluster_index |-> 0, next |-> NULL, prev |-> NULL]]],
      owned, crash>>

=============================================================================
