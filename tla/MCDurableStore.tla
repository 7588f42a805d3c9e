--------------------------- MODULE MCDurableStore ---------------------------
(* Instances of DurableStore for TLC.                                      *)
EXTENDS DurableStore, TLC

CONSTANTS k1, k2, v1, t1, t2, t3, b1, b2, p1, p2

\* Three trees over two blobs: t1 has b1 twice, t2 shares it, t3 is disjoint
\* from t1.
MCTreeAt ==
    [t \in Trees |->
        [p \in Paths |->
            CASE t = t1 -> b1
              [] t = t2 -> IF p = p1 THEN b1 ELSE b2
              [] OTHER  -> IF p = p1 THEN NoBlob ELSE b2]]

KeySymmetry == Permutations(Keys)
=============================================================================
