--------------------------- MODULE VersionCatalog ---------------------------
(***************************************************************************)
(* What mod/storage promises its readers: a table of complete versions.    *)
(* A version appears, is replaced or disappears in one step.  In history   *)
(* mode a replaced revision moves, in that same step, to a historical tag  *)
(* never issued before.  Nothing else changes the table: garbage           *)
(* collection, repair, failed publishes and crashes are invisible.         *)
(***************************************************************************)
EXTENDS Integers

CONSTANTS Keys, Names, HistTags, BrotherTags, Trees, NoTree, HistoryMode

VARIABLES
    cat,  \* the tree a reader finds under each (key, version), or NoTree
    top   \* the highest historical tag issued

Rows == Keys \X (Names \cup HistTags)

Init ==
    /\ cat = [r \in Rows |-> NoTree]
    /\ top = 0

Publish(r, t) ==
    /\ cat[r] = NoTree
    /\ cat' = [cat EXCEPT ![r] = t]
    /\ UNCHANGED top

Replace(r, t) ==
    /\ ~ HistoryMode
    /\ cat[r] \notin {NoTree, t}
    /\ cat' = [cat EXCEPT ![r] = t]
    /\ UNCHANGED top

Supersede(r, t, n) ==
    /\ HistoryMode
    /\ cat[r] \notin {NoTree, t}
    /\ n > top
    /\ cat[<<r[1], n>>] = NoTree
    /\ cat' = [cat EXCEPT ![<<r[1], n>>] = cat[r], ![r] = t]
    /\ top' = n

Delete(r) ==
    /\ cat[r] # NoTree
    /\ cat' = [cat EXCEPT ![r] = NoTree]
    /\ UNCHANGED top

Next ==
    \/ \E r \in Keys \X (Names \cup BrotherTags), t \in Trees :
          \/ Publish(r, t)
          \/ Replace(r, t)
          \/ \E n \in HistTags : Supersede(r, t, n)
    \/ \E r \in Rows : Delete(r)

Spec == Init /\ [][Next]_<<cat, top>>
=============================================================================
