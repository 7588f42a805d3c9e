---------------------------- MODULE MCRescanKey ----------------------------
(* Instances of RescanKey for TLC.                                         *)
EXTENDS RescanKey

\* Upstream starts with two good tags, the higher one published last.
MCStartUp == <<2, 1>>
MCStartContent == [v \in Versions |-> "a"]
MCSettings ==
    [class : {"git"}, cap : {2}, changes : {2}, faults : {{"request"}, {"apply"}}]
    \cup [class : {"git"}, cap : {1}, changes : {2}, faults : {{}}]
    \cup [class : {"git"}, cap : {2}, changes : {1},
          faults : {{"heal"}, {"mode"}, {"evict"}, {"restart"}, {"quarantine", "restart"}}]
    \cup [class : {"brother"}, cap : {2}, changes : {2}, faults : {{"apply"}, {"quarantine", "restart"}}]
    \cup [class : {"brother", "first"}, cap : {2}, changes : {1}, faults : {{"request"}}]

\* A fault-free git source that looks at the newest tags only.
MCWindowStartUp == <<2, 3>>
MCWindowSettings == [class : {"git"}, cap : {3}, changes : {1}, faults : {{}}]
============================================================================
