--------------------------- MODULE MCFeedCollect ---------------------------
(* Small instances of FeedCollect for TLC.  The posts 1, 2, 6 and 7 can be *)
(* shown: 6 has the highest value, 7 is the latest of the others, and only *)
(* their names tell 1 and 2 apart; 2 is larger than the others.  3 is not  *)
(* safe for work, 4 lacks what the query asks for, and the formula has no  *)
(* value for 5.                                                            *)
EXTENDS FeedCollect

Verdicts == [p \in Posts |-> IF p = 4 THEN "unknown" ELSE "true"]
Sizes == [p \in Posts |-> IF p = 2 THEN 2 ELSE 1]
Values == [p \in Posts |-> IF p = 5 THEN NoValue ELSE IF p \in {3, 6} THEN 2 ELSE 1]
Times == [p \in Posts |-> IF p \in {3, 7} THEN 1 ELSE 0]
=============================================================================
