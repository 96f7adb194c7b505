--------------------------- MODULE MCPlaygroundChat ----------------------------
(* PlaygroundChat for TLC: one request whose words differ, and one that says
   the same word twice, so that a delta can look like a snapshot. *)
EXTENDS PlaygroundChat

MCWord == <<<<1, 2, 3>>, <<1, 1, 2>>>>

================================================================================
