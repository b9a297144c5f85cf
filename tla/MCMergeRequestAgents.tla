---------------------- MODULE MCMergeRequestAgents ----------------------
(* MergeRequestAgents for TLC: a blocking comment and a blocking issue on
   one file, a blocking comment on the whole of it, a moderate comment and a
   smell. *)
EXTENDS MergeRequestAgents

CONSTANTS b1, bf, m1, s1, i1, f1, tm, ts

MCFileOf  == [x \in Blocking \cup Issues |-> f1]
MCTitleOf == [x \in Moderate \cup Smells |-> IF x \in Moderate THEN tm ELSE ts]
=============================================================================
