------------------------------ MODULE MCSetup ------------------------------
(* Instances of Setup: one terminal, one Hermes process at a time, an engine *)
(* whose grant carries memory_forget and the review tools, or neither.       *)
EXTENDS Setup
CONSTANTS p1, e1, e2, e3

Grants == {{"memory_search"}, Snapshot}
Listed == [DefaultBlock EXCEPT !.hosted = FALSE, !.auth = "token", !.allow = Snapshot]
Reviewed == [DefaultBlock EXCEPT !.review = TRUE]
Unparsed == [DefaultBlock EXCEPT !.ok = FALSE]
Before == {Listed, Reviewed, Unparsed}
Untouched == {DefaultBlock}
============================================================================
