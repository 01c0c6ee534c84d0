---------------------------- MODULE CallPromise ----------------------------
(* What a caller of the bridge may conclude from the answer to a call, with *)
(* no session, loop or transport in it: a denial ("nothing was stored",     *)
(* "not logged in", "token refused") means the engine has not taken the     *)
(* call and never will; "ok" means it has; anything else means it may have. *)
CONSTANT Calls
VARIABLES outcome, landed

promise == <<outcome, landed>>

Denials == {"unreachable", "unauthorized", "login_required"}
Kinds == Denials \cup {"ok", "tool_error", "timeout"}

PromiseInit == outcome = [c \in Calls |-> "none"] /\ landed = {}

(* The engine takes a call, possibly after the caller stopped waiting. *)
Land(c) ==
  /\ outcome[c] \notin Denials
  /\ landed' = landed \cup {c} /\ outcome' = outcome

(* The calls of one batch are answered together. *)
Answer(batch) ==
  /\ \A c \in batch : outcome[c] = "none"
  /\ \E told \in [batch -> Kinds] :
       /\ \A c \in batch : /\ told[c] \in Denials => c \notin landed
                           /\ told[c] = "ok" => c \in landed
       /\ outcome' = [c \in Calls |-> IF c \in batch THEN told[c] ELSE outcome[c]]
  /\ landed' = landed

PromiseNext == (\E c \in Calls : Land(c)) \/ (\E batch \in SUBSET Calls : Answer(batch))

Promise == PromiseInit /\ [][PromiseNext]_promise
============================================================================
