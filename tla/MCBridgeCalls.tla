--------------------------- MODULE MCBridgeCalls ---------------------------
(* Instances of BridgeCalls: callers of one call each (a model's tools) or  *)
(* one prefetch of two calls and a tool call beside it.                     *)
EXTENDS BridgeCalls, TLC
CONSTANTS a, b, c, s1, s2, s3

One(S) == {{x} : x \in S}
PairAndOne == {{a, b}, {c}}
Twins == One({a, b})
SharedFaults == {"connect", "gateway", "rpc", "slowloop"}
ConnectOnly == {"connect"}
PromptFaults == Refusals \cup {"read", "rpc"}
AlikePair == Permutations({a, b}) \cup Permutations({s1, s2, s3})
TwinsAlike == Permutations({a, b}) \cup Permutations({s1, s2})
============================================================================
