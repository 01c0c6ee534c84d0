---------------------------- MODULE TokenEndpoint ----------------------------
(***************************************************************************)
(* The engine's token endpoint, which is not part of the repository: this  *)
(* is the behaviour auth.py defends against.  A refresh token is good for  *)
(* one presentation.  The engine spends it before the steps that may still *)
(* fail, and answers a second presentation by revoking the whole family    *)
(* (auth.py's comments on rotate_refresh and on the replay).               *)
(***************************************************************************)
EXTENDS TokenFile

VARIABLES
  issued,    \* how many pairs the engine has issued
  family,    \* [Gens -> 0..MaxGen]: the sign-in each pair descends from
  due,       \* pairs within REFRESH_SKEW_S of their expiry, or with no expires_in
  spent,     \* pairs whose refresh token the engine will never take again
  replayed   \* a spent refresh token was presented

engineVars == <<issued, family, due, spent, replayed>>

EngineTypeOK ==
  /\ issued \in 0..MaxGen
  /\ family \in [Gens -> 0..MaxGen]
  /\ due \subseteq Gens
  /\ spent \subseteq Gens
  /\ replayed \in BOOLEAN

EngineInit ==
  /\ issued \in {0, 1}
  /\ family = [g \in Gens |-> IF g <= issued THEN g ELSE 0]
  /\ due \in {{}, 1..issued}
  /\ spent = {}
  /\ replayed = FALSE

\* A new pair of family f; it is due at once when the answer has no expires_in.
Issue(f) ==
  /\ issued < MaxGen
  /\ issued' = issued + 1
  /\ family' = [family EXCEPT ![issued + 1] = f]
  /\ due' \in {due, due \union {issued + 1}}

\* The grant succeeds: g is spent and its successor issued.
Rotate(g) ==
  /\ g \notin spent
  /\ Issue(family[g])
  /\ spent' = spent \union {g}
  /\ UNCHANGED replayed

\* The engine spends g and then fails, or its answer never becomes a pair.
Burn(g) ==
  /\ g \notin spent
  /\ spent' = spent \union {g}
  /\ UNCHANGED <<issued, family, due, replayed>>

\* A spent refresh token comes back: the engine revokes the family.
RevokeFamily(g) ==
  /\ g \in spent
  /\ spent' = spent \union {h \in 1..issued : family[h] = family[g]}
  /\ replayed' = TRUE
  /\ UNCHANGED <<issued, family, due>>

\* Time passes and a pair that can still renew comes up for renewal.
ComesDue ==
  /\ \E g \in 1..issued \ spent : g \notin due /\ due' = due \union {g}
  /\ UNCHANGED <<issued, family, spent, replayed>>
=============================================================================
