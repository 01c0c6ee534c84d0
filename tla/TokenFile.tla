------------------------------ MODULE TokenFile ------------------------------
(***************************************************************************)
(* oauth.json, the one file a profile's processes share (tokens.py,        *)
(* FileTokenStorage).  A token pair is abstracted to its generation: 0 is  *)
(* no pair, g > 0 is the g-th pair the engine issued.  `refresh` says      *)
(* whether the pair still carries its refresh token, `client` and `meta`   *)
(* whether the file holds the registered client and the discovered OAuth   *)
(* metadata.  A file that is absent, unreadable, or written for another    *)
(* mcp_url reads as Empty.  _write renames a complete temporary file, so a *)
(* write is one step that either happens or leaves the old file.           *)
(***************************************************************************)
EXTENDS Naturals

CONSTANT MaxGen   \* how many pairs the engine issues in a behaviour

ASSUME MaxGenAssumption == MaxGen \in Nat \ {0}

Gens == 1..MaxGen

\* A refresh token is part of a pair.
Records == {r \in [gen : 0..MaxGen, refresh : BOOLEAN, client : BOOLEAN, meta : BOOLEAN] :
              r.refresh => r.gen # 0}

\* What read() answers for a file that is not there.
Empty == [gen |-> 0, refresh |-> FALSE, client |-> FALSE, meta |-> FALSE]

\* A signed-in file: pair g with its refresh token.
Pair(g, client, meta) == [gen |-> g, refresh |-> TRUE, client |-> client, meta |-> meta]

\* set_tokens: the new pair, the rest as the file has it.
WithTokens(f, g) == Pair(g, f.client, f.meta)

\* Mutant: the update writes only the fields it was given.
RestoredAlone(f, k) == [gen |-> k.gen, refresh |-> TRUE, client |-> k.client]

\* save_tokens for a kept pair: restores the client and the metadata an
\* unlinked file lost, and keeps what is on disk where the kept copy has none.
Restored(f, k) == Pair(k.gen, k.client \/ f.client, k.meta \/ f.meta)

\* drop_refresh_token: the access token stays; no tokens, no write.
DropRefresh(f) == [gen |-> f.gen, refresh |-> FALSE, client |-> f.client, meta |-> f.meta]

\* set_client_info and save_metadata: a read-modify-write of one field.
WithClient(f) == [gen |-> f.gen, refresh |-> f.refresh, client |-> TRUE, meta |-> f.meta]
WithMeta(f)   == [gen |-> f.gen, refresh |-> f.refresh, client |-> f.client, meta |-> TRUE]
=============================================================================
