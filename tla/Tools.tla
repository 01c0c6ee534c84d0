------------------------------- MODULE Tools -------------------------------
(* Which tools a provider offers (provider.py, schemas.py, config.py). The  *)
(* candidate set is computed once, when Hermes first asks, from the config  *)
(* and the cached listing of an earlier session (the bundled snapshot when  *)
(* there is none), because Hermes indexes the names before initialize. The  *)
(* live tools/list of initialize narrows what is offered and replaces the   *)
(* cache; nothing fetches it again. review_queue and review_decide need the *)
(* setting and lumberroom.cloud, and a live listing that has them.          *)
(*                                                                          *)
(* Of the four default tools one stands for those every grant carries and   *)
(* memory_forget for those it may lack.                                     *)
EXTENDS FiniteSets

CONSTANTS
  Providers,   \* the provider objects of the Hermes processes
  Listings,    \* what the engine may answer to tools/list
  NoListing

ReviewTools == {"review_queue", "review_decide"}
DefaultTools == {"memory_search", "memory_forget"}
Snapshot == DefaultTools \cup ReviewTools

ASSUME ToolsAssumption ==
  Listings \subseteq SUBSET Snapshot /\ NoListing \notin Listings

VARIABLES
  config,     \* the memory section: the built-in store is on, the lumberroom block
  provider,   \* of a Providers: [status, frozen, cfg, candidate, indexed, live]
  cache       \* tools_cache.json, NoListing when absent or unreadable

tools == <<config, provider, cache>>

(* A block: its base_url and auth parse (the plugin is inert if not), the   *)
(* host is lumberroom.cloud's, the auth mode, dreaming_review, the tools    *)
(* allowlist.                                                               *)
Blocks == [ok : BOOLEAN, hosted : BOOLEAN, auth : {"token", "oauth"},
           review : BOOLEAN, allow : {DefaultTools, Snapshot}]

(* parse of an empty block. *)
DefaultBlock == [ok |-> TRUE, hosted |-> TRUE, auth |-> "oauth", review |-> FALSE,
                 allow |-> DefaultTools]

NewProvider == [status |-> "new", frozen |-> FALSE, cfg |-> DefaultBlock, candidate |-> {},
                indexed |-> {}, live |-> NoListing]

---------------------------------------------------------------------------
(* Mutant: the allowlist may name the review tools. *)
CandidateListed(cfg) ==
  LET listed == IF cache = NoListing THEN Snapshot ELSE cache
  IN  (cfg.allow \cap listed) \cup
      (IF cfg.review /\ cfg.hosted THEN ReviewTools \cap listed ELSE {})

(* What a config exposes at most, from the cache or the snapshot. *)
Candidate(cfg) ==
  LET listed == IF cache = NoListing THEN Snapshot ELSE cache
  IN  ((cfg.allow \cap listed) \ ReviewTools) \cup
      (IF cfg.review /\ cfg.hosted THEN ReviewTools \cap listed ELSE {})

(* Mutant: every call computes the candidate set again. *)
FrozenAgain(p) ==
  IF config.block.ok
  THEN [provider[p] EXCEPT !.frozen = TRUE, !.cfg = config.block,
                           !.candidate = Candidate(config.block)]
  ELSE [provider[p] EXCEPT !.frozen = TRUE, !.status = "inert"]

(* _ensure_candidate_tools: once; a base_url or auth that does not parse    *)
(* makes the plugin inert.                                                  *)
Frozen(p) ==
  IF provider[p].frozen THEN provider[p]
  ELSE IF config.block.ok
  THEN [provider[p] EXCEPT !.frozen = TRUE, !.cfg = config.block,
                           !.candidate = Candidate(config.block)]
  ELSE [provider[p] EXCEPT !.frozen = TRUE, !.status = "inert"]

(* get_tool_schemas of a provider in state x. *)
Schemas(x) ==
  CASE x.status \in {"inert", "refused"} -> {}
    [] x.status = "new" -> x.candidate
    [] OTHER -> IF x.live = NoListing THEN x.candidate \ ReviewTools
                ELSE x.candidate \cap x.live

(* Hermes adds the provider and indexes the tools it names. *)
Index(p) ==
  /\ ~provider[p].frozen
  /\ provider' = [provider EXCEPT ![p] = [Frozen(p) EXCEPT !.indexed = Schemas(Frozen(p))]]
  /\ UNCHANGED <<config, cache>>

(* initialize. A session the gate refuses gets no bridge, a credential that *)
(* cannot be built makes the provider inert, an engine that does not answer *)
(* leaves it without a live listing, and the cache may not be written.      *)
Initialize(p, answer) ==
  /\ provider[p].frozen /\ provider[p].status = "new" /\ Frozen(p).status = "new"
  /\ \/ /\ \E status \in {"inert", "refused"} :
             provider' = [provider EXCEPT ![p] = [Frozen(p) EXCEPT !.status = status]]
        /\ cache' = cache
     \/ /\ provider' = [provider EXCEPT ![p] =
             [Frozen(p) EXCEPT !.status = "ready", !.live = answer]]
        /\ cache' \in {cache} \cup ({answer} \ {NoListing})
  /\ config' = config

(* The Hermes process ends; another starts with a provider of its own. *)
EndSession(p) ==
  /\ provider[p].frozen
  /\ provider' = [provider EXCEPT ![p] = NewProvider]
  /\ UNCHANGED <<config, cache>>

ToolsStep ==
  \E p \in Providers :
    Index(p) \/ EndSession(p) \/ (\E l \in Listings \cup {NoListing} : Initialize(p, l))

(* handle_tool_call: the names it passes on to the engine. *)
Callable(p) ==
  LET x == provider[p]
      live == IF x.live = NoListing THEN {} ELSE x.live
  IN  IF x.status = "ready" THEN {t \in x.candidate : t \in ReviewTools => t \in live} ELSE {}

(* system_prompt_block names the lr-review skill. *)
NamesSkill(p) == provider[p].status = "ready" /\ "review_decide" \in provider[p].candidate

(* _dreaming_review_status, the line of status: on, or the reason it is off. *)
ReviewStatus(cfg, answer) ==
  IF ~cfg.review THEN "setting off"
  ELSE IF ~cfg.hosted THEN "not lumberroom.cloud"
  ELSE IF answer = NoListing THEN "unknown"
  ELSE IF ~(ReviewTools \subseteq answer) THEN "grant lacks the tools"
  ELSE "on"

---------------------------------------------------------------------------
ToolsTypeOK ==
  /\ config \in [builtin : BOOLEAN, block : Blocks]
  /\ provider \in [Providers -> [status : {"new", "inert", "refused", "ready"},
       frozen : BOOLEAN, cfg : Blocks, candidate : SUBSET Snapshot,
       indexed : SUBSET Snapshot, live : Listings \cup {NoListing}]]
  /\ cache \in Listings \cup {NoListing}

(* Hermes can route every tool the model is offered: the config and the     *)
(* cache may change between the index and initialize, what is offered stays *)
(* within the names indexed before.                                         *)
OfferedIsRouted ==
  \A p \in Providers : provider[p].frozen => Schemas(provider[p]) \subseteq provider[p].indexed

(* The prompt names the lr-review skill only when the review tools are on   *)
(* offer (the comment in system_prompt_block, and the test of that name).   *)
SkillOnOffer ==
  \A p \in Providers : NamesSkill(p) => "review_decide" \in Schemas(provider[p])
============================================================================
