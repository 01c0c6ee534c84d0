------------------------------- MODULE Gate -------------------------------
(* Who may reach the owner's memory: gate.py. The identity of a session is  *)
(* what Hermes passes to initialize; an author is the writer of one turn.   *)
CONSTANTS
  LocalPlatforms,   \* cfg.local_platforms
  Owners,           \* cfg.owner_user_ids, as <<platform, id>> pairs
  NoId              \* an id Hermes did not pass

Listed(platform, id) == id # NoId /\ <<platform, id>> \in Owners

SessionAllowed(ident) ==
  \/ ident.platform \in LocalPlatforms
  \/ /\ ident.platform # "cron"
     /\ Owners # {}
     /\ ident.chat = "dm" => Listed(ident.platform, ident.user)

(* A direct message may come without an author, a shared chat may not. *)
TurnAllowed(ident, author) ==
  /\ SessionAllowed(ident)
  /\ \/ ident.platform \in LocalPlatforms
     \/ ident.chat = "dm" /\ author = NoId
     \/ Listed(ident.platform, author)
===========================================================================
