------------------------------ MODULE Recall ------------------------------
(* One provider of one Hermes profile (provider.py) with what it injects    *)
(* (recall.py): the digest, the hits, the status lines and the write nudge, *)
(* the breaker, and the owner gate of every turn.                           *)
(*                                                                          *)
(* Hermes drives it from two threads. The agent's thread starts a turn,     *)
(* prefetches, runs tools, ends the turn and switches sessions; a prefetch  *)
(* is two steps because the engine answers between them. The sync worker    *)
(* runs sync_turn for finished turns in order, possibly after later turns   *)
(* have begun. Texts are sizes: Room is PREFETCH_MAX_CHARS, and every size  *)
(* counts the separator in front of its part.                               *)
EXTENDS Gate, Integers, Sequences, FiniteSets, SequencesExt

CONSTANTS
  Idents,        \* the identities initialize may be given
  Authors,       \* authors of turns, NoId among them
  Ids,           \* memory ids
  RecallOn, DigestOn,   \* cfg.recall, cfg.digest
  DigestMax,     \* cfg.digest_max_chars
  HitsMax,       \* cfg.recall_max_chars, in hits
  Interval,      \* cfg.review_interval
  Room,          \* recall.PREFETCH_MAX_CHARS
  RefusesQuery,  \* whether the engine refuses a query on context_bootstrap
  MaxQueue       \* bound: finished turns the sync worker may lag behind

Threshold == 3   \* Breaker's consecutive failures
Outcomes == {"ok", "tool_error", "outage", "login"}
Line == 1        \* size of a status line, of the nudge and of one hit

ASSUME RecallAssumption ==
  /\ NoId \in Authors /\ IsFiniteSet(Ids)
  /\ RecallOn \in BOOLEAN /\ DigestOn \in BOOLEAN
  /\ RefusesQuery \in BOOLEAN
  /\ {DigestMax, HitsMax, Interval, MaxQueue} \subseteq Nat
  /\ Room \in Nat \ {0}

VARIABLES
  status,     \* "new", then "inert", "refused" or "ready"
  ident,      \* _ident
  author,     \* _current_author_id
  speaker,    \* history: who wrote the turn in hand
  stage,      \* the agent thread: "idle", "turn", "waiting", "running"
  call,       \* the prefetch in flight: did it ask for a digest, with a query
  armed,      \* _digest_armed
  queryOff,   \* _digest_query_refused
  injected,   \* _injected_ids
  told,       \* _told_login_this_session
  failures, opened, cooled,   \* the Breaker; cooled: the cooldown is over
  turns, due, \* _turns_since_nudge, _nudge_due
  queue,      \* authors of finished turns, for the sync worker
  made,       \* history: the parts the last prefetch had to deliver
  shown,      \* history: the parts of the block it returned
  seen,       \* history: how often each memory reached the conversation
  warned,     \* history: the outage line went out since the last good search
  credit,     \* history: owner turns finished and not paid out as a nudge
  reached     \* history: a tool of this turn reached the engine

vars == <<status, ident, author, speaker, stage, call, armed, queryOff, injected, told,
          failures, opened, cooled, turns, due, queue, made, shown, seen,
          warned, credit, reached>>
breaker == <<failures, opened, cooled>>
nudging == <<turns, due>>
history == <<made, shown, seen, warned>>

NoCall == [digest |-> FALSE, query |-> FALSE]
Sizes == {0, 1, DigestMax} \cap (0..DigestMax)   \* bound: digests tried
MaxCredit == 2 * Interval + MaxQueue   \* bound: where credit saturates, all that due, turns and queue claim
Parts == {"digest", "hits", "login", "outage", "nudge"}
Empty == "empty"   \* in made: the engine answered with an empty digest

Init ==
  /\ status = "new" /\ ident \in Idents /\ author = NoId /\ speaker = NoId
  /\ stage = "idle" /\ call = NoCall
  /\ armed = FALSE /\ queryOff = FALSE /\ injected = {} /\ told = FALSE
  /\ failures = 0 /\ opened = FALSE /\ cooled = FALSE
  /\ turns = 0 /\ due = FALSE /\ queue = <<>>
  /\ made = {} /\ shown = {} /\ seen = [m \in Ids |-> 0] /\ warned = FALSE
  /\ credit = 0 /\ reached = FALSE

---------------------------------------------------------------------------
(* initialize: a bad config or a failing auth factory leaves the provider   *)
(* inert, a refused session gets no bridge; whether tools/list answered     *)
(* decides only which tools are listed.                                     *)
Initialize ==
  /\ status = "new"
  /\ \/ status' = "inert" /\ armed' = armed
     \/ ~SessionAllowed(ident) /\ status' = "refused" /\ armed' = armed
     \/ SessionAllowed(ident) /\ status' = "ready" /\ armed' = TRUE
  /\ UNCHANGED <<ident, author, speaker, stage, call, queryOff, injected, told, breaker,
                 nudging, queue, history, credit, reached>>

ReachesEngine == status \in {"refused", "ready"} /\ TurnAllowed(ident, author)

(* Mutant: a turn without an author keeps the one before. *)
StartTurnKeeping(a) ==
  /\ status # "new" /\ stage = "idle" /\ Len(queue) < MaxQueue
  /\ author' = (IF a = NoId THEN author ELSE a) /\ speaker' = a /\ stage' = "turn"
  /\ UNCHANGED <<status, ident, call, armed, queryOff, injected, told, breaker,
                 nudging, queue, history, credit, reached>>

(* on_turn_start *)
StartTurn(a) ==
  /\ status # "new" /\ stage = "idle" /\ Len(queue) < MaxQueue
  /\ author' = a /\ speaker' = a /\ stage' = "turn"
  /\ UNCHANGED <<status, ident, call, armed, queryOff, injected, told, breaker,
                 nudging, queue, history, credit, reached>>

(* Breaker.allow: closed, or open with the cooldown behind it. *)
Allowed == ~opened \/ cooled

(* Mutant: the half-open breaker keeps its count. *)
StartPrefetchCounting(long) ==
  /\ stage = "turn" /\ RecallOn /\ ReachesEngine /\ Allowed
  /\ LET digest == DigestOn /\ armed
     IN  call' = [digest |-> digest, query |-> digest /\ long /\ ~queryOff]
  /\ opened' = FALSE /\ cooled' = FALSE
  /\ stage' = "waiting"
  /\ UNCHANGED <<status, ident, author, speaker, failures, armed, queryOff, injected,
                 told, nudging, queue, history, credit, reached>>

(* prefetch up to call_many. An open breaker whose cooldown is over closes. *)
StartPrefetch(long) ==
  /\ stage = "turn" /\ RecallOn /\ ReachesEngine /\ Allowed
  /\ LET digest == DigestOn /\ armed
     IN  call' = [digest |-> digest, query |-> digest /\ long /\ ~queryOff]
  /\ failures' = IF opened THEN 0 ELSE failures
  /\ opened' = FALSE /\ cooled' = FALSE
  /\ stage' = "waiting"
  /\ UNCHANGED <<status, ident, author, speaker, armed, queryOff, injected, told, nudging,
                 queue, history, credit, reached>>

(* The early returns of prefetch, and a turn Hermes finds trivial. *)
NoPrefetch ==
  /\ stage = "turn" /\ stage' = "running"
  /\ UNCHANGED <<status, ident, author, speaker, call, armed, queryOff, injected, told,
                 breaker, nudging, queue, history, credit, reached>>

(* Mutant: a block that fills Room exactly loses its last part. *)
ComposeShort(parts) ==
  LET keep(acc, p) ==
        IF p.size = 0 \/ acc.full THEN acc
        ELSE IF acc.total + p.size >= Room THEN [acc EXCEPT !.full = TRUE]
        ELSE [acc EXCEPT !.total = @ + p.size, !.kept = @ \cup {p.part}]
  IN  FoldLeft(keep, [kept |-> {}, total |-> 0, full |-> FALSE], parts).kept

(* compose: the longest prefix of the non-empty parts that fits in Room. *)
Compose(parts) ==
  LET keep(acc, p) ==
        IF p.size = 0 \/ acc.full THEN acc
        ELSE IF acc.total + p.size > Room THEN [acc EXCEPT !.full = TRUE]
        ELSE [acc EXCEPT !.total = @ + p.size, !.kept = @ \cup {p.part}]
  IN  FoldLeft(keep, [kept |-> {}, total |-> 0, full |-> FALSE], parts).kept

Part(part, size) == [part |-> part, size |-> size]
LineIf(part, p) == Part(part, IF p THEN Line ELSE 0)

(* Mutant: a missing login counts as a failure of the engine. *)
RecordLogin(end) ==
  /\ failures' = CASE end \in {"outage", "login"} -> failures + 1
                   [] end = "ok" -> 0
                   [] OTHER -> failures
  /\ opened' = CASE end \in {"outage", "login"} -> failures + 1 >= Threshold
                 [] end = "ok" -> FALSE
                 [] OTHER -> opened
  /\ cooled' = FALSE

(* Breaker.record_failure and record_success, by how the prefetch ended *)
Record(end) ==
  /\ failures' = CASE end = "outage" -> failures + 1
                   [] end = "ok" -> 0
                   [] OTHER -> failures
  /\ opened' = CASE end = "outage" -> failures + 1 >= Threshold
                 [] end = "ok" -> FALSE
                 [] OTHER -> opened
  /\ cooled' = FALSE

(* Mutants: an error disarms the digest, or the refused query is forgotten. *)
TakeDigestAnyway(d) ==
  /\ armed' = (armed /\ ~(call.digest /\ d \in {"ok", "tool_error"}))
  /\ queryOff' = IF call.digest /\ d = "tool_error" THEN call.query ELSE queryOff

TakeDigestForgetting(d) ==
  /\ armed' = (armed /\ ~(call.digest /\ d = "ok"))
  /\ queryOff' = queryOff

(* The two flags of the digest, by how its call d ended. *)
TakeDigest(d) ==
  /\ armed' = (armed /\ ~(call.digest /\ d = "ok"))
  /\ queryOff' = IF call.digest /\ d = "tool_error" THEN call.query ELSE queryOff

(* A failed digest call returns before the search result is looked at. *)
Ending(d, s) == IF call.digest /\ d \in {"outage", "login"} THEN d ELSE s

(* format_hits takes unseen hits while they fit, whichever the engine ranks *)
(* first.                                                                   *)
Fitting(hits) == {ids \in SUBSET (hits \ injected) : Cardinality(ids) <= HitsMax}

(* The rest of prefetch: d and s are how the digest and the search ended,   *)
(* text the size of the formatted digest, ids the hits format_hits kept.    *)
EndPrefetch(d, s, text, ids) ==
  /\ stage = "waiting"
  /\ LET end == Ending(d, s)
         digest == Part("digest", IF call.digest /\ d = "ok" THEN text ELSE 0)
         login == end = "login" /\ ~told
         outage == end = "outage" /\ failures = 0
         hits == IF end = "ok" THEN ids ELSE {}
         nudge == due /\ ident.context = "primary" /\ end \in {"ok", "tool_error"}
         parts == <<digest, LineIf("login", login), LineIf("outage", outage),
                    Part("hits", Cardinality(hits)), LineIf("nudge", nudge)>>
     IN  /\ TakeDigest(d) /\ Record(end)
         /\ told' = (told \/ login)
         /\ injected' = injected \cup hits
         /\ due' = (due /\ ~nudge)
         /\ made' = {p.part : p \in {q \in ToSet(parts) : q.size > 0}}
                     \cup IF call.digest /\ d = "ok" /\ text = 0 THEN {Empty} ELSE {}
         /\ shown' = Compose(parts)
         /\ seen' = [m \in Ids |-> IF m \in hits /\ "hits" \in shown'
                                   THEN seen[m] + 1 ELSE seen[m]]
         /\ warned' = (end # "ok" /\ (warned \/ "outage" \in shown'))
         /\ credit' = IF nudge THEN credit - Interval ELSE credit
  /\ call' = NoCall /\ stage' = "running"
  /\ UNCHANGED <<status, ident, author, speaker, turns, queue, reached>>

(* handle_tool_call for an exposed tool: it changes nothing here. *)
ToolCall ==
  /\ stage = "running" /\ status = "ready" /\ ReachesEngine
  /\ reached' = TRUE
  /\ UNCHANGED <<status, ident, author, speaker, stage, call, armed, queryOff, injected,
                 told, breaker, nudging, queue, history, credit>>

(* Hermes hands the finished turn and its author to the sync worker. *)
EndTurn ==
  /\ stage = "running" /\ stage' = "idle"
  /\ queue' = Append(queue, speaker)
  /\ credit' = IF ident.context = "primary" /\ TurnAllowed(ident, speaker)
                  /\ credit < MaxCredit
               THEN credit + 1 ELSE credit
  /\ made' = {} /\ shown' = {} /\ reached' = FALSE
  /\ UNCHANGED <<status, ident, author, speaker, call, armed, queryOff, injected, told,
                 breaker, nudging, seen, warned>>

(* Mutant: the author of the turn in progress decides. *)
CountsCurrent(a) ==
  /\ status \in {"refused", "ready"} /\ ident.context = "primary"
  /\ Interval > 0 /\ TurnAllowed(ident, author)

(* sync_turn, on the worker: the turn's own author decides. *)
Counts(a) ==
  /\ status \in {"refused", "ready"} /\ ident.context = "primary"
  /\ Interval > 0 /\ TurnAllowed(ident, a)

SyncTurn ==
  /\ queue # <<>> /\ queue' = Tail(queue)
  /\ IF Counts(Head(queue))
     THEN LET ripe == turns + 1 >= Interval
          IN  turns' = (IF ripe THEN 0 ELSE turns + 1) /\ due' = (due \/ ripe)
     ELSE UNCHANGED nudging
  /\ UNCHANGED <<status, ident, author, speaker, stage, call, armed, queryOff, injected,
                 told, breaker, history, credit, reached>>

(* Mutant: the new session keeps the ids of the old one. *)
SwitchSessionKeepingIds(how) ==
  /\ status # "new" /\ stage \in {"idle", "running"}
  /\ injected' = injected /\ told' = FALSE
  /\ armed' = (armed \/ how \in {"reset", "compression"})
  /\ queryOff' = (queryOff /\ how # "reset")
  /\ seen' = [m \in Ids |-> 0] /\ made' = {} /\ shown' = {}
  /\ UNCHANGED <<status, ident, author, speaker, stage, call, breaker, nudging, queue,
                 warned, credit, reached>>

(* on_session_switch, between the prefetches: a reset, a compression (also  *)
(* in the middle of a turn) or a move to another session.                   *)
SwitchSession(how) ==
  /\ status # "new" /\ stage \in {"idle", "running"}
  /\ injected' = {} /\ told' = FALSE
  /\ armed' = (armed \/ how \in {"reset", "compression"})
  /\ queryOff' = (queryOff /\ how # "reset")
  /\ seen' = [m \in Ids |-> 0] /\ made' = {} /\ shown' = {}
  /\ UNCHANGED <<status, ident, author, speaker, stage, call, breaker, nudging, queue,
                 warned, credit, reached>>

(* The breaker's cooldown passes. *)
Cool ==
  /\ opened /\ ~cooled /\ cooled' = TRUE
  /\ UNCHANGED <<status, ident, author, speaker, stage, call, armed, queryOff, injected,
                 told, failures, opened, nudging, queue, history, credit, reached>>

Switches == \E how \in {"reset", "compression", "resume"} : SwitchSession(how)

Answers == \E d, s \in Outcomes, text \in Sizes, ids \in Fitting(Ids) :
             EndPrefetch(d, s, text, ids)

Next ==
  \/ Initialize \/ NoPrefetch \/ ToolCall \/ EndTurn \/ SyncTurn \/ Cool
  \/ \E a \in Authors : StartTurn(a)
  \/ \E long \in BOOLEAN : StartPrefetch(long)
  \/ Answers
  \/ Switches

Spec == Init /\ [][Next]_vars

---------------------------------------------------------------------------
(* Type invariant: the provider's fields and the history stay in their sets.*)
TypeOK ==
  /\ status \in {"new", "inert", "refused", "ready"} /\ ident \in Idents
  /\ author \in Authors /\ speaker \in Authors /\ reached \in BOOLEAN
  /\ stage \in {"idle", "turn", "waiting", "running"}
  /\ call \in [digest : BOOLEAN, query : BOOLEAN]
  /\ armed \in BOOLEAN /\ queryOff \in BOOLEAN /\ told \in BOOLEAN
  /\ injected \subseteq Ids /\ seen \in [Ids -> Nat]
  /\ failures \in 0..Threshold /\ opened \in BOOLEAN /\ cooled \in BOOLEAN
  /\ turns \in Nat /\ due \in BOOLEAN
  /\ queue \in Seq(Authors) /\ Len(queue) <= MaxQueue
  /\ made \subseteq Parts \cup {Empty} /\ shown \subseteq made
  /\ warned \in BOOLEAN /\ credit \in 0..MaxCredit

(* Every memory marked as injected reached the conversation, and exactly    *)
(* once: format_hits skips a hit that is there and keeps one that is not.   *)
InjectedOnce == \A m \in Ids : seen[m] = IF m \in injected THEN 1 ELSE 0

(* What prefetch spent state on (the digest's arming, the marked ids, the   *)
(* said-once lines, the nudge) is in the block compose returns.             *)
NothingDropped == made \ {Empty} = shown

(* "Every return below carries digest_text, so this turn delivers it."      *)
DigestDelivered == "digest" \in made => "digest" \in shown

(* The digest is disarmed only by the turn that has it in hand: no error,   *)
(* login or outage answer, and no switch, loses it.                         *)
DigestKept == [][armed /\ ~armed' => {"digest", Empty} \cap made' # {}]_vars

(* The nudge is paid for by turns of the owner: each needs Interval turns   *)
(* an owner finished, none of them counted twice and none of a refused      *)
(* author's, however late the sync worker runs and whoever speaks next.     *)
NudgeEarned ==
  ident.context = "primary" /\ Interval > 0 =>
    credit >= (IF due THEN Interval ELSE 0) + turns
              + Cardinality({i \in DOMAIN queue : TurnAllowed(ident, queue[i])})

(* Of outages alone: once searches fail for one, or the breaker is open, a  *)
(* notice of it has been shown since the last success.  A tool error and a  *)
(* missing login are silent for other reasons, and a session begun in an    *)
(* outage is not told of it again.                                          *)
SilenceExplained == failures > 0 \/ opened => warned

(* The README's owner gate, in its own words: a local session is the        *)
(* owner's, an empty list refuses every gateway, cron is local or nothing,  *)
(* a DM needs a listed user and no unlisted author, any other chat a listed *)
(* author.                                                                  *)
OwnerSpeaks(i, a) ==
  IF i.platform \in LocalPlatforms THEN TRUE
  ELSE IF i.platform = "cron" \/ Owners = {} THEN FALSE
  ELSE IF i.chat = "dm"
       THEN /\ <<i.platform, i.user>> \in Owners
            /\ a = NoId \/ <<i.platform, a>> \in Owners
       ELSE a # NoId /\ <<i.platform, a>> \in Owners

(* The engine hears from this provider only while the owner speaks: neither *)
(* a prefetch nor a tool call of a turn another member wrote gets through.  *)
OwnerOnly == reached \/ stage = "waiting" => OwnerSpeaks(ident, speaker)

---------------------------------------------------------------------------
(* The engine eventually answers a digest call the way it answers any: a    *)
(* query is refused by a server that refuses queries, all else succeeds.    *)
GoodAnswer(query) ==
  /\ call.digest /\ call.query = query
  /\ \E text \in Sizes \ {0} :
       EndPrefetch(IF query /\ RefusesQuery THEN "tool_error" ELSE "ok", "ok", text, {})

Fairness ==
  /\ WF_vars(Initialize \/ EndTurn \/ NoPrefetch) /\ WF_vars(SyncTurn) /\ WF_vars(Cool)
  /\ WF_vars(Answers)
  /\ SF_vars(\E a \in Authors : TurnAllowed(ident, a) /\ StartTurn(a))
  /\ SF_vars(\E long \in BOOLEAN : StartPrefetch(long))
  /\ SF_vars(GoodAnswer(TRUE)) /\ SF_vars(GoodAnswer(FALSE))

FairSpec == Init /\ [][Next]_vars /\ Fairness

(* An armed digest is delivered in the end, even by a server that refuses   *)
(* every query and through outages that end: the query is given up and      *)
(* tried again without keeping the digest from ever going out. A reset      *)
(* turns the query back on, so the resets must end.                         *)
DigestArrives ==
  <>[][~SwitchSession("reset")]_vars => (armed /\ status = "ready" ~> ~armed)
===========================================================================
