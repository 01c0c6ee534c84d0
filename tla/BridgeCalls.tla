---------------------------- MODULE BridgeCalls ----------------------------
(* The bridge's calls of one invocation (bridge.py): Hermes threads submit  *)
(* batches of calls to the loop thread, every call of the invocation goes   *)
(* out on the one session in the table, an owner task opens and closes each *)
(* session, and a failing call retires it. The hook and the model sessions  *)
(* never touch each other, so one invocation stands for both.               *)
(*                                                                          *)
(* A step of the loop runs from one await to the next. Time is not kept: a  *)
(* deadline may pass whenever its batch waits. Outside the plugin are the   *)
(* MCP SDK (a POST that raises ends the session and wakes every waiter) and *)
(* the engine, which takes a call or answers it as it likes.                *)
EXTENDS Integers, FiniteSets

CONSTANTS
  Calls, Batches,   \* Batches partitions Calls: what one caller submits
  Sessions, None,   \* Sessions bounds how many sessions are ever opened
  Faults,           \* what may go wrong: Refusals, "read", "rpc", "slowloop"
  Parallel          \* whether Hermes submits a batch while another one waits

Refusals == {"connect", "fence", "gateway", "unauthorized", "login"}

ASSUME BridgeAssumption ==
  /\ UNION Batches = Calls /\ {} \notin Batches
  /\ \A b, d \in Batches : b = d \/ b \cap d = {}
  /\ None \notin Sessions /\ Parallel \in BOOLEAN
  /\ Faults \subseteq Refusals \cup {"read", "rpc", "slowloop"}

VARIABLES
  caller,     \* the thread of a batch: "new", "submitted", "waiting", "answered"
  phase,      \* the task of a call: "new", "guard", "opening", "sent", "cause", "ended"
  attempt,    \* _Attempt.session
  sent,       \* _Attempt.sent
  result,     \* the task's result, and once answered the caller's
  table,      \* _sessions[invocation], None when there is none
  state,      \* a session: "unused", "opening", "open", "finished",
              \* and while it unwinds "failing" (never opened) or "closing"
  stop,       \* _Session.stop
  failure,    \* the leaves of _Session.failure
  closed,     \* _closed
  loop,       \* "running", "swept" after _shutdown's cancellations, "stopped"
  out,        \* the calls whose request left for the engine
  landed,     \* the calls the engine took
  own         \* history: how a call's own request failed, "" if it did not

calls == <<phase, attempt, sent, result>>
sessions == <<table, state, stop, failure>>
wire == <<out, landed, own>>
vars == <<caller, calls, sessions, closed, loop, wire>>

Init ==
  /\ caller = [b \in Batches |-> "new"] /\ phase = [c \in Calls |-> "new"]
  /\ attempt = [c \in Calls |-> None] /\ sent = [c \in Calls |-> FALSE]
  /\ result = [c \in Calls |-> "none"] /\ table = None
  /\ state = [s \in Sessions |-> "unused"] /\ stop = [s \in Sessions |-> FALSE]
  /\ failure = [s \in Sessions |-> {}] /\ closed = FALSE /\ loop = "running"
  /\ out = {} /\ landed = {} /\ own = [c \in Calls |-> ""]

---------------------------------------------------------------------------
(* Mutants: a lost connection reads as a failed one, or as no kind at all. *)
ClassifyClosed(leaves, wasSent) ==
  IF "login" \in leaves THEN "login_required"
  ELSE IF "unauthorized" \in leaves THEN "unauthorized"
  ELSE IF "rpc" \in leaves THEN "tool_error"
  ELSE "unreachable"

ClassifyOpen(leaves, wasSent) ==
  IF "login" \in leaves THEN "login_required"
  ELSE IF "unauthorized" \in leaves THEN "unauthorized"
  ELSE IF leaves \cap {"connect", "fence", "gateway"} # {} \/ ~wasSent THEN "unreachable"
  ELSE IF "rpc" \in leaves THEN "tool_error"
  ELSE "closed"

(* _classify: a login, a 401 or a failed connect anywhere among the leaves  *)
(* decides before the question whether this call was sent.                  *)
Classify(leaves, wasSent) ==
  IF "login" \in leaves THEN "login_required"
  ELSE IF "unauthorized" \in leaves THEN "unauthorized"
  ELSE IF leaves \cap {"connect", "fence", "gateway"} # {} THEN "unreachable"
  ELSE IF ~wasSent THEN "unreachable"
  ELSE IF "rpc" \in leaves THEN "tool_error"
  ELSE "timeout"

(* Mutant: no answer is taken for no call. *)
UnansweredDenied(c) == "unreachable"

(* _bounded's answer for a task that did not end by itself *)
Unanswered(c) == IF sent[c] THEN "timeout" ELSE "unreachable"

(* Mutant: the session leaves the table and is not told. *)
RetireSilently(S) ==
  /\ table' = IF table \in S THEN None ELSE table
  /\ stop' = stop /\ state' = state

Unwinding(was) == CASE was = "opening" -> "failing" [] was = "open" -> "closing"
                    [] OTHER -> was

(* _retire, for a set of sessions: out of the table, stopped, and cancelled *)
(* while still opening.                                                     *)
Retire(S) ==
  /\ table' = IF table \in S THEN None ELSE table
  /\ stop' = [s \in Sessions |-> stop[s] \/ s \in S]
  /\ state' = [s \in Sessions |->
                 IF s \in S THEN Unwinding(state[s]) ELSE state[s]]

(* Ends a task. A caller that gave up has heard its answer already. *)
Finish(c, kind) ==
  /\ phase' = [phase EXCEPT ![c] = "ended"]
  /\ result' = [result EXCEPT ![c] = IF @ = "none" THEN kind ELSE @]

(* _failed: classify, and retire the session the call was on. *)
Failed(c, leaves) ==
  /\ Finish(c, Classify(leaves, sent[c]))
  /\ Retire({attempt[c]} \ {None})
  /\ UNCHANGED <<attempt, sent, failure>>

---------------------------------------------------------------------------
(* _run_bounded, on the caller's thread *)
Submit(b) ==
  /\ caller[b] = "new"
  /\ Parallel \/ \A d \in Batches : caller[d] \in {"new", "answered"}
  /\ IF closed
     THEN /\ caller' = [caller EXCEPT ![b] = "answered"]
          /\ result' = [c \in Calls |-> IF c \in b THEN "unreachable" ELSE result[c]]
          /\ phase' = [c \in Calls |-> IF c \in b THEN "ended" ELSE phase[c]]
     ELSE caller' = [caller EXCEPT ![b] = "submitted"] /\ UNCHANGED <<result, phase>>
  /\ UNCHANGED <<attempt, sent, sessions, closed, loop, wire>>

(* The loop picks the batch up and creates its tasks. *)
Begin(b) ==
  /\ caller[b] = "submitted" /\ loop # "stopped"
  /\ caller' = [caller EXCEPT ![b] = "waiting"]
  /\ phase' = [c \in Calls |-> IF c \in b THEN "guard" ELSE phase[c]]
  /\ UNCHANGED <<attempt, sent, result, sessions, closed, loop, wire>>

(* refresh_guard raises before a session is looked for. *)
GuardRefuses(c, leaf) ==
  /\ phase[c] = "guard" /\ loop # "stopped" /\ leaf \in Faults \cap {"login", "fence"}
  /\ Finish(c, Classify({leaf}, FALSE))
  /\ own' = [own EXCEPT ![c] = leaf]
  /\ UNCHANGED <<caller, attempt, sent, sessions, closed, loop, out, landed>>

(* Mutant: a session counts only once it is open. *)
UsableOpen(s) == s # None /\ ~stop[s] /\ state[s] = "open"

Usable(s) == s # None /\ ~stop[s] /\ state[s] # "finished"

(* A call is handed to the session it holds. A live session posts it, one   *)
(* that is being closed may still do so, a dead transport cannot.           *)
SendOn(c, s) ==
  /\ phase' = [phase EXCEPT ![c] = "sent"]
  /\ sent' = [sent EXCEPT ![c] = TRUE]
  /\ attempt' = [attempt EXCEPT ![c] = s]
  /\ \/ failure[s] = {} /\ out' = out \cup {c}
     \/ state[s] = "closing" /\ out' = out

(* The guard passes and _ensure finds the session of the table usable. *)
Join(c) ==
  /\ phase[c] = "guard" /\ loop # "stopped" /\ Usable(table)
  /\ IF state[table] \in {"opening", "failing"}
     THEN /\ phase' = [phase EXCEPT ![c] = "opening"]
          /\ attempt' = [attempt EXCEPT ![c] = table]
          /\ UNCHANGED <<sent, out>>
     ELSE SendOn(c, table)
  /\ UNCHANGED <<caller, result, sessions, closed, loop, landed, own>>

(* The guard passes and _ensure opens a session. *)
Open(c) ==
  /\ phase[c] = "guard" /\ loop # "stopped" /\ ~Usable(table)
  /\ \E s \in Sessions :
       /\ state[s] = "unused"
       /\ table' = s /\ state' = [state EXCEPT ![s] = "opening"]
       /\ phase' = [phase EXCEPT ![c] = "opening"]
       /\ attempt' = [attempt EXCEPT ![c] = s]
  /\ UNCHANGED <<caller, sent, result, stop, failure, closed, loop, wire>>

(* _own: the handshake answers. *)
Opened(s) ==
  /\ state[s] = "opening" /\ loop # "stopped"
  /\ state' = [state EXCEPT ![s] = "open"]
  /\ UNCHANGED <<caller, calls, table, stop, failure, closed, loop, wire>>

(* _own: the handshake fails. *)
OpenFails(s, leaf) ==
  /\ state[s] = "opening" /\ loop # "stopped" /\ leaf \in Faults \ {"slowloop"}
  /\ state' = [state EXCEPT ![s] = "failing"]
  /\ failure' = [failure EXCEPT ![s] = {leaf}]
  /\ UNCHANGED <<caller, calls, table, stop, closed, loop, wire>>

(* _own: the contexts are left. *)
Finished(s) ==
  /\ state[s] \in {"failing", "closing"} /\ loop # "stopped"
  /\ state' = [state EXCEPT ![s] = "finished"]
  /\ UNCHANGED <<caller, calls, table, stop, failure, closed, loop, wire>>

(* _ensure wakes: the session opened, even if another call retired it       *)
(* since, or it ended without a handshake.                                  *)
Wake(c) ==
  /\ phase[c] = "opening" /\ loop # "stopped"
  /\ \/ /\ state[attempt[c]] \in {"open", "closing"}
        /\ SendOn(c, attempt[c])
        /\ UNCHANGED <<caller, result, sessions, closed, loop, landed, own>>
     \/ /\ state[attempt[c]] = "finished"
        /\ Failed(c, failure[attempt[c]])
        /\ UNCHANGED <<caller, closed, loop, wire>>

---------------------------------------------------------------------------
(* The engine takes a request that left, whoever still waits for it. *)
Take(c) ==
  /\ c \in out \ landed
  /\ landed' = landed \cup {c}
  /\ UNCHANGED <<caller, calls, sessions, closed, loop, out, own>>

(* The POST of a call raises, and the transport of its session dies with    *)
(* that leaf among the reasons; a session that unwinds still records it,    *)
(* for a call it was retired with too. A proxy may answer 502 for a call    *)
(* that landed.                                                             *)
PostFails(c, leaf) ==
  LET s == attempt[c] IN
  /\ c \in out /\ own[c] = "" /\ loop # "stopped"
  /\ phase[c] \in {"sent", "cause"} \/ (result[c] = "timeout" /\ stop[s])
  /\ leaf \in Faults \cap (Refusals \cup {"read"})
  /\ leaf \in Refusals \ {"gateway"} => c \notin landed
  /\ state[s] \in {"open", "closing"}
  /\ own' = [own EXCEPT ![c] = leaf]
  /\ out' = IF leaf = "read" \/ c \in landed THEN out ELSE out \ {c}
  /\ state' = [state EXCEPT ![s] = "closing"]
  /\ failure' = [failure EXCEPT ![s] = @ \cup {leaf}]
  /\ UNCHANGED <<caller, calls, table, stop, closed, loop, landed>>

Answerable(c) == phase[c] = "sent" /\ own[c] = "" /\ state[attempt[c]] \in {"open", "closing"}
                 /\ loop # "stopped"

(* The engine answers the call. *)
Replies(c, kind) ==
  /\ Answerable(c) /\ c \in landed
  /\ kind \in {"ok", "tool_error"}
  /\ Finish(c, kind)
  /\ UNCHANGED <<caller, attempt, sent, sessions, closed, loop, wire>>

(* The engine refuses the call with a JSON-RPC error. *)
RpcError(c) ==
  /\ Answerable(c) /\ c \in out /\ "rpc" \in Faults
  /\ Failed(c, {"rpc"})
  /\ own' = [own EXCEPT ![c] = "rpc"]
  /\ UNCHANGED <<caller, closed, loop, out, landed>>

(* The transport is gone: CONNECTION_CLOSED, and _root_cause waits for the  *)
(* owner to have left.                                                      *)
ConnectionClosed(c) ==
  /\ phase[c] = "sent" /\ state[attempt[c]] \in {"closing", "finished"}
  /\ loop # "stopped"
  /\ phase' = [phase EXCEPT ![c] = "cause"]
  /\ UNCHANGED <<caller, attempt, sent, result, sessions, closed, loop, wire>>

RootCause(c) ==
  /\ phase[c] = "cause" /\ state[attempt[c]] = "finished" /\ loop # "stopped"
  /\ Failed(c, failure[attempt[c]])
  /\ UNCHANGED <<caller, closed, loop, wire>>

---------------------------------------------------------------------------
(* The tasks of the calls C are cut off: each is answered by what it had    *)
(* sent, and its session is retired with the sessions in S.                 *)
CutOff(C, S) ==
  /\ phase' = [c \in Calls |-> IF c \in C THEN "ended" ELSE phase[c]]
  /\ result' = [c \in Calls |-> IF c \in C THEN Unanswered(c) ELSE result[c]]
  /\ Retire(({attempt[c] : c \in C} \cup S) \ {None})
  /\ UNCHANGED <<attempt, sent, failure>>

Unended(b) == {c \in b : phase[c] # "ended"}

(* Mutant: the bound starts with the request. *)
DeadlineOfSent(b) ==
  /\ caller[b] = "waiting" /\ loop # "stopped" /\ Unended(b) # {}
  /\ \E c \in b : sent[c]
  /\ CutOff(Unended(b), {})
  /\ caller' = [caller EXCEPT ![b] = "answered"]
  /\ UNCHANGED <<closed, loop, wire>>

(* _bounded at its deadline *)
Deadline(b) ==
  /\ caller[b] = "waiting" /\ loop # "stopped" /\ Unended(b) # {}
  /\ CutOff(Unended(b), {})
  /\ caller' = [caller EXCEPT ![b] = "answered"]
  /\ UNCHANGED <<closed, loop, wire>>

(* _bounded with every task done *)
Return(b) ==
  /\ caller[b] = "waiting" /\ loop # "stopped" /\ Unended(b) = {}
  /\ caller' = [caller EXCEPT ![b] = "answered"]
  /\ UNCHANGED <<calls, sessions, closed, loop, wire>>

(* The tasks of a batch its caller left: those it began run on, and those   *)
(* it had not begun start all the same, before the cancel gets to them.     *)
LeftBehind(b) ==
  IF caller[b] = "waiting" THEN phase
  ELSE [c \in Calls |-> IF c \notin b THEN phase[c]
                        ELSE IF loop = "stopped" THEN "ended" ELSE "guard"]

(* _run_bounded hears nothing from a loop that stopped or missed its own    *)
(* deadline.                                                                *)
GiveUp(b) ==
  /\ caller[b] \in {"submitted", "waiting"}
  /\ loop = "stopped" \/ "slowloop" \in Faults
  /\ caller' = [caller EXCEPT ![b] = "answered"]
  /\ result' = [c \in Calls |-> IF c \in b THEN "timeout" ELSE result[c]]
  /\ phase' = LeftBehind(b)
  /\ UNCHANGED <<attempt, sent, sessions, closed, loop, wire>>

(* The loop closed since _run_bounded looked: it takes no more calls. *)
TurnedAway(b) ==
  /\ caller[b] = "submitted" /\ loop = "stopped"
  /\ caller' = [caller EXCEPT ![b] = "answered"]
  /\ result' = [c \in Calls |-> IF c \in b THEN "unreachable" ELSE result[c]]
  /\ phase' = LeftBehind(b)
  /\ UNCHANGED <<attempt, sent, sessions, closed, loop, wire>>

(* close, its _shutdown on the loop, and the loop's end. *)
Close ==
  /\ ~closed /\ closed' = TRUE
  /\ UNCHANGED <<caller, calls, sessions, loop, wire>>

Sweep ==
  /\ closed /\ loop = "running" /\ loop' = "swept"
  /\ CutOff(UNION {Unended(b) : b \in {d \in Batches : caller[d] = "waiting"}}, {table})
  /\ UNCHANGED <<caller, closed, wire>>

StopLoop ==
  /\ closed /\ loop # "stopped" /\ loop' = "stopped"
  /\ phase' = [c \in Calls |-> IF phase[c] = "new" THEN "new" ELSE "ended"]
  /\ state' = [s \in Sessions |-> IF state[s] = "unused" THEN "unused" ELSE "finished"]
  /\ UNCHANGED <<caller, attempt, sent, result, table, stop, failure, closed, wire>>

---------------------------------------------------------------------------
CallStep(c) ==
  \/ Join(c) \/ Open(c) \/ Wake(c) \/ RpcError(c) \/ ConnectionClosed(c) \/ RootCause(c)
  \/ Take(c)
  \/ \E leaf \in Faults : GuardRefuses(c, leaf) \/ PostFails(c, leaf)
  \/ \E kind \in {"ok", "tool_error"} : Replies(c, kind)

SessionStep(s) ==
  \/ Opened(s) \/ Finished(s)
  \/ \E leaf \in Faults : OpenFails(s, leaf)

BatchStep(b) == Submit(b) \/ Begin(b) \/ Deadline(b) \/ Return(b) \/ GiveUp(b) \/ TurnedAway(b)

Next ==
  \/ \E c \in Calls : CallStep(c)
  \/ \E s \in Sessions : SessionStep(s)
  \/ \E b \in Batches : BatchStep(b)
  \/ Close \/ Sweep \/ StopLoop

Spec == Init /\ [][Next]_vars

(* The loop runs what is ready and its timers fire; a caller's own wait has *)
(* a bound; a close that began is carried through. Nothing is assumed of    *)
(* the engine, and a handshake or an unwinding session may hang.            *)
Fairness ==
  /\ \A b \in Batches : WF_vars(Begin(b)) /\ WF_vars(Deadline(b) \/ Return(b))
                        /\ WF_vars(GiveUp(b))

FairSpec == Spec /\ Fairness

---------------------------------------------------------------------------
(* Type invariant: every field of the bridge stays in its set. *)
TypeOK ==
  /\ caller \in [Batches -> {"new", "submitted", "waiting", "answered"}]
  /\ phase \in [Calls -> {"new", "guard", "opening", "sent", "cause", "ended"}]
  /\ attempt \in [Calls -> Sessions \cup {None}] /\ sent \in [Calls -> BOOLEAN]
  /\ result \in [Calls -> {"none", "ok", "tool_error", "timeout", "unreachable",
                            "unauthorized", "login_required"}]
  /\ table \in Sessions \cup {None}
  /\ state \in [Sessions -> {"unused", "opening", "open", "failing", "closing", "finished"}]
  /\ stop \in [Sessions -> BOOLEAN] /\ failure \in [Sessions -> SUBSET Faults]
  /\ closed \in BOOLEAN /\ loop \in {"running", "swept", "stopped"}
  /\ out \subseteq Calls /\ landed \subseteq out
  /\ own \in [Calls -> Faults \cup {""}]

(* A session leaves the table only stopped, finished or unwinding: none is  *)
(* left open behind the table's back, whoever retired or replaced it.       *)
NoSessionLeaks ==
  \A s \in Sessions : state[s] \in {"opening", "open"} => table = s /\ ~stop[s]

Denied(c) == result[c] \in {"unreachable", "unauthorized", "login_required"}

(* The one answer whose denial the owner accepted: its own 502 or 503. *)
AcceptedDenial(c) == result[c] = "unreachable" /\ own[c] = "gateway"

(* A call the engine took is not denied: "A write may have landed, so the   *)
(* provider must not claim nothing was stored."                             *)
NoFalseDenial == \A c \in landed : Denied(c) => AcceptedDenial(c)

(* A call the engine took is denied, its own 502 aside, only because the    *)
(* request of another call on its session was refused.                      *)
DenialIsShared ==
  \A c \in landed : Denied(c) /\ ~AcceptedDenial(c) =>
    \E d \in Calls \ {c} : attempt[d] = attempt[c] /\ own[d] \in Refusals

(* Every caller hears an answer, through hung handshakes, dead sessions and *)
(* a close in between.                                                      *)
EveryCallAnswered ==
  \A b \in Batches : caller[b] = "submitted" ~> caller[b] = "answered"

(* The bridge implements the promise: what the callers of answered batches  *)
(* were told, an accepted denial counting as "may have landed".             *)
Told == [c \in Calls |->
           IF \E b \in Batches : c \in b /\ caller[b] = "answered"
           THEN IF AcceptedDenial(c) THEN "timeout" ELSE result[c]
           ELSE "none"]

Promised == INSTANCE CallPromise WITH outcome <- Told
KeepsPromise == Promised!Promise
============================================================================
