------------------------- MODULE BridgeCallsProofs -------------------------
(* What the bridge's sessions and answers guarantee for any number of calls, *)
(* batches and sessions, and whatever may go wrong.                          *)
EXTENDS BridgeCalls, TLAPS

---------------------------------------------------------------------------
(* The inductive invariant. *)

(* A session exists from the call that opened it: before, nobody refers to   *)
(* it; nothing failed on it before it was open; and a call on its way, or    *)
(* one that was sent, has a session.                                         *)
SessionInv ==
  /\ NoSessionLeaks
  /\ \A s \in Sessions : state[s] = "unused" =>
       ~stop[s] /\ table # s /\ \A c \in Calls : attempt[c] # s
  /\ \A s \in Sessions : state[s] \in {"unused", "opening"} => failure[s] = {}
  /\ \A c \in Calls : phase[c] \in {"opening", "sent", "cause"} => attempt[c] \in Sessions
  /\ \A c \in Calls : sent[c] =>
       attempt[c] \in Sessions /\ state[attempt[c]] \in {"open", "closing", "finished"}

(* A call has no session before it looked for one and no request before it   *)
(* was sent; a refused request left nothing on the wire, a 502 aside; and    *)
(* a task that has not ended was not answered, but for a caller that gave up. *)
CallInv ==
  /\ \A c \in Calls : phase[c] \in {"new", "guard"} => attempt[c] = None
  /\ \A c \in Calls : phase[c] \in {"new", "guard", "opening"} =>
       ~sent[c] /\ own[c] = "" /\ c \notin out
  /\ \A c \in Calls : phase[c] \in {"sent", "cause"} => sent[c]
  /\ \A c \in out : sent[c] /\ own[c] \notin Refusals \ {"gateway"}
  /\ \A c \in Calls : phase[c] # "ended" => result[c] \in {"none", "timeout"}
  /\ \A b \in Batches : caller[b] \in {"new", "submitted"} =>
       \A c \in b : phase[c] = "new" /\ result[c] = "none"

(* Why a transport died: every leaf of a session that carried a request is   *)
(* the failure of some request on it.                                        *)
Carried(s) == state[s] \in {"open", "closing"} \/ \E c \in Calls : sent[c] /\ attempt[c] = s
Owned(leaf, s) == \E d \in Calls : attempt[d] = s /\ own[d] = leaf
FailureInv == \A s \in Sessions : Carried(s) => \A leaf \in failure[s] : Owned(leaf, s)

(* DenialIsShared, for every request that left: it may land after the denial. *)
Shared(c) == \E d \in Calls \ {c} : attempt[d] = attempt[c] /\ own[d] \in Refusals
DenialInv == \A c \in out : Denied(c) /\ ~AcceptedDenial(c) => Shared(c)

BridgeInv == TypeOK /\ SessionInv /\ CallInv /\ FailureInv /\ DenialInv

(* One call at a time, as Hermes makes a model's calls: batches of one call, *)
(* no batch beside another, and a loop that keeps its own deadlines.         *)
OneAtATime ==
  /\ ~Parallel /\ "slowloop" \notin Faults
  /\ \A b \in Batches : \A c, d \in b : c = d

(* At most one batch is under way, a call is under way only with its batch,  *)
(* and none on a loop that stopped.                                          *)
TurnInv ==
  /\ \A b, d \in Batches : {caller[b], caller[d]} \subseteq {"submitted", "waiting"} => b = d
  /\ \A b \in Batches : \A c \in b :
       /\ caller[b] = "waiting" => phase[c] # "new"
       /\ caller[b] = "answered" => phase[c] = "ended"
  /\ loop = "stopped" => \A c \in Calls : phase[c] \in {"new", "ended"}

(* A call under way is on a session nobody retired; one whose request failed *)
(* took its session along when it ended.                                     *)
FreshInv ==
  /\ \A c \in Calls : phase[c] \in {"opening", "sent", "cause"} => ~stop[attempt[c]]
  /\ \A c \in Calls : phase[c] = "ended" /\ own[c] # "" /\ attempt[c] # None =>
       stop[attempt[c]] \/ loop = "stopped"

(* What a caller hears is true of the request it made. *)
TruthInv ==
  /\ \A c \in out : Denied(c) => AcceptedDenial(c)
  /\ \A c \in Calls : result[c] = "ok" => c \in landed
  /\ \A c \in Calls : phase[c] = "ended" /\ loop # "stopped" => result[c] # "none"

SerialInv == BridgeInv /\ TurnInv /\ FreshInv /\ TruthInv

---------------------------------------------------------------------------
(* How a step may move one call. *)

Held(c) == attempt'[c] = attempt[c] /\ sent'[c] = sent[c]
Kept(c) == Held(c) /\ own'[c] = own[c] /\ (c \in out' <=> c \in out)

(* The call stays where it is, though its caller may give up on it. *)
Rests(c) == phase'[c] = phase[c] /\ Kept(c) /\ result'[c] \in {result[c], "timeout"}

(* Its task begins, its caller waiting or gone. *)
Starts(c) ==
  /\ phase[c] = "new" /\ phase'[c] = "guard" /\ loop # "stopped"
  /\ Kept(c) /\ result'[c] \in {result[c], "timeout"}

(* It waits for a session that is opening. *)
Seeks(c) ==
  /\ phase[c] = "guard" /\ phase'[c] = "opening" /\ loop # "stopped"
  /\ attempt'[c] \in Sessions /\ state'[attempt'[c]] # "unused" /\ ~stop'[attempt'[c]]
  /\ sent'[c] = sent[c] /\ own'[c] = own[c] /\ (c \in out' <=> c \in out)
  /\ result'[c] = result[c]

(* It is handed to a session, found usable or waited for. *)
Sends(c) ==
  /\ phase[c] \in {"guard", "opening"} /\ phase'[c] = "sent" /\ loop # "stopped"
  /\ attempt'[c] \in Sessions /\ state[attempt'[c]] \in {"open", "closing"}
  /\ IF phase[c] = "guard" THEN ~stop[attempt'[c]] ELSE attempt'[c] = attempt[c]
  /\ sent'[c] /\ own'[c] = own[c] /\ result'[c] = result[c]
  /\ stop'[attempt'[c]] = stop[attempt'[c]]

(* Its POST raises. *)
Loses(c) ==
  /\ phase[c] \in {"sent", "cause"} \/ (result[c] = "timeout" /\ stop[attempt[c]])
  /\ phase'[c] = phase[c] /\ loop # "stopped"
  /\ Held(c) /\ c \in out /\ own[c] = "" /\ own'[c] # ""
  /\ own'[c] \in Refusals \ {"gateway"} => c \notin out'
  /\ result'[c] = result[c]

(* It finds the transport gone. *)
Learns(c) ==
  /\ phase[c] = "sent" /\ phase'[c] = "cause" /\ loop # "stopped"
  /\ Kept(c) /\ result'[c] = result[c]

(* Its task ends: one that failed leaves no session behind, and a request    *)
(* that was sent is denied only for what its session died of.                *)
Ends(c) ==
  /\ phase[c] # "ended" /\ phase'[c] = "ended" /\ Held(c) /\ (c \in out' <=> c \in out)
  /\ own'[c] = own[c] \/ (own[c] = "" /\ (phase[c] = "guard" \/ own'[c] = "rpc"))
  /\ own'[c] = "" \/ attempt[c] = None \/ stop'[attempt[c]] \/ loop' = "stopped"
  /\ result'[c] # "none" \/ loop' = "stopped"
  /\ \/ result'[c] \in {result[c], "timeout", "tool_error"}
     \/ result'[c] = "ok" /\ c \in landed
     \/ result'[c] # "ok" /\ ~sent[c]
     \/ /\ phase[c] = "cause" /\ loop # "stopped" /\ own'[c] = own[c]
        /\ result'[c] = Classify(failure[attempt[c]], TRUE)

CallMove(c) ==
  \/ Rests(c) \/ Starts(c) \/ Seeks(c) \/ Sends(c) \/ Loses(c) \/ Learns(c) \/ Ends(c)

(* What the invariant says of one call, and of the fields. *)
CallFacts(k) ==
  /\ None \notin Sessions /\ attempt[k] \in Sessions \cup {None}
  /\ phase[k] \in {"new", "guard"} => attempt[k] = None
  /\ phase[k] \in {"new", "guard", "opening"} => ~sent[k] /\ own[k] = "" /\ k \notin out
  /\ phase[k] \in {"opening", "sent", "cause"} => attempt[k] \in Sessions
  /\ phase[k] \in {"sent", "cause"} => sent[k]
  /\ phase[k] # "ended" => result[k] \in {"none", "timeout"}
  /\ \A b \in Batches : k \in b /\ caller[b] \in {"new", "submitted"} => phase[k] = "new"

Fields ==
  /\ \E S : phase \in [Calls -> S]
  /\ \E S : attempt \in [Calls -> S]
  /\ sent \in [Calls -> BOOLEAN]
  /\ \E S : result \in [Calls -> S]
  /\ \E S : own \in [Calls -> S]
  /\ stop \in [Sessions -> BOOLEAN]
  /\ state \in [Sessions -> {"unused", "opening", "open", "failing", "closing", "finished"}]
  /\ \A s \in Sessions : state[s] = "unused" => ~stop[s]
  /\ table \in Sessions \cup {None} /\ None \notin Sessions
  /\ table \in Sessions => state[table] # "unused"
  /\ \A b \in Batches : b \subseteq Calls
  /\ "" \notin Faults

(* What _classify may say, and that it denies only for a refusal. *)
LEMMA Kinds ==
  ASSUME NEW leaves, NEW wasSent
  PROVE  /\ Classify(leaves, wasSent) \in
              {"login_required", "unauthorized", "unreachable", "tool_error", "timeout"}
         /\ Classify({"rpc"}, TRUE) = "tool_error"
         /\ Classify(leaves, wasSent) \in {"login_required", "unauthorized", "unreachable"} =>
              ~wasSent \/ \E leaf \in leaves : leaf \in Refusals
BY DEF Classify, Refusals

LEMMA CallsTyped ==
  ASSUME TypeOK, SessionInv, CallInv, NEW k \in Calls
  PROVE  CallFacts(k) /\ Fields
<1>1. /\ None \notin Sessions /\ attempt[k] \in Sessions \cup {None}
      /\ sent[k] \in BOOLEAN /\ own[k] \in Faults \cup {""}
  BY BridgeAssumption DEF TypeOK, Refusals
<1>2. phase[k] \in {"opening", "sent", "cause"} => attempt[k] \in Sessions
  BY DEF SessionInv
<1>3. CallFacts(k)
  BY <1>1, <1>2 DEF CallInv, CallFacts
<1>4. /\ \A b \in Batches : b \subseteq Calls
      /\ "" \notin Faults
  BY BridgeAssumption DEF Refusals
<1>5. /\ table \in Sessions => state[table] # "unused"
      /\ \A s \in Sessions : state[s] = "unused" => ~stop[s]
  BY DEF SessionInv
<1> QED
  BY <1>3, <1>4, <1>5, BridgeAssumption DEF TypeOK, Fields

(* A call's step is its own affair: every other call stays as it is. *)
LEMMA CallAlone ==
  ASSUME TypeOK, NEW c \in Calls, CallStep(c), NEW k \in Calls
  PROVE  /\ caller' = caller /\ closed' = closed /\ loop' = loop
         /\ k # c => Rests(k) /\ result'[k] = result[k]
         /\ phase[k] \in {"new", "ended"} => phase'[k] = phase[k] /\ result'[k] = result[k]
<1>a. /\ \E S : phase \in [Calls -> S]
      /\ \E S : attempt \in [Calls -> S]
      /\ \E S : sent \in [Calls -> S]
      /\ \E S : result \in [Calls -> S]
      /\ \E S : own \in [Calls -> S]
  BY DEF TypeOK
<1> DEFINE Alone ==
      /\ caller' = caller /\ closed' = closed /\ loop' = loop
      /\ k # c => Rests(k) /\ result'[k] = result[k]
      /\ phase[k] \in {"new", "ended"} => phase'[k] = phase[k] /\ result'[k] = result[k]
<1>1. CASE Join(c)
  BY <1>1, <1>a DEF Join, SendOn, Rests, Kept, Held
<1>2. CASE Open(c)
  BY <1>2, <1>a DEF Open, wire, Rests, Kept, Held
<1>3. CASE Wake(c)
  BY <1>3, <1>a DEF Wake, SendOn, Failed, Finish, wire, Rests, Kept, Held
<1>4. CASE RpcError(c)
  BY <1>4, <1>a DEF RpcError, Answerable, Failed, Finish, Rests, Kept, Held
<1>5. CASE ConnectionClosed(c)
  BY <1>5, <1>a DEF ConnectionClosed, wire, Rests, Kept, Held
<1>6. CASE RootCause(c)
  BY <1>6, <1>a DEF RootCause, Failed, Finish, wire, Rests, Kept, Held
<1>7. CASE Take(c)
  BY <1>7 DEF Take, calls, Rests, Kept, Held
<1>8. ASSUME NEW leaf \in Faults, GuardRefuses(c, leaf) \/ PostFails(c, leaf)
      PROVE  Alone
  BY <1>8, <1>a DEF GuardRefuses, PostFails, Finish, calls, Rests, Kept, Held
<1>9. ASSUME NEW kind \in {"ok", "tool_error"}, Replies(c, kind)
      PROVE  Alone
  BY <1>9, <1>a DEF Replies, Answerable, Finish, wire, Rests, Kept, Held
<1> QED
  BY <1>1, <1>2, <1>3, <1>4, <1>5, <1>6, <1>7, <1>8, <1>9 DEF CallStep

LEMMA CallMoves ==
  ASSUME NEW k \in Calls, TypeOK, SessionInv, CallInv, [Next]_vars
  PROVE  CallMove(k)
<1>a. CallFacts(k) /\ Fields
  BY CallsTyped
<1>1. CASE CallStep(k)
  <2>1. CASE Join(k)
    <3>1. /\ table \in Sessions /\ ~stop[table] /\ phase[k] = "guard" /\ loop # "stopped"
          /\ state[table] \in {"opening", "open", "failing", "closing"}
      BY <2>1, <1>a DEF Join, Usable, Fields
    <3>2. result' = result /\ own' = own /\ stop' = stop /\ state' = state
      BY <2>1 DEF Join, sessions
    <3>3. CASE state[table] \in {"opening", "failing"}
      <4>1. /\ phase' = [phase EXCEPT ![k] = "opening"]
            /\ attempt' = [attempt EXCEPT ![k] = table]
            /\ sent' = sent /\ out' = out
        BY <2>1, <3>3 DEF Join
      <4>2. Seeks(k)
        BY <3>1, <3>2, <4>1, <1>a DEF Fields, Seeks
      <4> QED
        BY <4>2 DEF CallMove
    <3>4. CASE state[table] \notin {"opening", "failing"}
      <4>1. SendOn(k, table)
        BY <2>1, <3>4 DEF Join
      <4>2. Sends(k)
        BY <3>1, <3>2, <3>4, <4>1, <1>a DEF SendOn, Fields, Sends
      <4> QED
        BY <4>2 DEF CallMove
    <3> QED
      BY <3>3, <3>4
  <2>2. CASE Open(k)
    <3>1. /\ phase[k] = "guard" /\ loop # "stopped" /\ stop' = stop
          /\ sent' = sent /\ result' = result /\ out' = out /\ own' = own
      BY <2>2 DEF Open, wire
    <3>2. PICK s \in Sessions :
            /\ state[s] = "unused" /\ state' = [state EXCEPT ![s] = "opening"]
            /\ phase' = [phase EXCEPT ![k] = "opening"]
            /\ attempt' = [attempt EXCEPT ![k] = s]
      BY <2>2 DEF Open
    <3>3. Seeks(k)
      BY <3>1, <3>2, <1>a DEF Fields, Seeks
    <3> QED
      BY <3>3 DEF CallMove
  <2>3. CASE Wake(k)
    <3>1. CASE state[attempt[k]] \in {"open", "closing"}
      <4>1. /\ phase[k] = "opening" /\ loop # "stopped" /\ SendOn(k, attempt[k])
            /\ result' = result /\ own' = own /\ stop' = stop
        BY <2>3, <3>1 DEF Wake, sessions
      <4>2. Sends(k)
        BY <3>1, <4>1, <1>a DEF SendOn, CallFacts, Fields, Sends
      <4> QED
        BY <4>2 DEF CallMove
    <3>2. CASE state[attempt[k]] = "finished"
      <4>1. /\ phase[k] = "opening" /\ Failed(k, failure[attempt[k]])
            /\ out' = out /\ own' = own
        BY <2>3, <3>2 DEF Wake, wire
      <4>2. Ends(k)
        BY <4>1, <1>a, Kinds DEF Failed, Finish, Retire, CallFacts, Fields, Ends, Held
      <4> QED
        BY <4>2 DEF CallMove
    <3> QED
      BY <2>3, <3>1, <3>2 DEF Wake
  <2>4. CASE RpcError(k)
    <3>1. Ends(k)
      BY <2>4, <1>a, Kinds
      DEF RpcError, Answerable, Failed, Finish, Retire, CallFacts, Fields, Ends, Held
    <3> QED
      BY <3>1 DEF CallMove
  <2>5. CASE ConnectionClosed(k)
    <3>1. Learns(k)
      BY <2>5, <1>a DEF ConnectionClosed, wire, Fields, Learns, Kept, Held
    <3> QED
      BY <3>1 DEF CallMove
  <2>6. CASE RootCause(k)
    <3>1. Ends(k)
      BY <2>6, <1>a, Kinds DEF RootCause, Failed, Finish, Retire, wire, CallFacts, Fields, Ends, Held
    <3> QED
      BY <3>1 DEF CallMove
  <2>7. CASE Take(k)
    BY <2>7 DEF Take, calls, CallMove, Rests, Kept, Held
  <2>8. ASSUME NEW leaf \in Faults, GuardRefuses(k, leaf)
        PROVE  CallMove(k)
    <3>1. Ends(k)
      BY <2>8, <1>a, Kinds DEF GuardRefuses, Finish, CallFacts, Fields, Ends, Held
    <3> QED
      BY <3>1 DEF CallMove
  <2>9. ASSUME NEW leaf \in Faults, PostFails(k, leaf)
        PROVE  CallMove(k)
    <3>1. Loses(k)
      BY <2>9, <1>a DEF PostFails, calls, Fields, Loses, Held, Refusals
    <3> QED
      BY <3>1 DEF CallMove
  <2>10. ASSUME NEW kind \in {"ok", "tool_error"}, Replies(k, kind)
         PROVE  CallMove(k)
    <3>1. Ends(k)
      BY <2>10, <1>a DEF Replies, Answerable, Finish, wire, CallFacts, Fields, Ends, Held
    <3> QED
      BY <3>1 DEF CallMove
  <2> QED
    BY <1>1, <2>1, <2>2, <2>3, <2>4, <2>5, <2>6, <2>7, <2>8, <2>9, <2>10 DEF CallStep
<1>2. ASSUME NEW c \in Calls, CallStep(c), c # k
      PROVE  CallMove(k)
  BY <1>2, CallAlone DEF CallMove
<1>3. CASE UNCHANGED <<calls, wire>>
  BY <1>3 DEF calls, wire, CallMove, Rests, Kept, Held
<1>4. ASSUME NEW s \in Sessions, SessionStep(s)
      PROVE  CallMove(k)
  BY <1>4, <1>3 DEF SessionStep, Opened, Finished, OpenFails
<1>5. ASSUME NEW b \in Batches, BatchStep(b)
      PROVE  CallMove(k)
  <2>1. CASE Submit(b)
    <3>1. CASE closed /\ k \in b
      <4>1. Ends(k)
        BY <2>1, <3>1, <1>a DEF Submit, wire, CallFacts, Fields, Ends, Held
      <4> QED
        BY <4>1 DEF CallMove
    <3>2. CASE ~(closed /\ k \in b)
      BY <2>1, <3>2, <1>a DEF Submit, wire, Fields, CallMove, Rests, Kept, Held
    <3> QED
      BY <3>1, <3>2
  <2>2. CASE Begin(b)
    <3>1. k \in b => Starts(k)
      BY <2>2, <1>a DEF Begin, wire, CallFacts, Fields, Starts, Kept, Held
    <3>2. k \notin b => Rests(k)
      BY <2>2, <1>a DEF Begin, wire, Fields, Rests, Kept, Held
    <3> QED
      BY <3>1, <3>2 DEF CallMove
  <2>3. CASE Deadline(b)
    <3>1. k \in Unended(b) => Ends(k)
      BY <2>3, <1>a
      DEF Deadline, CutOff, Retire, Unended, Unanswered, wire, CallFacts, Fields, Ends, Held
    <3>2. k \notin Unended(b) => Rests(k)
      BY <2>3, <1>a DEF Deadline, CutOff, wire, Fields, Rests, Kept, Held
    <3> QED
      BY <3>1, <3>2 DEF CallMove
  <2>4. CASE Return(b)
    BY <2>4, <1>3 DEF Return
  <2>5. CASE GiveUp(b)
    <3>1. k \in b /\ caller[b] = "submitted" /\ loop = "stopped" => Ends(k)
      BY <2>5, <1>a DEF GiveUp, LeftBehind, wire, CallFacts, Fields, Ends, Held
    <3>2. k \in b /\ caller[b] = "submitted" /\ loop # "stopped" => Starts(k)
      BY <2>5, <1>a DEF GiveUp, LeftBehind, wire, CallFacts, Fields, Starts, Kept, Held
    <3>3. ~(k \in b /\ caller[b] = "submitted") => Rests(k)
      BY <2>5, <1>a DEF GiveUp, LeftBehind, wire, Fields, Rests, Kept, Held
    <3> QED
      BY <3>1, <3>2, <3>3 DEF CallMove
  <2>6. CASE TurnedAway(b)
    <3>1. k \in b => Ends(k)
      BY <2>6, <1>a DEF TurnedAway, LeftBehind, wire, CallFacts, Fields, Ends, Held
    <3>2. k \notin b => Rests(k)
      BY <2>6, <1>a DEF TurnedAway, LeftBehind, wire, Fields, Rests, Kept, Held
    <3> QED
      BY <3>1, <3>2 DEF CallMove
  <2> QED
    BY <1>5, <2>1, <2>2, <2>3, <2>4, <2>5, <2>6 DEF BatchStep
<1>6. CASE Close
  BY <1>6, <1>3 DEF Close
<1>7. CASE Sweep
  <2> DEFINE C == UNION {Unended(b) : b \in {d \in Batches : caller[d] = "waiting"}}
  <2>1. CutOff(C, {table}) /\ wire' = wire
    BY <1>7 DEF Sweep
  <2>2. k \in C => phase[k] # "ended"
    BY DEF Unended
  <2> HIDE DEF C
  <2>3. k \in C => Ends(k)
    BY <2>1, <2>2, <1>a DEF CutOff, Retire, Unanswered, wire, CallFacts, Fields, Ends, Held
  <2>4. k \notin C => Rests(k)
    BY <2>1, <1>a DEF CutOff, wire, Fields, Rests, Kept, Held
  <2> QED
    BY <2>3, <2>4 DEF CallMove
<1>8. CASE StopLoop
  <2>1. phase[k] \notin {"new", "ended"} => Ends(k)
    BY <1>8, <1>a DEF StopLoop, wire, Fields, Ends, Held
  <2>2. phase[k] \in {"new", "ended"} => Rests(k)
    BY <1>8, <1>a DEF StopLoop, wire, Fields, Rests, Kept, Held
  <2> QED
    BY <2>1, <2>2 DEF CallMove
<1>9. CASE UNCHANGED vars
  BY <1>9, <1>3 DEF vars
<1> QED
  BY <1>1, <1>2, <1>4, <1>5, <1>6, <1>7, <1>8, <1>9 DEF Next

---------------------------------------------------------------------------
(* How a step may move one session. *)

SessionMove(s) ==
  /\ stop[s] => stop'[s]
  /\ state[s] = "unused" /\ state'[s] = "unused" => table' # s /\ ~stop'[s] /\ failure'[s] = failure[s]
  /\ state[s] = "unused" /\ state'[s] # "unused" =>
       state'[s] = "opening" /\ table' = s /\ ~stop'[s] /\ failure'[s] = failure[s]
  /\ state[s] # "unused" /\ state'[s] \in {"opening", "open"} =>
       state[s] \in {"opening", state'[s]} /\ table' = s /\ ~stop'[s]
  /\ state[s] # "unused" => state'[s] # "unused"
  /\ state[s] \in {"open", "closing", "finished"} => state'[s] \in {"open", "closing", "finished"}
  /\ state'[s] = "opening" => failure'[s] = failure[s]
  /\ state'[s] = "closing" => state[s] \in {"open", "closing"}
  /\ \/ failure'[s] = failure[s]
     \/ state[s] = "opening" /\ state'[s] = "failing"
     \/ \E c \in Calls : /\ sent[c] /\ attempt[c] = s /\ own'[c] # ""
                         /\ failure'[s] = failure[s] \cup {own'[c]}

LEMMA SessionRests ==
  ASSUME TypeOK, SessionInv, NEW s \in Sessions, UNCHANGED sessions
  PROVE  SessionMove(s)
<1>1. /\ state[s] \in {"unused", "opening", "open", "failing", "closing", "finished"}
      /\ state' = state /\ stop' = stop /\ table' = table /\ failure' = failure
  BY DEF TypeOK, sessions
<1>2. /\ state[s] = "unused" => table # s /\ ~stop[s]
      /\ state[s] \in {"opening", "open"} => table = s /\ ~stop[s]
  BY DEF SessionInv, NoSessionLeaks
<1> QED
  BY <1>1, <1>2 DEF SessionMove

LEMMA RetireMoves ==
  ASSUME TypeOK, SessionInv, NEW s \in Sessions, NEW S,
         \A r \in S : r \in Sessions /\ state[r] # "unused",
         Retire(S), failure' = failure
  PROVE  SessionMove(s)
<1>1. /\ state[s] \in {"unused", "opening", "open", "failing", "closing", "finished"}
      /\ table \in Sessions \cup {None} /\ None \notin Sessions /\ stop[s] \in BOOLEAN
  BY BridgeAssumption DEF TypeOK
<1>2. /\ state[s] = "unused" => table # s /\ ~stop[s]
      /\ state[s] \in {"opening", "open"} => table = s /\ ~stop[s]
  BY DEF SessionInv, NoSessionLeaks
<1>3. /\ s \notin S => state'[s] = state[s] /\ stop'[s] = stop[s] /\ (table = s => table' = s)
      /\ s \in S => state'[s] = Unwinding(state[s]) /\ stop'[s]
      /\ table' # s \/ table = s
  BY <1>1 DEF Retire
<1>4. CASE s \in S
  BY <1>1, <1>2, <1>3, <1>4 DEF SessionMove, Unwinding
<1>5. CASE s \notin S
  BY <1>1, <1>2, <1>3, <1>5 DEF SessionMove
<1> QED
  BY <1>4, <1>5

LEMMA SessionMoves ==
  ASSUME TypeOK, SessionInv, CallInv, NEW s \in Sessions, [Next]_vars
  PROVE  SessionMove(s)
<1>a. /\ state[s] \in {"unused", "opening", "open", "failing", "closing", "finished"}
      /\ table \in Sessions \cup {None} /\ None \notin Sessions /\ "" \notin Faults
      /\ stop \in [Sessions -> BOOLEAN] /\ failure \in [Sessions -> SUBSET Faults]
      /\ own \in [Calls -> Faults \cup {""}]
      /\ state \in [Sessions -> {"unused", "opening", "open", "failing", "closing", "finished"}]
  BY BridgeAssumption DEF TypeOK, Refusals
<1>b. /\ \A r \in Sessions : state[r] = "unused" => table # r /\ ~stop[r]
      /\ \A r \in Sessions : state[r] \in {"opening", "open"} => table = r /\ ~stop[r]
      /\ \A c \in Calls : attempt[c] \in Sessions => state[attempt[c]] # "unused"
      /\ \A c \in Calls : attempt[c] \in Sessions \cup {None}
  BY DEF SessionInv, NoSessionLeaks, TypeOK
<1>1. ASSUME NEW c \in Calls, NEW leaves, Failed(c, leaves)
      PROVE  SessionMove(s)
  BY <1>1, <1>b, RetireMoves DEF Failed
<1>2. ASSUME NEW C \in SUBSET Calls, NEW S \in SUBSET {table, None}, CutOff(C, S)
      PROVE  SessionMove(s)
  <2> DEFINE R == ({attempt[c] : c \in C} \cup S) \ {None}
  <2>1. ASSUME NEW r \in R
        PROVE  r \in Sessions /\ state[r] # "unused"
    <3>1. CASE r = table
      BY <3>1, <1>a, <1>b
    <3>2. CASE r # table
      <4>1. PICK c \in C : r = attempt[c]
        BY <3>2
      <4> QED
        BY <4>1, <1>b
    <3> QED
      BY <3>1, <3>2
  <2>2. Retire(R) /\ failure' = failure
    BY <1>2 DEF CutOff
  <2> QED
    BY <2>1, <2>2, RetireMoves
<1>3. ASSUME UNCHANGED sessions
      PROVE  SessionMove(s)
  BY <1>3, SessionRests
<1>4. ASSUME NEW c \in Calls, CallStep(c)
      PROVE  SessionMove(s)
  <2>1. CASE Join(c) \/ ConnectionClosed(c) \/ Take(c)
    BY <2>1, <1>3 DEF Join, ConnectionClosed, Take
  <2>2. CASE Wake(c) \/ RpcError(c) \/ RootCause(c)
    BY <2>2, <1>1, <1>3 DEF Wake, RpcError, RootCause
  <2>3. CASE Open(c)
    <3>1. PICK r \in Sessions : state[r] = "unused" /\ table' = r /\ state' = [state EXCEPT ![r] = "opening"]
      BY <2>3 DEF Open
    <3>2. stop' = stop /\ failure' = failure /\ ~Usable(table)
      BY <2>3 DEF Open
    <3>3. state[s] \notin {"opening", "open"}
      BY <3>2, <1>a, <1>b DEF Usable
    <3> QED
      BY <3>1, <3>2, <3>3, <1>a, <1>b DEF SessionMove
  <2>4. ASSUME NEW leaf \in Faults, GuardRefuses(c, leaf)
        PROVE  SessionMove(s)
    BY <2>4, <1>3 DEF GuardRefuses
  <2>5. ASSUME NEW leaf \in Faults, PostFails(c, leaf)
        PROVE  SessionMove(s)
    <3>1. /\ stop' = stop /\ table' = table /\ own' = [own EXCEPT ![c] = leaf]
          /\ state' = [state EXCEPT ![attempt[c]] = "closing"]
          /\ failure' = [failure EXCEPT ![attempt[c]] = @ \cup {leaf}]
          /\ state[attempt[c]] \in {"open", "closing"} /\ c \in out
      BY <2>5 DEF PostFails
    <3>2. sent[c] /\ own'[c] = leaf /\ leaf # ""
      BY <3>1, <1>a DEF CallInv
    <3>3. CASE s = attempt[c]
      BY <3>1, <3>2, <3>3, <1>a, <1>b DEF SessionMove
    <3>4. CASE s # attempt[c]
      BY <3>1, <3>2, <3>4, <1>a, <1>b DEF SessionMove
    <3> QED
      BY <3>3, <3>4
  <2>6. ASSUME NEW kind \in {"ok", "tool_error"}, Replies(c, kind)
        PROVE  SessionMove(s)
    BY <2>6, <1>3 DEF Replies
  <2> QED
    BY <1>4, <2>1, <2>2, <2>3, <2>4, <2>5, <2>6 DEF CallStep
<1>5. ASSUME NEW r \in Sessions, SessionStep(r)
      PROVE  SessionMove(s)
  <2>1. CASE Opened(r)
    BY <2>1, <1>a, <1>b DEF Opened, SessionMove
  <2>2. CASE Finished(r)
    BY <2>2, <1>a, <1>b DEF Finished, SessionMove
  <2>3. ASSUME NEW leaf \in Faults, OpenFails(r, leaf)
        PROVE  SessionMove(s)
    BY <2>3, <1>a, <1>b DEF OpenFails, SessionMove
  <2> QED
    BY <1>5, <2>1, <2>2, <2>3 DEF SessionStep
<1>6. ASSUME NEW b \in Batches, BatchStep(b)
      PROVE  SessionMove(s)
  <2>1. CASE Submit(b) \/ Begin(b) \/ Return(b) \/ GiveUp(b) \/ TurnedAway(b)
    BY <2>1, <1>3 DEF Submit, Begin, Return, GiveUp, TurnedAway
  <2>2. CASE Deadline(b)
    <3>1. Unended(b) \in SUBSET Calls /\ CutOff(Unended(b), {})
      BY <2>2, BridgeAssumption DEF Deadline, Unended
    <3> QED
      BY <3>1, <1>2
  <2> QED
    BY <1>6, <2>1, <2>2 DEF BatchStep
<1>7. CASE Close
  BY <1>7, <1>3 DEF Close
<1>8. CASE Sweep
  <2> DEFINE C == UNION {Unended(b) : b \in {d \in Batches : caller[d] = "waiting"}}
  <2>1. C \in SUBSET Calls /\ CutOff(C, {table})
    BY <1>8, BridgeAssumption DEF Sweep, Unended
  <2> QED
    BY <2>1, <1>2
<1>9. CASE StopLoop
  BY <1>9, <1>a, <1>b DEF StopLoop, SessionMove
<1>10. CASE UNCHANGED vars
  BY <1>10, <1>3 DEF vars
<1> QED
  BY <1>4, <1>5, <1>6, <1>7, <1>8, <1>9, <1>10 DEF Next

---------------------------------------------------------------------------
(* The tasks of a batch begin with the batch, not before. *)
LEMMA BatchWaits ==
  ASSUME TypeOK, CallInv, [Next]_vars, NEW b \in Batches, NEW k \in b, caller'[b] \in {"new", "submitted"}
  PROVE  phase'[k] = "new" /\ result'[k] = "none"
<1>a. /\ k \in Calls /\ \A d \in Batches : d = b \/ k \notin d
      /\ caller \in [Batches -> {"new", "submitted", "waiting", "answered"}]
      /\ \E S : phase \in [Calls -> S]
      /\ \E S : result \in [Calls -> S]
  BY BridgeAssumption DEF TypeOK
<1>b. caller[b] \in {"new", "submitted"} => phase[k] = "new" /\ result[k] = "none"
  BY DEF CallInv
<1>1. ASSUME NEW c \in Calls, CallStep(c)
      PROVE  phase'[k] = "new" /\ result'[k] = "none"
  BY <1>1, <1>a, <1>b, CallAlone
<1>2. CASE UNCHANGED <<caller, calls>>
  BY <1>2, <1>b DEF calls
<1>3. ASSUME NEW s \in Sessions, SessionStep(s)
      PROVE  phase'[k] = "new" /\ result'[k] = "none"
  BY <1>3, <1>2 DEF SessionStep, Opened, Finished, OpenFails
<1>4. ASSUME NEW d \in Batches, BatchStep(d)
      PROVE  phase'[k] = "new" /\ result'[k] = "none"
  <2>1. CASE Submit(d)
    BY <2>1, <1>a, <1>b DEF Submit
  <2>2. CASE Begin(d)
    BY <2>2, <1>a, <1>b DEF Begin
  <2>3. CASE Deadline(d)
    BY <2>3, <1>a, <1>b DEF Deadline, CutOff, Unended
  <2>4. CASE Return(d)
    BY <2>4, <1>a, <1>b DEF Return, calls
  <2>5. CASE GiveUp(d) \/ TurnedAway(d)
    BY <2>5, <1>a, <1>b DEF GiveUp, TurnedAway, LeftBehind
  <2> QED
    BY <1>4, <2>1, <2>2, <2>3, <2>4, <2>5 DEF BatchStep
<1>5. CASE Close
  BY <1>5, <1>2 DEF Close
<1>6. CASE Sweep
  BY <1>6, <1>a, <1>b DEF Sweep, CutOff, Unended
<1>7. CASE StopLoop
  BY <1>7, <1>a, <1>b DEF StopLoop
<1> QED
  BY <1>1, <1>2, <1>3, <1>4, <1>5, <1>6, <1>7 DEF Next, vars

LEMMA CallInvStep ==
  ASSUME TypeOK, SessionInv, CallInv, [Next]_vars, TypeOK'
  PROVE  CallInv'
<1>1. ASSUME NEW k \in Calls
      PROVE  /\ phase'[k] \in {"new", "guard"} => attempt'[k] = None
             /\ phase'[k] \in {"new", "guard", "opening"} => ~sent'[k] /\ own'[k] = "" /\ k \notin out'
             /\ phase'[k] \in {"sent", "cause"} => sent'[k]
             /\ k \in out' => sent'[k] /\ own'[k] \notin Refusals \ {"gateway"}
             /\ phase'[k] # "ended" => result'[k] \in {"none", "timeout"}
  <2>1. CallMove(k)
    BY CallMoves
  <2>2. CallFacts(k)
    BY CallsTyped
  <2>3. k \in out => sent[k] /\ own[k] \notin Refusals \ {"gateway"}
    BY DEF CallInv
  <2>4. CASE Rests(k) \/ Starts(k) \/ Learns(k)
    BY <2>2, <2>3, <2>4 DEF CallFacts, Rests, Starts, Learns, Kept, Held
  <2>5. CASE Seeks(k)
    BY <2>2, <2>5 DEF CallFacts, Seeks
  <2>6. CASE Sends(k)
    BY <2>2, <2>6 DEF CallFacts, Sends, Refusals
  <2>7. CASE Loses(k)
    BY <2>2, <2>3, <2>7 DEF CallFacts, Loses, Held
  <2>8. CASE Ends(k)
    BY <2>2, <2>3, <2>8 DEF CallFacts, Ends, Held, Refusals
  <2> QED
    BY <2>1, <2>4, <2>5, <2>6, <2>7, <2>8 DEF CallMove
<1>2. \A b \in Batches : caller'[b] \in {"new", "submitted"} =>
        \A c \in b : phase'[c] = "new" /\ result'[c] = "none"
  BY BatchWaits
<1>3. out' \subseteq Calls
  BY DEF TypeOK
<1> QED
  BY <1>1, <1>2, <1>3 DEF CallInv

LEMMA SessionInvStep ==
  ASSUME TypeOK, SessionInv, CallInv, [Next]_vars, TypeOK'
  PROVE  SessionInv'
<1>a. /\ \A c \in Calls : attempt[c] \in Sessions \cup {None} /\ attempt'[c] \in Sessions \cup {None}
      /\ None \notin Sessions
  BY BridgeAssumption DEF TypeOK
<1>b. \A s \in Sessions : SessionMove(s)
  BY SessionMoves
<1>1. NoSessionLeaks'
  BY <1>b DEF NoSessionLeaks, SessionMove
<1>2. ASSUME NEW k \in Calls
      PROVE  /\ phase'[k] \in {"opening", "sent", "cause"} => attempt'[k] \in Sessions
             /\ sent'[k] => /\ attempt'[k] \in Sessions
                            /\ state'[attempt'[k]] \in {"open", "closing", "finished"}
             /\ \A s \in Sessions : state'[s] = "unused" => attempt'[k] # s
  <2>1. CallMove(k)
    BY CallMoves
  <2>2. CallFacts(k)
    BY CallsTyped
  <2>3. /\ sent[k] => attempt[k] \in Sessions /\ state[attempt[k]] \in {"open", "closing", "finished"}
        /\ \A s \in Sessions : state[s] = "unused" => attempt[k] # s
    BY DEF SessionInv
  <2>4. CASE Held(k) /\ (phase'[k] \in {"opening", "sent", "cause"} => phase[k] \in {"opening", "sent", "cause"})
    BY <2>2, <2>3, <2>4, <1>b DEF CallFacts, Held, SessionMove
  <2>5. CASE Rests(k) \/ Starts(k) \/ Learns(k) \/ Loses(k) \/ Ends(k)
    BY <2>4, <2>5 DEF Rests, Starts, Learns, Loses, Ends, Kept
  <2>6. CASE Seeks(k)
    BY <2>2, <2>6, <1>b DEF CallFacts, Seeks, SessionMove
  <2>7. CASE Sends(k)
    BY <2>7, <1>b DEF Sends, SessionMove
  <2> QED
    BY <2>1, <2>5, <2>6, <2>7 DEF CallMove
<1>3. \A s \in Sessions : state'[s] = "unused" => ~stop'[s] /\ table' # s
  BY <1>b DEF SessionMove
<1>4. \A s \in Sessions : state'[s] \in {"unused", "opening"} => failure'[s] = {}
  <2>1. \A s \in Sessions : state[s] \in {"unused", "opening"} => failure[s] = {}
    BY DEF SessionInv
  <2> QED
    BY <2>1, <1>b DEF SessionMove
<1> QED
  BY <1>1, <1>2, <1>3, <1>4 DEF SessionInv

LEMMA FailureInvStep ==
  ASSUME TypeOK, SessionInv, CallInv, FailureInv, [Next]_vars
  PROVE  FailureInv'
<1> SUFFICES ASSUME NEW s \in Sessions, Carried(s)', NEW leaf \in failure'[s]
             PROVE  Owned(leaf, s)'
  BY DEF FailureInv
<1>1. SessionMove(s)
  BY SessionMoves
<1>2. ASSUME NEW c \in Calls, sent'[c], attempt'[c] = s
      PROVE  Carried(s)
  <2>1. CallMove(c)
    BY CallMoves
  <2>2. CASE Sends(c)
    BY <1>2, <2>2 DEF Sends, Carried
  <2>3. CASE Seeks(c)
    BY <1>2, <2>3, CallsTyped DEF Seeks, CallFacts
  <2>4. CASE Held(c)
    BY <1>2, <2>4 DEF Held, Carried
  <2> QED
    BY <2>1, <2>2, <2>3, <2>4 DEF CallMove, Rests, Starts, Learns, Loses, Ends, Kept
<1>3. ASSUME NEW l, Owned(l, s), l # ""
      PROVE  Owned(l, s)'
  <2>1. PICK d \in Calls : attempt[d] = s /\ own[d] = l
    BY <1>3 DEF Owned
  <2>2. CallMove(d) /\ CallFacts(d)
    BY CallMoves, CallsTyped
  <2>3. attempt'[d] = attempt[d] /\ own'[d] = own[d]
    BY <2>1, <2>2, <1>3 DEF CallMove, CallFacts, Rests, Starts, Seeks, Sends, Loses, Learns, Ends, Kept, Held
  <2> QED
    BY <2>1, <2>3 DEF Owned
<1>4. "" \notin failure[s]
  <2>1. failure[s] \subseteq Faults
    BY DEF TypeOK
  <2>2. "" \notin Faults
    BY BridgeAssumption DEF Refusals
  <2> QED
    BY <2>1, <2>2
<1>5. state'[s] \in {"open", "closing"} => Carried(s) \/ state[s] = "opening"
  BY <1>1 DEF SessionMove, Carried
<1>6. state[s] = "opening" => failure[s] = {}
  BY DEF SessionInv
<1>7. Carried(s) \/ (state[s] = "opening" /\ state'[s] = "open")
  <2>1. CASE state'[s] = "open"
    BY <1>5, <2>1
  <2>2. CASE state'[s] = "closing"
    BY <1>1, <2>2 DEF SessionMove, Carried
  <2>3. CASE state'[s] \notin {"open", "closing"}
    <3>1. PICK c \in Calls : sent'[c] /\ attempt'[c] = s
      BY <2>3 DEF Carried
    <3> QED
      BY <3>1, <1>2
  <2> QED
    BY <2>1, <2>2, <2>3
<1>8. \A l \in failure[s] : Owned(l, s)
  BY <1>6, <1>7 DEF FailureInv
<1>9. CASE leaf \in failure[s]
  BY <1>3, <1>4, <1>8, <1>9
<1>10. CASE leaf \notin failure[s]
  <2>1. ~(state[s] = "opening" /\ state'[s] = "failing")
    <3>1. state'[s] = "failing" => Carried(s)
      BY <1>7
    <3>2. Carried(s) => state[s] # "opening"
      BY DEF Carried, SessionInv
    <3> QED
      BY <3>1, <3>2
  <2>2. PICK c \in Calls : /\ sent[c] /\ attempt[c] = s /\ own'[c] # ""
                             /\ leaf = own'[c]
    BY <2>1, <1>1, <1>10 DEF SessionMove
  <2>3. CallMove(c) /\ CallFacts(c)
    BY CallMoves, CallsTyped
  <2>4. attempt'[c] = attempt[c]
    BY <2>2, <2>3 DEF CallMove, CallFacts, Rests, Starts, Seeks, Sends, Loses, Learns, Ends, Kept, Held
  <2> QED
    BY <2>2, <2>4 DEF Owned
<1> QED
  BY <1>9, <1>10

---------------------------------------------------------------------------
(* Types, sharing, and the theorems about every bridge. *)

Phases == {"new", "guard", "opening", "sent", "cause", "ended"}
Answers == {"none", "ok", "tool_error", "timeout", "unreachable", "unauthorized", "login_required"}

CallTypes ==
  /\ phase \in [Calls -> Phases] /\ attempt \in [Calls -> Sessions \cup {None}]
  /\ sent \in [Calls -> BOOLEAN] /\ result \in [Calls -> Answers]

SessionTypes ==
  /\ table \in Sessions \cup {None} /\ stop \in [Sessions -> BOOLEAN]
  /\ state \in [Sessions -> {"unused", "opening", "open", "failing", "closing", "finished"}]
  /\ failure \in [Sessions -> SUBSET Faults]

WireTypes == out \subseteq Calls /\ landed \subseteq out /\ own \in [Calls -> Faults \cup {""}]

OtherTypes ==
  /\ caller \in [Batches -> {"new", "submitted", "waiting", "answered"}]
  /\ closed \in BOOLEAN /\ loop \in {"running", "swept", "stopped"}

AllTypes == CallTypes /\ SessionTypes /\ WireTypes /\ OtherTypes

LEMMA TypesApart == TypeOK <=> AllTypes
BY DEF AllTypes, TypeOK, CallTypes, SessionTypes, WireTypes, OtherTypes, Phases, Answers

LEMMA RetireTypes ==
  ASSUME SessionTypes, NEW S, Retire(S), failure' = failure
  PROVE  SessionTypes'
BY DEF SessionTypes, Retire, Unwinding

LEMMA FailedTypes ==
  ASSUME CallTypes, SessionTypes, NEW c \in Calls, NEW leaves, Failed(c, leaves)
  PROVE  CallTypes' /\ SessionTypes'
<1>1. CallTypes'
  BY Kinds DEF CallTypes, Failed, Finish, Phases, Answers
<1>2. SessionTypes'
  BY RetireTypes DEF Failed
<1> QED
  BY <1>1, <1>2

LEMMA CutOffTypes ==
  ASSUME CallTypes, SessionTypes, NEW C, NEW S, CutOff(C, S)
  PROVE  CallTypes' /\ SessionTypes'
<1>1. CallTypes'
  BY DEF CallTypes, CutOff, Unanswered, Phases, Answers
<1>2. SessionTypes'
  BY RetireTypes DEF CutOff
<1> QED
  BY <1>1, <1>2

LEMMA TypeStep ==
  ASSUME TypeOK, SessionInv, CallInv, [Next]_vars
  PROVE  TypeOK'
<1>a. CallTypes /\ SessionTypes /\ WireTypes /\ OtherTypes
  BY TypesApart DEF AllTypes
<1>b. /\ UNCHANGED calls => CallTypes'
      /\ UNCHANGED sessions => SessionTypes'
      /\ UNCHANGED wire => WireTypes'
      /\ UNCHANGED <<caller, closed, loop>> => OtherTypes'
  BY <1>a DEF CallTypes, SessionTypes, WireTypes, OtherTypes, calls, sessions, wire
<1>c. SUFFICES AllTypes'
  BY DEF AllTypes, TypeOK, CallTypes, SessionTypes, WireTypes, OtherTypes, Phases, Answers
<1>1. ASSUME NEW c \in Calls, CallStep(c)
      PROVE  AllTypes'
  <2>1. OtherTypes'
    BY <1>1, <1>b, CallAlone
  <2>2. ASSUME NEW s \in Sessions, SendOn(c, s), UNCHANGED <<result, landed, own>>
        PROVE  CallTypes' /\ WireTypes'
    BY <2>2, <1>a DEF SendOn, CallTypes, WireTypes, Phases
  <2>3. CASE Join(c)
    <3>1. SessionTypes'
      BY <2>3, <1>b DEF Join
    <3>2. table \in Sessions
      BY <2>3, <1>a DEF Join, Usable, SessionTypes
    <3>3. CASE state[table] \in {"opening", "failing"}
      <4>1. CallTypes' /\ WireTypes'
        BY <2>3, <3>2, <3>3, <1>a DEF Join, CallTypes, WireTypes, Phases
      <4> QED
        BY <4>1, <3>1, <2>1 DEF AllTypes
    <3>4. CASE state[table] \notin {"opening", "failing"}
      BY <2>3, <3>1, <3>2, <3>4, <2>1, <2>2 DEF Join, AllTypes
    <3> QED
      BY <3>3, <3>4
  <2>4. CASE Open(c)
    <3>1. WireTypes'
      BY <2>4, <1>b DEF Open
    <3>2. CallTypes' /\ SessionTypes'
      BY <2>4, <1>a DEF Open, CallTypes, SessionTypes, Phases
    <3> QED
      BY <3>1, <3>2, <2>1 DEF AllTypes
  <2>5. CASE Wake(c)
    <3>1. attempt[c] \in Sessions
      BY <2>5 DEF Wake, SessionInv
    <3>2. CASE SendOn(c, attempt[c]) /\ UNCHANGED <<result, sessions, landed, own>>
      BY <3>1, <3>2, <2>1, <2>2, <1>b DEF AllTypes
    <3>3. CASE Failed(c, failure[attempt[c]]) /\ UNCHANGED wire
      BY <3>3, <2>1, <1>a, <1>b, FailedTypes DEF AllTypes
    <3> QED
      BY <2>5, <3>2, <3>3 DEF Wake
  <2>6. CASE RpcError(c)
    <3>1. WireTypes'
      BY <2>6, <1>a DEF RpcError, WireTypes
    <3> QED
      BY <2>6, <3>1, <2>1, <1>a, FailedTypes DEF RpcError, AllTypes
  <2>7. CASE ConnectionClosed(c)
    <3>1. CallTypes'
      BY <2>7, <1>a DEF ConnectionClosed, CallTypes, Phases
    <3> QED
      BY <2>7, <3>1, <2>1, <1>b DEF ConnectionClosed, AllTypes
  <2>8. CASE RootCause(c)
    BY <2>8, <2>1, <1>a, <1>b, FailedTypes DEF RootCause, AllTypes
  <2>9. CASE Take(c)
    <3>1. WireTypes'
      BY <2>9, <1>a DEF Take, WireTypes
    <3> QED
      BY <2>9, <3>1, <2>1, <1>b DEF Take, AllTypes
  <2>10. ASSUME NEW leaf \in Faults, GuardRefuses(c, leaf)
         PROVE  AllTypes'
    <3>1. CallTypes'
      BY <2>10, <1>a, Kinds DEF GuardRefuses, Finish, CallTypes, Phases, Answers
    <3>2. WireTypes'
      BY <2>10, <1>a DEF GuardRefuses, WireTypes
    <3> QED
      BY <2>10, <3>1, <3>2, <2>1, <1>b DEF GuardRefuses, AllTypes
  <2>11. ASSUME NEW leaf \in Faults, PostFails(c, leaf)
         PROVE  AllTypes'
    <3>1. WireTypes'
      BY <2>11, <1>a DEF PostFails, WireTypes
    <3>2. SessionTypes'
      BY <2>11, <1>a DEF PostFails, SessionTypes
    <3> QED
      BY <2>11, <3>1, <3>2, <2>1, <1>b DEF PostFails, AllTypes
  <2>12. ASSUME NEW kind \in {"ok", "tool_error"}, Replies(c, kind)
         PROVE  AllTypes'
    <3>1. CallTypes'
      BY <2>12, <1>a DEF Replies, Finish, CallTypes, Phases, Answers
    <3> QED
      BY <2>12, <3>1, <2>1, <1>b DEF Replies, AllTypes
  <2> QED
    BY <1>1, <2>3, <2>4, <2>5, <2>6, <2>7, <2>8, <2>9, <2>10, <2>11, <2>12 DEF CallStep
<1>2. ASSUME NEW s \in Sessions, SessionStep(s)
      PROVE  AllTypes'
  <2>1. SessionTypes'
    BY <1>2, <1>a DEF SessionStep, Opened, Finished, OpenFails, SessionTypes
  <2>2. UNCHANGED <<caller, calls, closed, loop, wire>>
    BY <1>2 DEF SessionStep, Opened, Finished, OpenFails
  <2> QED
    BY <2>1, <2>2, <1>b DEF AllTypes
<1>3. ASSUME NEW b \in Batches, BatchStep(b)
      PROVE  AllTypes'
  <2>1. OtherTypes' /\ WireTypes'
    <3>1. /\ UNCHANGED <<closed, loop, wire>>
          /\ \E v \in {"submitted", "waiting", "answered"} : caller' = [caller EXCEPT ![b] = v]
      BY <1>3 DEF BatchStep, Submit, Begin, Deadline, Return, GiveUp, TurnedAway
    <3> QED
      BY <3>1, <1>a, <1>b DEF OtherTypes
  <2>2. CASE Submit(b)
    <3>1. CallTypes'
      BY <2>2, <1>a DEF Submit, CallTypes, Phases, Answers
    <3> QED
      BY <2>2, <3>1, <2>1, <1>b DEF Submit, AllTypes
  <2>3. CASE Begin(b)
    <3>1. CallTypes'
      BY <2>3, <1>a DEF Begin, CallTypes, Phases
    <3> QED
      BY <2>3, <3>1, <2>1, <1>b DEF Begin, AllTypes
  <2>4. CASE Deadline(b)
    BY <2>4, <2>1, <1>a, CutOffTypes DEF Deadline, AllTypes
  <2>5. CASE Return(b)
    BY <2>5, <2>1, <1>b DEF Return, AllTypes
  <2>6. CASE GiveUp(b) \/ TurnedAway(b)
    <3>1. CallTypes'
      BY <2>6, <1>a DEF GiveUp, TurnedAway, LeftBehind, CallTypes, Phases, Answers
    <3> QED
      BY <2>6, <3>1, <2>1, <1>b DEF GiveUp, TurnedAway, AllTypes
  <2> QED
    BY <1>3, <2>2, <2>3, <2>4, <2>5, <2>6 DEF BatchStep
<1>4. CASE Close
  <2>1. OtherTypes'
    BY <1>4, <1>a DEF Close, OtherTypes
  <2> QED
    BY <1>4, <2>1, <1>b DEF Close, AllTypes
<1>5. CASE Sweep
  <2>1. OtherTypes'
    BY <1>5, <1>a DEF Sweep, OtherTypes
  <2> QED
    BY <1>5, <2>1, <1>a, <1>b, CutOffTypes DEF Sweep, AllTypes
<1>6. CASE StopLoop
  <2>1. CallTypes' /\ SessionTypes'
    BY <1>6, <1>a DEF StopLoop, CallTypes, SessionTypes, Phases
  <2>2. OtherTypes'
    BY <1>6, <1>a DEF StopLoop, OtherTypes
  <2> QED
    BY <1>6, <2>1, <2>2, <1>b DEF StopLoop, AllTypes
<1>7. CASE UNCHANGED vars
  BY <1>7, <1>b DEF vars, AllTypes
<1> QED
  BY <1>1, <1>2, <1>3, <1>4, <1>5, <1>6, <1>7 DEF Next

(* A request is denied for what another one met: its own refusal took it off *)
(* the wire, unless it was the accepted 502.                                 *)
LEMMA DeniedForAnother ==
  ASSUME BridgeInv, [Next]_vars, NEW c \in Calls, c \in out', Denied(c)', ~AcceptedDenial(c)',
         ~(c \in out /\ Denied(c) /\ ~AcceptedDenial(c))
  PROVE  /\ phase[c] = "cause" /\ loop # "stopped"
         /\ attempt[c] \in Sessions /\ attempt'[c] = attempt[c]
         /\ Shared(c)
<1> USE DEF BridgeInv
<1>1. CallMove(c) /\ CallFacts(c)
  BY CallMoves, CallsTyped
<1>2. result'[c] \in {"unreachable", "unauthorized", "login_required"}
  BY DEF Denied
<1>3. CASE Rests(c)
  BY <1>2, <1>3 DEF Rests, Kept, Denied, AcceptedDenial
<1>4. CASE Starts(c) \/ Seeks(c) \/ Sends(c) \/ Loses(c) \/ Learns(c)
  BY <1>1, <1>2, <1>4 DEF CallFacts, Starts, Seeks, Sends, Loses, Learns
<1>5. CASE Ends(c)
  <2>1. /\ c \in out /\ sent[c] /\ own[c] \notin Refusals \ {"gateway"}
        /\ result[c] \in {"none", "timeout"}
    BY <1>1, <1>5 DEF CallFacts, Ends, CallInv
  <2>2. /\ phase[c] = "cause" /\ loop # "stopped" /\ own'[c] = own[c]
        /\ result'[c] = Classify(failure[attempt[c]], TRUE)
    BY <1>2, <1>5, <2>1 DEF Ends
  <2>3. attempt'[c] = attempt[c] /\ attempt[c] \in Sessions
    BY <1>1, <1>5, <2>2 DEF Ends, Held, CallFacts
  <2>4. \A leaf \in failure[attempt[c]] : Owned(leaf, attempt[c])
    BY <2>1, <2>3 DEF FailureInv, Carried
  <2>5. PICK leaf \in failure[attempt[c]] : leaf \in Refusals /\ leaf # own[c]
    BY <2>1, <2>2 DEF Classify, Refusals, Denied, AcceptedDenial
  <2>6. PICK d \in Calls : attempt[d] = attempt[c] /\ own[d] = leaf
    BY <2>4, <2>5 DEF Owned
  <2>7. Shared(c)
    BY <2>5, <2>6 DEF Shared
  <2> QED
    BY <2>2, <2>3, <2>7
<1> QED
  BY <1>1, <1>3, <1>4, <1>5 DEF CallMove

LEMMA DenialInvStep ==
  ASSUME BridgeInv, [Next]_vars
  PROVE  DenialInv'
<1> USE DEF BridgeInv
<1>1. SUFFICES ASSUME NEW c \in out', Denied(c)', ~AcceptedDenial(c)'
               PROVE  Shared(c)'
  BY DEF DenialInv
<1>2. c \in Calls /\ "" \notin Refusals
  <2>1. TypeOK'
    BY TypeStep
  <2> QED
    BY <2>1 DEF TypeOK, Refusals
<1>3. attempt'[c] = attempt[c] /\ Shared(c)
  <2>1. CASE c \in out /\ Denied(c) /\ ~AcceptedDenial(c)
    <3>1. Shared(c) /\ sent[c]
      BY <2>1 DEF DenialInv, CallInv
    <3>2. CallMove(c) /\ CallFacts(c)
      BY <1>2, CallMoves, CallsTyped
    <3>3. attempt'[c] = attempt[c]
      BY <3>1, <3>2 DEF CallMove, CallFacts, Rests, Starts, Seeks, Sends, Loses, Learns, Ends, Kept, Held
    <3> QED
      BY <3>1, <3>3
  <2> QED
    BY <1>1, <1>2, <2>1, DeniedForAnother
<1>4. PICK d \in Calls \ {c} : attempt[d] = attempt[c] /\ own[d] \in Refusals
  BY <1>3 DEF Shared
<1>5. attempt'[d] = attempt[d] /\ own'[d] = own[d]
  <2>1. CallMove(d) /\ CallFacts(d)
    BY CallMoves, CallsTyped
  <2> QED
    BY <2>1, <1>2, <1>4 DEF CallMove, CallFacts, Rests, Starts, Seeks, Sends, Loses, Learns, Ends, Kept, Held
<1> QED
  BY <1>3, <1>4, <1>5 DEF Shared

LEMMA BridgeInitially == Init => BridgeInv
<1> SUFFICES ASSUME Init PROVE BridgeInv
  OBVIOUS
<1>1. None \notin Sessions /\ \A b \in Batches : b \subseteq Calls
  BY BridgeAssumption
<1>2. TypeOK
  BY <1>1 DEF Init, TypeOK
<1>3. SessionInv
  BY <1>1 DEF Init, SessionInv, NoSessionLeaks
<1>4. CallInv
  BY <1>1 DEF Init, CallInv
<1>5. FailureInv
  BY DEF Init, FailureInv
<1>6. DenialInv
  BY DEF Init, DenialInv
<1> QED
  BY <1>2, <1>3, <1>4, <1>5, <1>6 DEF BridgeInv

LEMMA BridgeNext == BridgeInv /\ [Next]_vars => BridgeInv'
<1> SUFFICES ASSUME BridgeInv, [Next]_vars PROVE BridgeInv'
  OBVIOUS
<1>1. TypeOK /\ SessionInv /\ CallInv /\ FailureInv
  BY DEF BridgeInv
<1>2. TypeOK'
  BY <1>1, TypeStep
<1>3. SessionInv' /\ CallInv' /\ FailureInv' /\ DenialInv'
  BY <1>1, <1>2, SessionInvStep, CallInvStep, FailureInvStep, DenialInvStep
<1> QED
  BY <1>2, <1>3 DEF BridgeInv

(* The invariant holds of every bridge: any calls, batches and sessions, any *)
(* faults, and batches submitted beside each other or not.                   *)
THEOREM BridgeKeeps == Spec => []BridgeInv
<1>1. Init => BridgeInv
  BY BridgeInitially
<1>2. BridgeInv /\ [Next]_vars => BridgeInv'
  BY BridgeNext
<1> QED
  BY <1>1, <1>2, PTL DEF Spec

(* Every field of the bridge stays in its set. *)
THEOREM BridgeTypes == Spec => []TypeOK
<1>1. BridgeInv => TypeOK
  BY DEF BridgeInv
<1> QED
  BY <1>1, BridgeKeeps, PTL

(* No session is left open behind the table's back, whichever of _retire,    *)
(* _ensure, the deadline and close got to it first.                          *)
THEOREM SessionsNeverLeak == Spec => []NoSessionLeaks
<1>1. BridgeInv => NoSessionLeaks
  BY DEF BridgeInv, SessionInv
<1> QED
  BY <1>1, BridgeKeeps, PTL

(* A call the engine took is denied, its own 502 aside, only for what        *)
(* another call on its session met: _classify reads the leaves of the shared *)
(* session, never of another one.                                            *)
THEOREM DenialsAreShared == Spec => []DenialIsShared
<1>1. BridgeInv => DenialIsShared
  BY DEF BridgeInv, TypeOK, DenialInv, Shared, DenialIsShared
<1> QED
  BY <1>1, BridgeKeeps, PTL

---------------------------------------------------------------------------
(* One call at a time: the bridge keeps the promise of CallPromise. *)

LEMMA CallerMoves ==
  ASSUME TypeOK, CallInv, [Next]_vars, NEW b \in Batches
  PROVE  \/ caller'[b] = caller[b]
         \/ /\ Submit(b) \/ Begin(b) \/ Deadline(b) \/ Return(b) \/ GiveUp(b) \/ TurnedAway(b)
            /\ \A d \in Batches \ {b} : caller'[d] = caller[d]
<1>a. caller \in [Batches -> {"new", "submitted", "waiting", "answered"}]
  BY DEF TypeOK
<1>1. CASE caller' = caller
  BY <1>1
<1>2. ASSUME NEW c \in Calls, CallStep(c)
      PROVE  caller' = caller
  BY <1>2, CallAlone
<1>3. ASSUME NEW s \in Sessions, SessionStep(s)
      PROVE  caller' = caller
  BY <1>3 DEF SessionStep, Opened, Finished, OpenFails
<1>4. ASSUME NEW d \in Batches, BatchStep(d)
      PROVE  \E v : caller' = [caller EXCEPT ![d] = v]
  BY <1>4 DEF BatchStep, Submit, Begin, Deadline, Return, GiveUp, TurnedAway
<1>5. CASE Close \/ Sweep \/ StopLoop \/ UNCHANGED vars
  BY <1>1, <1>5 DEF Close, Sweep, StopLoop, vars
<1>6. ASSUME NEW d \in Batches, BatchStep(d)
      PROVE  \/ caller'[b] = caller[b]
             \/ BatchStep(b) /\ \A e \in Batches \ {b} : caller'[e] = caller[e]
  BY <1>4, <1>6, <1>a
<1> QED
  BY <1>1, <1>2, <1>3, <1>5, <1>6 DEF Next, BatchStep

LEMMA LoopMoves ==
  ASSUME TypeOK, [Next]_vars
  PROVE  loop' = loop \/ (Sweep /\ loop' = "swept") \/ (StopLoop /\ loop' = "stopped")
<1>1. ASSUME NEW c \in Calls, CallStep(c)
      PROVE  loop' = loop
  BY <1>1, CallAlone
<1>2. ASSUME NEW s \in Sessions, SessionStep(s)
      PROVE  loop' = loop
  BY <1>2 DEF SessionStep, Opened, Finished, OpenFails
<1>3. ASSUME NEW b \in Batches, BatchStep(b)
      PROVE  loop' = loop
  BY <1>3 DEF BatchStep, Submit, Begin, Deadline, Return, GiveUp, TurnedAway
<1> QED
  BY <1>1, <1>2, <1>3 DEF Next, Close, Sweep, StopLoop, vars

(* Whoever is under way is under way alone. *)
LEMMA OnlyOne ==
  ASSUME OneAtATime, TypeOK, CallInv, TurnInv, NEW c \in Calls, phase[c] \notin {"new", "ended"}
  PROVE  /\ \E b \in Batches : c \in b /\ caller[b] = "waiting"
         /\ \A d \in Calls : phase[d] \notin {"new", "ended"} => d = c
         /\ loop # "stopped"
<1>1. ASSUME NEW d \in Calls, phase[d] \notin {"new", "ended"}
      PROVE  \E b \in Batches : d \in b /\ caller[b] = "waiting"
  <2>1. PICK b \in Batches : d \in b
    BY BridgeAssumption
  <2>2. caller[b] \in {"new", "submitted", "waiting", "answered"}
    BY DEF TypeOK
  <2>3. caller[b] \notin {"new", "submitted"}
    BY <1>1, <2>1 DEF CallInv
  <2>4. caller[b] # "answered"
    BY <1>1, <2>1 DEF TurnInv
  <2> QED
    BY <2>1, <2>2, <2>3, <2>4
<1>2. ASSUME NEW d \in Calls, phase[d] \notin {"new", "ended"}
      PROVE  d = c
  <2>1. PICK b \in Batches : d \in b /\ caller[b] = "waiting"
    BY <1>1, <1>2
  <2>2. PICK e \in Batches : c \in e /\ caller[e] = "waiting"
    BY <1>1
  <2>3. b = e
    BY <2>1, <2>2 DEF TurnInv
  <2> QED
    BY <2>1, <2>2, <2>3 DEF OneAtATime
<1>3. loop # "stopped"
  BY DEF TurnInv
<1> QED
  BY <1>1, <1>2, <1>3

LEMMA TurnInvStep ==
  ASSUME OneAtATime, BridgeInv, TurnInv, [Next]_vars
  PROVE  TurnInv'
<1>a. TypeOK /\ SessionInv /\ CallInv
  BY DEF BridgeInv
<1>b. caller \in [Batches -> {"new", "submitted", "waiting", "answered"}]
      /\ \A b \in Batches : b \subseteq Calls
  BY <1>a, BridgeAssumption DEF TypeOK
<1>1. ASSUME NEW b \in Batches, NEW d \in Batches, b # d,
             {caller'[b], caller'[d]} \subseteq {"submitted", "waiting"}
      PROVE  FALSE
  <2>1. ASSUME NEW e \in Batches, caller'[e] \in {"submitted", "waiting"},
               caller[e] \notin {"submitted", "waiting"}
        PROVE  \A f \in Batches \ {e} : caller'[f] = caller[f] /\ caller[f] \in {"new", "answered"}
    <3>1. caller'[e] # caller[e]
      BY <2>1
    <3>2. \/ Submit(e) \/ Begin(e) \/ Deadline(e) \/ Return(e) \/ GiveUp(e) \/ TurnedAway(e)
      BY <3>1, <1>a, CallerMoves
    <3>3. \A f \in Batches \ {e} : caller'[f] = caller[f]
      BY <3>1, <1>a, CallerMoves
    <3>4. Submit(e)
      BY <2>1, <3>2, <1>b DEF Begin, Deadline, Return, GiveUp, TurnedAway
    <3>5. \A f \in Batches : caller[f] \in {"new", "answered"}
      BY <3>4 DEF Submit, OneAtATime
    <3> QED
      BY <3>3, <3>5
  <2>2. {caller[b], caller[d]} \subseteq {"submitted", "waiting"}
    BY <1>1, <2>1
  <2> QED
    BY <1>1, <2>2 DEF TurnInv
<1>2. ASSUME NEW b \in Batches, NEW c \in b
      PROVE  /\ caller'[b] = "waiting" => phase'[c] # "new"
             /\ caller'[b] = "answered" => phase'[c] = "ended"
  <2>1. c \in Calls /\ CallMove(c)
    BY <1>a, <1>b, <1>2, CallMoves
  <2>2. /\ caller[b] = "waiting" => phase[c] # "new"
        /\ caller[b] = "answered" => phase[c] = "ended"
        /\ loop = "stopped" => phase[c] \in {"new", "ended"}
    BY <2>1 DEF TurnInv
  <2>3. /\ phase[c] # "new" => phase'[c] # "new"
        /\ phase[c] = "ended" => phase'[c] = "ended"
    BY <2>1 DEF CallMove, Rests, Starts, Seeks, Sends, Loses, Learns, Ends
  <2>4. CASE caller'[b] = caller[b]
    BY <2>2, <2>3, <2>4
  <2>5. CASE Submit(b)
    BY <2>1, <2>5, <1>b DEF Submit
  <2>6. CASE Begin(b)
    BY <2>1, <2>6, <1>b DEF Begin
  <2>7. CASE Deadline(b)
    BY <2>1, <2>7, <1>b DEF Deadline, CutOff, Unended
  <2>8. CASE Return(b)
    BY <2>1, <2>3, <2>8, <1>b DEF Return, Unended
  <2>9. CASE GiveUp(b)
    <3>1. loop = "stopped" /\ caller'[b] = "answered" /\ caller[b] \in {"submitted", "waiting"}
      BY <2>9, <1>b DEF GiveUp, OneAtATime
    <3>2. caller[b] = "submitted" => phase'[c] = "ended"
      BY <2>9, <3>1, <2>1 DEF GiveUp, LeftBehind
    <3>3. caller[b] = "waiting" => phase[c] = "ended"
      BY <3>1, <2>2
    <3> QED
      BY <3>1, <3>2, <3>3, <2>3
  <2>10. CASE TurnedAway(b)
    BY <2>1, <2>10, <1>b DEF TurnedAway, LeftBehind
  <2> QED
    BY <1>a, <2>4, <2>5, <2>6, <2>7, <2>8, <2>9, <2>10, CallerMoves
<1>3. ASSUME loop' = "stopped", NEW c \in Calls
      PROVE  phase'[c] \in {"new", "ended"}
  <2>1. CallMove(c)
    BY <1>a, CallMoves
  <2>2. CASE loop = "stopped"
    <3>1. phase[c] \in {"new", "ended"}
      BY <2>2 DEF TurnInv
    <3> QED
      BY <2>1, <2>2, <3>1 DEF CallMove, Rests, Starts, Seeks, Sends, Loses, Learns, Ends
  <2>3. CASE StopLoop
    BY <2>3 DEF StopLoop
  <2> QED
    BY <1>3, <1>a, <2>2, <2>3, LoopMoves
<1> QED
  BY <1>1, <1>2, <1>3 DEF TurnInv

(* A session is retired with the call that is under way on it. *)
LEMMA StopMoves ==
  ASSUME OneAtATime, BridgeInv, TurnInv, [Next]_vars, NEW k \in Calls,
         phase[k] \notin {"new", "ended"}, phase'[k] \notin {"new", "ended"}
  PROVE  stop' = stop
<1>a. TypeOK /\ CallInv /\ (\A b \in Batches : b \subseteq Calls)
  BY BridgeAssumption DEF BridgeInv
<1>b. /\ \A d \in Calls : phase[d] \notin {"new", "ended"} => d = k
      /\ \E b \in Batches : k \in b /\ caller[b] = "waiting"
  BY <1>a, OnlyOne
<1>c. \E S : phase \in [Calls -> S]
  BY <1>a DEF TypeOK
<1>1. ASSUME NEW c \in Calls, NEW leaves, Failed(c, leaves), phase[c] \notin {"new", "ended"}
      PROVE  FALSE
  BY <1>1, <1>b, <1>c DEF Failed, Finish
<1>2. CASE UNCHANGED sessions
  BY <1>2 DEF sessions
<1>3. ASSUME NEW c \in Calls, CallStep(c)
      PROVE  stop' = stop
  <2>1. CASE Join(c) \/ ConnectionClosed(c) \/ Take(c)
    BY <2>1, <1>2 DEF Join, ConnectionClosed, Take
  <2>2. CASE Wake(c)
    BY <2>2, <1>1, <1>2 DEF Wake
  <2>3. CASE RpcError(c)
    BY <2>3, <1>1 DEF RpcError, Answerable
  <2>4. CASE RootCause(c)
    BY <2>4, <1>1 DEF RootCause
  <2>5. CASE Open(c)
    BY <2>5 DEF Open
  <2>6. ASSUME NEW leaf \in Faults, GuardRefuses(c, leaf) \/ PostFails(c, leaf)
        PROVE  stop' = stop
    BY <2>6, <1>2 DEF GuardRefuses, PostFails
  <2>7. ASSUME NEW kind \in {"ok", "tool_error"}, Replies(c, kind)
        PROVE  stop' = stop
    BY <2>7, <1>2 DEF Replies
  <2> QED
    BY <1>3, <2>1, <2>2, <2>3, <2>4, <2>5, <2>6, <2>7 DEF CallStep
<1>4. ASSUME NEW s \in Sessions, SessionStep(s)
      PROVE  stop' = stop
  BY <1>4 DEF SessionStep, Opened, Finished, OpenFails
<1>5. ASSUME NEW b \in Batches, BatchStep(b)
      PROVE  stop' = stop
  <2>1. CASE Deadline(b)
    <3>1. k \in b
      BY <2>1, <1>a, <1>b DEF Deadline, TurnInv
    <3>2. phase'[k] = "ended"
      BY <2>1, <3>1 DEF Deadline, CutOff, Unended
    <3> QED
      BY <3>2
  <2>2. CASE Submit(b) \/ Begin(b) \/ Return(b) \/ GiveUp(b) \/ TurnedAway(b)
    BY <2>2, <1>2 DEF Submit, Begin, Return, GiveUp, TurnedAway
  <2> QED
    BY <1>5, <2>1, <2>2 DEF BatchStep
<1>6. CASE Sweep
  <2>1. phase'[k] = "ended"
    BY <1>6, <1>b DEF Sweep, CutOff, Unended
  <2> QED
    BY <2>1
<1>7. CASE Close \/ StopLoop \/ UNCHANGED vars
  BY <1>7, <1>2 DEF Close, StopLoop, vars
<1> QED
  BY <1>3, <1>4, <1>5, <1>6, <1>7 DEF Next

LEMMA FreshInvStep ==
  ASSUME OneAtATime, BridgeInv, TurnInv, FreshInv, [Next]_vars
  PROVE  FreshInv'
<1>a. TypeOK /\ SessionInv /\ CallInv
  BY DEF BridgeInv
<1> SUFFICES ASSUME NEW k \in Calls
             PROVE  /\ phase'[k] \in {"opening", "sent", "cause"} => ~stop'[attempt'[k]]
                    /\ phase'[k] = "ended" /\ own'[k] # "" /\ attempt'[k] # None =>
                         stop'[attempt'[k]] \/ loop' = "stopped"
  BY DEF FreshInv
<1>1. CallMove(k) /\ CallFacts(k)
  BY <1>a, CallMoves, CallsTyped
<1>2. /\ phase[k] \in {"opening", "sent", "cause"} => ~stop[attempt[k]]
      /\ phase[k] = "ended" /\ own[k] # "" /\ attempt[k] # None =>
           stop[attempt[k]] \/ loop = "stopped"
  BY DEF FreshInv
<1>3. phase'[k] \in {"opening", "sent", "cause"} => ~stop'[attempt'[k]]
  <2>1. CASE Seeks(k)
    BY <2>1 DEF Seeks
  <2>2. CASE Sends(k)
    BY <1>2, <2>2 DEF Sends
  <2>3. ASSUME phase[k] \in {"opening", "sent", "cause"}, phase'[k] \in {"opening", "sent", "cause"},
               attempt'[k] = attempt[k]
        PROVE  ~stop'[attempt'[k]]
    BY <1>2, <2>3, StopMoves
  <2> QED
    BY <1>1, <2>1, <2>2, <2>3 DEF CallMove, Rests, Starts, Loses, Learns, Ends, Kept, Held
<1>4. ASSUME phase'[k] = "ended", own'[k] # "", attempt'[k] # None
      PROVE  stop'[attempt'[k]] \/ loop' = "stopped"
  <2>1. CASE Rests(k)
    <3>1. /\ attempt'[k] = attempt[k] /\ attempt[k] \in Sessions
          /\ stop[attempt[k]] \/ loop = "stopped"
      BY <1>1, <1>2, <1>4, <2>1 DEF Rests, Kept, Held, CallFacts
    <3>2. stop[attempt[k]] => stop'[attempt[k]]
      BY <1>a, <3>1, SessionMoves DEF SessionMove
    <3>3. loop = "stopped" => loop' = "stopped"
      BY <1>a, LoopMoves DEF Sweep, StopLoop
    <3> QED
      BY <3>1, <3>2, <3>3
  <2>2. CASE Loses(k)
    <3>1. attempt'[k] = attempt[k] /\ attempt[k] \in Sessions /\ stop[attempt[k]]
      BY <1>1, <1>4, <2>2 DEF Loses, Held, CallFacts
    <3> QED
      BY <1>a, <3>1, SessionMoves DEF SessionMove
  <2>3. CASE Ends(k)
    BY <1>4, <2>3 DEF Ends, Held
  <2> QED
    BY <1>1, <1>4, <2>1, <2>2, <2>3 DEF CallMove, Starts, Seeks, Sends, Learns
<1> QED
  BY <1>3, <1>4

(* The engine's word stands, and only Take gives it. *)
LEMMA LandedMoves ==
  ASSUME [Next]_vars
  PROVE  landed' = landed \/ \E c \in Calls : Take(c)
<1>1. ASSUME NEW c \in Calls, CallStep(c)
      PROVE  landed' = landed \/ Take(c)
  <2>1. CASE Join(c) \/ Open(c) \/ Wake(c) \/ ConnectionClosed(c) \/ RootCause(c) \/ RpcError(c)
    BY <2>1 DEF Join, Open, Wake, ConnectionClosed, RootCause, RpcError, wire
  <2>2. ASSUME NEW leaf \in Faults, GuardRefuses(c, leaf) \/ PostFails(c, leaf)
        PROVE  landed' = landed
    BY <2>2 DEF GuardRefuses, PostFails
  <2>3. ASSUME NEW kind \in {"ok", "tool_error"}, Replies(c, kind)
        PROVE  landed' = landed
    BY <2>3 DEF Replies, wire
  <2> QED
    BY <1>1, <2>1, <2>2, <2>3 DEF CallStep
<1>2. ASSUME NEW s \in Sessions, SessionStep(s)
      PROVE  landed' = landed
  BY <1>2 DEF SessionStep, Opened, Finished, OpenFails, wire
<1>3. ASSUME NEW b \in Batches, BatchStep(b)
      PROVE  landed' = landed
  BY <1>3 DEF BatchStep, Submit, Begin, Deadline, Return, GiveUp, TurnedAway, wire
<1>4. CASE Close \/ Sweep \/ StopLoop \/ UNCHANGED vars
  BY <1>4 DEF Close, Sweep, StopLoop, vars, wire
<1> QED
  BY <1>1, <1>2, <1>3, <1>4 DEF Next

LEMMA TruthInvStep ==
  ASSUME OneAtATime, BridgeInv, TurnInv, FreshInv, TruthInv, [Next]_vars
  PROVE  TruthInv'
<1>a. TypeOK /\ SessionInv /\ CallInv /\ TypeOK'
  BY TypeStep DEF BridgeInv
<1>1. ASSUME NEW c \in out', Denied(c)', ~AcceptedDenial(c)'
      PROVE  FALSE
  <2>1. c \in Calls /\ "" \notin Refusals
    BY <1>a DEF TypeOK, Refusals
  <2>2. ~(c \in out /\ Denied(c) /\ ~AcceptedDenial(c))
    BY DEF TruthInv
  <2>3. /\ phase[c] = "cause" /\ loop # "stopped"
        /\ attempt[c] \in Sessions /\ Shared(c)
    BY <1>1, <2>1, <2>2, DeniedForAnother
  <2>4. PICK d \in Calls \ {c} : attempt[d] = attempt[c] /\ own[d] \in Refusals
    BY <2>3 DEF Shared
  <2>5. phase[d] \in {"new", "ended"}
    BY <1>a, <2>1, <2>3, <2>4, OnlyOne
  <2>6. phase[d] # "new"
    BY <2>1, <2>4 DEF BridgeInv, CallInv
  <2>7. attempt[d] # None
    BY <2>3, <2>4, BridgeAssumption
  <2>8. stop[attempt[d]] \/ loop = "stopped"
    BY <2>1, <2>4, <2>5, <2>6, <2>7 DEF FreshInv
  <2>9. ~stop[attempt[c]]
    BY <2>1, <2>3 DEF FreshInv
  <2> QED
    BY <2>3, <2>4, <2>8, <2>9
<1>2. landed \subseteq landed'
  BY LandedMoves DEF Take
<1>3. ASSUME NEW c \in Calls
      PROVE  /\ result'[c] = "ok" => c \in landed'
             /\ phase'[c] = "ended" /\ loop' # "stopped" => result'[c] # "none"
  <2>1. CallMove(c) /\ (loop = "stopped" => loop' = "stopped")
    BY <1>a, CallMoves, LoopMoves DEF Sweep, StopLoop
  <2>2. /\ result[c] = "ok" => c \in landed
        /\ phase[c] = "ended" /\ loop # "stopped" => result[c] # "none"
    BY DEF TruthInv
  <2>3. CASE Ends(c)
    <3>1. Classify(failure[attempt[c]], TRUE) # "ok"
      BY Kinds
    <3>2. result'[c] # "none" \/ loop' = "stopped"
      BY <2>3 DEF Ends
    <3>3. \/ result'[c] \in {result[c], "timeout", "tool_error"}
          \/ result'[c] = "ok" /\ c \in landed
          \/ result'[c] # "ok"
      BY <2>3, <3>1 DEF Ends
    <3>4. result'[c] = "ok" => c \in landed
      BY <2>2, <3>3
    <3>5. result'[c] = "ok" => c \in landed'
      BY <1>2, <3>4
    <3> QED
      BY <3>2, <3>5
  <2>4. CASE ~Ends(c)
    <3>1. /\ result'[c] \in {result[c], "timeout"}
          /\ phase'[c] = "ended" => phase[c] = "ended"
      BY <2>1, <2>4 DEF CallMove, Rests, Starts, Seeks, Sends, Loses, Learns
    <3>2. result'[c] = "ok" => c \in landed'
      BY <1>2, <2>2, <3>1
    <3>3. phase'[c] = "ended" /\ loop' # "stopped" => result'[c] # "none"
      BY <2>1, <2>2, <3>1
    <3> QED
      BY <3>2, <3>3
  <2> QED
    BY <2>3, <2>4
<1> QED
  BY <1>1, <1>3 DEF TruthInv

LEMMA SerialInitially ==
  ASSUME Init
  PROVE  SerialInv
<1>1. BridgeInv
  BY BridgeInitially
<1>2. TurnInv /\ FreshInv /\ TruthInv
  BY BridgeAssumption DEF Init, TurnInv, FreshInv, TruthInv
<1> QED
  BY <1>1, <1>2 DEF SerialInv

LEMMA SerialNext ==
  ASSUME OneAtATime, SerialInv, [Next]_vars
  PROVE  SerialInv'
<1>1. BridgeInv /\ TurnInv /\ FreshInv /\ TruthInv
  BY DEF SerialInv
<1>2. BridgeInv'
  BY <1>1, BridgeNext
<1> QED
  BY <1>1, <1>2, TurnInvStep, FreshInvStep, TruthInvStep DEF SerialInv

LEMMA SerialKeeps ==
  ASSUME OneAtATime
  PROVE  Spec => []SerialInv
<1>1. Init => SerialInv
  BY SerialInitially
<1>2. SerialInv /\ [Next]_vars => SerialInv'
  BY SerialNext
<1> QED
  BY <1>1, <1>2, PTL DEF Spec

(* What the caller of an answered batch hears of a call. *)
Answered(c) == \E b \in Batches : c \in b /\ caller[b] = "answered"
Heard(c) == IF AcceptedDenial(c) THEN "timeout" ELSE result[c]

LEMMA ToldIs ==
  ASSUME NEW c \in Calls
  PROVE  Told[c] = IF Answered(c) THEN Heard(c) ELSE "none"
BY DEF Told, Answered, Heard

(* An answer does not change once it was given. *)
LEMMA AnswersStand ==
  ASSUME OneAtATime, SerialInv, [Next]_vars, NEW b \in Batches, caller[b] = "answered", NEW k \in b
  PROVE  caller'[b] = "answered" /\ Heard(k)' = Heard(k)
<1>a. BridgeInv /\ TurnInv /\ TypeOK /\ SessionInv /\ CallInv
  BY DEF SerialInv, BridgeInv
<1>b. /\ k \in Calls /\ phase[k] = "ended"
      /\ \A d \in Batches : d = b \/ k \notin d
      /\ caller \in [Batches -> {"new", "submitted", "waiting", "answered"}]
      /\ \E S : result \in [Calls -> S]
  <2>1. k \in Calls /\ \A d \in Batches : d = b \/ k \notin d
    BY BridgeAssumption
  <2>2. phase[k] = "ended"
    BY <1>a DEF TurnInv
  <2> QED
    BY <1>a, <2>1, <2>2 DEF TypeOK
<1>1. caller'[b] = "answered"
  BY <1>a, CallerMoves DEF Submit, Begin, Deadline, Return, GiveUp, TurnedAway
<1>2. own'[k] = own[k] \/ result[k] = "timeout"
  <2>1. CallMove(k)
    BY <1>a, <1>b, CallMoves
  <2> QED
    BY <2>1, <1>b DEF CallMove, Rests, Starts, Seeks, Sends, Loses, Learns, Ends, Kept
<1>3. result'[k] = result[k]
  <2>1. ASSUME NEW c \in Calls, CallStep(c)
        PROVE  result'[k] = result[k]
    BY <2>1, <1>a, <1>b, CallAlone
  <2>2. ASSUME NEW s \in Sessions, SessionStep(s)
        PROVE  result'[k] = result[k]
    BY <2>2 DEF SessionStep, Opened, Finished, OpenFails, calls
  <2>3. ASSUME NEW d \in Batches, BatchStep(d)
        PROVE  result'[k] = result[k]
    <3>1. CASE Submit(d)
      BY <3>1, <1>b DEF Submit
    <3>2. CASE Begin(d) \/ Return(d)
      BY <3>2 DEF Begin, Return, calls
    <3>3. CASE Deadline(d)
      BY <3>3, <1>b DEF Deadline, CutOff, Unended
    <3>4. CASE GiveUp(d) \/ TurnedAway(d)
      BY <3>4, <1>b DEF GiveUp, TurnedAway
    <3> QED
      BY <2>3, <3>1, <3>2, <3>3, <3>4 DEF BatchStep
  <2>4. CASE Sweep
    BY <2>4, <1>b DEF Sweep, CutOff, Unended
  <2>5. CASE Close \/ StopLoop \/ UNCHANGED vars
    BY <2>5 DEF Close, StopLoop, vars, calls
  <2> QED
    BY <2>1, <2>2, <2>3, <2>4, <2>5 DEF Next
<1> QED
  BY <1>1, <1>2, <1>3 DEF Heard, AcceptedDenial

(* What a batch is told when it is answered is an answer, and true. *)
LEMMA AnswersAreTrue ==
  ASSUME OneAtATime, SerialInv, SerialInv', [Next]_vars, NEW b \in Batches,
         caller[b] # "answered", caller'[b] = "answered", NEW c \in b
  PROVE  /\ landed' = landed
         /\ Heard(c)' \in Promised!Kinds
         /\ Heard(c)' \in Promised!Denials => c \notin landed
         /\ Heard(c)' = "ok" => c \in landed
<1>a. /\ BridgeInv /\ TurnInv /\ TypeOK /\ CallInv
      /\ TypeOK' /\ TurnInv' /\ TruthInv' /\ c \in Calls
  BY BridgeAssumption DEF SerialInv, BridgeInv
<1>1. Submit(b) \/ Begin(b) \/ Deadline(b) \/ Return(b) \/ GiveUp(b) \/ TurnedAway(b)
  BY <1>a, CallerMoves
<1>2. landed' = landed
  BY <1>1 DEF Submit, Begin, Deadline, Return, GiveUp, TurnedAway, wire
<1>3. result'[c] # "none"
  <2>1. phase'[c] = "ended"
    BY <1>a DEF TurnInv
  <2>2. CASE loop' # "stopped"
    BY <1>a, <2>1, <2>2 DEF TruthInv
  <2>3. CASE Submit(b)
    <3>1. closed
      BY <2>3, <1>a DEF Submit, TypeOK
    <3> QED
      BY <2>3, <3>1, <1>a DEF Submit
  <2>4. CASE Begin(b)
    BY <2>4, <1>a DEF Begin, TypeOK
  <2>5. CASE Deadline(b) \/ Return(b)
    BY <2>2, <2>5 DEF Deadline, Return
  <2>6. CASE GiveUp(b) \/ TurnedAway(b)
    BY <2>6, <1>a DEF GiveUp, TurnedAway
  <2> QED
    BY <1>1, <2>3, <2>4, <2>5, <2>6
<1>4. result'[c] \in Answers
  BY <1>a DEF TypeOK, Answers
<1>5. Heard(c)' \in Promised!Kinds
  BY <1>3, <1>4 DEF Heard, Answers, Promised!Kinds, Promised!Denials
<1>6. ASSUME Heard(c)' \in Promised!Denials
      PROVE  c \notin landed
  <2>1. Denied(c)' /\ ~AcceptedDenial(c)'
    BY <1>6 DEF Heard, Denied, Promised!Denials
  <2>2. c \notin out'
    BY <2>1, <1>a DEF TruthInv
  <2> QED
    BY <2>2, <1>2, <1>a DEF TypeOK
<1>7. Heard(c)' = "ok" => c \in landed
  BY <1>2, <1>a DEF Heard, TruthInv
<1> QED
  BY <1>2, <1>5, <1>6, <1>7

(* Every step of the bridge is a step of the promise, or none. *)
LEMMA PromiseStep ==
  ASSUME OneAtATime, SerialInv, SerialInv', [Next]_vars
  PROVE  Promised!PromiseNext \/ UNCHANGED <<Told, landed>>
<1>a. /\ TypeOK /\ CallInv /\ TruthInv
      /\ \A b, d \in Batches : b = d \/ b \cap d = {}
      /\ \A b \in Batches : b \subseteq Calls
      /\ caller \in [Batches -> {"new", "submitted", "waiting", "answered"}]
  BY BridgeAssumption DEF SerialInv, BridgeInv, TypeOK
<1>b. Told = [c \in Calls |-> Told[c]] /\ Told' = [c \in Calls |-> Told'[c]]
  BY DEF Told
<1>c. \A c \in Calls : Told[c] = IF Answered(c) THEN Heard(c) ELSE "none"
  BY ToldIs
<1>d. \A c \in Calls : Told'[c] = IF Answered(c)' THEN Heard(c)' ELSE "none"
  BY DEF Told, Answered, Heard
<1>1. ASSUME NEW c \in Calls, Answered(c)
      PROVE  Answered(c)' /\ Told'[c] = Told[c]
  <2>1. PICK b \in Batches : c \in b /\ caller[b] = "answered"
    BY <1>1 DEF Answered
  <2>2. caller'[b] = "answered" /\ Heard(c)' = Heard(c)
    BY <2>1, AnswersStand
  <2>3. Answered(c)'
    BY <2>1, <2>2 DEF Answered
  <2> QED
    BY <1>1, <1>c, <1>d, <2>2, <2>3
<1>2. CASE \A b \in Batches : caller'[b] = "answered" => caller[b] = "answered"
  <2>1. ASSUME NEW c \in Calls
        PROVE  Told'[c] = Told[c]
    <3>1. CASE Answered(c)
      BY <1>1, <3>1
    <3>2. CASE ~Answered(c)
      <4>1. ~Answered(c)'
        BY <1>2, <3>2 DEF Answered
      <4> QED
        BY <3>2, <4>1, <1>c, <1>d
    <3> QED
      BY <3>1, <3>2
  <2>2. Told' = Told
    BY <1>b, <2>1
  <2>3. CASE landed' = landed
    BY <2>2, <2>3
  <2>4. ASSUME NEW c \in Calls, Take(c)
        PROVE  Promised!PromiseNext
    <3>1. c \in out /\ landed' = landed \cup {c}
      BY <2>4 DEF Take
    <3>2. Denied(c) => AcceptedDenial(c)
      BY <3>1, <1>a DEF TruthInv
    <3>3. Told[c] \notin Promised!Denials
      BY <3>2, <1>c DEF Heard, Denied, Promised!Denials
    <3>4. Promised!Land(c)
      BY <2>2, <3>1, <3>3 DEF Promised!Land
    <3> QED
      BY <3>4 DEF Promised!PromiseNext
  <2> QED
    BY <2>3, <2>4, LandedMoves
<1>3. ASSUME NEW b \in Batches, caller'[b] = "answered", caller[b] # "answered"
      PROVE  Promised!PromiseNext
  <2>1. \A d \in Batches \ {b} : caller'[d] = caller[d]
    BY <1>3, <1>a, CallerMoves
  <2>2. ASSUME NEW c \in b
        PROVE  Told[c] = "none" /\ Told'[c] = Heard(c)'
    <3>1. ~Answered(c)
      BY <1>a, <1>3 DEF Answered
    <3>2. Answered(c)'
      BY <1>3 DEF Answered
    <3> QED
      BY <1>a, <1>c, <1>d, <3>1, <3>2
  <2>3. ASSUME NEW c \in Calls, c \notin b
        PROVE  Told'[c] = Told[c]
    <3>1. CASE Answered(c)
      BY <1>1, <3>1
    <3>2. CASE ~Answered(c)
      <4>1. ~Answered(c)'
        BY <2>1, <2>3, <3>2 DEF Answered
      <4> QED
        BY <3>2, <4>1, <1>c, <1>d
    <3> QED
      BY <3>1, <3>2
  <2> DEFINE told == [c \in b |-> Told'[c]]
  <2>4. told \in [b -> Promised!Kinds]
    BY <2>2, <1>3, AnswersAreTrue
  <2>5. \A c \in b : /\ told[c] \in Promised!Denials => c \notin landed
                     /\ told[c] = "ok" => c \in landed
    BY <2>2, <1>3, AnswersAreTrue
  <2>6. landed' = landed
    <3>1. PICK c : c \in b
      BY BridgeAssumption
    <3> QED
      BY <3>1, <1>3, AnswersAreTrue
  <2>7. Told' = [c \in Calls |-> IF c \in b THEN told[c] ELSE Told[c]]
    BY <1>b, <2>3
  <2>8. Promised!Answer(b)
    <3>1. \A c \in b : Told[c] = "none"
      BY <2>2
    <3> HIDE DEF told
    <3> QED
      BY <2>4, <2>5, <2>6, <2>7, <3>1 DEF Promised!Answer
  <2>9. b \in SUBSET Calls
    BY <1>a
  <2> QED
    BY <2>8, <2>9 DEF Promised!PromiseNext
<1> QED
  BY <1>2, <1>3

(* One call at a time, the bridge keeps its promise: who is told that        *)
(* nothing was stored, that there is no sign-in, or that the token was       *)
(* refused, made a call the engine never takes, its own 502 aside; who hears *)
(* "ok" made one it has taken.                                               *)
THEOREM PromiseKept ==
  ASSUME OneAtATime
  PROVE  Spec => KeepsPromise
<1>1. Init => Promised!PromiseInit
  <2> SUFFICES ASSUME Init PROVE Promised!PromiseInit
    OBVIOUS
  <2>1. \A c \in Calls : ~Answered(c)
    BY DEF Init, Answered
  <2>2. Told = [c \in Calls |-> "none"]
    BY <2>1 DEF Told, Answered
  <2> QED
    BY <2>2 DEF Init, Promised!PromiseInit
<1>2. SerialInv /\ SerialInv' /\ [Next]_vars => [Promised!PromiseNext]_(Promised!promise)
  BY PromiseStep DEF Promised!promise
<1>3. Spec => []SerialInv
  BY SerialKeeps
<1> QED
  BY <1>1, <1>2, <1>3, PTL DEF Spec, KeepsPromise, Promised!Promise
=============================================================================
