---------------------------- MODULE OAuthRefresh ----------------------------
(***************************************************************************)
(* The sign-in of one profile, shared by several Hermes processes and the  *)
(* command line: auth.py (OAuthAuth, login, logout, _FreshSignInStorage)   *)
(* over tokens.py (FileTokenStorage, RefreshFence).                        *)
(*                                                                         *)
(* A process runs at most one fenced task (OAuthAuth._refresh), which      *)
(* every caller of refresh_guard joins.  A step of the model is what the   *)
(* code does between two points where another process, or a coroutine of   *)
(* the same loop, can act.  Under the fence, reading oauth.json and        *)
(* writing it back is one step; outside it the two are apart (see          *)
(* `draft`).  An mtime is only ever compared with the file's present one,  *)
(* so a remembered one is that of the absent file, the current one, or an  *)
(* older one; every write ages what processes remember.                    *)
(***************************************************************************)
EXTENDS TokenEndpoint

CONSTANTS
  Procs,      \* Hermes processes on the profile
  Cli,        \* `hermes lumberroom login` and `logout`
  NoOne,      \* nobody holds the fence
  Publishes,  \* whether the engine publishes OAuth metadata
  Faults      \* what may go wrong besides lost answers

(***************************************************************************)
(* nosave     the disk refuses to save a rotated pair                      *)
(* noretire   it then refuses to rewrite the file without the spent token  *)
(* nounlink   it then refuses to unlink the file                           *)
(* noforget   it refuses to drop a token whose answer was lost             *)
(* crash      a process dies at any point                                  *)
(* torn       another write lands inside an unfenced read-modify-write     *)
(* garbled    a 200 whose body is no token answer, after the token went    *)
(***************************************************************************)
FaultKinds == {"nosave", "noretire", "nounlink", "noforget", "crash", "torn", "garbled"}

Actors == Procs \union {Cli}

ASSUME ActorsAssumption == Cli \notin Procs /\ NoOne \notin Actors
ASSUME BoundsAssumption == Publishes \in BOOLEAN /\ Faults \subseteq FaultKinds

VARIABLES
  file, mtime,  \* oauth.json as read() sees it, and its mtime: Absent or Current
  draft,        \* [Actors -> SUBSET Records]: read-modify-writes not yet renamed into place
  holder,       \* who holds oauth.lock
  task,         \* [Procs -> Tasks]: where the process's fenced task stands
  stored,       \* [Procs -> Records]: OAuthAuth._stored
  seen,         \* [Procs -> stamps]: _seen_mtime
  refused,      \* [Procs -> stamps]: _refused_mtime; None, like Older, matches no file
  kept,         \* [Procs -> Kept]: _unsaved, the rotated pair the disk refused
  marker,       \* [Procs -> stamps]: the mtime once the spent token came off the file
  metadata,     \* [Procs -> BOOLEAN]: the shared provider knows the OAuth metadata
  post,         \* [Procs -> 0..MaxGen]: the pair whose refresh token is on its way
  reply,        \* [Procs -> Replies]: what became of the grant
  got,          \* [Procs -> 0..MaxGen]: the rotated pair in the answer
  stray,        \* tokens presented by requests that nobody awaits any more
  cli, cliGot,  \* where login or logout stands, and the pair login got
  loggedOut,    \* history: logout completed, and no login since
  replaced,     \* history: whose kept pair a login or a logout has superseded
  failed        \* history, [Procs -> stamps]: the version of the file whose token the
                \* process sent for no answer, a 5xx, or, the pair being due, a refusal

stampVars == <<seen, refused, marker>>
diskVars  == <<file, mtime, stampVars, failed>>   \* what a write changes
memVars   == <<stored, metadata, kept>>
grantVars == <<post, reply, got, stray>>
cliVars   == <<cli, cliGot, loggedOut>>
vars == <<issued, family, due, spent, replayed, file, mtime, draft, holder, task,
          stored, seen, refused, kept, marker, metadata, post, reply, got, stray,
          cli, cliGot, loggedOut, replaced, failed>>

FencedTasks == {"held", "present", "sent", "mark", "forget", "reload", "settle",
                "keepcheck", "unkeep"}
Tasks   == {"idle", "stale", "wait", "keepwait"} \union FencedTasks
Replies == {"none", "rotated", "refused", "failed", "garbled", "lost", "kept"}
CliTasks == {"idle", "register", "authorize", "exchanged", "saving", "signedin",
             "logout", "unlink"}
Absent  == 0
Current == 1
Older   == 2
Stamps  == {Absent, Current, Older}
Kept    == [gen : 0..MaxGen, client : BOOLEAN, meta : BOOLEAN]
NoPair  == [gen |-> 0, client |-> FALSE, meta |-> FALSE]

\* Who holds a rotated pair that is not on disk.
Keeping == {p \in Procs : kept[p].gen # 0}

\* Whoever is about to use a pair has one, and nobody holds an answer over to the next grant.
PairsAtHand ==
  /\ \A p \in Procs :
       /\ task[p] = "sent" => post[p] # 0 /\ (reply[p] = "rotated" => got[p] # 0)
       /\ task[p] \in {"keepwait", "keepcheck"} => kept[p].gen # 0
       /\ reply[p] # "none" => task[p] \in {"sent", "forget", "reload", "settle"}
  /\ cli \in {"exchanged", "saving"} => cliGot # 0

TypeOK ==
  /\ EngineTypeOK
  /\ file \in Records /\ mtime \in {Absent, Current}
  /\ draft \in [Actors -> SUBSET Records]
  /\ holder \in Actors \union {NoOne}
  /\ task \in [Procs -> Tasks]
  /\ stored \in [Procs -> Records]
  /\ seen \in [Procs -> Stamps] /\ refused \in [Procs -> Stamps]
  /\ kept \in [Procs -> Kept] /\ marker \in [Procs -> Stamps]
  /\ metadata \in [Procs -> BOOLEAN]
  /\ post \in [Procs -> 0..MaxGen] /\ reply \in [Procs -> Replies] /\ got \in [Procs -> 0..MaxGen]
  /\ stray \subseteq Gens
  /\ cli \in CliTasks /\ cliGot \in 0..MaxGen
  /\ loggedOut \in BOOLEAN /\ replaced \subseteq Procs /\ failed \in [Procs -> Stamps]
  /\ PairsAtHand

-----------------------------------------------------------------------------
(* The file.                                                               *)

Aged(m) == [p \in Procs |-> IF m[p] = Current THEN Older ELSE m[p]]

Replaces(r, t) ==
  /\ file' = r /\ mtime' = t
  /\ seen' = Aged(seen) /\ refused' = Aged(refused) /\ marker' = Aged(marker)
  /\ failed' = Aged(failed)

Write(r) == Replaces(r, Current)
Unlink   == Replaces(Empty, Absent)

\* No tokens, no write.
Drop == IF file.gen = 0 THEN UNCHANGED diskVars ELSE Write(DropRefresh(file))

\* A read-modify-write outside the fence.  It is torn when someone else's
\* write lands between its read and its rename.
UnfencedUpdate(a, r) ==
  \/ Write(r) /\ UNCHANGED draft
  \/ "torn" \in Faults /\ draft' = [draft EXCEPT ![a] = {r}] /\ UNCHANGED diskVars

WriteDraft(a) ==
  /\ \E r \in draft[a] : Write(r)
  /\ draft' = [draft EXCEPT ![a] = {}]
  /\ UNCHANGED <<engineVars, holder, task, memVars, grantVars, cliVars, replaced>>

\* _due, without the clock: the pair can renew and is close to its expiry.
Due(r) == r.refresh /\ r.gen \in due

\* A process's loop runs nothing else while it is inside a read-modify-write.
At(p, t) == task[p] = t /\ draft[p] = {}

Goto(p, t)    == task' = [task EXCEPT ![p] = t]
Acquires(a)   == holder = NoOne /\ holder' = a
Releases      == holder' = NoOne

-----------------------------------------------------------------------------
(* refresh_guard: _ready and _start, entered by any hook call while no     *)
(* fenced task runs.                                                       *)

\* A rotated pair is still unsaved: try the file again.
StartSave(p) ==
  /\ At(p, "idle") /\ kept[p].gen # 0
  /\ Goto(p, "keepwait")
  /\ UNCHANGED <<engineVars, diskVars, draft, holder, memVars, grantVars, cliVars, replaced>>

\* _reload, first half: the mtime is taken before the file is read.
StartReload(p) ==
  /\ At(p, "idle") /\ kept[p].gen = 0 /\ mtime # seen[p]
  /\ seen' = [seen EXCEPT ![p] = mtime]
  /\ Goto(p, "stale")
  /\ UNCHANGED <<engineVars, file, mtime, draft, holder, refused, marker, failed, memVars, grantVars,
                 cliVars, replaced>>

\* What a reload leaves in memory: the file, and metadata once known stays known.
Reseeds(p) ==
  /\ stored' = [stored EXCEPT ![p] = file]
  /\ metadata' = [metadata EXCEPT ![p] = @ \/ file.meta]

\* Mutant: the reload keeps the copy it has.
FinishReloadUnread(p) ==
  /\ At(p, "stale")
  /\ Goto(p, "idle")
  /\ UNCHANGED <<engineVars, diskVars, draft, holder, memVars, grantVars, cliVars, replaced>>

FinishReload(p) ==
  /\ At(p, "stale")
  /\ Reseeds(p)
  /\ Goto(p, "idle")
  /\ UNCHANGED <<engineVars, diskVars, draft, holder, kept, grantVars, cliVars, replaced>>

\* The stored pair is due and this version of the file was not refused before.
StartRefresh(p) ==
  /\ At(p, "idle") /\ kept[p].gen = 0 /\ mtime = seen[p]
  /\ Due(stored[p]) /\ refused[p] # seen[p]
  /\ Goto(p, "wait")
  /\ UNCHANGED <<engineVars, diskVars, draft, holder, memVars, grantVars, cliVars, replaced>>

-----------------------------------------------------------------------------
(* _refresh_fenced.                                                        *)

\* The fence is won; the reload under it takes the mtime.
AcquireForRefresh(p) ==
  /\ At(p, "wait") /\ Acquires(p)
  /\ seen' = [seen EXCEPT ![p] = mtime]
  /\ Goto(p, "held")
  /\ UNCHANGED <<engineVars, file, mtime, draft, refused, marker, failed, memVars, grantVars, cliVars, replaced>>

\* Mutant: the fence is waited for without a timeout.
FenceTimeoutNever(p) == FALSE /\ At(p, "wait") /\ UNCHANGED vars

\* FenceTimeout, or the loop is torn down: a lock won too late is given back.
FenceTimeout(p) ==
  /\ At(p, "wait") \/ At(p, "keepwait")
  /\ Goto(p, "idle")
  /\ UNCHANGED <<engineVars, diskVars, draft, holder, memVars, grantVars, cliVars, replaced>>

\* Under the fence the file decides: a peer may have refreshed or logged out.
Reread(p) ==
  /\ At(p, "held")
  /\ Reseeds(p)
  /\ IF Due(file) THEN Goto(p, "present") /\ UNCHANGED holder
                  ELSE Goto(p, "idle") /\ Releases
  /\ UNCHANGED <<engineVars, diskVars, draft, kept, grantVars, cliVars, replaced>>

\* _sdk_refresh: the private provider reads the file and sends its refresh token.
Present(p) ==
  /\ At(p, "present") /\ file.refresh /\ file.client
  /\ post' = [post EXCEPT ![p] = file.gen]
  /\ Goto(p, "sent")
  /\ UNCHANGED <<engineVars, diskVars, draft, holder, memVars, reply, got, stray, cliVars, replaced>>

\* No client to refresh with, or the connection never came up.
NotSent(p) ==
  /\ At(p, "present")
  /\ Goto(p, "reload")
  /\ UNCHANGED <<engineVars, diskVars, draft, holder, memVars, grantVars, cliVars, replaced>>

Answered(p, r) == At(p, "sent") /\ reply[p] = r

\* The grant brought no pair for the token that is on the file.
Fails(p) ==
  /\ failed' = IF file.refresh /\ file.gen = post[p] THEN [failed EXCEPT ![p] = mtime] ELSE failed
  /\ UNCHANGED <<file, mtime, stampVars>>

\* The SDK persists the rotated pair through set_tokens.
SaveRotated(p) ==
  /\ Answered(p, "rotated")
  /\ Write(WithTokens(file, got[p]))
  /\ post' = [post EXCEPT ![p] = 0] /\ got' = [got EXCEPT ![p] = 0]
  /\ Goto(p, "reload")
  /\ UNCHANGED <<engineVars, draft, holder, memVars, reply, stray, cliVars, replaced>>

\* Mutant: the spent token stays on disk.
RetiresNothing == UNCHANGED diskVars

\* _retire_spent_token: drop the field; failing that unlink; failing that nothing.
Retires ==
  \/ Drop
  \/ "noretire" \in Faults /\ Unlink
  \/ {"noretire", "nounlink"} \subseteq Faults /\ UNCHANGED diskVars

\* _SaveRefused: the pair is kept in memory and the spent token comes off disk.
KeepUnsaved(p) ==
  /\ Answered(p, "rotated") /\ "nosave" \in Faults
  /\ Retires
  /\ kept' = [kept EXCEPT ![p] = [gen |-> got[p], client |-> stored[p].client,
                                  meta |-> stored[p].meta]]
  /\ post' = [post EXCEPT ![p] = 0] /\ got' = [got EXCEPT ![p] = 0]
  /\ reply' = [reply EXCEPT ![p] = "none"]
  /\ Goto(p, "mark")
  /\ UNCHANGED <<engineVars, draft, holder, stored, metadata, stray, cliVars, replaced>>

\* Mutant: the marker is the mtime seen before the spent token came off.
MarkSeen(p) ==
  /\ At(p, "mark")
  /\ marker' = [marker EXCEPT ![p] = seen[p]]
  /\ replaced' = replaced \ {p}
  /\ Goto(p, "idle") /\ Releases
  /\ UNCHANGED <<engineVars, file, mtime, draft, seen, refused, failed, memVars, grantVars, cliVars>>

Mark(p) ==
  /\ At(p, "mark")
  /\ marker' = [marker EXCEPT ![p] = mtime]
  /\ replaced' = replaced \ {p}
  /\ Goto(p, "idle") /\ Releases
  /\ UNCHANGED <<engineVars, file, mtime, draft, seen, refused, failed, memVars, grantVars, cliVars>>

\* A 4xx, or a 200 the SDK could not read: the pair on disk stays.
TakeRefusal(p) ==
  /\ Answered(p, "refused") \/ Answered(p, "garbled")
  /\ post' = [post EXCEPT ![p] = 0]
  /\ Goto(p, "reload")
  /\ IF reply[p] = "refused" /\ Due(file) THEN Fails(p) ELSE UNCHANGED diskVars
  /\ UNCHANGED <<engineVars, draft, holder, memVars, reply, got, stray, cliVars, replaced>>

\* Mutant: a 5xx is taken for a refusal, and the pair stays (as before 1.0.1).
TakeFailureAsRefusal(p) ==
  /\ Answered(p, "failed")
  /\ post' = [post EXCEPT ![p] = 0]
  /\ Goto(p, "reload")
  /\ Fails(p)
  /\ UNCHANGED <<engineVars, draft, holder, memVars, reply, got, stray, cliVars, replaced>>

\* A 5xx: the token may be spent, so it goes as if the answer were lost.
TakeFailure(p) ==
  /\ Answered(p, "failed")
  /\ post' = [post EXCEPT ![p] = 0]
  /\ reply' = [reply EXCEPT ![p] = "lost"]
  /\ Goto(p, "forget")
  /\ Fails(p)
  /\ UNCHANGED <<engineVars, draft, holder, memVars, got, stray, cliVars, replaced>>

\* Mutant: the grant is awaited without a timeout.
GiveUpAnswered(p) ==
  /\ At(p, "sent") /\ reply[p] # "none"
  /\ post' = [post EXCEPT ![p] = 0] /\ got' = [got EXCEPT ![p] = 0]
  /\ reply' = [reply EXCEPT ![p] = "lost"]
  /\ Goto(p, "forget")
  /\ Fails(p)
  /\ UNCHANGED <<engineVars, draft, holder, memVars, stray, cliVars, replaced>>

\* Mutant: after a timeout the pair on disk is trusted.
GiveUpTrusting(p) ==
  /\ At(p, "sent")
  /\ stray' = IF reply[p] = "none" THEN stray \union {post[p]} ELSE stray
  /\ post' = [post EXCEPT ![p] = 0] /\ got' = [got EXCEPT ![p] = 0]
  /\ reply' = [reply EXCEPT ![p] = "none"]
  /\ Goto(p, "reload")
  /\ Fails(p)
  /\ UNCHANGED <<engineVars, draft, holder, memVars, cliVars, replaced>>

\* Timeout, broken connection, or cancellation after the send.
GiveUp(p) ==
  /\ At(p, "sent")
  /\ stray' = IF reply[p] = "none" THEN stray \union {post[p]} ELSE stray
  /\ post' = [post EXCEPT ![p] = 0] /\ got' = [got EXCEPT ![p] = 0]
  /\ reply' = [reply EXCEPT ![p] = "lost"]
  /\ Goto(p, "forget")
  /\ Fails(p)
  /\ UNCHANGED <<engineVars, draft, holder, memVars, cliVars, replaced>>

\* _forget_refresh_token: an OSError from the drop is swallowed.
Forget(p) ==
  /\ At(p, "forget")
  /\ Drop \/ ("noforget" \in Faults /\ UNCHANGED diskVars)
  /\ Goto(p, "reload")
  /\ UNCHANGED <<engineVars, draft, holder, memVars, grantVars, cliVars, replaced>>

\* The reload that ends a grant or a save, first half.
Reload(p) ==
  /\ At(p, "reload")
  /\ seen' = [seen EXCEPT ![p] = mtime]
  /\ Goto(p, "settle")
  /\ UNCHANGED <<engineVars, file, mtime, draft, holder, refused, marker, failed, memVars, grantVars,
                 cliVars, replaced>>

\* Mutant: _forget_refresh_token trusts the drop.
RefusesAnswered(p) ==
  \/ Due(file) /\ reply[p] = "refused"
  \/ Due(file) /\ reply[p] # "kept" /\ ~file.client

\* When this version of the file is not to be presented again: its token may be
\* spent, or it is still due after a refusal, or with no client to refresh it.
RefusesVersion(p) ==
  \/ reply[p] = "lost"
  \/ Due(file) /\ reply[p] = "refused"
  \/ Due(file) /\ reply[p] # "kept" /\ ~file.client

\* Mutant: no reseed after the grant.
SettleUnread(p) ==
  /\ At(p, "settle")
  /\ refused' = IF RefusesVersion(p) THEN [refused EXCEPT ![p] = seen[p]] ELSE refused
  /\ reply' = [reply EXCEPT ![p] = "none"]
  /\ Goto(p, "idle") /\ Releases
  /\ UNCHANGED <<engineVars, file, mtime, draft, seen, marker, failed, memVars, post, got, stray, cliVars, replaced>>

Settle(p) ==
  /\ At(p, "settle")
  /\ Reseeds(p)
  /\ refused' = IF RefusesVersion(p) THEN [refused EXCEPT ![p] = seen[p]] ELSE refused
  /\ reply' = [reply EXCEPT ![p] = "none"]
  /\ Goto(p, "idle") /\ Releases
  /\ UNCHANGED <<engineVars, file, mtime, draft, seen, marker, failed, kept, post, got, stray, cliVars, replaced>>
-----------------------------------------------------------------------------
(* _save_fenced: the kept pair goes to disk unless the file has changed    *)
(* since this process took the spent token off it.                         *)

AcquireForSave(p) ==
  /\ At(p, "keepwait") /\ Acquires(p)
  /\ Goto(p, "keepcheck")
  /\ UNCHANGED <<engineVars, diskVars, draft, memVars, grantVars, cliVars, replaced>>

\* Mutant: the kept pair is saved whatever became of the file.
SaveKeptAnyway(p) ==
  /\ At(p, "keepcheck")
  /\ Write(Restored(file, kept[p]))
  /\ Goto(p, "unkeep")
  /\ UNCHANGED <<engineVars, draft, holder, memVars, grantVars, cliVars, replaced>>

SaveKept(p) ==
  /\ At(p, "keepcheck") /\ mtime = marker[p]
  /\ Write(Restored(file, kept[p]))
  /\ Goto(p, "unkeep")
  /\ UNCHANGED <<engineVars, draft, holder, memVars, grantVars, cliVars, replaced>>

AbandonKept(p) ==
  /\ At(p, "keepcheck") /\ mtime # marker[p]
  /\ Goto(p, "unkeep")
  /\ UNCHANGED <<engineVars, diskVars, draft, holder, memVars, grantVars, cliVars, replaced>>

\* Saved or given up, the pair leaves memory and the file is read again.
ForgetKept(p) ==
  /\ At(p, "unkeep")
  /\ kept' = [kept EXCEPT ![p] = NoPair] /\ marker' = [marker EXCEPT ![p] = Absent]
  /\ seen' = [seen EXCEPT ![p] = mtime]
  /\ reply' = [reply EXCEPT ![p] = "kept"]
  /\ Goto(p, "settle")
  /\ UNCHANGED <<engineVars, file, mtime, draft, holder, refused, failed, stored, metadata, post, got,
                 stray, cliVars, replaced>>

\* Still no room: the pair stays in memory for the next guard, or settle.
SaveKeptFails(p) ==
  /\ At(p, "keepcheck") /\ mtime = marker[p] /\ "nosave" \in Faults
  /\ Goto(p, "idle") /\ Releases
  /\ UNCHANGED <<engineVars, diskVars, draft, memVars, grantVars, cliVars, replaced>>

-----------------------------------------------------------------------------
(* Metadata the SDK discovers on a 401, saved as refresh_guard exits: with *)
(* no fence, and while another caller's fenced task may be waiting.        *)

Discover(p) ==
  /\ Publishes /\ At(p, "idle") /\ stored[p].gen # 0 /\ ~metadata[p]
  /\ metadata' = [metadata EXCEPT ![p] = TRUE]
  /\ UNCHANGED <<engineVars, diskVars, draft, holder, task, stored, kept, grantVars, cliVars, replaced>>

\* Where the fenced task awaits something and the loop runs other callers: the
\* lock, the grant, and the start and the end of the task asyncio.wait_for makes.
Suspended(p) ==
  \/ \E t \in {"idle", "wait", "keepwait", "present", "sent"} : At(p, t)
  \/ At(p, "reload") /\ reply[p] # "lost"

SaveMetadata(p) ==
  /\ Suspended(p)
  /\ metadata[p] /\ ~stored[p].meta /\ stored[p].gen # 0
  /\ UnfencedUpdate(p, WithMeta(file))
  /\ UNCHANGED <<engineVars, holder, task, memVars, grantVars, cliVars, replaced>>

-----------------------------------------------------------------------------
(* Processes end: in order, when settle has had its try, or not.           *)

\* A new process takes p's place; it starts with a reload.
Boots(p) ==
  /\ stored' = [stored EXCEPT ![p] = Empty]
  /\ seen' = [seen EXCEPT ![p] = mtime]
  /\ refused' = [refused EXCEPT ![p] = Older] /\ failed' = [failed EXCEPT ![p] = Older]
  /\ metadata' = [metadata EXCEPT ![p] = FALSE]
  /\ kept' = [kept EXCEPT ![p] = NoPair] /\ marker' = [marker EXCEPT ![p] = Absent]
  /\ replaced' = replaced \ {p}
  /\ Goto(p, "stale")

Restart(p) ==
  /\ At(p, "idle")
  /\ Boots(p)
  /\ UNCHANGED <<engineVars, file, mtime, draft, holder, grantVars, cliVars>>

\* The kernel releases the lock; a request on its way stays on its way.
Crash(p) ==
  /\ "crash" \in Faults /\ task[p] # "stale"
  /\ Boots(p)
  /\ draft' = [draft EXCEPT ![p] = {}]
  /\ holder' = IF holder = p THEN NoOne ELSE holder
  /\ stray' = IF task[p] = "sent" /\ reply[p] = "none" THEN stray \union {post[p]} ELSE stray
  /\ post' = [post EXCEPT ![p] = 0] /\ got' = [got EXCEPT ![p] = 0]
  /\ reply' = [reply EXCEPT ![p] = "none"]
  /\ UNCHANGED <<engineVars, file, mtime, cliVars>>

-----------------------------------------------------------------------------
(* login: sign_in with _FreshSignInStorage.  It never shows the SDK the    *)
(* stored pair, reuses the stored client, and saves under the fence.       *)

CliAt(t) == cli = t /\ draft[Cli] = {}

LoginStart ==
  /\ CliAt("idle")
  /\ cli' = IF file.client THEN "authorize" ELSE "register"
  /\ UNCHANGED <<engineVars, diskVars, draft, holder, task, memVars, grantVars, cliGot,
                 loggedOut, replaced>>

LoginRegister ==
  /\ CliAt("register")
  /\ UnfencedUpdate(Cli, WithClient(file))
  /\ cli' = "authorize"
  /\ UNCHANGED <<engineVars, holder, task, memVars, grantVars, cliGot, loggedOut, replaced>>

\* The user came back from the browser and the code bought a pair.
LoginExchange ==
  /\ CliAt("authorize")
  /\ Issue(issued + 1) /\ UNCHANGED <<spent, replayed>>
  /\ cliGot' = issued + 1
  /\ cli' = "exchanged"
  /\ UNCHANGED <<diskVars, draft, holder, task, memVars, grantVars, loggedOut, replaced>>

\* Mutant: the new pair is saved without the fence.
LoginUnfenced ==
  /\ CliAt("exchanged")
  /\ cli' = "saving"
  /\ UNCHANGED <<engineVars, diskVars, draft, holder, task, memVars, grantVars, cliGot, loggedOut, replaced>>

LoginFence ==
  /\ CliAt("exchanged") /\ Acquires(Cli)
  /\ cli' = "saving"
  /\ UNCHANGED <<engineVars, diskVars, draft, task, memVars, grantVars, cliGot, loggedOut, replaced>>

LoginSave ==
  /\ CliAt("saving")
  /\ Write(WithTokens(file, cliGot))
  /\ Releases
  /\ cli' = "signedin" /\ cliGot' = 0
  /\ loggedOut' = FALSE /\ replaced' = Keeping
  /\ UNCHANGED <<engineVars, draft, task, memVars, grantVars>>

LoginSaveFails ==
  /\ CliAt("saving") /\ "nosave" \in Faults
  /\ Releases
  /\ cli' = "idle" /\ cliGot' = 0
  /\ UNCHANGED <<engineVars, diskVars, draft, task, memVars, grantVars, loggedOut, replaced>>

\* sign_in ends with the metadata, outside the fence.
LoginMetadata ==
  /\ CliAt("signedin") /\ Publishes
  /\ UnfencedUpdate(Cli, WithMeta(file))
  /\ cli' = "idle"
  /\ UNCHANGED <<engineVars, holder, task, memVars, grantVars, cliGot, loggedOut, replaced>>

\* The user gives up, the browser never returns, the fence times out, or the
\* tools never list.
LoginEnds ==
  /\ \E t \in {"register", "authorize", "exchanged", "signedin"} : CliAt(t)
  /\ cli' = "idle" /\ cliGot' = 0
  /\ UNCHANGED <<engineVars, diskVars, draft, holder, task, memVars, grantVars, loggedOut, replaced>>

-----------------------------------------------------------------------------
(* logout: no file is no sign-in; otherwise the delete waits for the fence. *)

LogoutNothing ==
  /\ CliAt("idle") /\ mtime = Absent
  /\ loggedOut' = TRUE /\ replaced' = Keeping
  /\ UNCHANGED <<engineVars, diskVars, draft, holder, task, memVars, grantVars, cli, cliGot>>

LogoutStart ==
  /\ CliAt("idle") /\ mtime # Absent
  /\ cli' = "logout"
  /\ UNCHANGED <<engineVars, diskVars, draft, holder, task, memVars, grantVars, cliGot,
                 loggedOut, replaced>>

\* Mutant: the delete does not wait for the fence.
LogoutUnfenced ==
  /\ CliAt("logout")
  /\ cli' = "unlink"
  /\ UNCHANGED <<engineVars, diskVars, draft, holder, task, memVars, grantVars, cliGot, loggedOut, replaced>>

LogoutFence ==
  /\ CliAt("logout") /\ Acquires(Cli)
  /\ cli' = "unlink"
  /\ UNCHANGED <<engineVars, diskVars, draft, task, memVars, grantVars, cliGot, loggedOut, replaced>>

LogoutTimeout ==
  /\ CliAt("logout")
  /\ cli' = "idle"
  /\ UNCHANGED <<engineVars, diskVars, draft, holder, task, memVars, grantVars, cliGot,
                 loggedOut, replaced>>

LogoutUnlink ==
  /\ CliAt("unlink")
  /\ Unlink
  /\ Releases
  /\ cli' = "idle"
  /\ loggedOut' = TRUE /\ replaced' = Keeping
  /\ UNCHANGED <<engineVars, draft, task, memVars, grantVars, cliGot>>

-----------------------------------------------------------------------------
(* The engine answers, or only hears, what was sent.                       *)

Pending(p) == task[p] = "sent" /\ reply[p] = "none"
Replies1(p, r) == reply' = [reply EXCEPT ![p] = r]
processVars == <<diskVars, draft, holder, task, memVars, cliVars, replaced>>

EngineRotates(p) ==
  /\ Pending(p)
  /\ Rotate(post[p])
  /\ got' = [got EXCEPT ![p] = issued + 1]
  /\ Replies1(p, "rotated")
  /\ UNCHANGED <<processVars, post, stray>>

EngineFails(p) ==
  /\ Pending(p)
  /\ Burn(post[p]) \/ UNCHANGED engineVars
  /\ Replies1(p, "failed")
  /\ UNCHANGED <<processVars, post, got, stray>>

EngineGarbles(p) ==
  /\ "garbled" \in Faults /\ Pending(p)
  /\ Burn(post[p])
  /\ Replies1(p, "garbled")
  /\ UNCHANGED <<processVars, post, got, stray>>

\* A 4xx: the token is good but the sign-in was revoked, or it is spent.
EngineRefuses(p) ==
  /\ Pending(p)
  /\ \/ post[p] \notin spent /\ UNCHANGED engineVars
     \/ RevokeFamily(post[p])
  /\ Replies1(p, "refused")
  /\ UNCHANGED <<processVars, post, got, stray>>

\* A request whose sender stopped waiting arrives after all, or never.
StrayEnds(g) ==
  /\ stray' = stray \ {g}
  /\ Burn(g) \/ RevokeFamily(g) \/ UNCHANGED engineVars
  /\ UNCHANGED <<processVars, post, reply, got>>

Tick == ComesDue /\ UNCHANGED <<processVars, grantVars>>

-----------------------------------------------------------------------------
Init ==
  /\ EngineInit
  /\ \/ issued = 0 /\ file = Empty /\ mtime = Absent
     \/ issued = 1 /\ file \in {Pair(1, TRUE, Publishes), Pair(1, TRUE, FALSE)} /\ mtime = Current
  /\ draft = [a \in Actors |-> {}]
  /\ holder = NoOne
  /\ task = [p \in Procs |-> "idle"]
  /\ stored = [p \in Procs |-> file]
  /\ seen = [p \in Procs |-> mtime]
  /\ refused = [p \in Procs |-> Older] /\ failed = [p \in Procs |-> Older]
  /\ kept = [p \in Procs |-> NoPair] /\ marker = [p \in Procs |-> Absent]
  /\ metadata = [p \in Procs |-> file.meta]
  /\ post = [p \in Procs |-> 0]
  /\ reply = [p \in Procs |-> "none"]
  /\ got = [p \in Procs |-> 0]
  /\ stray = {}
  /\ cli = "idle" /\ cliGot = 0
  /\ loggedOut = (issued = 0)
  /\ replaced = {}

\* What a process's loop does once a fenced task is under way.
Progress(p) ==
  \/ FinishReload(p)
  \/ AcquireForRefresh(p) \/ FenceTimeout(p) \/ Reread(p)
  \/ Present(p) \/ NotSent(p)
  \/ SaveRotated(p) \/ KeepUnsaved(p) \/ Mark(p) \/ TakeRefusal(p) \/ TakeFailure(p) \/ GiveUp(p)
  \/ Forget(p) \/ Reload(p) \/ Settle(p)
  \/ AcquireForSave(p) \/ SaveKept(p) \/ AbandonKept(p) \/ ForgetKept(p) \/ SaveKeptFails(p)

Guard(p) == StartSave(p) \/ StartReload(p) \/ StartRefresh(p) \/ Discover(p) \/ SaveMetadata(p)

Login == LoginStart \/ LoginRegister \/ LoginExchange \/ LoginFence \/ LoginSave
         \/ LoginSaveFails \/ LoginMetadata \/ LoginEnds

Logout == LogoutNothing \/ LogoutStart \/ LogoutFence \/ LogoutTimeout \/ LogoutUnlink

Engine ==
  \/ \E p \in Procs : EngineRotates(p) \/ EngineFails(p) \/ EngineGarbles(p) \/ EngineRefuses(p)
  \/ \E g \in stray : StrayEnds(g)
  \/ Tick

Next ==
  \/ \E p \in Procs : Progress(p) \/ WriteDraft(p) \/ Guard(p) \/ Restart(p) \/ Crash(p)
  \/ Login \/ Logout \/ WriteDraft(Cli)
  \/ Engine

Spec == Init /\ [][Next]_vars

-----------------------------------------------------------------------------
(* What must hold.                                                         *)

\* No process ever presents a refresh token the engine has spent: a replay costs
\* every session of the sign-in (OAuthAuth's docstring, CHANGELOG "A cross-process
\* refresh fence").
NoReplay == ~replayed

\* While nobody holds the fence, a refresh token on disk is one the engine would
\* still take: not spent, and not in a request that may yet arrive.  It is what
\* lets the next process, whichever it is, refresh from the file.
CleanDisk ==
  holder = NoOne /\ file.refresh => file.gen \notin spent \union stray

\* A process that believes its copy current (same mtime) has the file's content, so
\* a sign-in, a logout or a peer's refresh is never missed (_reload's "mtime first").
CopyCurrent(p) ==
  task[p] \notin {"stale", "held", "settle"} /\ seen[p] = mtime => stored[p] = file
ReloadMissesNothing == \A p \in Procs : CopyCurrent(p)

\* The same while there is a file: 0, the mtime of an absent one, comes back.
SeenDetectsStale == mtime # Absent => ReloadMissesNothing

\* After a logout no process's late write signs the profile in again (logout's comment).
LogoutSticks == loggedOut => file.gen = 0

\* A new pair on disk succeeds the pair it replaces or is a new sign-in: a refresh
\* of an older sign-in never overwrites a newer one (_FreshSignInStorage).
NoRollback ==
  file'.gen # file.gen /\ file'.gen # 0 /\ file.gen # 0 =>
    IF family[file'.gen] = family[file.gen] THEN file'.gen > file.gen
                                            ELSE family[file'.gen] = file'.gen
SignInNotOverwritten == [][NoRollback]_vars

\* A rotated pair the disk refused is given up only because a sign-in or a logout
\* replaced it (_save_fenced's comment), or because its process ended.
KeptPairFate ==
  [][\A p \in Procs : AbandonKept(p) => p \in replaced]_vars

\* The pairs the profile goes by: the file's, and one the disk refused, until a
\* login or a logout supersedes it.
LivePairs ==
  {g \in {file.gen} : file.refresh}
    \union {kept[p].gen : p \in {q \in Keeping : q \notin replaced \/ task[q] = "mark"}}
LivePair == IF LivePairs = {} THEN 0 ELSE CHOOSE g \in LivePairs : \A h \in LivePairs : g >= h

\* Processes, lock and file together are one sign-in (ProfileSignIn): whichever process
\* renews it and wherever its pair is kept, it only moves forward, and one that was
\* lost, logged out or replaced is never brought back by a late write.
User == INSTANCE ProfileSignIn WITH
  pair <- LivePair, line <- IF LivePair = 0 THEN 0 ELSE family[LivePair],
  loginRan <- cli = "signedin", out <- loggedOut
OneSignIn == User!Profile

\* A token that a process sent for no answer, a 5xx or, the pair being due, a refusal
\* is not sent again by it until oauth.json changes, even if the disk would not drop it
\* (_forget_refresh_token's comment; `failed` records the grants, not `refused`).
RefusedNotPresented ==
  [][\A p \in Procs : task[p] = "present" /\ task'[p] = "sent" => failed[p] # mtime]_vars

-----------------------------------------------------------------------------
(* Why NoReplay and CleanDisk hold, while processes end in order, unfenced  *)
(* updates are not torn, the disk lets a token be dropped or unlinked, and  *)
(* the engine's answers can be read.                                        *)

SafeFaults == Faults \subseteq {"nosave", "noretire"}

\* The lock excludes: its holder is the one actor inside the fence.
FenceInv ==
  /\ \A p \in Procs : task[p] \in FencedTasks <=> holder = p
  /\ cli \in {"saving", "unlink"} <=> holder = Cli
  /\ \A a \in Actors : draft[a] = {}

\* A pair whose refresh token the engine would take, and that no request carries.
Clean(g) == g \in 1..issued /\ g \notin spent /\ g \notin stray

\* Tokens on their way are unspent, so whatever arrives arrives first.
EngineInv ==
  /\ ~replayed
  /\ spent \subseteq 1..issued /\ stray \subseteq 1..issued
  /\ spent \intersect stray = {}

\* The file's token is clean, or the fence's holder is presenting or dropping it.
FileInv ==
  /\ file.gen \in 0..issued /\ (file.refresh => file.gen # 0)
  /\ file.refresh /\ ~Clean(file.gen) => \E p \in Procs : task[p] \in {"sent", "forget"}

\* What is sent is the file's token, spent only by the answer to that request.
SentInv ==
  \A p \in Procs :
    /\ task[p] = "sent" =>
         /\ file.refresh /\ post[p] = file.gen
         /\ reply[p] \in {"none", "rotated", "refused", "failed"}
         /\ reply[p] \in {"none", "refused"} => Clean(file.gen)
    /\ got[p] # 0 => task[p] = "sent" /\ reply[p] = "rotated" /\ Clean(got[p]) /\ got[p] # file.gen

\* A pair that is not on disk yet is clean and nobody else's.
HeldInv ==
  /\ \A p \in Procs :
       /\ kept[p].gen # 0 =>
            /\ Clean(kept[p].gen)
            /\ task[p] # "unkeep" => kept[p].gen # file.gen
            /\ kept[p].gen # cliGot
            /\ \A q \in Procs : kept[p].gen # got[q] /\ (q # p => kept[q].gen # kept[p].gen)
       /\ got[p] # 0 => got[p] # cliGot
  /\ cliGot # 0 => Clean(cliGot) /\ cliGot # file.gen
  /\ cliGot # 0 => cli \in {"exchanged", "saving"}

IInv == TypeOK /\ FenceInv /\ EngineInv /\ FileInv /\ SentInv /\ HeldInv

-----------------------------------------------------------------------------
(* Scheduling: a started task goes on, because every wait in it is bounded  *)
(* (FENCE_TIMEOUT_S on the fence and on the grant), and the loop gets back  *)
(* to it between the metadata saves of other callers.  Nothing obliges a    *)
(* user to log in, a hook to call, or the engine to answer.                 *)

Fairness ==
  /\ \A p \in Procs : SF_vars(Progress(p)) /\ WF_vars(WriteDraft(p))
  /\ WF_vars(LoginSave \/ LogoutUnlink)
FairSpec == Spec /\ Fairness

\* The fence is always given back, so a peer's refresh, a login or a logout gets it.
FenceReleased == \A a \in Actors : holder = a ~> holder # a

\* Every caller that joins a fenced task hears how it ended.
TaskEnds == \A p \in Procs : task[p] # "idle" ~> task[p] = "idle"
=============================================================================
