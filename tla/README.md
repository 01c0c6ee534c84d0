# Verification of lumberroom-hermes

lumberroom-hermes is a memory provider for Hermes Agent: a plugin that recalls
memories before each turn, passes the engine's tools to the model, and keeps one
sign-in that every Hermes process of a profile shares. This directory holds TLA+
modules of its core logic, the TLC configurations that check them on small
instances, and TLAPS proofs of the results that matter most. Line numbers refer
to the source files at the root of the repository.

Each module is translated from the code. `PROJECT.json` gives, for each
definition, the lines it stands for.

## The system

| part | state | operations | hard behaviours | what makes it correct |
|---|---|---|---|---|
| `auth.py` OAuthAuth | stored pair, remembered mtimes, one fenced task, a rotated pair the disk refused | refresh_guard, fenced refresh, fenced save, reload, settle, sign_in; `login`, `logout` | several processes, lost or late answers, full disks, cancellation, crashes | no refresh token is presented twice; a newer sign-in or a logout wins; waits end |
| `tokens.py` FileTokenStorage, RefreshFence | `oauth.json`, `oauth.lock` | set_tokens, save_tokens, drop_refresh_token, set_client_info, save_metadata, clear; acquire, release | read-modify-write with and without the lock; mtime as a version | a write keeps what it was not given; the lock excludes |
| `bridge.py` Bridge | loop thread, one session per invocation, attempts, in-flight tasks | call, call_many, list_tools, http_json, set_session_id, close | concurrent calls on one session, deadlines, a session that dies or hangs, close at any point | an answer never denies what happened; every call is answered; sessions do not leak |
| `provider.py` LumberroomProvider | author, digest flags, injected ids, nudge, breaker, tool lists | initialize, on_turn_start, prefetch, sync_turn, on_session_switch, handle_tool_call | sync_turn on another thread after later turns began, refusals and outages between turns | only the owner reaches the engine; nothing is lost or repeated; the nudge is the owner's |
| `recall.py` | Breaker, InjectedIds | format_digest, format_hits, compose, allow, record_* | the block's cap | what was marked delivered is delivered |
| `gate.py` | none | session_allowed, turn_allowed | authors that are missing or strangers | the owner gate of the README |
| browser sign-in (`auth.py`) | one attempt per authorization: listener, paste reader, result queue, stop flag | redirect, callback, shutdown | two threads race to deliver one address; a reader blocked on the terminal outlives its attempt; a second authorization in one login | each authorization can be answered; a login ends and gives its port back |
| `importer.py` | none of its own (a run and a queue on the engine) | import_builtin: open, batches, close | a request fails after the engine took it, or lands later | each entry proposed once; a success left nothing out |
| `wizard.py` | `.env`, `config.yaml` | post_setup, save_values | interrupted at any prompt; the panel writes beside it | never half-written; credential before config |
| `schemas.py`, tool part of `provider.py` | candidate set, live listing, `tools_cache.json` | get_tool_schemas, initialize, handle_tool_call, system_prompt_block | names are indexed before the engine is asked; config and cache change in between | what is offered is routable; review tools only with consent |
| `cli.py` | none | login, logout, status, import-builtin | share the terminal and the files with the above | status and setup say the same |
| `config.py` | none | parse, write_section, builtin_flags | what is not written is kept | see Setup |

The provider calls the bridge (`call_many` for a prefetch, `call` for a tool).
The bridge asks the auth handle before each call (`refresh_guard`) and at close
(`settle`). The auth handle reads and writes the token file, which it shares
with other processes and the command line, and asks the engine's token endpoint.
The wizard runs the browser sign-in, a live check and the import at one terminal,
and writes the configuration that the provider's tool exposure reads.

## Modules

| module | stands for | proofs |
|---|---|---|
| `TokenFile` | one `oauth.json` record and what each write makes of it | |
| `TokenEndpoint` | the engine's single-use refresh tokens (external) | |
| `OAuthRefresh` | processes, command line, fence and file over the two above; implements `ProfileSignIn` | `OAuthRefreshProofs`, `OAuthReplayProofs`, `OAuthSignInProofs` |
| `ProfileSignIn` | abstract: the one sign-in of a profile, as its user sees it | |
| `Gate` | the owner gate as operators | |
| `Recall` | one provider: turns, prefetch, digest, hits, breaker, nudge | `RecallProofs` |
| `CallPromise` | abstract: what an answer of the bridge lets its caller conclude | |
| `BridgeCalls` | calls, sessions, deadlines and close; implements `CallPromise` | `BridgeCallsProofs` |
| `SignIn` | redirect, listener, paste reader, callback, shutdown | `SetupProofs` |
| `Import` | import_builtin and the engine's queue | `ImportProofs`, `SetupProofs` |
| `Tools` | config block, cache, candidate set, live listing, what is offered and callable | `SetupProofs` |
| `Setup` | the wizard, the commands and the panel, composing `SignIn`, `Import`, `Tools` | `SetupProofs` |
| `MCOAuthRefresh`, `MCRecall`, `MCBridgeCalls`, `MCSetup` | instances for TLC | |

### OAuthRefresh

A token pair is its generation; a file record is a generation, whether the
refresh token is still there, and whether the client and the metadata are. A
step is what the code does between two points where another process, or another
coroutine of the same loop, can act:

| code | actions |
|---|---|
| `_ready`, `_start`, `_refuse_dead_pair` | StartSave, StartReload + FinishReload, StartRefresh |
| `_refresh_fenced` | AcquireForRefresh, FenceTimeout, Reread, then NotSent or Present |
| `_sdk_refresh` | Present, SaveRotated, TakeRefusal, TakeFailure, GiveUp |
| `_keep_unsaved`, `_retire_spent_token` | KeepUnsaved, Mark |
| `_forget_refresh_token` | Forget, Reload, Settle |
| the end of `_refresh_fenced` | Reload, Settle |
| `_save_fenced` | AcquireForSave, SaveKept or AbandonKept or SaveKeptFails, ForgetKept |
| `_save_discovered_metadata` | Discover, SaveMetadata (wherever the fenced task is Suspended) |
| `__init__`, `settle` and process end | Restart, Crash |
| `login`, `sign_in`, `_FreshSignInStorage` | LoginStart ... LoginEnds |
| `logout` | LogoutNothing, LogoutStart, LogoutFence, LogoutTimeout, LogoutUnlink |
| the engine | EngineRotates, EngineFails, EngineGarbles, EngineRefuses, StrayEnds, Tick |

`Reread`, `SaveRotated`, `Forget` and `SaveKept` read the file and write it back
in one step, which is exact under the fence as long as nobody writes outside it.
Those who do write outside it (a metadata save, a login's new client) are
`UnfencedUpdate`: one step, or under the fault `torn` a read whose write
(`WriteDraft`) comes later, after whatever another actor did in between. A
remembered mtime is 0 (absent), current, or older; a write ages what others
remember.

`failed` is a history variable, which no guard reads: for each process, the
version of the file whose token it sent for no answer, a 5xx, or, the pair being
due, a refusal. The steps that take such an outcome record it; the code's own note
(`refused`, for `_refused_mtime`) is only written when the fenced task ends. Two
outcomes are left out of `failed` because the code does not remember them: a 4xx
for a pair that is not due (`auth.py:346`), which takes two torn updates to send,
and a 200 that cannot be read.

`Faults` names what may go wrong beyond answers that are lost, late or 5xx,
which are always allowed: `nosave`, `noretire`, `nounlink`, `noforget` (disk),
`crash`, `torn`, `garbled`.

`ProfileSignIn` forgets processes, lock and file. A login starts a line of token
pairs, each renewal moves forward in that line, and a line that is lost, logged
out or replaced does not come back. The mapping takes as the profile's pair the
newest of those the code would still use: the one on disk while its refresh token
is there, or one a process keeps because the disk refused it, until a login or a
logout supersedes it. Its line is the family the engine gave it.

### Recall

The agent's thread runs a turn as StartTurn, StartPrefetch or NoPrefetch,
EndPrefetch, tool calls, EndTurn; the sync worker runs SyncTurn for finished
turns, in order, at any time later. A prefetch is two steps, before and after
the engine answers. Texts are sizes in units of about 160 characters: with the
defaults (block 8000, digest 6000, one line) `Room` is 8 and `DigestMax` 6, each
rounded so that the comparisons of `compose` come out as in the code. A session
switch happens between prefetches, as Hermes joins each prefetch
(`config.py:27`). History variables record what was made, shown and earned.

### BridgeCalls

A caller submits a batch (one tool call, or the two calls of a prefetch); the
loop makes a task for each call; a task asks the guard, joins or opens the
session of the table, sends, and ends with an answer, a failure or a
cancellation. A session is opened and left by its owner task alone. A failed
POST ends the session with that failure among its reasons, and every waiter is
woken; when the owner has left, each takes the session's reasons as its own
(`_root_cause`), among them what a POST that unwinds after the retirement still
raises. Time is left out: a deadline may pass whenever its batch waits. A caller
that hears nothing gives up (GiveUp); what the loop had not begun for it then
starts all the same, with nobody to cut it off, unless the loop has stopped
(`LeftBehind`). A loop that closed before it was handed the call turns it away as
unreachable (TurnedAway, `bridge.py:273-275`).
`landed` is what the engine took, which the code cannot see.

`CallPromise` keeps only answers and `landed`: a denial ("unreachable",
"unauthorized", "login_required") means the engine has not taken the call and
never will, "ok" means it has, anything else that it may have. One exception is
built into the mapping: a call's own 502 or 503 counts as "may have", since the
code says the owner accepted that denial (`bridge.py:28-32`).

### Setup, SignIn, Import, Tools

| code | actions |
|---|---|
| `post_setup`, prompt by prompt | StartSetup, AnswerDeployment, AnswerSecret, AnswerLogin, AnswerReview, Save, AnswerCheck or SkipCheck, AnswerImport, Ends |
| `save_values` (the panel) | PanelSaves |
| `cli.py` login, import-builtin | CliLogin, CliImport |
| `login`'s end, `LoginFailed` | LoginEnds |
| `_BrowserSignIn` redirect, callback, shutdown | Redirect, Callback, Joined |
| `_SignInAttempt._serve`, `do_GET` | Arrives, Silent, Serves |
| `_SignInAttempt._read_pastes` | Paste, and LineTaken once its attempt is over |
| the SDK after an address | Exchange (external) |
| `import_builtin` | ReadEntries, OpenRun, Post, CloseRun; LateLands when the engine takes a batch late |
| `_ensure_candidate_tools`, `get_tool_schemas` | Index |
| `initialize`'s listing and cache | Initialize, EndSession |
| `handle_tool_call`'s filter, `system_prompt_block`, `_dreaming_review_status` | Callable, NamesSkill, ReviewStatus |

One variable `ask` says which prompt the terminal is at. A line typed there goes
to the prompt, or to a reader that an ended sign-in left blocked on the same
terminal. A command is a process: when it ends, wherever that is, its threads and
its listener end with it, and what it wrote stays. Pages, listings and blocks are
small sets; a block is whether its `base_url` and `auth` parse, its host, mode,
`dreaming_review` and allowlist. The engine's queue adds a proposal unless its
source key is there. `agreed` and `consent` are history: whether setup's live
check said what status says, and whether the user ever asked for dreaming review.

## What TLC checks

States are distinct states on the instance of the `.cfg`; each run is complete.

| run | instance | shows |
|---|---|---|
| `OAuthSafety` | 2 processes, 3 pairs, `nosave` (1.0M) | TypeOK, NoReplay, CleanDisk, LogoutSticks, SeenDetectsStale, SignInNotOverwritten, KeptPairFate, OneSignIn (implements `ProfileSignIn`), and IInv, the invariant of the proofs |
| `OAuthFaults` | 1 process beside the command line, 2 pairs, metadata published, every fault, fair (268k) | SeenDetectsStale, RefusedNotPresented, FenceReleased, TaskEnds |
| `RecallTurns` | a group with the owner and a member, a listed and an unlisted DM, cron, a subagent; 1 memory, default limits, a server that refuses every query beside the digest, fair (196k) | TypeOK, InjectedOnce, NothingDropped, NudgeEarned, SilenceExplained, OwnerOnly, DigestKept, DigestArrives |
| `BridgeSerial` | 2 calls one after another, every prompt fault, hung handshakes, dead connections, fair (92k) | TypeOK, NoSessionLeaks, KeepsPromise (implements `CallPromise`), EveryCallAnswered |
| `BridgeParallel` | a pair of calls beside a third, shared sessions, a slow loop (2.1M) | NoSessionLeaks, DenialIsShared |
| `Setup` | every prompt, 3 starting blocks, 2 authorizations, 3 entries in batches of 2, 2 runs, one Hermes process, fair (1.1M) | TypeOK, StillListening, PortReleased, ProposedOnce, ImportComplete, OfferedIsRouted, CredentialFirst, ReviewConsented, OneLineEach, NeverHalfWritten, LoginSettles |

Six further runs each end in a counterexample, where the code does other than
its comments, its docs or its tests say:

| run | what happens |
|---|---|
| `TornUpdate` | an unfenced save restores the pair a peer just rotated away; the next refresh replays it |
| `LogoutUndone` | a pair kept while the file is unlinked has marker 0; a logout leaves 0 too, and the pair is saved after it |
| `KeptPairLost` | the process's own metadata save looks like someone else's sign-in, and the only live pair is dropped |
| `FalseDenial` | a call the engine took is denied because a parallel call's connection failed |
| `LiveCheckDrifts` | setup turns dreaming review on, and its own live check prints that the setting is off, where `status` says otherwise |
| `SkillNamed` | an initialize that got no listing offers no review tools, and the prompt names the skill that needs them |

The models show more of the kind, which a changed constant reproduces:

- With `Faults` `{"crash"}`, NoReplay fails: a process that dies between the
  engine's rotation and the rename leaves the spent token to its successor.
- With `{"garbled"}`, NoReplay fails: a 200 that the SDK cannot read is taken for
  a refusal and the spent pair stays on disk.
- The mtime of an absent file is always 0, so a login inside a reload with a
  logout after it leaves a stale copy that looks current. This is why
  SeenDetectsStale speaks only of a file that is there.
- With `DigestMax` 8, NothingDropped fails: the hits of a turn are marked as
  injected and dropped behind a digest that fills the block. With 9
  (`digest_max_chars` above 8000, which `config.py` admits) the digest itself is
  disarmed and dropped.
- The breaker's announcement is per outage, not per silent turn: SilenceExplained
  is about outages alone. A tool error or a repeated missing login leaves a turn
  without memories and without a word, and a session that begins in an outage is
  not told of it again.
- The breaker counts outages with a tool error or a missing login between them as
  consecutive, since neither resets it (`provider.py:359-369`).
- A prompt that follows a sign-in may lose one line to each reader the sign-in
  left behind. `auth.py:719-720` says the thread "stops mattering once the attempt
  ends"; OneLineEach is the bound that does hold.
- `dreaming_review` is written only for a yes, so a later setup that answers no, or
  moves to another host, keeps an earlier yes in the block. The same goes for keys
  setup does not ask about: one that does not parse survives setup, since
  only `base_url` and `auth` are parsed before the write (`wizard.py:103`).
  NeverHalfWritten is about `base_url` and `auth` alone.
- A connection that sends nothing keeps the port bound after a login or between two
  authorizations; the second then has the paste alone. PortReleased says that the
  listener was told to stop, so the port is bound no longer than the connection.
- After a drop that the disk refuses, a token whose answer was lost stays on disk.
  RefusedNotPresented holds for the process that sent it; a peer may send it again.
- The two review tools are narrowed one by one, so a listing with only one of them
  offers that one; the README speaks of the two together (`README.md:37`).
- A save of the panel while a setup is under way is overwritten: setup writes the
  dict it was handed at its start.

Reading the code for the models also showed, outside what a run checks: the import
question counts entries from a first read and the import reads again; an import
that fails leaves its run open on the engine; a 200 without the expected JSON
raises past the import's error handling; and the cache's temporary file has one
name, so two processes that write it at once may publish a torn file, which
`read_cache` treats as none.

Two processes are the least for a race on the file and the fence; the command
line is a third writer. Three pairs let a rotation follow a rotation or a login
supersede one; two are enough for each counterexample. `OAuthFaults` has one
process: its properties are about one process's own copy, its own task and the
fence, and the command line contends for the fence and changes the file under
it, the process's own metadata save does too. What several processes do to one
another under the faults the code answers for is `OAuthSafety`, and the proofs
cover any number of them, with metadata and with `noretire` as well. In
`Recall`, an interval of two, a lag of two turns and a threshold of three reach
every comparison from both sides; longer queues repeat them. In `BridgeCalls`,
as many sessions as calls are enough for every call to open its own, so the
bound never bites; three calls let one retire a session a second one holds and
a third one replaces; `BridgeSerial` has two, since serial calls meet only the
leftovers of the one before. `RefusesQuery` bears on fairness alone, so the
invariants of `RecallTurns` hold for servers that take the query too; one memory
is enough for injecting it twice or dropping it.

In `Setup`, two authorizations reach a second listener, a second reader and a
reader of the first attempt beside it; two results reach an address that is never
taken; three entries in batches of two reach a full and a short batch; two runs
reach a batch of the first that lands during the second. `scene` bounds what may
happen next to the prompts to sign-ins, or imports, or sessions and the panel.
These share only `config.yaml`, which setup writes when neither a sign-in nor an
import is under way, and only the sessions look at `dreaming_review`; so a mixed
behaviour shows each property no more than one of the three. After an import only
imports follow, for the same reason. One Hermes process at a time is enough, as
processes meet only in the cache, which successive ones share as well.

`MaxGen`, `MaxQueue`, `MaxCredit` (where the history counter saturates), `Sizes`,
`MaxRounds`, `MaxResults` and `MaxRuns` are the bounds in the modules.

Deadlock checking is off only for the bridge, which stops after `close`.

### Fairness

`OAuthRefresh` assumes that a loop goes on with a fenced task: each wait in it is
bounded by `FENCE_TIMEOUT_S` (`tokens.py`, `auth.py:310`), and the command line's
steps inside the fence are plain file operations. The fairness is strong for the
task, because the same loop also runs the metadata saves of other callers, which
block it while they write and after which it returns to the task. Nothing is
assumed of the engine, of users or of hooks. `BridgeCalls` assumes that the loop
begins what is submitted, that its timers fire, and that a caller's own wait is
bounded (`bridge.py:277`); a handshake, an unwinding session and the engine may
hang. `Recall` assumes that Hermes goes on with turns, not all of them trivial,
that the cooldown passes, and for `DigestArrives` that the engine eventually
answers a digest call as it would on a good day and that resets end: a reset turns
the query back on, and a server that refuses it costs one turn each time. Fairness
of turns is strong there, because session switches and refused authors come
between them. `Setup` assumes, for the end of a login, that the loop and the
listener's thread run, that the callback's five minutes pass (`auth.py:23`), and
that the token request is answered or times out. Nothing is assumed of the user,
the browser, a silent connection, or the engine's queue.

## What is proved

Every safety property, action property and refinement that a passing run checks is
also a theorem of the specification, for every value of the constants; the runs
check them on small instances and the counterexamples above show why an assumption
is there. What stays with TLC alone is named at the end of this section.

| theorem | states | assumes |
|---|---|---|
| `TypeCorrect` | `OAuthRefresh!TypeOK` | nothing, so every fault |
| `Invariance`, `NeverReplayed`, `DiskAlwaysClean` | IInv, NoReplay, CleanDisk | `SafeFaults` |
| `StaleIsSeen`, `RefusedStays` | SeenDetectsStale, RefusedNotPresented | nothing |
| `NewerSignInWins` | SignInNotOverwritten | `WholeUpdates` |
| `LogoutIsFinal`, `ImplementsOneSignIn` | LogoutSticks, OneSignIn | `TokensRetire` |
| `KeptUntilReplaced` | KeptPairFate | `NothingPublished` |
| `RecallTypes`, `OnlyOwnerHeard`, `NudgeIsEarned`, `DigestIsKept` | `Recall!TypeOK`, OwnerOnly, NudgeEarned, DigestKept | nothing |
| `NothingIsDropped`, `InjectedIsSeen`, `OutageAnnounced` | NothingDropped, InjectedOnce, SilenceExplained | `RoomForAll` |
| `BridgeTypes`, `SessionsNeverLeak`, `DenialsAreShared` | `BridgeCalls!TypeOK`, NoSessionLeaks, DenialIsShared | nothing, so batches beside one another |
| `PromiseKept` | KeepsPromise | `OneAtATime` |
| `SetupTypes`, `CredentialStored`, `ReviewNeedsConsent`, `LinesBounded`, `ConfigWhole` | `Setup!TypeOK`, CredentialFirst, ReviewConsented, OneLineEach, NeverHalfWritten | nothing |
| `SignInAnswerable`, `PortIsReleased` | StillListening, PortReleased | nothing |
| `ImportIdempotent`, `ImportAccounted` | ProposedOnce, ImportComplete | nothing |
| `ToolsRouted` | OfferedIsRouted | nothing |

"Nothing" is nothing beyond the assumptions on the constants in the modules
themselves: what the code validates, or that model values are told apart.
`Invariance`, `BridgeKeeps` and `SetupKeeps` are the inductive invariants.

### The shared sign-in

The theorems hold for any set of processes and any number of pairs. The
assumptions, from the weakest:

- `WholeUpdates`: no unfenced update is torn. `TornUpdate` restores an old pair
  over a new one, which is what SignInNotOverwritten forbids. Crashes, unreadable
  answers and every disk failure are allowed.
- `TokensRetire`: besides, a spent token comes off the file by a rewrite. When the
  disk refuses that too, the code unlinks the file, and a kept pair then carries
  the marker of an absent file, which is also the marker a logout leaves
  (`LogoutUndone`).
- `NothingPublished`: besides, no metadata is saved. A metadata save of the very
  process that keeps a pair looks to it like someone else's sign-in
  (`KeptPairLost`).
- `SafeFaults`: `Faults \subseteq {"nosave", "noretire"}`: the disk may refuse a
  rotated pair and the rewrite after it, the answers may be lost, late or 5xx, and
  processes may restart between tasks. It excludes crashes, torn updates,
  unreadable answers and the disk failures after which the code gives up
  (`auth.py:423`). NoReplay fails with three of them: `TornUpdate` shows it for
  torn updates, and the same run with `crash` or `garbled` for the other two.

NoReplay is not inductive: a state in which the file holds a spent token and
nobody holds the fence satisfies it, and the next refresh breaks it. `IInv`
adds what rules that out:

- `FenceInv`: the fence's holder is the one actor inside a fenced section, and
  no read-modify-write is left open.
- `EngineInv`: nothing was replayed, and tokens on their way are unspent.
- `FileInv`: a refresh token on disk is clean (issued, unspent, in no request),
  or the fence's holder has sent it or is about to drop it.
- `SentInv`: what is sent is the file's token, spent only by the answer to that
  very request; an answer holds a fresh pair.
- `HeldInv`: the pairs that are not on disk (kept by a process, in an answer, in
  a login's hands) are clean and all different, and different from the file's.

`OAuthSignInProofs` needs an invariant for wider faults, built in layers.
`CopiesInv` says what each process knows of the file: one that takes its copy for
current has the file's pair, and an absent file is nobody's current copy. `TriedInv`
follows a grant that brought no pair to the note the code makes of it: while the
file stays as it was, its process has refused this version, or is still between the
answer and the end of the task, holding the answer that makes it refuse and the
mtime it will note, and it is neither waiting to refresh nor presenting. The note
alone would not do, since it comes after the fenced reload; that a write in between
ages both the history and the mtime to be noted is what makes it right. Both
hold under every fault. `LineInv` says where pairs come
from: the holder's own line, the family of each pair, that a request under way is
for the file's token and its answer for the same family, and that a kept pair is
newer than what is on the file, in the same family, unless it was superseded.
`SignInInv` adds that at most one pair of the profile is live, which is what the
mapping to `ProfileSignIn` needs to name it: a process that keeps a pair that
nobody superseded has the marker of the file it left, and that file has no
refresh token. The refinement then shows, action by action, that a step starts
a line, renews it, ends it, or leaves it alone. `UnpublishedInv` adds for
KeptPairFate that nobody but a login or a logout writes the file beside the fence.

### Recall

`ProviderInv` is the type invariant with what an author may see (`GateInv`: a turn
under way is an allowed author's), the breaker's count, and the nudge's account,
in which the turns not yet synced are counted by the author they were queued with.
`BlockInv`, on top of it, relates what a turn marked to what its block shows. It
assumes `RoomForAll`: `DigestMax + HitsMax + Line <= Room`. With the defaults
(6000 and 1200 of 8000 characters, and one line) that is so; where the bound is
dropped the properties fail (`DigestMax` 8 or 9, above), since `compose` keeps what
comes first. `compose` is a left fold over five parts; the proof unfolds it once
(`ComposeFive`) and shows that, with room, it keeps every part (`ComposeKeeps`).

### The bridge

The proof first says how any step may move one call (`CallMoves`: it rests,
starts, seeks a session, sends, loses its request, learns that the transport is
gone, or ends) and one session (`SessionMoves`), and shows every part of the
invariant from those alone. `BridgeInv` has, beside the types, that nobody refers
to a session before it is opened (`SessionInv`), that a refused request is off the
wire, a 502 aside (`CallInv`), and that every reason a session died of is the
failure of a request on that very session (`FailureInv`). From the last one
follows that a false denial is always shared, for every request that left, taken
already or taken later.

`OneAtATime` is how Hermes makes a model's calls: batches of one, no batch beside
another, and a loop that keeps its deadlines. Without it the promise is broken
(`FalseDenial`). `SerialInv` adds that at most one call is under way, that it is
on a session nobody retired, and that a call whose request failed took its
session along when it ended; so the reasons a call finds are its own, and a
denial is true. Each step is then a step of `CallPromise` or a stutter.

### Setup

`SetupInv` has one part for each composed module and one for the wizard:
`BrowserInv` (a reader reads and a listener listens for the attempt that waits, or
was told to stop), `ImportInv` (what was posted, what may still land, and the
totals; `ImportProofs` has the counting of the engine's queue), `OfferedInv` (a
provider's tools are those its index froze, narrowed) and `WizardInv` (where the
terminal is against what was stored; consent; lines lost against readers stopped).
Each part is kept by the steps of its own module and by those that leave its
variables alone, so that a step of the composition shows only what it disturbs.

### Only model-checked

- Liveness, which rests on fairness and ENABLED: LoginSettles, FenceReleased,
  TaskEnds, DigestArrives, EveryCallAnswered.
- The recursion of `Recall`'s helpers is unfolded, not proved by induction: the
  number of parts of a block is fixed.
- The six counterexamples, by their nature.

## Abstractions

- One `mcp_url`: a file for another engine reads as empty, as an absent one does.
- Each write changes the mtime. A file system with coarse timestamps would break
  what the code and the model derive from it.
- A pair that is due and one that has expired are not told apart: the code
  refreshes both and differs in the error a caller hears.
- The answer of `refresh_guard` to its caller is not part of `OAuthRefresh`; in
  `BridgeCalls` the guard passes or refuses with a login or a fence error.
- A fence won by a worker thread after its caller was cancelled is given back
  (`tokens.py:229-231`) and merged with the timeout. That callback needs the loop;
  when the loop is torn down first, the release is up to filelock's object, which
  is not modelled, and nor is a release that is late.
- Recall's texts are sizes, the ranking of hits is arbitrary, and `cfg` is fixed.
- One invocation of the bridge stands for both: the hook and the model sessions
  share nothing but the loop.
- The deployment and credential questions are one prompt, and clocks, page texts
  and URLs are left out of the sign-in.
- The sign-in has two halves in two modules: `OAuthRefresh` has what a login does
  to the file and the fence, `SignIn` how it gets its code. They meet in one fact,
  that the SDK got a pair.
- Of the tools, one default tool stands for those every grant has, `memory_forget`
  for those it may lack; entries the engine refuses are not told apart.
- The Hermes agent runs a model's tool calls one at a time in `BridgeSerial`;
  `BridgeParallel` and `FalseDenial` drop that.

## Not modelled

- The session-id header of the bridge, `recall_status`, `is_available`, and the
  text of the prompt block.
- `TokenAuth` and `gate.identity_from_kwargs`: no state, no decision.
- `config.py` beyond `base_url`, `auth`, `dreaming_review` and `tools`: validation of
  one mapping. What it admits sets the constants of `Recall`.
- `cli.py` beyond its commands' effects: argument parsing and print layout.
- Static package registration (`__init__.py`, `_version.py`).
- `scripts/`, `skills/`, `tools_snapshot.json`, package metadata: tooling, text
  and data.

## Plan

Every component whose state matters is modelled, and every safety result is
proved. What is left:

1. A composition of guard and calls: which answers a call may get while the
   sign-in is refreshed, refused, logged out or replaced.
2. The late win of the fence (`tokens.py:207`) as a state of its own, with a proof
   that no release is lost while the loop runs.
3. Weaker assumptions where a proof may allow them: CleanDisk with `crash`, since
   a crash before a rotation changes nothing, and KeptPairFate with metadata that
   only other processes save.
