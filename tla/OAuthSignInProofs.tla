-------------------------- MODULE OAuthSignInProofs --------------------------
(***************************************************************************)
(* The fate of a sign-in, for any number of processes and pairs: copies    *)
(* are noticed when stale and a token tried in vain is not tried again,    *)
(* under every fault; a newer sign-in is never overwritten, as long as     *)
(* updates are whole; and, as long as the disk lets a spent token be taken *)
(* off the file, a logout sticks and processes, lock and file together are *)
(* the one sign-in of ProfileSignIn.                                       *)
(***************************************************************************)
EXTENDS OAuthRefreshProofs

-----------------------------------------------------------------------------
(* What each result assumes of the faults; answers may always be lost,     *)
(* late or 5xx, and the disk may refuse a rotated pair.                    *)

\* No write lands inside another's read-modify-write.
WholeUpdates == "torn" \notin Faults

\* A spent token comes off the file, by a rewrite.
TokensRetire == WholeUpdates /\ "noretire" \notin Faults

\* No process saves metadata under the nose of a kept pair.
NothingPublished == TokensRetire /\ ~Publishes

-----------------------------------------------------------------------------
(* The invariants.                                                         *)

\* An absent file reads as empty and nobody takes it for a file; whoever waits to
\* refresh has not been refused with this file.
AbsentInv ==
  /\ mtime = Absent => file = Empty /\ \A p \in Procs : seen[p] # Current
  /\ \A p \in Procs : (mtime = Absent \/ task[p] = "wait") => refused[p] # Current

\* A pair belongs to itself, or to an earlier pair's line.
FamilyInv ==
  \A g \in Gens : IF g <= issued THEN family[g] \in 1..g ELSE family[g] = 0

\* What is sent is on the file, and what comes back succeeds it.
GrantInv ==
  /\ file.gen <= issued
  /\ \A p \in Procs :
       /\ task[p] = "sent" => file.refresh /\ post[p] = file.gen
       /\ task[p] = "forget" => file.refresh
       /\ got[p] # 0 => /\ task[p] = "sent" /\ reply[p] = "rotated"
                        /\ got[p] <= issued /\ got[p] > file.gen
                        /\ family[got[p]] = family[file.gen]

\* A kept pair succeeds the pair on the file, until the file changes.
KeptInv ==
  \A p \in Procs : kept[p].gen # 0 =>
    /\ kept[p].gen <= issued
    /\ (task[p] = "mark" \/ marker[p] = mtime) /\ file.gen # 0 =>
         kept[p].gen > file.gen /\ family[kept[p].gen] = family[file.gen]

\* The pair a login got starts a line that nobody else has a pair of.
LoginInv ==
  cliGot # 0 =>
    /\ cli \in {"exchanged", "saving"}
    /\ cliGot <= issued /\ cliGot # file.gen /\ family[cliGot] = cliGot
    /\ \A g \in 1..issued : family[g] = cliGot => g = cliGot
    /\ \A p \in Procs : kept[p].gen # cliGot /\ got[p] # cliGot

LineInv == FenceInv /\ FamilyInv /\ GrantInv /\ KeptInv /\ LoginInv

\* The kept pair the profile goes by.
Live(p) == kept[p].gen # 0 /\ (p \notin replaced \/ task[p] = "mark")

\* While a kept pair may still be saved, the file is the one its token came off.
MarkerInv ==
  \A p \in Procs :
    /\ task[p] = "mark" => file.gen # 0 /\ ~file.refresh
    /\ kept[p].gen # 0 /\ task[p] # "mark" =>
         /\ marker[p] # Absent
         /\ marker[p] = mtime => file.gen # 0 /\ ~file.refresh /\ p \notin replaced
    /\ task[p] = "mark" => kept[p].gen # 0
    /\ task[p] = "unkeep" => kept[p].gen # 0 /\ marker[p] # mtime

\* The profile goes by one pair.
LiveInv ==
  /\ \A p \in Procs : Live(p) /\ file.refresh => task[p] = "unkeep" /\ kept[p].gen = file.gen
  /\ \A p, q \in Procs : Live(p) /\ Live(q) => p = q

SignInInv == MarkerInv /\ LiveInv /\ LogoutSticks

\* A kept pair that waits for the next guard, or for the fence.
Waiting(p) == kept[p].gen # 0 /\ task[p] \notin {"mark", "unkeep"} /\ p \notin replaced

\* Nobody has metadata to save.
NoMetadata ==
  ~file.meta /\ \A p \in Procs : ~metadata[p] /\ ~stored[p].meta /\ ~kept[p].meta

\* A pair is only ever bought with a client, which stays until a logout.
ClientInv ==
  /\ file.gen # 0 \/ cli \in {"authorize", "exchanged", "saving"} => file.client
  /\ cli = "register" => ~file.client

\* So only a login or a logout changes the file of a kept pair.
UnpublishedInv ==
  /\ NoMetadata /\ ClientInv
  /\ \A p \in Procs : Waiting(p) => marker[p] = mtime

-----------------------------------------------------------------------------
(* Stale copies and refused versions: every fault.                         *)

CopiesInv == SeenDetectsStale /\ AbsentInv

\* Whatever becomes of the file is noticed by all: nobody remembers a new version.
LEMMA WriteNoticed ==
  ASSUME TypeOK, CopiesInv, NEW r,
         Write(r) \/ Unlink \/ Drop \/ UNCHANGED <<file, mtime, stampVars>>,
         UNCHANGED stored,
         \A p \in Procs : /\ task'[p] = "wait" => task[p] = "wait"
                          /\ task[p] \in {"stale", "held", "settle"} => task'[p] = task[p]
  PROVE  CopiesInv'
<1> USE DEF TypeOK, Stamps, Absent, Current, Older
<1>1. CASE Write(r)
  BY <1>1 DEF Write, Replaces, Aged, CopiesInv, SeenDetectsStale, ReloadMissesNothing, CopyCurrent, AbsentInv
<1>2. CASE Unlink
  BY <1>2 DEF Unlink, Replaces, Aged, CopiesInv, SeenDetectsStale, AbsentInv
<1>3. CASE Drop
  BY <1>3
  DEF Drop, diskVars, stampVars, Write, Replaces, Aged, CopiesInv, SeenDetectsStale, ReloadMissesNothing,
      CopyCurrent, AbsentInv
<1>4. CASE UNCHANGED <<file, mtime, stampVars>>
  BY <1>4
  DEF stampVars, CopiesInv, SeenDetectsStale, ReloadMissesNothing, CopyCurrent, AbsentInv
<1> QED
  BY <1>1, <1>2, <1>3, <1>4

\* A step of a process's own memory: what it reads, remembers or refuses.
LEMMA OwnCopyKept ==
  ASSUME TypeOK, CopiesInv, NEW p \in Procs,
         \/ StartReload(p) \/ FinishReload(p) \/ StartRefresh(p) \/ AcquireForRefresh(p) \/ Reread(p)
         \/ Reload(p) \/ Settle(p) \/ Mark(p) \/ ForgetKept(p) \/ Restart(p) \/ Crash(p)
  PROVE  CopiesInv'
<1> USE DEF TypeOK, Stamps, Absent, Current, Older, At, Goto, CopiesInv, SeenDetectsStale, ReloadMissesNothing,
            CopyCurrent, AbsentInv, diskVars, stampVars, memVars
<1>1. CASE StartReload(p)
  BY <1>1 DEF StartReload
<1>2. CASE FinishReload(p)
  BY <1>2 DEF FinishReload, Reseeds
<1>3. CASE StartRefresh(p)
  BY <1>3 DEF StartRefresh
<1>4. CASE AcquireForRefresh(p)
  BY <1>4 DEF AcquireForRefresh
<1>5. CASE Reread(p)
  BY <1>5 DEF Reread, Reseeds
<1>6. CASE Reload(p)
  BY <1>6 DEF Reload
<1>7. CASE Settle(p)
  BY <1>7 DEF Settle, Reseeds, RefusesVersion
<1>8. CASE Mark(p)
  BY <1>8 DEF Mark
<1>9. CASE ForgetKept(p)
  BY <1>9 DEF ForgetKept
<1>10. CASE Restart(p) \/ Crash(p)
  BY <1>10 DEF Restart, Crash, Boots
<1> QED
  BY <1>1, <1>2, <1>3, <1>4, <1>5, <1>6, <1>7, <1>8, <1>9, <1>10

LEMMA CopiesNext == TypeOK /\ CopiesInv /\ [Next]_vars => CopiesInv'
<1> SUFFICES ASSUME TypeOK, CopiesInv, [Next]_vars PROVE CopiesInv'
  OBVIOUS
<1> DEFINE Noticed ==
      /\ \E r : Write(r) \/ Unlink \/ Drop \/ UNCHANGED <<file, mtime, stampVars>>
      /\ UNCHANGED stored
      /\ \A p \in Procs : /\ task'[p] = "wait" => task[p] = "wait"
                          /\ task[p] \in {"stale", "held", "settle"} => task'[p] = task[p]
<1>1. Noticed => CopiesInv'
  BY WriteNoticed
<1> USE DEF memVars, processVars, grantVars, diskVars
<1>2. ASSUME NEW p \in Procs,
             \/ Present(p) \/ NotSent(p) \/ SaveRotated(p) \/ KeepUnsaved(p) \/ TakeRefusal(p)
             \/ TakeFailure(p) \/ GiveUp(p) \/ Forget(p) \/ AcquireForSave(p) \/ SaveKept(p)
             \/ AbandonKept(p) \/ SaveKeptFails(p) \/ FenceTimeout(p) \/ StartSave(p)
      PROVE  CopiesInv'
  <2>1. Noticed
    BY <1>2
    DEF Present, NotSent, SaveRotated, KeepUnsaved, Retires, TakeRefusal, TakeFailure, GiveUp, Fails, Forget,
        AcquireForSave, SaveKept, AbandonKept, SaveKeptFails, FenceTimeout, StartSave, Answered, At, Goto, TypeOK
  <2> QED
    BY <1>1, <2>1
<1>3. ASSUME NEW p \in Procs, Discover(p) \/ SaveMetadata(p)
      PROVE  CopiesInv'
  BY <1>1, <1>3 DEF Discover, SaveMetadata, UnfencedUpdate
<1>4. ASSUME NEW a \in Actors, WriteDraft(a)
      PROVE  CopiesInv'
  BY <1>1, <1>4 DEF WriteDraft
<1>5. CASE Login
  BY <1>1, <1>5
  DEF Login, LoginStart, LoginRegister, LoginExchange, LoginFence, LoginSave, LoginSaveFails, LoginMetadata,
      LoginEnds, UnfencedUpdate
<1>6. CASE Logout
  BY <1>1, <1>6 DEF Logout, LogoutNothing, LogoutStart, LogoutFence, LogoutTimeout, LogoutUnlink
<1>7. CASE Engine
  BY <1>1, <1>7 DEF Engine, EngineRotates, EngineFails, EngineGarbles, EngineRefuses, StrayEnds, Tick
<1>8. CASE UNCHANGED vars
  BY <1>1, <1>8 DEF vars, diskVars, stampVars
<1> QED
  BY <1>2, <1>3, <1>4, <1>5, <1>6, <1>7, <1>8, OwnCopyKept DEF Next, Progress, Guard, Actors

LEMMA CopiesInit == Init => CopiesInv
<1> SUFFICES ASSUME Init PROVE CopiesInv
  OBVIOUS
<1>1. Current # Absent /\ Current # Older
  BY DEF Absent, Current, Older
<1>2. mtime = Absent => file = Empty
  BY <1>1 DEF Init
<1>3. \A p \in Procs : stored[p] = file /\ seen[p] = mtime /\ refused[p] = Older
  BY DEF Init
<1> QED
  BY <1>1, <1>2, <1>3 DEF CopiesInv, SeenDetectsStale, ReloadMissesNothing, CopyCurrent, AbsentInv

\* A process that believes its copy current has what is on the file, while there is
\* a file, whatever fails, crashes or is torn.
THEOREM StaleIsSeen == Spec => []SeenDetectsStale
<1>1. CopiesInv => SeenDetectsStale
  BY DEF CopiesInv
<1> QED
  BY <1>1, TypeCorrect, CopiesInit, CopiesNext, PTL DEF Spec

-----------------------------------------------------------------------------
(* What was tried in vain: every fault.                                    *)

\* Once p's grant for the token on the file brought no pair, p remembers it as refused,
\* or is on its way to: it holds the answer that makes it, and then its mtime.  An
\* absent file has no token to try.
Tried(p) ==
  /\ failed[p] # Absent
  /\ failed[p] = Current =>
       /\ mtime = Current
       /\ task[p] \notin {"wait", "held", "present", "sent"}
       /\ task[p] = "settle" => seen[p] = Current
       /\ \/ refused[p] = Current
          \/ task[p] \in {"forget", "reload", "settle"} /\ reply[p] = "lost"
          \/ task[p] \in {"reload", "settle"} /\ reply[p] = "refused" /\ Due(file)

TriedInv == \A p \in Procs : Tried(p)

\* A new file is one that nobody tried.
LEMMA RewriteUntried ==
  ASSUME TypeOK, TriedInv, NEW r, NEW t, Replaces(r, t)
  PROVE  TriedInv'
<1>1. \A p \in Procs : failed'[p] # Current /\ failed'[p] # Absent
  BY DEF TypeOK, Stamps, Replaces, Aged, Absent, Current, Older, TriedInv, Tried
<1> QED
  BY <1>1 DEF TriedInv, Tried

\* Where the file stays, only p's own task can leave p with a tried token to send.
LEMMA OthersTried ==
  ASSUME TypeOK, TriedInv, NEW p \in Procs, UNCHANGED <<file, mtime>>, due \subseteq due', Tried(p)',
         \A q \in Procs \ {p} : /\ failed'[q] = failed[q] /\ task'[q] = task[q] /\ seen'[q] = seen[q]
                                /\ refused'[q] = refused[q] /\ reply'[q] = reply[q]
  PROVE  TriedInv'
BY DEF TriedInv, Tried, Due

LEMMA NoneTried ==
  ASSUME TypeOK, TriedInv, due \subseteq due', UNCHANGED <<file, mtime, failed, task, seen, refused, reply>>
  PROVE  TriedInv'
BY DEF TriedInv, Tried, Due

\* The steps of a fenced task that leave the file as it is.
LEMMA TaskTried ==
  ASSUME TypeOK, CopiesInv, TriedInv, NEW p \in Procs,
         \/ StartSave(p) \/ StartReload(p) \/ FinishReload(p) \/ StartRefresh(p) \/ AcquireForRefresh(p)
         \/ FenceTimeout(p) \/ Reread(p) \/ Present(p) \/ NotSent(p) \/ Mark(p)
         \/ TakeRefusal(p) \/ TakeFailure(p) \/ GiveUp(p) \/ Reload(p) \/ Settle(p)
         \/ AcquireForSave(p) \/ AbandonKept(p) \/ ForgetKept(p) \/ SaveKeptFails(p)
         \/ Discover(p) \/ Restart(p) \/ Crash(p)
  PROVE  TriedInv'
<1> USE DEF At, Goto, engineVars, diskVars, stampVars, memVars, grantVars, cliVars
<1>1. /\ UNCHANGED <<file, mtime>> /\ due \subseteq due'
      /\ \A q \in Procs \ {p} : /\ failed'[q] = failed[q] /\ task'[q] = task[q] /\ seen'[q] = seen[q]
                                /\ refused'[q] = refused[q] /\ reply'[q] = reply[q]
  BY DEF StartSave, StartReload, FinishReload, StartRefresh, AcquireForRefresh, FenceTimeout, Reread, Present,
         NotSent, Mark, TakeRefusal, TakeFailure, GiveUp, Fails, Reload, Settle, AcquireForSave, AbandonKept,
         ForgetKept, SaveKeptFails, Discover, Restart, Crash, Boots, Answered, TypeOK
<1>a. mtime = Absent => file = Empty
  BY DEF CopiesInv, AbsentInv
<1> USE DEF TypeOK, Stamps, Absent, Current, Older, TriedInv, Tried
<1>2. CASE StartSave(p) \/ StartReload(p) \/ FinishReload(p) \/ FenceTimeout(p) \/ Discover(p)
  BY <1>1, <1>2, OthersTried DEF StartSave, StartReload, FinishReload, FenceTimeout, Discover, Due
<1>3. CASE StartRefresh(p)
  BY <1>1, <1>3, OthersTried DEF StartRefresh
<1>4. CASE AcquireForRefresh(p) \/ Reread(p) \/ Present(p) \/ NotSent(p)
  BY <1>1, <1>4, OthersTried DEF AcquireForRefresh, Reread, Present, NotSent
<1>5. CASE TakeRefusal(p)
  BY <1>1, <1>5, <1>a, OthersTried DEF TakeRefusal, Answered, Fails, Due, Empty
<1>6. CASE TakeFailure(p) \/ GiveUp(p)
  BY <1>1, <1>6, <1>a, OthersTried DEF TakeFailure, GiveUp, Answered, Fails, Empty
<1>7. CASE Reload(p)
  BY <1>1, <1>7, OthersTried DEF Reload, Due
<1>8. CASE Settle(p)
  BY <1>1, <1>8, OthersTried DEF Settle, RefusesVersion
<1>9. CASE Mark(p) \/ AcquireForSave(p) \/ AbandonKept(p) \/ ForgetKept(p) \/ SaveKeptFails(p)
  BY <1>1, <1>9, OthersTried DEF Mark, AcquireForSave, AbandonKept, ForgetKept, SaveKeptFails
<1>10. CASE Restart(p) \/ Crash(p)
  BY <1>1, <1>10, OthersTried DEF Restart, Crash, Boots
<1> QED
  BY <1>2, <1>3, <1>4, <1>5, <1>6, <1>7, <1>8, <1>9, <1>10

LEMMA TriedNext == TypeOK /\ CopiesInv /\ TriedInv /\ [Next]_vars => TriedInv'
<1> SUFFICES ASSUME TypeOK, CopiesInv, TriedInv, [Next]_vars PROVE TriedInv'
  OBVIOUS
<1>a. ASSUME NEW r, Write(r) \/ Unlink PROVE TriedInv'
  BY <1>a, RewriteUntried DEF Write, Unlink
<1>b. ASSUME NEW a, NEW r, UnfencedUpdate(a, r), UNCHANGED <<task, reply, due>> PROVE TriedInv'
  BY <1>a, <1>b, NoneTried DEF UnfencedUpdate, diskVars, stampVars
<1> USE DEF engineVars, diskVars, stampVars, memVars, grantVars, cliVars
<1>1. ASSUME NEW p \in Procs, SaveRotated(p) \/ SaveKept(p)
      PROVE  TriedInv'
  BY <1>1, <1>a DEF SaveRotated, SaveKept
<1>c. ASSUME NEW p \in Procs, NEW t, Goto(p, t), t \in {"mark", "reload"}, UNCHANGED diskVars, UNCHANGED due,
             \A q \in Procs : q # p => reply'[q] = reply[q],
             failed[p] = Current => UNCHANGED reply /\ t = "reload" /\ task[p] = "forget"
      PROVE  TriedInv'
  BY <1>c, OthersTried DEF Goto, TypeOK, TriedInv, Tried
<1>2. ASSUME NEW p \in Procs, KeepUnsaved(p)
      PROVE  TriedInv'
  <2>1. CASE UNCHANGED diskVars
    BY <1>2, <1>c, <2>1 DEF KeepUnsaved, Answered, At, TypeOK, TriedInv, Tried
  <2> QED
    BY <1>2, <1>a, <2>1 DEF KeepUnsaved, Retires, Drop
<1>3. ASSUME NEW p \in Procs, Forget(p)
      PROVE  TriedInv'
  <2>1. CASE UNCHANGED diskVars
    BY <1>3, <1>c, <2>1 DEF Forget, At
  <2> QED
    BY <1>3, <1>a, <2>1 DEF Forget, Drop
<1>4. ASSUME NEW p \in Procs, SaveMetadata(p)
      PROVE  TriedInv'
  BY <1>4, <1>b DEF SaveMetadata
<1>5. ASSUME NEW a \in Actors, WriteDraft(a)
      PROVE  TriedInv'
  BY <1>5, <1>a DEF WriteDraft
<1>6. CASE Login
  <2>1. CASE LoginRegister \/ LoginMetadata
    BY <2>1, <1>b DEF LoginRegister, LoginMetadata
  <2>2. CASE LoginExchange
    BY <2>2, NoneTried DEF LoginExchange, Issue
  <2> QED
    BY <1>6, <1>a, <2>1, <2>2, NoneTried
    DEF Login, LoginStart, LoginFence, LoginSave, LoginSaveFails, LoginEnds
<1>7. CASE Logout
  BY <1>7, <1>a, NoneTried DEF Logout, LogoutNothing, LogoutStart, LogoutFence, LogoutTimeout, LogoutUnlink
<1>8. CASE Engine
  <2> USE DEF processVars, Rotate, Issue, Burn, RevokeFamily, ComesDue
  <2>1. ASSUME NEW p \in Procs, EngineRotates(p) \/ EngineFails(p) \/ EngineGarbles(p) \/ EngineRefuses(p)
        PROVE  TriedInv'
    <3>1. due \subseteq due' /\ UNCHANGED <<file, mtime, failed, task, seen, refused>>
      BY <2>1 DEF EngineRotates, EngineFails, EngineGarbles, EngineRefuses
    <3>2. task[p] = "sent" /\ \A q \in Procs \ {p} : reply'[q] = reply[q]
      BY <2>1 DEF EngineRotates, EngineFails, EngineGarbles, EngineRefuses, Pending, Replies1, TypeOK
    <3> QED
      BY <3>1, <3>2, OthersTried DEF TriedInv, Tried
  <2>2. ASSUME NEW g, StrayEnds(g)
        PROVE  TriedInv'
    BY <2>2, NoneTried DEF StrayEnds
  <2>3. CASE Tick
    BY <2>3, NoneTried DEF Tick
  <2> QED
    BY <1>8, <2>1, <2>2, <2>3 DEF Engine
<1>9. CASE UNCHANGED vars
  BY <1>9, NoneTried DEF vars
<1> QED
  BY <1>1, <1>2, <1>3, <1>4, <1>5, <1>6, <1>7, <1>8, <1>9, TaskTried DEF Next, Progress, Guard, Actors

\* A token that a process sent for no answer, a 5xx or, the pair being due, a refusal is
\* not sent again by it until oauth.json changes, under every fault.
THEOREM RefusedStays == Spec => RefusedNotPresented
<1> DEFINE Inv == TypeOK /\ CopiesInv /\ TriedInv
<1>1. Init => TriedInv
  BY DEF Init, TriedInv, Tried, Older, Absent, Current
<1>2. Inv => [\A p \in Procs : task[p] = "present" /\ task'[p] = "sent" => failed[p] # mtime]_vars
  BY DEF TypeOK, TriedInv, Tried
<1> QED
  BY <1>1, <1>2, TypeCorrect, CopiesInit, CopiesNext, TriedNext, PTL DEF Spec, RefusedNotPresented

-----------------------------------------------------------------------------
(* The fence excludes, as long as updates are whole; crashes release it.   *)

\* With whole updates, an unfenced update is a write.
LEMMA Whole ==
  ASSUME WholeUpdates, NEW a, NEW r, UnfencedUpdate(a, r)
  PROVE  Write(r) /\ UNCHANGED draft
BY DEF WholeUpdates, UnfencedUpdate

\* A process moves within the fence, outside it, into it when it is free, or out of it.
LEMMA FenceMove ==
  ASSUME TypeOK, FenceInv, NEW p \in Procs, NEW t, Goto(p, t), UNCHANGED <<draft, cli>>,
         \/ UNCHANGED holder /\ (t \in FencedTasks <=> task[p] \in FencedTasks)
         \/ Acquires(p) /\ t \in FencedTasks
         \/ holder \in {p, NoOne} /\ Releases /\ t \notin FencedTasks
  PROVE  FenceInv'
<1>1. task' = [q \in Procs |-> IF q = p THEN t ELSE task[q]]
  BY DEF TypeOK, Goto
<1>2. p # Cli /\ p # NoOne /\ Cli # NoOne /\ NoOne \notin Procs
  BY ActorsAssumption DEF Actors
<1>3. \A q \in Procs : task'[q] \in FencedTasks <=> holder' = q
  BY <1>1, <1>2 DEF FenceInv, Acquires, Releases
<1>4. cli' \in {"saving", "unlink"} <=> holder' = Cli
  BY <1>2 DEF FenceInv, Acquires, Releases
<1> QED
  BY <1>3, <1>4 DEF FenceInv

LEMMA FenceNext == WholeUpdates /\ TypeOK /\ FenceInv /\ [Next]_vars => FenceInv'
<1> SUFFICES ASSUME WholeUpdates, TypeOK, FenceInv, [Next]_vars PROVE FenceInv'
  OBVIOUS
<1>a. \A p \in Procs : task[p] \in FencedTasks => holder = p
  BY DEF FenceInv
<1> USE DEF FencedTasks, At
<1>1. ASSUME NEW p \in Procs,
             StartSave(p) \/ StartReload(p) \/ FinishReload(p) \/ StartRefresh(p) \/ FenceTimeout(p) \/ Restart(p)
      PROVE  FenceInv'
  <2>1. \E t : Goto(p, t) /\ UNCHANGED <<draft, cli, holder>>
                /\ t \notin FencedTasks /\ task[p] \notin FencedTasks
    BY <1>1 DEF StartSave, StartReload, FinishReload, StartRefresh, FenceTimeout, Restart, Boots, cliVars
  <2> QED
    BY <2>1, FenceMove
<1>2. ASSUME NEW p \in Procs, Crash(p)
      PROVE  FenceInv'
  <2>1. UNCHANGED draft
    BY <1>2 DEF Crash, FenceInv, TypeOK, Actors
  <2>2. Goto(p, "stale") /\ UNCHANGED cli /\ holder' = IF holder = p THEN NoOne ELSE holder
    BY <1>2 DEF Crash, Boots, cliVars
  <2>3. CASE holder = p
    BY <2>1, <2>2, <2>3, FenceMove DEF Releases
  <2>4. CASE holder # p
    BY <1>a, <2>1, <2>2, <2>4, FenceMove
  <2> QED
    BY <2>3, <2>4
<1>3. ASSUME NEW p \in Procs, AcquireForRefresh(p) \/ AcquireForSave(p)
      PROVE  FenceInv'
  <2>1. \E t : Goto(p, t) /\ UNCHANGED <<draft, cli>> /\ Acquires(p) /\ t \in FencedTasks
    BY <1>3 DEF AcquireForRefresh, AcquireForSave, cliVars
  <2> QED
    BY <2>1, FenceMove
<1>4. ASSUME NEW p \in Procs, Reread(p) \/ Mark(p) \/ Settle(p) \/ SaveKeptFails(p)
      PROVE  FenceInv'
  <2>1. holder = p
    BY <1>4, <1>a DEF Reread, Mark, Settle, SaveKeptFails
  <2>2. /\ UNCHANGED <<draft, cli>>
        /\ \/ Goto(p, "present") /\ UNCHANGED holder /\ task[p] = "held"
           \/ Goto(p, "idle") /\ Releases
    BY <1>4 DEF Reread, Mark, Settle, SaveKeptFails, cliVars
  <2> QED
    BY <2>1, <2>2, FenceMove
<1>5. ASSUME NEW p \in Procs,
             \/ Present(p) \/ NotSent(p) \/ SaveRotated(p) \/ KeepUnsaved(p) \/ TakeRefusal(p)
             \/ TakeFailure(p) \/ GiveUp(p) \/ Forget(p) \/ Reload(p)
             \/ SaveKept(p) \/ AbandonKept(p) \/ ForgetKept(p)
      PROVE  FenceInv'
  <2>1. \E t : Goto(p, t) /\ UNCHANGED <<draft, cli, holder>>
                /\ t \in FencedTasks /\ task[p] \in FencedTasks
    BY <1>5
    DEF Present, NotSent, SaveRotated, KeepUnsaved, TakeRefusal, TakeFailure, GiveUp, Forget, Reload, Answered,
        SaveKept, AbandonKept, ForgetKept, cliVars
  <2> QED
    BY <2>1, FenceMove
<1>6. ASSUME NEW a \in Actors PROVE ~WriteDraft(a)
  BY DEF WriteDraft, FenceInv
<1>7. ASSUME UNCHANGED <<draft, holder, task>>, cli' \in {"saving", "unlink"} <=> cli \in {"saving", "unlink"}
      PROVE  FenceInv'
  BY <1>7 DEF FenceInv
<1>8. ASSUME NEW p \in Procs, SaveMetadata(p) \/ Discover(p)
      PROVE  FenceInv'
  BY <1>7, <1>8, Whole DEF SaveMetadata, Discover, cliVars
<1>9. CASE \/ LoginStart \/ LoginRegister \/ LoginExchange \/ LoginMetadata \/ LoginEnds
           \/ LogoutNothing \/ LogoutStart \/ LogoutTimeout
  BY <1>7, <1>9, Whole
  DEF LoginStart, LoginRegister, LoginExchange, LoginMetadata, LoginEnds, LogoutNothing, LogoutStart,
      LogoutTimeout, CliAt
<1>b. \A q \in Procs : q # Cli /\ q # NoOne
  BY ActorsAssumption DEF Actors
<1>10. CASE LoginFence \/ LogoutFence
  <2>1. UNCHANGED <<draft, task>> /\ holder = NoOne /\ holder' = Cli /\ cli' \in {"saving", "unlink"}
    BY <1>10 DEF LoginFence, LogoutFence, Acquires
  <2> QED
    BY <2>1, <1>b DEF FenceInv
<1>11. CASE LoginSave \/ LoginSaveFails \/ LogoutUnlink
  <2>1. UNCHANGED <<draft, task>> /\ holder = Cli /\ holder' = NoOne /\ cli' \in {"idle", "signedin"}
    BY <1>11 DEF LoginSave, LoginSaveFails, LogoutUnlink, Releases, CliAt, FenceInv
  <2> QED
    BY <2>1, <1>b, ActorsAssumption DEF FenceInv, Actors
<1>12. CASE Engine
  BY <1>7, <1>12
  DEF Engine, EngineRotates, EngineFails, EngineGarbles, EngineRefuses, StrayEnds, Tick, processVars, cliVars
<1>13. CASE UNCHANGED vars
  BY <1>7, <1>13 DEF vars, cliVars
<1> QED
  BY <1>1, <1>2, <1>3, <1>4, <1>5, <1>6, <1>8, <1>9, <1>10, <1>11, <1>12, <1>13
  DEF Next, Progress, Guard, Login, Logout, Actors

-----------------------------------------------------------------------------
(* Where pairs come from, as long as updates are whole.                    *)

PairsInv == FamilyInv /\ GrantInv /\ KeptInv /\ LoginInv

\* The types the pairs' arithmetic needs.
LEMMA PairTypes ==
  ASSUME TypeOK
  PROVE  /\ issued \in Nat /\ issued <= MaxGen /\ MaxGen \in Nat /\ cliGot \in Nat
         /\ file.gen \in Nat /\ file.gen <= MaxGen /\ file.refresh \in BOOLEAN
         /\ file.refresh => file.gen # 0
         /\ \A p \in Procs : got[p] \in Nat /\ post[p] \in Nat /\ kept[p].gen \in Nat
         /\ family \in [1..MaxGen -> 0..MaxGen]
BY MaxGenAssumption DEF TypeOK, EngineTypeOK, Records, Kept, Gens

\* The engine issues nothing and the file keeps its pair; who was sent stays on the file.
PairsStay ==
  /\ UNCHANGED <<issued, family>>
  /\ file'.gen = file.gen
  /\ (\E q \in Procs : task'[q] \in {"sent", "forget"}) => UNCHANGED file \/ (file'.refresh <=> file.refresh)
  /\ \A q \in Procs :
       /\ got'[q] \in {0, got[q]} /\ (got'[q] # 0 => task'[q] = "sent" /\ reply'[q] = "rotated")
       /\ kept'[q].gen \in {0, kept[q].gen}
       /\ task'[q] = "sent" => task[q] = "sent" /\ post'[q] = post[q]
       /\ task'[q] = "forget" => task[q] \in {"sent", "forget"}
       /\ task'[q] = "mark" => task[q] = "mark"
       /\ marker'[q] = mtime' => mtime' = Absent \/ marker[q] = mtime \/ task[q] = "mark"
  /\ cliGot' \in {0, cliGot} /\ (cliGot' # 0 => cli' \in {"exchanged", "saving"})

LEMMA StayKeeps ==
  ASSUME TypeOK, AbsentInv', PairsInv, PairsStay
  PROVE  PairsInv'
<1> USE PairTypes DEF PairsInv, PairsStay
<1>1. FamilyInv'
  BY DEF FamilyInv
<1>2. GrantInv'
  BY DEF GrantInv
<1>3. KeptInv'
  BY DEF KeptInv, AbsentInv, Empty
<1>4. LoginInv'
  BY DEF LoginInv
<1> QED
  BY <1>1, <1>2, <1>3, <1>4

\* A rewrite of the file that keeps its pair ages every marker.
LEMMA RewriteAges ==
  ASSUME TypeOK, NEW r, Write(r)
  PROVE  \A q \in Procs : marker'[q] # mtime'
BY DEF TypeOK, Stamps, Write, Replaces, Aged, Absent, Current, Older

LEMMA DropStays ==
  ASSUME TypeOK, Drop
  PROVE  /\ file'.gen = file.gen
         /\ file.gen # 0 => ~file'.refresh /\ \A q \in Procs : marker'[q] # mtime'
         /\ file.gen = 0 => UNCHANGED diskVars
<1>1. CASE file.gen = 0
  BY <1>1 DEF Drop, diskVars
<1>2. CASE file.gen # 0
  <2>1. Write(DropRefresh(file))
    BY <1>2 DEF Drop
  <2>2. \A q \in Procs : marker'[q] # mtime'
    BY <2>1, RewriteAges
  <2> QED
    BY <1>2, <2>1, <2>2 DEF Write, Replaces, DropRefresh
<1> QED
  BY <1>1, <1>2

\* The steps of a process that move no pair.
LEMMA ProcessStays ==
  ASSUME WholeUpdates, TypeOK, FenceInv, PairsInv, NEW p \in Procs,
         \/ StartSave(p) \/ StartReload(p) \/ FinishReload(p) \/ StartRefresh(p)
         \/ AcquireForRefresh(p) \/ FenceTimeout(p) \/ Reread(p)
         \/ NotSent(p) \/ Mark(p) \/ TakeRefusal(p) \/ TakeFailure(p)
         \/ GiveUp(p) \/ Forget(p) \/ Reload(p) \/ Settle(p) \/ AcquireForSave(p)
         \/ AbandonKept(p) \/ ForgetKept(p) \/ SaveKeptFails(p) \/ Discover(p)
         \/ SaveMetadata(p) \/ Restart(p) \/ Crash(p)
  PROVE  PairsStay
<1> USE PairTypes DEF TypeOK, PairsAtHand, PairsStay, PairsInv, GrantInv, LoginInv, At, Goto, engineVars, diskVars, stampVars, memVars,
            grantVars, cliVars
<1>1. CASE StartSave(p) \/ StartReload(p) \/ FinishReload(p) \/ StartRefresh(p) \/ AcquireForRefresh(p)
  BY <1>1 DEF StartSave, StartReload, FinishReload, StartRefresh, AcquireForRefresh, Reseeds
<1>2. CASE FenceTimeout(p) \/ Reread(p) \/ NotSent(p) \/ Reload(p) \/ Settle(p) \/ AcquireForSave(p)
  BY <1>2 DEF FenceTimeout, Reread, NotSent, Reload, Settle, AcquireForSave, Reseeds
<1>3. CASE Mark(p) \/ AbandonKept(p) \/ SaveKeptFails(p) \/ Discover(p)
  BY <1>3 DEF Mark, AbandonKept, SaveKeptFails, Discover
<1>4. CASE TakeRefusal(p) \/ TakeFailure(p) \/ GiveUp(p)
  BY <1>4 DEF TakeRefusal, TakeFailure, GiveUp, Fails, Answered
<1>5. CASE Forget(p)
  <2>1. \A q \in Procs : task'[q] \notin {"sent", "forget"}
    BY <1>5, FenceNext, ActorsAssumption DEF Forget, FenceInv, FencedTasks
  <2>2. \/ UNCHANGED <<file, mtime, marker>>
        \/ file'.gen = file.gen /\ \A q \in Procs : marker'[q] # mtime'
    BY <1>5, DropStays DEF Forget
  <2> QED
    BY <1>5, <2>1, <2>2 DEF Forget
<1>6. CASE ForgetKept(p)
  BY <1>6 DEF ForgetKept, NoPair
<1>7. CASE SaveMetadata(p)
  BY <1>7, Whole, RewriteAges DEF SaveMetadata, Write, Replaces, WithMeta
<1>8. CASE Restart(p) \/ Crash(p)
  BY <1>8 DEF Restart, Crash, Boots, NoPair
<1> QED
  BY <1>1, <1>2, <1>3, <1>4, <1>5, <1>6, <1>7, <1>8

\* The steps of a process that do.
LEMMA ProcessPairs ==
  ASSUME TypeOK, FenceInv, PairsInv, NEW p \in Procs,
         Present(p) \/ SaveRotated(p) \/ KeepUnsaved(p) \/ SaveKept(p)
  PROVE  PairsInv'
<1> USE PairTypes DEF PairsInv, At, Goto, engineVars, memVars, grantVars, cliVars
<1>a. \A q \in Procs : task[q] \in FencedTasks => q = p
  BY DEF FenceInv, FencedTasks, Present, SaveRotated, KeepUnsaved, SaveKept, Answered
<1>b. \A q \in Procs : got[q] # 0 => task[q] = "sent"
  BY DEF GrantInv
<1> USE DEF TypeOK, PairsAtHand, FencedTasks
<1>1. CASE Present(p)
  <2>1. FamilyInv' /\ KeptInv' /\ LoginInv'
    BY <1>1 DEF Present, diskVars, stampVars, FamilyInv, KeptInv, LoginInv
  <2>2. GrantInv'
    BY <1>1, <1>a, <1>b DEF Present, diskVars, GrantInv
  <2> QED
    BY <2>1, <2>2
<1>2. CASE SaveRotated(p)
  <2>1. file'.gen = got[p] /\ file'.refresh /\ \A q \in Procs : marker'[q] # mtime'
    BY <1>2, RewriteAges DEF SaveRotated, Write, Replaces, WithTokens, Pair
  <2>2. /\ UNCHANGED <<issued, family, kept, cli, cliGot>> /\ got[p] # 0
        /\ task' = [task EXCEPT ![p] = "reload"] /\ got' = [got EXCEPT ![p] = 0]
    BY <1>2 DEF SaveRotated, Answered
  <2>3. GrantInv'
    BY <1>a, <1>b, <2>1, <2>2 DEF GrantInv
  <2>4. KeptInv'
    BY <1>a, <2>1, <2>2 DEF KeptInv
  <2>5. FamilyInv' /\ LoginInv'
    BY <2>1, <2>2 DEF FamilyInv, LoginInv
  <2> QED
    BY <2>3, <2>4, <2>5
<1>3. CASE KeepUnsaved(p)
  <2>1. /\ file'.gen \in {0, file.gen}
        /\ file'.gen # 0 => UNCHANGED <<marker, mtime>> \/ \A q \in Procs : marker'[q] # mtime'
    BY <1>3, DropStays DEF KeepUnsaved, Retires, Unlink, Replaces, Empty, diskVars, stampVars
  <2>2. /\ UNCHANGED <<issued, family, cli, cliGot>> /\ got[p] # 0
        /\ task' = [task EXCEPT ![p] = "mark"] /\ got' = [got EXCEPT ![p] = 0]
        /\ kept'[p].gen = got[p] /\ \A q \in Procs \ {p} : kept'[q] = kept[q]
    BY <1>3 DEF KeepUnsaved, Answered
  <2>3. GrantInv'
    BY <1>a, <1>b, <2>1, <2>2 DEF GrantInv
  <2>4. KeptInv'
    BY <1>a, <2>1, <2>2 DEF KeptInv, GrantInv
  <2>5. FamilyInv' /\ LoginInv'
    BY <2>1, <2>2 DEF FamilyInv, LoginInv
  <2> QED
    BY <2>3, <2>4, <2>5
<1>4. CASE SaveKept(p)
  <2>1. file'.gen = kept[p].gen /\ file'.refresh /\ \A q \in Procs : marker'[q] # mtime'
    BY <1>4, RewriteAges DEF SaveKept, Write, Replaces, Restored, Pair
  <2>2. /\ UNCHANGED <<issued, family, kept, got, cli, cliGot>> /\ kept[p].gen # 0
        /\ task[p] = "keepcheck" /\ task' = [task EXCEPT ![p] = "unkeep"]
    BY <1>4 DEF SaveKept
  <2>3. GrantInv'
    BY <1>a, <1>b, <2>1, <2>2 DEF GrantInv, KeptInv
  <2>4. KeptInv'
    BY <1>a, <2>1, <2>2 DEF KeptInv
  <2>5. FamilyInv' /\ LoginInv'
    BY <2>1, <2>2 DEF FamilyInv, LoginInv
  <2> QED
    BY <2>3, <2>4, <2>5
<1> QED
  BY <1>1, <1>2, <1>3, <1>4

\* login and logout.
LEMMA CliPairs ==
  ASSUME WholeUpdates, TypeOK, AbsentInv', FenceInv, PairsInv, Login \/ Logout
  PROVE  PairsInv'
<1> USE PairTypes DEF PairsInv, CliAt, memVars, grantVars
<1>a. \A q \in Procs : got[q] # 0 => task[q] = "sent"
  BY DEF GrantInv
<1>1. CASE \/ LoginStart \/ LoginRegister \/ LoginFence \/ LoginSaveFails \/ LoginMetadata \/ LoginEnds
           \/ LogoutNothing \/ LogoutStart \/ LogoutFence \/ LogoutTimeout
  <2>1. /\ UNCHANGED <<issued, family, got, post, reply, kept, task>>
        /\ cliGot' \in {0, cliGot} /\ (cliGot' # 0 => cli' \in {"exchanged", "saving"})
    BY <1>1
    DEF LoginStart, LoginRegister, LoginFence, LoginSaveFails, LoginMetadata, LoginEnds, LogoutNothing,
        LogoutStart, LogoutFence, LogoutTimeout, LoginInv, engineVars
  <2>2. \/ UNCHANGED <<file, mtime, marker>>
        \/ Write(WithClient(file)) \/ Write(WithMeta(file))
    BY <1>1, Whole
    DEF LoginStart, LoginRegister, LoginFence, LoginSaveFails, LoginMetadata, LoginEnds, LogoutNothing,
        LogoutStart, LogoutFence, LogoutTimeout, diskVars, stampVars
  <2>3. /\ file'.gen = file.gen /\ (file'.refresh <=> file.refresh)
        /\ UNCHANGED <<mtime, marker>> \/ \A q \in Procs : marker'[q] # mtime'
    BY <2>2, RewriteAges DEF Write, Replaces, WithClient, WithMeta
  <2>4. PairsStay
    BY <2>1, <2>3, <1>a DEF PairsStay, GrantInv
  <2> QED
    BY <2>4, StayKeeps
<1>2. CASE LoginExchange
  <2>1. /\ UNCHANGED <<file, mtime, marker, task, got, post, reply, kept>>
        /\ issued' = issued + 1 /\ issued' <= MaxGen /\ cliGot' = issued + 1 /\ cli' = "exchanged"
        /\ family' = [family EXCEPT ![issued + 1] = issued + 1]
    BY <1>2 DEF LoginExchange, Issue, diskVars, stampVars
  <2>2. FamilyInv'
    BY <2>1 DEF FamilyInv, Gens
  <2>3. GrantInv' /\ KeptInv'
    BY <2>1 DEF GrantInv, KeptInv
  <2>4. LoginInv'
    BY <2>1 DEF LoginInv, GrantInv, KeptInv, FamilyInv, Gens
  <2> QED
    BY <2>2, <2>3, <2>4
<1>3. CASE LoginSave \/ LogoutUnlink
  <2>1. holder = Cli /\ \A q \in Procs : task[q] \notin FencedTasks
    BY <1>3, ActorsAssumption DEF LoginSave, LogoutUnlink, FenceInv, Actors
  <2>2. UNCHANGED <<issued, family, got, post, kept, task>> /\ cliGot' \in {0, cliGot}
    BY <1>3 DEF LoginSave, LogoutUnlink, engineVars
  <2>3. FamilyInv'
    BY <2>2 DEF FamilyInv
  <2>4. cliGot' = 0 /\ (file'.gen = 0 \/ (file'.gen = cliGot /\ \A q \in Procs : marker'[q] # mtime'))
    BY <1>3, RewriteAges DEF LoginSave, LogoutUnlink, LoginInv, Write, Unlink, Replaces, WithTokens, Pair, Empty
  <2>5. GrantInv'
    BY <2>1, <2>2, <2>4, <1>a DEF GrantInv, LoginInv, FencedTasks
  <2>6. KeptInv' /\ LoginInv'
    BY <2>1, <2>2, <2>4 DEF KeptInv, LoginInv, FencedTasks
  <2> QED
    BY <2>3, <2>5, <2>6
<1> QED
  BY <1>1, <1>2, <1>3 DEF Login, Logout

\* The token endpoint.
LEMMA EnginePairs ==
  ASSUME TypeOK, AbsentInv', PairsInv, Engine
  PROVE  PairsInv'
<1> USE PairTypes DEF PairsInv, processVars, diskVars, stampVars, memVars, cliVars
<1>1. ASSUME NEW p \in Procs, EngineRotates(p)
      PROVE  PairsInv'
  <2>1. /\ UNCHANGED <<file, mtime, marker, task, post, kept, cli, cliGot>>
        /\ issued' = issued + 1 /\ issued' <= MaxGen
        /\ family' = [family EXCEPT ![issued + 1] = family[post[p]]]
        /\ got' = [got EXCEPT ![p] = issued + 1] /\ reply' = [reply EXCEPT ![p] = "rotated"]
        /\ task[p] = "sent" /\ post[p] = file.gen /\ file.gen \in 1..issued
    BY <1>1 DEF EngineRotates, Rotate, Issue, Replies1, Pending, GrantInv
  <2>2. family[file.gen] \in 1..file.gen
    BY <2>1 DEF FamilyInv, Gens
  <2>3. got \in [Procs -> 0..MaxGen] /\ reply \in [Procs -> Replies]
    BY DEF TypeOK
  <2>4. FamilyInv'
    BY <2>1, <2>2 DEF FamilyInv, Gens
  <2>5. GrantInv'
    BY <2>1, <2>3 DEF GrantInv
  <2>6. KeptInv'
    BY <2>1 DEF KeptInv, GrantInv
  <2>7. LoginInv'
    BY <2>1, <2>2, <2>3 DEF LoginInv
  <2> QED
    BY <2>4, <2>5, <2>6, <2>7
<1>2. ASSUME NEW p \in Procs, EngineFails(p) \/ EngineGarbles(p) \/ EngineRefuses(p)
      PROVE  PairsInv'
  <2>1. /\ UNCHANGED <<issued, family, file, mtime, marker, task, post, kept, got, cli, cliGot>>
        /\ reply[p] = "none" /\ \A q \in Procs \ {p} : reply'[q] = reply[q]
    BY <1>2
    DEF EngineFails, EngineGarbles, EngineRefuses, Burn, RevokeFamily, engineVars, Replies1, Pending, TypeOK
  <2>2. PairsStay
    BY <2>1 DEF PairsStay, GrantInv, LoginInv
  <2> QED
    BY <2>2, StayKeeps
<1>3. CASE (\E g \in stray : StrayEnds(g)) \/ Tick
  <2>1. UNCHANGED <<issued, family, file, mtime, marker, task, post, reply, kept, got, cli, cliGot>>
    BY <1>3 DEF StrayEnds, Tick, Burn, RevokeFamily, ComesDue, engineVars, grantVars
  <2>2. PairsStay
    BY <2>1 DEF PairsStay, GrantInv, LoginInv
  <2> QED
    BY <2>2, StayKeeps
<1> QED
  BY <1>1, <1>2, <1>3 DEF Engine

LEMMA PairsNext ==
  WholeUpdates /\ TypeOK /\ AbsentInv' /\ FenceInv /\ PairsInv /\ [Next]_vars => PairsInv'
<1> SUFFICES ASSUME WholeUpdates, TypeOK, AbsentInv', FenceInv, PairsInv, [Next]_vars PROVE PairsInv'
  OBVIOUS
<1>1. \A a \in Actors : ~WriteDraft(a)
  BY DEF WriteDraft, FenceInv
<1>2. CASE UNCHANGED vars
  BY <1>2 DEF vars, cliVars, PairsInv, FamilyInv, GrantInv, KeptInv, LoginInv
<1> QED
  BY <1>1, <1>2, ProcessStays, StayKeeps, ProcessPairs, CliPairs, EnginePairs DEF Next, Progress, Guard, Actors

LEMMA LineInit == Init => LineInv
<1> SUFFICES ASSUME Init PROVE LineInv
  OBVIOUS
<1>1. FenceInv
  BY ActorsAssumption DEF Init, FenceInv, FencedTasks, Actors
<1>2. issued \in {0, 1} /\ file.gen = issued /\ \A p \in Procs : got[p] = 0 /\ kept[p].gen = 0 /\ task[p] = "idle"
  BY DEF Init, EngineInit, Empty, Pair, NoPair
<1>3. FamilyInv
  BY <1>2, MaxGenAssumption DEF Init, EngineInit, FamilyInv, Gens
<1>4. GrantInv /\ KeptInv
  BY <1>2 DEF GrantInv, KeptInv
<1>5. LoginInv
  BY DEF Init, LoginInv
<1> QED
  BY <1>1, <1>3, <1>4, <1>5 DEF LineInv

LEMMA LineAlways ==
  ASSUME WholeUpdates
  PROVE  Spec => [](TypeOK /\ CopiesInv /\ LineInv)
<1> DEFINE I == TypeOK /\ CopiesInv /\ LineInv
<1>1. Init => I
  BY InitType, CopiesInit, LineInit
<1>2. I /\ [Next]_vars => I'
  <2> SUFFICES ASSUME I, [Next]_vars PROVE I'
    OBVIOUS
  <2>1. TypeOK' /\ CopiesInv'
    BY NextType, CopiesNext
  <2>2. LineInv'
    BY <2>1, FenceNext, PairsNext DEF CopiesInv, LineInv, PairsInv
  <2> QED
    BY <2>1, <2>2
<1> QED
  BY <1>1, <1>2, PTL DEF Spec

\* Only a grant's answer, a kept pair and a login put another pair on the file.
LEMMA WhoPutsPairs ==
  ASSUME WholeUpdates, TypeOK, FenceInv, PairsInv, [Next]_vars, file'.gen # 0, file'.gen # file.gen
  PROVE  (\E p \in Procs : SaveRotated(p) \/ SaveKept(p)) \/ LoginSave
<1>1. ASSUME NEW p \in Procs, KeepUnsaved(p)
      PROVE  file'.gen \in {0, file.gen}
  BY <1>1, DropStays DEF KeepUnsaved, Retires, Unlink, Replaces, Empty, diskVars
<1>2. ASSUME NEW p \in Procs, Progress(p) \/ Guard(p) \/ Restart(p) \/ Crash(p), ~SaveRotated(p), ~SaveKept(p)
      PROVE  file'.gen \in {0, file.gen}
  BY <1>1, <1>2, ProcessStays DEF Progress, Guard, PairsStay, Present, diskVars
<1>3. CASE Login /\ ~LoginSave
  BY <1>3, Whole
  DEF Login, LoginStart, LoginRegister, LoginExchange, LoginFence, LoginSaveFails, LoginMetadata, LoginEnds,
      diskVars, Write, Replaces, WithClient, WithMeta
<1>4. CASE Logout
  BY <1>4
  DEF Logout, LogoutNothing, LogoutStart, LogoutFence, LogoutTimeout, LogoutUnlink, diskVars, Unlink, Replaces, Empty
<1>5. CASE Engine
  BY <1>5
  DEF Engine, EngineRotates, EngineFails, EngineGarbles, EngineRefuses, StrayEnds, Tick, processVars, diskVars
<1>6. \A a \in Actors : ~WriteDraft(a)
  BY DEF WriteDraft, FenceInv
<1>7. ~UNCHANGED vars
  BY DEF vars
<1> QED
  BY <1>2, <1>3, <1>4, <1>5, <1>6, <1>7 DEF Next, Actors

\* A refresh never puts an older pair, or a pair of an older sign-in, over the one on
\* the file, as long as updates are whole: crashes, late answers and refused saves
\* included.
THEOREM NewerSignInWins ==
  ASSUME WholeUpdates
  PROVE  Spec => SignInNotOverwritten
<1>1. ASSUME TypeOK, CopiesInv, LineInv, [Next]_vars
      PROVE  NoRollback
  <2> SUFFICES ASSUME file'.gen # file.gen, file'.gen # 0, file.gen # 0
               PROVE  IF family[file'.gen] = family[file.gen]
                        THEN file'.gen > file.gen
                        ELSE family[file'.gen] = file'.gen
    BY <1>1 DEF NoRollback
  <2> USE DEF TypeOK, LineInv
  <2>1. ASSUME NEW p \in Procs, SaveRotated(p)
        PROVE  file'.gen > file.gen /\ family[file'.gen] = family[file.gen]
    BY <1>1, <2>1 DEF GrantInv, SaveRotated, Answered, At, PairsAtHand, Write, Replaces, WithTokens, Pair
  <2>2. ASSUME NEW p \in Procs, SaveKept(p)
        PROVE  file'.gen > file.gen /\ family[file'.gen] = family[file.gen]
    BY <1>1, <2>2 DEF KeptInv, SaveKept, At, PairsAtHand, Write, Replaces, Restored, Pair
  <2>3. CASE LoginSave
    <3>1. file'.gen = cliGot /\ cliGot # 0
      BY <1>1, <2>3 DEF LoginSave, CliAt, PairsAtHand, Write, Replaces, WithTokens, Pair
    <3>2. file.gen \in 1..issued
      BY <1>1, PairTypes DEF GrantInv
    <3> QED
      BY <1>1, <3>1, <3>2 DEF LoginInv
  <2> QED
    BY <1>1, <2>1, <2>2, <2>3, WhoPutsPairs DEF PairsInv
<1> QED
  BY <1>1, LineAlways, PTL DEF Spec, SignInNotOverwritten

-----------------------------------------------------------------------------
(* One sign-in, as long as a spent token comes off the file.               *)

\* Nobody starts to keep a pair or stops superseding one, and the file keeps its pair.
SignInStays ==
  /\ UNCHANGED loggedOut
  /\ file'.gen = file.gen /\ (file'.refresh => file.refresh)
  /\ \A q \in Procs :
       /\ kept'[q].gen # 0 => /\ kept'[q] = kept[q] /\ (task'[q] = "mark" <=> task[q] = "mark")
                              /\ task[q] = "unkeep" => task'[q] = "unkeep"
                              /\ q \in replaced' <=> q \in replaced
       /\ task'[q] = "mark" => task[q] = "mark" /\ kept'[q] = kept[q]
       /\ task'[q] = "unkeep" => kept'[q].gen # 0 /\ (task[q] = "unkeep" \/ marker'[q] # mtime')
       /\ kept'[q].gen # 0 => \/ marker'[q] = marker[q] /\ mtime' = mtime
                              \/ marker'[q] # mtime' /\ (marker[q] # Absent => marker'[q] # Absent)

LEMMA SignInStaysKeeps ==
  ASSUME SignInInv, SignInStays
  PROVE  SignInInv'
<1>1. MarkerInv'
  BY DEF SignInInv, SignInStays, MarkerInv
<1>2. LiveInv'
  BY DEF SignInInv, SignInStays, LiveInv, Live
<1>3. LogoutSticks'
  BY DEF SignInInv, SignInStays, LogoutSticks
<1> QED
  BY <1>1, <1>2, <1>3 DEF SignInInv

\* A write ages every marker and forgets none.
LEMMA WriteAges ==
  ASSUME TypeOK, NEW r, Write(r) \/ Unlink
  PROVE  \A q \in Procs : /\ marker[q] # Absent => marker'[q] # Absent /\ marker'[q] # mtime'
                          /\ Write(r) => marker'[q] # mtime'
BY DEF TypeOK, Stamps, Write, Unlink, Replaces, Aged, Absent, Current, Older

\* The file as the steps that keep its pair leave it.
LEMMA SameFile ==
  ASSUME TypeOK, Write(WithClient(file)) \/ Write(WithMeta(file)) \/ Drop \/ UNCHANGED diskVars
  PROVE  /\ file'.gen = file.gen /\ (file'.refresh => file.refresh)
         /\ \A q \in Procs : \/ marker'[q] = marker[q] /\ mtime' = mtime
                             \/ marker'[q] # mtime' /\ (marker[q] # Absent => marker'[q] # Absent)
<1>1. ASSUME NEW r, Write(r)
      PROVE  \A q \in Procs : marker'[q] # mtime' /\ (marker[q] # Absent => marker'[q] # Absent)
  BY <1>1, WriteAges
<1>2. CASE Write(WithClient(file)) \/ Write(WithMeta(file))
  BY <1>1, <1>2 DEF Write, Replaces, WithClient, WithMeta
<1>3. CASE Drop \/ UNCHANGED diskVars
  BY <1>1, <1>3 DEF Drop, Write, Replaces, DropRefresh, diskVars, stampVars
<1> QED
  BY <1>2, <1>3

LEMMA ProcessSignIn ==
  ASSUME TokensRetire, TypeOK, AbsentInv, LineInv, SignInInv, NEW p \in Procs,
         Progress(p) \/ Guard(p) \/ Restart(p) \/ Crash(p),
         ~SaveRotated(p), ~KeepUnsaved(p), ~Mark(p), ~SaveKept(p)
  PROVE  SignInStays
<1> USE DEF TypeOK, PairsAtHand, SignInStays, SignInInv, MarkerInv, At, Goto, diskVars, stampVars, memVars,
            grantVars, cliVars
<1>1. CASE StartSave(p) \/ StartReload(p) \/ FinishReload(p) \/ StartRefresh(p) \/ AcquireForRefresh(p)
  BY <1>1 DEF StartSave, StartReload, FinishReload, StartRefresh, AcquireForRefresh, Reseeds
<1>2. CASE FenceTimeout(p) \/ Reread(p) \/ NotSent(p) \/ Reload(p) \/ Settle(p) \/ AcquireForSave(p)
  BY <1>2 DEF FenceTimeout, Reread, NotSent, Reload, Settle, AcquireForSave, Reseeds
<1>3. CASE AbandonKept(p) \/ SaveKeptFails(p) \/ Discover(p) \/ Present(p)
  BY <1>3 DEF AbandonKept, SaveKeptFails, Discover, Present
<1>4. CASE TakeRefusal(p) \/ TakeFailure(p) \/ GiveUp(p)
  BY <1>4 DEF TakeRefusal, TakeFailure, GiveUp, Fails, Answered
<1>5. CASE Forget(p)
  BY <1>5, SameFile DEF Forget
<1>6. CASE ForgetKept(p)
  BY <1>6 DEF ForgetKept, NoPair
<1>7. CASE SaveMetadata(p)
  BY <1>7, Whole, SameFile DEF SaveMetadata, TokensRetire
<1>8. CASE Restart(p) \/ Crash(p)
  BY <1>8 DEF Restart, Crash, Boots, NoPair
<1> QED
  BY <1>1, <1>2, <1>3, <1>4, <1>5, <1>6, <1>7, <1>8 DEF Progress, Guard

\* The steps that write a pair, keep one or bring one back.
LEMMA PairSignIn ==
  ASSUME TokensRetire, TypeOK, AbsentInv, LineInv, SignInInv, NEW p \in Procs,
         SaveRotated(p) \/ KeepUnsaved(p) \/ Mark(p) \/ SaveKept(p)
  PROVE  SignInInv'
<1> USE DEF TypeOK, PairsAtHand, SignInInv, At, Goto
<1>a. \A q \in Procs : task[q] \in FencedTasks => q = p
  BY DEF FenceInv, LineInv, FencedTasks, SaveRotated, KeepUnsaved, Mark, SaveKept, Answered
<1> USE DEF FencedTasks
<1>1. CASE SaveRotated(p)
  <2>1. /\ file.refresh /\ file.gen # 0 /\ file'.gen # 0 /\ task[p] = "sent"
        /\ task' = [task EXCEPT ![p] = "reload"] /\ UNCHANGED <<kept, replaced, loggedOut>>
    BY <1>1
    DEF SaveRotated, Answered, LineInv, GrantInv, Records, Write, Replaces, WithTokens, Pair, memVars, cliVars
  <2>2. \A q \in Procs : marker'[q] # mtime' /\ (marker[q] # Absent => marker'[q] # Absent)
    BY <1>1, WriteAges DEF SaveRotated
  <2>3. \A q \in Procs : ~Live(q)
    BY <1>a, <2>1 DEF LiveInv
  <2>4. MarkerInv'
    BY <1>a, <2>1, <2>2 DEF MarkerInv
  <2>5. LiveInv'
    BY <1>a, <2>1, <2>3 DEF LiveInv, Live
  <2>6. LogoutSticks'
    BY <2>1 DEF LogoutSticks
  <2> QED
    BY <2>4, <2>5, <2>6
<1>2. CASE KeepUnsaved(p)
  <2>1. /\ file.refresh /\ file.gen # 0 /\ task[p] = "sent" /\ got[p] # 0
        /\ task' = [task EXCEPT ![p] = "mark"] /\ UNCHANGED <<replaced, loggedOut>>
        /\ kept'[p].gen = got[p] /\ \A q \in Procs \ {p} : kept'[q] = kept[q]
    BY <1>2 DEF KeepUnsaved, Answered, LineInv, GrantInv, Records, cliVars
  <2>2. Write(DropRefresh(file))
    BY <1>2, <2>1 DEF KeepUnsaved, Retires, TokensRetire, Drop
  <2>3. /\ file'.gen = file.gen /\ ~file'.refresh
        /\ \A q \in Procs : marker'[q] # mtime' /\ (marker[q] # Absent => marker'[q] # Absent)
    BY <2>2, WriteAges DEF Write, Replaces, DropRefresh
  <2>4. \A q \in Procs : ~Live(q)
    BY <1>a, <2>1 DEF LiveInv
  <2>5. MarkerInv'
    BY <1>a, <2>1, <2>3 DEF MarkerInv
  <2>6. LiveInv'
    BY <1>a, <2>1, <2>3, <2>4 DEF LiveInv, Live
  <2>7. LogoutSticks'
    BY <2>1, <2>3 DEF LogoutSticks
  <2> QED
    BY <2>5, <2>6, <2>7
<1>3. CASE Mark(p)
  <2>1. /\ task[p] = "mark" /\ kept[p].gen # 0 /\ file.gen # 0 /\ ~file.refresh /\ mtime # Absent
        /\ task' = [task EXCEPT ![p] = "idle"] /\ marker' = [marker EXCEPT ![p] = mtime]
        /\ replaced' = replaced \ {p} /\ UNCHANGED <<file, mtime, kept, loggedOut>>
    BY <1>3 DEF Mark, MarkerInv, AbsentInv, Empty, memVars, cliVars
  <2>2. MarkerInv'
    BY <2>1 DEF MarkerInv
  <2>3. LiveInv'
    BY <2>1 DEF LiveInv, Live
  <2>4. LogoutSticks'
    BY <2>1 DEF LogoutSticks
  <2> QED
    BY <2>2, <2>3, <2>4
<1>4. CASE SaveKept(p)
  <2>1. /\ task[p] = "keepcheck" /\ kept[p].gen # 0 /\ file.gen # 0 /\ p \notin replaced
        /\ task' = [task EXCEPT ![p] = "unkeep"] /\ UNCHANGED <<kept, replaced, loggedOut>>
        /\ file'.gen = kept[p].gen
    BY <1>4 DEF SaveKept, MarkerInv, Write, Replaces, Restored, Pair, memVars, cliVars
  <2>2. \A q \in Procs : marker'[q] # mtime' /\ (marker[q] # Absent => marker'[q] # Absent)
    BY <1>4, WriteAges DEF SaveKept
  <2>3. \A q \in Procs : Live(q) => q = p
    BY <2>1 DEF LiveInv, Live
  <2>4. MarkerInv'
    BY <1>a, <2>1, <2>2 DEF MarkerInv
  <2>5. LiveInv'
    BY <1>a, <2>1, <2>3 DEF LiveInv, Live
  <2>6. LogoutSticks'
    BY <2>1 DEF LogoutSticks
  <2> QED
    BY <2>4, <2>5, <2>6
<1> QED
  BY <1>1, <1>2, <1>3, <1>4

LEMMA CliSignIn ==
  ASSUME TokensRetire, TypeOK, AbsentInv, LineInv, SignInInv, Login \/ Logout
  PROVE  SignInInv'
<1> USE DEF SignInInv
<1>1. CASE \/ LoginStart \/ LoginRegister \/ LoginExchange \/ LoginFence \/ LoginSaveFails \/ LoginMetadata
           \/ LoginEnds \/ LogoutStart \/ LogoutFence \/ LogoutTimeout
  <2>1. UNCHANGED <<kept, task, replaced, loggedOut>>
    BY <1>1
    DEF LoginStart, LoginRegister, LoginExchange, LoginFence, LoginSaveFails, LoginMetadata, LoginEnds,
        LogoutStart, LogoutFence, LogoutTimeout, memVars
  <2>2. Write(WithClient(file)) \/ Write(WithMeta(file)) \/ UNCHANGED diskVars
    BY <1>1, Whole
    DEF LoginStart, LoginRegister, LoginExchange, LoginFence, LoginSaveFails, LoginMetadata, LoginEnds,
        LogoutStart, LogoutFence, LogoutTimeout, TokensRetire
  <2>3. SignInStays
    BY <2>1, <2>2, SameFile DEF SignInStays, MarkerInv
  <2> QED
    BY <2>3, SignInStaysKeeps
<1>2. CASE LoginSave \/ LogoutUnlink
  <2>1. \A q \in Procs : task[q] \notin FencedTasks
    BY <1>2, ActorsAssumption DEF LoginSave, LogoutUnlink, CliAt, LineInv, FenceInv, Actors
  <2>2. UNCHANGED <<kept, task>> /\ replaced' = Keeping /\ (loggedOut' => file'.gen = 0)
    BY <1>2 DEF LoginSave, LogoutUnlink, memVars, Unlink, Replaces, Empty
  <2>3. \A q \in Procs : marker[q] # Absent => marker'[q] # mtime' /\ marker'[q] # Absent
    BY <1>2, WriteAges DEF LoginSave, LogoutUnlink
  <2>4. MarkerInv'
    BY <2>1, <2>2, <2>3 DEF MarkerInv, FencedTasks
  <2>5. LiveInv'
    BY <2>1, <2>2 DEF LiveInv, Live, Keeping, FencedTasks
  <2> QED
    BY <2>2, <2>4, <2>5 DEF LogoutSticks
<1>3. CASE LogoutNothing
  <2>1. UNCHANGED <<file, mtime, marker, kept, task>> /\ replaced' = Keeping /\ file = Empty /\ mtime = Absent
    BY <1>3 DEF LogoutNothing, AbsentInv, diskVars, stampVars, memVars
  <2>2. \A q \in Procs : task[q] # "mark"
    BY <2>1 DEF MarkerInv, Empty
  <2>3. MarkerInv' /\ LiveInv'
    BY <2>1, <2>2 DEF MarkerInv, LiveInv, Live, Keeping, Empty
  <2> QED
    BY <2>1, <2>3 DEF LogoutSticks, Empty
<1> QED
  BY <1>1, <1>2, <1>3 DEF Login, Logout

LEMMA SignInNext ==
  TokensRetire /\ TypeOK /\ AbsentInv /\ LineInv /\ SignInInv /\ [Next]_vars => SignInInv'
<1> SUFFICES ASSUME TokensRetire, TypeOK, AbsentInv, LineInv, SignInInv, [Next]_vars PROVE SignInInv'
  OBVIOUS
<1>1. \A a \in Actors : ~WriteDraft(a)
  BY DEF WriteDraft, LineInv, FenceInv
<1>2. CASE Engine
  <2>1. UNCHANGED <<file, mtime, marker, kept, task, replaced, loggedOut>>
    BY <1>2
    DEF Engine, EngineRotates, EngineFails, EngineGarbles, EngineRefuses, StrayEnds, Tick, processVars, diskVars,
        stampVars, memVars, cliVars
  <2> QED
    BY <2>1, SignInStaysKeeps DEF SignInStays, SignInInv, MarkerInv
<1>3. CASE UNCHANGED vars
  BY <1>3, SignInStaysKeeps DEF vars, cliVars, SignInStays, SignInInv, MarkerInv
<1> QED
  BY <1>1, <1>2, <1>3, ProcessSignIn, PairSignIn, CliSignIn, SignInStaysKeeps DEF Next, Actors

LEMMA SignInAlways ==
  ASSUME TokensRetire
  PROVE  Spec => [](TypeOK /\ AbsentInv /\ LineInv /\ SignInInv)
<1>1. WholeUpdates
  BY DEF TokensRetire
<1>2. Init => SignInInv
  <2> SUFFICES ASSUME Init PROVE SignInInv
    OBVIOUS
  <2>1. \A p \in Procs : task[p] = "idle" /\ kept[p].gen = 0
    BY DEF Init, NoPair
  <2>2. loggedOut => file = Empty
    <3>1. issued = 0 => file = Empty
      BY DEF Init
    <3>2. loggedOut = (issued = 0)
      BY DEF Init
    <3> QED
      BY <3>1, <3>2
  <2> QED
    BY <2>1, <2>2 DEF SignInInv, MarkerInv, LiveInv, Live, LogoutSticks, Empty
<1>3. CopiesInv => AbsentInv
  BY DEF CopiesInv
<1> QED
  BY <1>1, <1>2, <1>3, LineAlways, SignInNext, PTL DEF Spec

\* After a logout no process's late write signs the profile in again, as long as a
\* spent token comes off the file by a rewrite.
THEOREM LogoutIsFinal ==
  ASSUME TokensRetire
  PROVE  Spec => []LogoutSticks
<1>1. SignInInv => LogoutSticks
  BY DEF SignInInv
<1> QED
  BY <1>1, SignInAlways, PTL

-----------------------------------------------------------------------------
(* Processes, lock and file are one ProfileSignIn.                         *)

\* What the profile goes by: the file's pair, or the one kept, or none.
LiveIs ==
  /\ file.refresh => LivePair = file.gen
  /\ \A p \in Procs : Live(p) => LivePair = kept[p].gen
  /\ ~file.refresh /\ (\A p \in Procs : ~Live(p)) => LivePair = 0
  /\ LivePair \in 0..issued

LEMMA OneLive == TypeOK /\ LineInv /\ SignInInv => LiveIs
<1> SUFFICES ASSUME TypeOK, LineInv, SignInInv PROVE LiveIs
  OBVIOUS
<1>1. \A g : LivePairs = {g} /\ g \in Nat => LivePair = g
  BY DEF LivePair
<1>2. LivePairs = {} => LivePair = 0
  BY DEF LivePair
<1>3. \A g : g \in LivePairs <=> (file.refresh /\ g = file.gen) \/ \E p \in Procs : Live(p) /\ g = kept[p].gen
  BY DEF LivePairs, Keeping, Live
<1>4. CASE file.refresh
  <2>1. LivePairs = {file.gen}
    BY <1>3, <1>4 DEF SignInInv, LiveInv
  <2> QED
    BY <1>1, <1>4, <2>1, PairTypes DEF LiveIs, LineInv, GrantInv, SignInInv, LiveInv
<1>5. ASSUME ~file.refresh, NEW p \in Procs, Live(p)
      PROVE  LiveIs
  <2>1. LivePairs = {kept[p].gen}
    BY <1>3, <1>5 DEF SignInInv, LiveInv
  <2>2. kept[p].gen \in 0..issued
    BY <1>5, PairTypes DEF Live, LineInv, KeptInv
  <2> QED
    BY <1>1, <1>5, <2>1, <2>2, PairTypes DEF LiveIs, SignInInv, LiveInv
<1>6. CASE ~file.refresh /\ \A p \in Procs : ~Live(p)
  <2>1. LivePairs = {}
    BY <1>3, <1>6
  <2> QED
    BY <1>2, <1>6, <2>1, PairTypes DEF LiveIs
<1> QED
  BY <1>4, <1>5, <1>6

LEMMA OneLiveNext == (TypeOK /\ LineInv /\ SignInInv)' => LiveIs'
BY OneLive, PTL

\* A step that starts no pair keeps the one there is, or loses it.
LEMMA StaysOrLost ==
  ASSUME LiveIs, LiveIs', SignInStays
  PROVE  LivePair' \in {LivePair, 0}
<1>1. CASE file'.refresh
  BY <1>1 DEF LiveIs, SignInStays
<1>2. ASSUME NEW p \in Procs, Live(p)'
      PROVE  LivePair' = LivePair
  BY <1>2 DEF LiveIs, SignInStays, Live
<1>3. CASE ~file'.refresh /\ \A p \in Procs : ~Live(p)'
  BY <1>3 DEF LiveIs
<1> QED
  BY <1>1, <1>2, <1>3

\* Pairs stay in their line.
LinesStay == \A g \in 1..issued : family'[g] = family[g]

\* Same pair and same command line: nothing a user would see.
LEMMA Stutters ==
  ASSUME LiveIs, LinesStay, LivePair' = LivePair, UNCHANGED loggedOut,
         cli' = "signedin" <=> cli = "signedin"
  PROVE  UNCHANGED User!profile
<1>1. (cli' = "signedin") = (cli = "signedin")
  OBVIOUS
<1>2. LivePair # 0 => family'[LivePair] = family[LivePair]
  BY DEF LiveIs, LinesStay
<1> QED
  BY <1>1, <1>2 DEF User!profile

LEMMA StaysIsProfile ==
  ASSUME LiveIs, LiveIs', LinesStay, SignInStays, cli' = "signedin" <=> cli = "signedin"
  PROVE  User!Lose \/ UNCHANGED User!profile
<1>1. CASE LivePair' = LivePair
  BY <1>1, Stutters DEF SignInStays
<1>2. CASE LivePair' = 0
  BY <1>2 DEF User!Lose, SignInStays
<1> QED
  BY <1>1, <1>2, StaysOrLost

LEMMA ProfileInitially == Init => User!ProfileInit
<1> SUFFICES ASSUME Init PROVE User!ProfileInit
  OBVIOUS
<1>1. \A p \in Procs : kept[p].gen = 0
  BY DEF Init, NoPair
<1>2. Keeping = {}
  BY <1>1 DEF Keeping
<1>3. cli # "signedin" /\ loggedOut = (issued = 0)
  BY DEF Init
<1>4. CASE issued = 0 /\ file = Empty
  <2>1. LivePairs = {}
    BY <1>2, <1>4 DEF LivePairs, Empty
  <2> QED
    BY <1>3, <1>4, <2>1 DEF LivePair, User!ProfileInit
<1>5. CASE issued = 1 /\ file.refresh /\ file.gen = 1
  <2>1. LivePairs = {1}
    BY <1>2, <1>5 DEF LivePairs
  <2>2. LivePair = 1
    BY <2>1 DEF LivePair
  <2>3. family[1] = 1
    BY <1>5, MaxGenAssumption DEF Init, EngineInit, Gens
  <2> QED
    BY <1>3, <1>5, <2>2, <2>3 DEF User!ProfileInit
<1> QED
  BY <1>4, <1>5 DEF Init, Pair

\* The conditions under which a step is mapped.
Mapped ==
  /\ TokensRetire /\ TypeOK /\ AbsentInv /\ LineInv /\ SignInInv
  /\ LiveIs /\ LiveIs'

LEMMA ProcessIsProfile ==
  ASSUME Mapped, NEW p \in Procs, Progress(p) \/ Guard(p) \/ Restart(p) \/ Crash(p)
  PROVE  [User!ProfileNext]_User!profile
<1> USE DEF Mapped, TypeOK, PairsAtHand, At, Goto
<1>a. UNCHANGED <<engineVars, cliVars>>
  BY DEF Progress, Guard, StartSave, StartReload, FinishReload, StartRefresh, AcquireForRefresh, FenceTimeout, Reread,
         Present, NotSent, SaveRotated, KeepUnsaved, Mark, TakeRefusal, TakeFailure, GiveUp, Fails, Forget, Reload, Settle,
         AcquireForSave, SaveKept, AbandonKept, ForgetKept, SaveKeptFails, Discover, SaveMetadata, Restart, Crash
<1>b. LinesStay /\ UNCHANGED <<family, cli, loggedOut>>
  BY <1>a DEF LinesStay, engineVars, cliVars
<1>c. \A q \in Procs : task[q] \in FencedTasks => holder = q
  BY DEF LineInv, FenceInv
<1>1. CASE ~SaveRotated(p) /\ ~KeepUnsaved(p) /\ ~Mark(p) /\ ~SaveKept(p)
  <2>1. SignInStays
    BY <1>1, ProcessSignIn
  <2> QED
    BY <1>b, <2>1, StaysIsProfile DEF User!ProfileNext
<1>2. CASE SaveRotated(p) \/ KeepUnsaved(p)
  <2>1. task[p] = "sent" /\ got[p] # 0
    BY <1>2 DEF SaveRotated, KeepUnsaved, Answered
  <2>2. /\ LivePair = file.gen /\ file.gen # 0
        /\ got[p] > file.gen /\ family[got[p]] = family[file.gen]
    BY <2>1, PairTypes DEF LineInv, GrantInv, LiveIs
  <2>3. LivePair' = got[p]
    <3>1. CASE SaveRotated(p)
      BY <3>1 DEF SaveRotated, Write, Replaces, WithTokens, Pair, LiveIs
    <3>2. CASE KeepUnsaved(p)
      BY <2>1, <3>2 DEF KeepUnsaved, LiveIs, Live
    <3> QED
      BY <1>2, <3>1, <3>2
  <2>4. User!Renew
    BY <1>b, <2>1, <2>2, <2>3 DEF User!Renew
  <2> QED
    BY <2>4 DEF User!ProfileNext
<1>3. CASE Mark(p) \/ SaveKept(p)
  <2>1. Live(p) /\ Live(p)' /\ kept' = kept
    BY <1>3 DEF Mark, SaveKept, SignInInv, MarkerInv, Live, memVars
  <2>2. LivePair' = LivePair
    BY <2>1 DEF LiveIs
  <2> QED
    BY <1>b, <2>2, Stutters
<1> QED
  BY <1>1, <1>2, <1>3

LEMMA CliIsProfile ==
  ASSUME Mapped, Login \/ Logout
  PROVE  [User!ProfileNext]_User!profile
<1> USE DEF Mapped, CliAt
<1>1. CASE \/ LoginStart \/ LoginRegister \/ LoginExchange \/ LoginFence \/ LoginSaveFails \/ LoginMetadata
           \/ LoginEnds \/ LogoutStart \/ LogoutFence \/ LogoutTimeout
  <2>1. UNCHANGED <<kept, task, replaced, loggedOut>>
    BY <1>1
    DEF LoginStart, LoginRegister, LoginExchange, LoginFence, LoginSaveFails, LoginMetadata, LoginEnds,
        LogoutStart, LogoutFence, LogoutTimeout, memVars
  <2>2. file'.gen = file.gen /\ (file'.refresh <=> file.refresh)
    BY <1>1, Whole
    DEF LoginStart, LoginRegister, LoginExchange, LoginFence, LoginSaveFails, LoginMetadata, LoginEnds,
        LogoutStart, LogoutFence, LogoutTimeout, TokensRetire, diskVars, Write, Replaces, WithClient, WithMeta
  <2>3. \A q \in Procs : Live(q)' <=> Live(q)
    BY <2>1 DEF Live
  <2>4. LivePair' = LivePair
    BY <2>1, <2>2, <2>3 DEF LiveIs
  <2>5. LinesStay
    BY <1>1, PairTypes
    DEF LinesStay, LoginStart, LoginRegister, LoginExchange, LoginFence, LoginSaveFails, LoginMetadata, LoginEnds,
        LogoutStart, LogoutFence, LogoutTimeout, Issue, engineVars
  <2>6. CASE cli' = "signedin" <=> cli = "signedin"
    BY <2>1, <2>4, <2>5, <2>6, Stutters
  <2>7. CASE ~(cli' = "signedin" <=> cli = "signedin")
    <3>1. cli = "signedin" /\ cli' # "signedin"
      BY <1>1, <2>7
      DEF LoginStart, LoginRegister, LoginExchange, LoginFence, LoginSaveFails, LoginMetadata, LoginEnds,
          LogoutStart, LogoutFence, LogoutTimeout
    <3>2. LivePair # 0 => family'[LivePair] = family[LivePair]
      BY <2>5 DEF LiveIs, LinesStay
    <3> QED
      BY <2>1, <2>4, <3>1, <3>2 DEF User!ProfileNext, User!LoginReturns
  <2> QED
    BY <2>6, <2>7
<1>2. CASE LoginSave
  <2>1. /\ cli = "saving" /\ cli' = "signedin" /\ ~loggedOut' /\ UNCHANGED family
        /\ file'.refresh /\ file'.gen = cliGot /\ cliGot # 0
    BY <1>2 DEF LoginSave, TypeOK, PairsAtHand, Write, Replaces, WithTokens, Pair, engineVars
  <2>2. LivePair' = cliGot
    BY <2>1 DEF LiveIs
  <2>3. LivePair # cliGot
    BY <2>1 DEF LiveIs, Live, LineInv, LoginInv
  <2>4. family[cliGot] = cliGot /\ \A g \in 1..issued : family[g] = cliGot => g = cliGot
    BY <2>1 DEF LineInv, LoginInv
  <2> QED
    BY <2>1, <2>2, <2>3, <2>4, PairTypes DEF LiveIs, User!ProfileNext, User!Login
<1>3. CASE LogoutUnlink \/ LogoutNothing
  <2>1. loggedOut' /\ cli # "signedin" /\ cli' # "signedin" /\ replaced' = Keeping /\ UNCHANGED <<kept, task>>
    BY <1>3 DEF LogoutUnlink, LogoutNothing, memVars
  <2>2. file' = Empty
    BY <1>3 DEF LogoutUnlink, LogoutNothing, Unlink, Replaces, AbsentInv, diskVars
  <2>3. \A q \in Procs : task[q] # "mark"
    <3>1. CASE LogoutUnlink
      BY <3>1, ActorsAssumption DEF LogoutUnlink, LineInv, FenceInv, FencedTasks, Actors
    <3>2. CASE LogoutNothing
      BY <3>2 DEF LogoutNothing, AbsentInv, SignInInv, MarkerInv, Empty
    <3> QED
      BY <1>3, <3>1, <3>2
  <2>4. \A q \in Procs : ~Live(q)'
    BY <2>1, <2>3 DEF Live, Keeping
  <2>5. LivePair' = 0
    BY <2>2, <2>4 DEF LiveIs, Empty
  <2> QED
    BY <2>1, <2>5 DEF User!ProfileNext, User!Logout
<1> QED
  BY <1>1, <1>2, <1>3 DEF Login, Logout

LEMMA EngineIsProfile ==
  ASSUME Mapped, Engine
  PROVE  [User!ProfileNext]_User!profile
<1>1. UNCHANGED <<file, kept, task, replaced, cli, loggedOut>>
  BY DEF Engine, EngineRotates, EngineFails, EngineGarbles, EngineRefuses, StrayEnds, Tick, processVars, diskVars,
         memVars, cliVars
<1>2. LinesStay
  BY PairTypes
  DEF Mapped, LinesStay, Engine, EngineRotates, EngineFails, EngineGarbles, EngineRefuses, StrayEnds, Tick, Rotate,
      Issue, Burn, RevokeFamily, ComesDue, engineVars
<1>3. \A q \in Procs : Live(q)' <=> Live(q)
  BY <1>1 DEF Live
<1>4. LivePair' = LivePair
  BY <1>1, <1>3 DEF Mapped, LiveIs
<1> QED
  BY <1>1, <1>2, <1>4, Stutters DEF Mapped

\* Processes, lock and file together implement the one sign-in of ProfileSignIn: it is
\* renewed in its line, replaced only by a login, and once lost, logged out or replaced
\* it never comes back, whatever crashes, as long as a spent token comes off the file.
THEOREM ImplementsOneSignIn ==
  ASSUME TokensRetire
  PROVE  Spec => OneSignIn
<1> DEFINE I == TypeOK /\ AbsentInv /\ LineInv /\ SignInInv
<1>1. I /\ I' /\ [Next]_vars => [User!ProfileNext]_User!profile
  <2> SUFFICES ASSUME I, I', [Next]_vars PROVE [User!ProfileNext]_User!profile
    OBVIOUS
  <2>1. Mapped
    BY OneLive, OneLiveNext DEF Mapped
  <2>2. \A a \in Actors : ~WriteDraft(a)
    BY DEF WriteDraft, LineInv, FenceInv
  <2>3. CASE UNCHANGED vars
    <3>1. \A q \in Procs : Live(q)' <=> Live(q)
      BY <2>3 DEF vars, Live
    <3>2. LivePair' = LivePair /\ LinesStay
      BY <2>1, <2>3, <3>1 DEF vars, Mapped, LiveIs, LinesStay
    <3> QED
      BY <2>1, <2>3, <3>2, Stutters DEF vars, cliVars, Mapped
  <2> QED
    BY <2>1, <2>2, <2>3, ProcessIsProfile, CliIsProfile, EngineIsProfile DEF Next, Actors
<1> QED
  BY <1>1, ProfileInitially, SignInAlways, PTL DEF Spec, OneSignIn, User!Profile

-----------------------------------------------------------------------------
(* The fate of a kept pair, where no process saves metadata.               *)

\* What a write makes of the file's client and metadata.
LEMMA WrittenFields ==
  /\ \A f, g : WithTokens(f, g).client = f.client /\ WithTokens(f, g).meta = f.meta
  /\ \A f : DropRefresh(f).gen = f.gen /\ DropRefresh(f).client = f.client /\ DropRefresh(f).meta = f.meta
  /\ \A f : WithClient(f).gen = f.gen /\ WithClient(f).client /\ WithClient(f).meta = f.meta
  /\ \A f, k : Restored(f, k).client = (k.client \/ f.client) /\ Restored(f, k).meta = (k.meta \/ f.meta)
BY DEF WithTokens, DropRefresh, WithClient, Restored, Pair

LEMMA MetadataNext ==
  ASSUME NothingPublished, TypeOK, FenceInv, NoMetadata, Next
  PROVE  NoMetadata'
<1> USE DEF NothingPublished, NoMetadata
<1>a. /\ \A r : Write(r) => file' = r
      /\ Drop => ~file'.meta
      /\ Unlink => ~file'.meta
      /\ UNCHANGED diskVars => ~file'.meta
  BY WrittenFields DEF Write, Unlink, Replaces, Drop, diskVars, Empty
<1> USE DEF memVars, diskVars, TypeOK, At, Goto
<1>1. ASSUME NEW p \in Procs,
             \/ StartSave(p) \/ StartReload(p) \/ StartRefresh(p) \/ AcquireForRefresh(p) \/ FenceTimeout(p)
             \/ Present(p) \/ NotSent(p) \/ Mark(p) \/ TakeRefusal(p) \/ TakeFailure(p) \/ GiveUp(p)
             \/ Reload(p) \/ AcquireForSave(p) \/ AbandonKept(p) \/ SaveKeptFails(p)
      PROVE  NoMetadata'
  BY <1>1
  DEF StartSave, StartReload, StartRefresh, AcquireForRefresh, FenceTimeout, Present, NotSent, Mark, TakeRefusal,
      TakeFailure, GiveUp, Fails, Reload, AcquireForSave, AbandonKept, SaveKeptFails
<1>2. ASSUME NEW p \in Procs, FinishReload(p) \/ Reread(p) \/ Settle(p)
      PROVE  NoMetadata'
  BY <1>2 DEF FinishReload, Reread, Settle, Reseeds
<1>3. ASSUME NEW p \in Procs, SaveRotated(p) \/ SaveKept(p)
      PROVE  NoMetadata'
  BY <1>3, <1>a, WrittenFields DEF SaveRotated, SaveKept
<1>4. ASSUME NEW p \in Procs, KeepUnsaved(p)
      PROVE  NoMetadata'
  BY <1>4, <1>a DEF KeepUnsaved, Retires
<1>5. ASSUME NEW p \in Procs, Forget(p)
      PROVE  NoMetadata'
  BY <1>5, <1>a DEF Forget
<1>6. ASSUME NEW p \in Procs, ForgetKept(p) \/ Restart(p) \/ Crash(p)
      PROVE  NoMetadata'
  BY <1>6 DEF ForgetKept, Restart, Crash, Boots, NoPair, Empty
<1>7. ASSUME NEW p \in Procs PROVE ~Discover(p) /\ ~SaveMetadata(p)
  BY DEF Discover, SaveMetadata
<1>8. CASE Login
  <2>1. UNCHANGED memVars
    BY <1>8
    DEF Login, LoginStart, LoginRegister, LoginExchange, LoginFence, LoginSave, LoginSaveFails, LoginMetadata, LoginEnds
  <2>2. UNCHANGED diskVars \/ Write(WithClient(file)) \/ Write(WithTokens(file, cliGot))
    BY <1>8, Whole
    DEF Login, LoginStart, LoginRegister, LoginExchange, LoginFence, LoginSave, LoginSaveFails, LoginMetadata,
        LoginEnds, TokensRetire
  <2> QED
    BY <2>1, <2>2, <1>a, WrittenFields
<1>9. CASE Logout
  BY <1>9, <1>a DEF Logout, LogoutNothing, LogoutStart, LogoutFence, LogoutTimeout, LogoutUnlink
<1>10. CASE Engine
  BY <1>10
  DEF Engine, EngineRotates, EngineFails, EngineGarbles, EngineRefuses, StrayEnds, Tick, processVars
<1>11. \A a \in Actors : ~WriteDraft(a)
  BY DEF WriteDraft, FenceInv
<1> QED
  BY <1>1, <1>2, <1>3, <1>4, <1>5, <1>6, <1>7, <1>8, <1>9, <1>10, <1>11 DEF Next, Progress, Guard, Actors

LEMMA ClientNext ==
  ASSUME NothingPublished, TypeOK, FenceInv, GrantInv, MarkerInv, NoMetadata, ClientInv, Next
  PROVE  ClientInv'
<1> USE DEF NothingPublished, ClientInv
<1>1. ASSUME NEW p \in Procs, SaveRotated(p)
      PROVE  ClientInv'
  <2>1. file.gen # 0 /\ file'.client = file.client /\ UNCHANGED cli
    BY <1>1, WrittenFields, PairTypes DEF SaveRotated, Answered, At, GrantInv, Write, Replaces, cliVars
  <2> QED
    BY <2>1
<1>2. ASSUME NEW p \in Procs, SaveKept(p)
      PROVE  ClientInv'
  <2>1. file.gen # 0 /\ UNCHANGED cli
    BY <1>2 DEF SaveKept, At, MarkerInv, TypeOK, PairsAtHand, cliVars
  <2>2. file'.client
    BY <1>2, <2>1, WrittenFields DEF SaveKept, Write, Replaces
  <2> QED
    BY <2>1, <2>2
<1>3. ASSUME NEW p \in Procs, KeepUnsaved(p) \/ Forget(p)
      PROVE  ClientInv'
  BY <1>3, WrittenFields
  DEF KeepUnsaved, Forget, Retires, TokensRetire, Drop, Write, Replaces, diskVars, cliVars
<1>4. ASSUME NEW p \in Procs, Progress(p) \/ Guard(p) \/ Restart(p) \/ Crash(p),
             ~SaveRotated(p), ~SaveKept(p), ~KeepUnsaved(p), ~Forget(p)
      PROVE  ClientInv'
  <2>1. ~SaveMetadata(p)
    BY DEF SaveMetadata, NoMetadata
  <2>2. UNCHANGED <<file, cli>>
    BY <1>4, <2>1
    DEF Progress, Guard, StartSave, StartReload, FinishReload, StartRefresh, AcquireForRefresh, FenceTimeout, Reread,
        Present, NotSent, Mark, TakeRefusal, TakeFailure, GiveUp, Fails, Reload, Settle, AcquireForSave, AbandonKept,
        ForgetKept, SaveKeptFails, Discover, Restart, Crash, diskVars, cliVars
  <2> QED
    BY <2>2
<1>5. CASE Login
  <2> USE DEF CliAt, diskVars
  <2>1. CASE LoginStart \/ LoginExchange \/ LoginFence \/ LoginSaveFails \/ LoginEnds
    BY <2>1 DEF LoginStart, LoginExchange, LoginFence, LoginSaveFails, LoginEnds
  <2>2. CASE LoginRegister
    BY <2>2, Whole, WrittenFields DEF LoginRegister, TokensRetire, Write, Replaces
  <2>3. CASE LoginSave
    BY <2>3, WrittenFields DEF LoginSave, Write, Replaces
  <2>4. ~LoginMetadata
    BY DEF LoginMetadata
  <2> QED
    BY <1>5, <2>1, <2>2, <2>3, <2>4 DEF Login
<1>6. CASE Logout
  BY <1>6
  DEF Logout, LogoutNothing, LogoutStart, LogoutFence, LogoutTimeout, LogoutUnlink, Unlink, Replaces, Empty, CliAt,
      diskVars
<1>7. CASE Engine
  BY <1>7
  DEF Engine, EngineRotates, EngineFails, EngineGarbles, EngineRefuses, StrayEnds, Tick, processVars, diskVars, cliVars
<1>8. \A a \in Actors : ~WriteDraft(a)
  BY DEF WriteDraft, FenceInv
<1> QED
  BY <1>1, <1>2, <1>3, <1>4, <1>5, <1>6, <1>7, <1>8 DEF Next, Actors

\* Once a kept pair is marked, only a login or a logout, which supersede it, write.
LEMMA WaitingNext ==
  ASSUME NothingPublished, TypeOK, LineInv, SignInInv, UnpublishedInv, Next, NEW q \in Procs, Waiting(q)'
  PROVE  marker'[q] = mtime'
<1>a. Waiting(q) => /\ marker[q] = mtime /\ Live(q) /\ file.gen # 0 /\ ~file.refresh /\ file.client
                    /\ \A p \in Procs : Live(p) => p = q
  BY DEF Waiting, Live, UnpublishedInv, ClientInv, SignInInv, LiveInv, MarkerInv
<1>b. (Waiting(q) /\ UNCHANGED <<mtime, marker>>) => marker'[q] = mtime'
  BY <1>a
<1> USE DEF TypeOK, PairsAtHand, At, Goto
<1>1. ASSUME NEW p \in Procs, SaveRotated(p) \/ KeepUnsaved(p) \/ Forget(p) \/ SaveKept(p)
      PROVE  marker'[q] = mtime'
  <2>1. CASE SaveRotated(p) \/ KeepUnsaved(p) \/ Forget(p)
    <3>1. file.refresh
      BY <2>1 DEF SaveRotated, KeepUnsaved, Forget, Answered, LineInv, GrantInv
    <3>2. Waiting(q)
      <4>1. CASE SaveRotated(p) \/ Forget(p)
        BY <4>1 DEF SaveRotated, Answered, Forget, Waiting, memVars
      <4>2. CASE KeepUnsaved(p)
        BY <4>2 DEF KeepUnsaved, Answered, Waiting
      <4> QED
        BY <2>1, <4>1, <4>2
    <3> QED
      BY <3>1, <3>2, <1>a
  <2>2. CASE SaveKept(p)
    <3>1. Live(p)
      BY <2>2 DEF SaveKept, SignInInv, MarkerInv, Live
    <3>2. Waiting(q) /\ q # p
      BY <2>2 DEF SaveKept, Waiting, memVars
    <3> QED
      BY <3>1, <3>2, <1>a
  <2> QED
    BY <1>1, <2>1, <2>2
<1>2. ASSUME NEW p \in Procs, Mark(p)
      PROVE  marker'[q] = mtime'
  <2>1. CASE q = p
    BY <1>2, <2>1 DEF Mark
  <2>2. CASE q # p
    BY <1>2, <2>2, <1>a DEF Mark, Waiting, memVars
  <2> QED
    BY <2>1, <2>2
<1>3. ASSUME NEW p \in Procs, AbandonKept(p) \/ ForgetKept(p) \/ SaveKeptFails(p) \/ Restart(p) \/ Crash(p)
      PROVE  marker'[q] = mtime'
  BY <1>3, <1>a
  DEF AbandonKept, ForgetKept, SaveKeptFails, Restart, Crash, Boots, NoPair, Waiting, diskVars, stampVars, memVars
<1>4. ASSUME NEW p \in Procs, Progress(p) \/ Guard(p),
             ~SaveRotated(p), ~KeepUnsaved(p), ~Forget(p), ~SaveKept(p), ~Mark(p),
             ~AbandonKept(p), ~ForgetKept(p), ~SaveKeptFails(p)
      PROVE  marker'[q] = mtime'
  <2>1. ~SaveMetadata(p)
    BY DEF SaveMetadata, UnpublishedInv, NoMetadata
  <2>2. /\ UNCHANGED <<mtime, marker, kept, replaced>>
        /\ task'[q] \in {"mark", "unkeep"} <=> task[q] \in {"mark", "unkeep"}
    BY <1>4, <2>1
    DEF Progress, Guard, StartSave, StartReload, FinishReload, StartRefresh, AcquireForRefresh, FenceTimeout, Reread,
        Present, NotSent, TakeRefusal, TakeFailure, GiveUp, Fails, Reload, Settle, AcquireForSave, Discover, Answered,
        diskVars, stampVars, memVars, Reseeds
  <2> QED
    BY <1>b, <2>2 DEF Waiting
<1>5. CASE LoginSave \/ LogoutUnlink \/ LogoutNothing
  BY <1>5 DEF LoginSave, LogoutUnlink, LogoutNothing, Waiting, Keeping, memVars
<1>6. CASE LoginRegister
  BY <1>6, <1>a DEF LoginRegister, CliAt, UnpublishedInv, ClientInv, Waiting, memVars
<1>7. CASE \/ LoginStart \/ LoginExchange \/ LoginFence \/ LoginSaveFails \/ LoginMetadata \/ LoginEnds
           \/ LogoutStart \/ LogoutFence \/ LogoutTimeout
  BY <1>7, <1>b
  DEF LoginStart, LoginExchange, LoginFence, LoginSaveFails, LoginMetadata, LoginEnds, LogoutStart, LogoutFence,
      LogoutTimeout, NothingPublished, Waiting, diskVars, stampVars, memVars
<1>8. CASE Engine
  BY <1>8, <1>b
  DEF Engine, EngineRotates, EngineFails, EngineGarbles, EngineRefuses, StrayEnds, Tick, processVars, Waiting,
      diskVars, stampVars, memVars
<1>9. \A a \in Actors : ~WriteDraft(a)
  BY DEF WriteDraft, LineInv, FenceInv
<1> QED
  BY <1>1, <1>2, <1>3, <1>4, <1>5, <1>6, <1>7, <1>8, <1>9 DEF Next, Login, Logout, Actors

LEMMA UnpublishedNext ==
  NothingPublished /\ TypeOK /\ LineInv /\ SignInInv /\ UnpublishedInv /\ [Next]_vars => UnpublishedInv'
<1> SUFFICES ASSUME NothingPublished, TypeOK, LineInv, SignInInv, UnpublishedInv, [Next]_vars
             PROVE  UnpublishedInv'
  OBVIOUS
<1>1. CASE Next
  BY <1>1, MetadataNext, ClientNext, WaitingNext DEF UnpublishedInv, LineInv, SignInInv
<1>2. CASE UNCHANGED vars
  BY <1>2 DEF vars, cliVars, UnpublishedInv, NoMetadata, ClientInv, Waiting
<1> QED
  BY <1>1, <1>2

LEMMA UnpublishedInit == NothingPublished /\ Init => UnpublishedInv
<1> SUFFICES ASSUME NothingPublished, Init PROVE UnpublishedInv
  OBVIOUS
<1>1. ~file.meta /\ (file.gen # 0 => file.client)
  BY DEF Init, NothingPublished, Empty, Pair
<1>2. \A p \in Procs : ~metadata[p] /\ ~stored[p].meta /\ ~kept[p].meta /\ kept[p].gen = 0
  BY <1>1 DEF Init, NoPair
<1>3. cli = "idle"
  BY DEF Init
<1> QED
  BY <1>1, <1>2, <1>3 DEF UnpublishedInv, NoMetadata, ClientInv, Waiting

\* A rotated pair the disk refused is given up only because a login or a logout
\* superseded it, where no process saves metadata and a spent token comes off the file.
THEOREM KeptUntilReplaced ==
  ASSUME NothingPublished
  PROVE  Spec => KeptPairFate
<1>1. TokensRetire
  BY DEF NothingPublished
<1>2. TypeOK /\ UnpublishedInv => \A p \in Procs : AbandonKept(p) => p \in replaced
  BY DEF TypeOK, PairsAtHand, UnpublishedInv, Waiting, AbandonKept, At
<1> QED
  BY <1>1, <1>2, SignInAlways, UnpublishedInit, UnpublishedNext, PTL DEF Spec, KeptPairFate
=============================================================================
