------------------------- MODULE OAuthRefreshProofs -------------------------
(***************************************************************************)
(* What OAuthRefresh guarantees for any number of processes, of pairs and  *)
(* of writes.                                                              *)
(***************************************************************************)
EXTENDS OAuthRefresh, TLAPS

-----------------------------------------------------------------------------
(* The file.                                                               *)

\* Whatever the code writes is a record of oauth.json.
LEMMA RecordTypes ==
  /\ Empty \in Records
  /\ \A f \in Records : DropRefresh(f) \in Records /\ WithClient(f) \in Records /\ WithMeta(f) \in Records
  /\ \A f \in Records, g \in Gens : WithTokens(f, g) \in Records
  /\ \A f \in Records, k \in Kept : k.gen # 0 => Restored(f, k) \in Records
<1>1. 0 \in 0..MaxGen /\ Gens \subseteq 0..MaxGen /\ 0 \notin Gens
  BY MaxGenAssumption DEF Gens
<1> QED
  BY <1>1 DEF Records, Empty, Pair, DropRefresh, WithClient, WithMeta, WithTokens, Restored, Kept

\* What a write touches, and its types.
DiskOK ==
  /\ file \in Records /\ mtime \in {Absent, Current}
  /\ seen \in [Procs -> Stamps] /\ refused \in [Procs -> Stamps] /\ marker \in [Procs -> Stamps]
  /\ failed \in [Procs -> Stamps]

\* Replacing the file ages every remembered mtime and keeps the types.
LEMMA ReplacesType ==
  ASSUME DiskOK, NEW r \in Records, NEW t \in {Absent, Current}, Replaces(r, t)
  PROVE  DiskOK'
<1>1. \A m \in [Procs -> Stamps] : Aged(m) \in [Procs -> Stamps]
  BY DEF Aged, Stamps, Older, Current, Absent
<1> QED
  BY <1>1 DEF DiskOK, Replaces

LEMMA WriteType ==
  ASSUME DiskOK, NEW r \in Records, Write(r)
  PROVE  DiskOK'
BY ReplacesType DEF Write, Absent, Current

LEMMA UnlinkType ==
  ASSUME DiskOK, Unlink
  PROVE  DiskOK'
BY ReplacesType, RecordTypes DEF Unlink, Absent, Current

LEMMA UnchangedDiskType ==
  ASSUME DiskOK, UNCHANGED diskVars
  PROVE  DiskOK'
BY DEF DiskOK, diskVars, stampVars

LEMMA DropType ==
  ASSUME DiskOK, Drop
  PROVE  DiskOK'
<1>1. file \in Records
  BY DEF DiskOK
<1>2. CASE file.gen = 0
  BY <1>2, UnchangedDiskType DEF Drop
<1>3. CASE file.gen # 0
  BY <1>1, <1>3, WriteType, RecordTypes DEF Drop
<1> QED
  BY <1>2, <1>3

\* An unfenced update writes the file, or leaves it and keeps a draft.
LEMMA UnfencedType ==
  ASSUME DiskOK, draft \in [Actors -> SUBSET Records],
         NEW a \in Actors, NEW r \in Records, UnfencedUpdate(a, r)
  PROVE  DiskOK' /\ draft' \in [Actors -> SUBSET Records]
<1>1. CASE Write(r) /\ UNCHANGED draft
  BY <1>1, WriteType
<1>2. CASE draft' = [draft EXCEPT ![a] = {r}] /\ UNCHANGED diskVars
  BY <1>2, UnchangedDiskType
<1> QED
  BY <1>1, <1>2 DEF UnfencedUpdate

-----------------------------------------------------------------------------
(* Types.                                                                  *)

\* What the file leaves out of TypeOK.
RestOK ==
  /\ draft \in [Actors -> SUBSET Records]
  /\ holder \in Actors \union {NoOne}
  /\ task \in [Procs -> Tasks]
  /\ stored \in [Procs -> Records]
  /\ kept \in [Procs -> Kept]
  /\ metadata \in [Procs -> BOOLEAN]
  /\ post \in [Procs -> 0..MaxGen] /\ reply \in [Procs -> Replies] /\ got \in [Procs -> 0..MaxGen]
  /\ stray \subseteq Gens
  /\ cli \in CliTasks /\ cliGot \in 0..MaxGen
  /\ loggedOut \in BOOLEAN /\ replaced \subseteq Procs
  /\ PairsAtHand

LEMMA TypeSplit == TypeOK <=> EngineTypeOK /\ DiskOK /\ RestOK
BY DEF TypeOK, DiskOK, RestOK

LEMMA TypeSplitNext == TypeOK' <=> EngineTypeOK' /\ DiskOK' /\ RestOK'
BY DEF TypeOK, DiskOK, RestOK

\* The engine's own steps keep its types.
LEMMA EngineType ==
  ASSUME EngineTypeOK, NEW g \in Gens,
         \/ Rotate(g) \/ Burn(g) \/ RevokeFamily(g) \/ ComesDue
         \/ UNCHANGED engineVars
         \/ Issue(issued + 1) /\ UNCHANGED <<spent, replayed>>
  PROVE  EngineTypeOK' /\ issued' \in 0..MaxGen
<1> USE MaxGenAssumption DEF Gens
<1>1. ASSUME NEW f \in 0..MaxGen, Issue(f)
      PROVE  issued' \in 0..MaxGen /\ family' \in [Gens -> 0..MaxGen] /\ due' \subseteq Gens
  BY <1>1 DEF EngineTypeOK, Issue
<1>2. CASE Rotate(g)
  BY <1>1, <1>2 DEF EngineTypeOK, Rotate
<1>3. CASE Burn(g)
  BY <1>3 DEF EngineTypeOK, Burn
<1>4. CASE RevokeFamily(g)
  <2>1. {h \in 1..issued : family[h] = family[g]} \subseteq 1..MaxGen
    BY DEF EngineTypeOK
  <2>2. spent' \subseteq Gens
    BY <1>4, <2>1 DEF EngineTypeOK, RevokeFamily
  <2> QED
    BY <1>4, <2>2 DEF EngineTypeOK, RevokeFamily
<1>5. CASE ComesDue
  BY <1>5 DEF EngineTypeOK, ComesDue
<1>6. CASE UNCHANGED engineVars
  BY <1>6 DEF EngineTypeOK, engineVars
<1>7. CASE Issue(issued + 1) /\ UNCHANGED <<spent, replayed>>
  <2>1. issued + 1 \in 0..MaxGen
    BY <1>7 DEF EngineTypeOK, Issue
  <2> QED
    BY <1>1, <1>7, <2>1 DEF EngineTypeOK
<1> QED
  BY <1>2, <1>3, <1>4, <1>5, <1>6, <1>7

\* What a new process starts with is well typed.
LEMMA BootsType ==
  ASSUME TypeOK, NEW p \in Procs, Boots(p)
  PROVE  /\ stored' \in [Procs -> Records] /\ kept' \in [Procs -> Kept]
         /\ seen' \in [Procs -> Stamps] /\ refused' \in [Procs -> Stamps] /\ marker' \in [Procs -> Stamps]
         /\ failed' \in [Procs -> Stamps]
         /\ metadata' \in [Procs -> BOOLEAN] /\ task' \in [Procs -> Tasks] /\ replaced' \subseteq Procs
<1>1. NoPair \in Kept
  BY MaxGenAssumption DEF NoPair, Kept
<1> QED
  BY RecordTypes, <1>1 DEF TypeOK, Boots, Goto, Tasks, Stamps, Absent, Current, Older

\* The steps of a process that write nothing.
QuietSteps(p) ==
  \/ StartSave(p) \/ StartReload(p) \/ FinishReload(p) \/ StartRefresh(p)
  \/ AcquireForRefresh(p) \/ FenceTimeout(p) \/ Reread(p) \/ Present(p)
  \/ NotSent(p) \/ Mark(p) \/ TakeRefusal(p) \/ TakeFailure(p)
  \/ GiveUp(p) \/ Reload(p) \/ Settle(p) \/ AcquireForSave(p)
  \/ AbandonKept(p) \/ ForgetKept(p) \/ SaveKeptFails(p) \/ Discover(p)
  \/ Restart(p) \/ Crash(p)

LEMMA QuietStepsType ==
  ASSUME TypeOK, NEW p \in Procs, QuietSteps(p)
  PROVE  TypeOK'
<1> USE DEF TypeOK, PairsAtHand, EngineTypeOK, At, Goto, engineVars, diskVars, stampVars, memVars, grantVars,
            cliVars, Tasks, FencedTasks, Replies, Stamps, Absent, Current, Older, Actors
<1>1. CASE StartSave(p)
  BY <1>1 DEF StartSave
<1>2. CASE StartReload(p)
  BY <1>2 DEF StartReload
<1>3. CASE FinishReload(p)
  BY <1>3 DEF FinishReload, Reseeds
<1>4. CASE StartRefresh(p)
  BY <1>4 DEF StartRefresh
<1>5. CASE AcquireForRefresh(p)
  BY <1>5 DEF AcquireForRefresh, Acquires
<1>6. CASE FenceTimeout(p)
  BY <1>6 DEF FenceTimeout
<1>7. CASE Reread(p)
  BY <1>7 DEF Reread, Reseeds, Releases
<1>8. CASE Present(p)
  <2>1. file.gen \in 0..MaxGen /\ file.gen # 0
    BY <1>8 DEF Present, Records
  <2> QED
    BY <1>8, <2>1 DEF Present
<1>9. CASE NotSent(p)
  BY <1>9 DEF NotSent
<1>10. CASE Mark(p)
  BY <1>10 DEF Mark, Releases
<1>11. CASE TakeRefusal(p)
  BY MaxGenAssumption, <1>11 DEF TakeRefusal, Fails, Answered
<1>12. CASE TakeFailure(p)
  BY MaxGenAssumption, <1>12 DEF TakeFailure, Fails, Answered
<1>13. CASE GiveUp(p)
  <2>1. post[p] \in Gens
    BY MaxGenAssumption, <1>13 DEF GiveUp, Gens
  <2> QED
    BY MaxGenAssumption, <1>13, <2>1 DEF GiveUp, Fails
<1>14. CASE Reload(p)
  BY <1>14 DEF Reload
<1>15. CASE Settle(p)
  BY MaxGenAssumption, <1>15 DEF Settle, Reseeds, Releases
<1>16. CASE AcquireForSave(p)
  BY <1>16 DEF AcquireForSave, Acquires
<1>17. CASE AbandonKept(p)
  BY <1>17 DEF AbandonKept
<1>18. CASE ForgetKept(p)
  BY MaxGenAssumption, <1>18 DEF ForgetKept, NoPair, Kept
<1>19. CASE SaveKeptFails(p)
  BY <1>19 DEF SaveKeptFails, Releases
<1>20. CASE Discover(p)
  BY <1>20 DEF Discover
<1>21. CASE Restart(p)
  <2>1. Boots(p) /\ task[p] = "idle"
    BY <1>21 DEF Restart
  <2>2. PairsAtHand'
    BY <1>21 DEF Restart, Boots
  <2>3. UNCHANGED <<engineVars, file, mtime, draft, holder, grantVars, cliVars>>
    BY <1>21 DEF Restart
  <2> QED
    BY <2>1, <2>2, <2>3, BootsType
<1>22. CASE Crash(p)
  <2>1. task[p] = "sent" => post[p] \in Gens
    BY MaxGenAssumption DEF Gens
  <2>2. stray' \subseteq Gens
    BY <1>22, <2>1 DEF Crash
  <2>3. Boots(p)
    BY <1>22 DEF Crash
  <2>4. /\ draft' \in [Actors -> SUBSET Records] /\ holder' \in Actors \union {NoOne}
        /\ post' \in [Procs -> 0..MaxGen] /\ got' \in [Procs -> 0..MaxGen] /\ reply' \in [Procs -> Replies]
    BY MaxGenAssumption, <1>22 DEF Crash
  <2>5. PairsAtHand'
    BY <1>22 DEF Crash, Boots
  <2>6. EngineTypeOK' /\ UNCHANGED <<file, mtime, cliVars>>
    BY <1>22 DEF Crash
  <2> QED
    BY <2>2, <2>3, <2>4, <2>5, <2>6, BootsType
<1> QED
  BY <1>1, <1>2, <1>3, <1>4, <1>5, <1>6, <1>7, <1>8, <1>9, <1>10, <1>11, <1>12, <1>13, <1>14, <1>15, <1>16, <1>17, <1>18, <1>19, <1>20, <1>21, <1>22 DEF QuietSteps

\* The steps that write the file.
LEMMA WritingStepsType ==
  ASSUME TypeOK, NEW p \in Procs,
         SaveRotated(p) \/ KeepUnsaved(p) \/ Forget(p) \/ SaveKept(p) \/ SaveMetadata(p)
  PROVE  TypeOK'
<1>a. EngineTypeOK /\ DiskOK /\ RestOK
  BY TypeSplit
<1>b. file \in Records /\ p \in Actors
  BY <1>a DEF DiskOK, Actors
<1> USE DEF engineVars, memVars, grantVars, cliVars, At, Goto
<1>1. CASE SaveRotated(p)
  <2>1. got[p] \in Gens
    BY <1>1, <1>a DEF SaveRotated, Answered, RestOK, PairsAtHand, Gens
  <2>2. DiskOK'
    BY <1>1, <1>a, <1>b, <2>1, WriteType, RecordTypes DEF SaveRotated
  <2>3. RestOK'
    BY <1>1, <1>a, MaxGenAssumption DEF SaveRotated, Answered, RestOK, PairsAtHand, Tasks, FencedTasks
  <2> QED
    BY <1>1, <1>a, <2>2, <2>3, TypeSplitNext DEF SaveRotated, EngineTypeOK
<1>2. CASE KeepUnsaved(p)
  <2>1. DiskOK'
    BY <1>2, <1>a, DropType, UnlinkType, UnchangedDiskType DEF KeepUnsaved, Retires
  <2>2. kept' \in [Procs -> Kept]
    BY <1>2, <1>a DEF KeepUnsaved, RestOK, Kept, Records
  <2>3. RestOK'
    BY <1>2, <1>a, <2>2, MaxGenAssumption DEF KeepUnsaved, Answered, RestOK, PairsAtHand, Tasks, FencedTasks, Replies
  <2> QED
    BY <1>2, <1>a, <2>1, <2>3, TypeSplitNext DEF KeepUnsaved, EngineTypeOK
<1>3. CASE Forget(p)
  <2>1. DiskOK'
    BY <1>3, <1>a, DropType, UnchangedDiskType DEF Forget
  <2>2. RestOK'
    BY <1>3, <1>a DEF Forget, RestOK, PairsAtHand, Tasks, FencedTasks
  <2> QED
    BY <1>3, <1>a, <2>1, <2>2, TypeSplitNext DEF Forget, EngineTypeOK
<1>4. CASE SaveKept(p)
  <2>1. kept[p] \in Kept /\ kept[p].gen # 0
    BY <1>4, <1>a DEF SaveKept, RestOK, PairsAtHand
  <2>2. DiskOK'
    BY <1>4, <1>a, <1>b, <2>1, WriteType, RecordTypes DEF SaveKept
  <2>3. RestOK'
    BY <1>4, <1>a DEF SaveKept, RestOK, PairsAtHand, Tasks, FencedTasks
  <2> QED
    BY <1>4, <1>a, <2>2, <2>3, TypeSplitNext DEF SaveKept, EngineTypeOK
<1>5. CASE SaveMetadata(p)
  <2>1. DiskOK' /\ draft' \in [Actors -> SUBSET Records]
    BY <1>5, <1>a, <1>b, UnfencedType, RecordTypes DEF SaveMetadata, Suspended, RestOK
  <2>2. RestOK'
    BY <1>5, <1>a, <2>1 DEF SaveMetadata, Suspended, RestOK, PairsAtHand
  <2> QED
    BY <1>5, <1>a, <2>1, <2>2, TypeSplitNext DEF SaveMetadata, Suspended, EngineTypeOK
<1> QED
  BY <1>1, <1>2, <1>3, <1>4, <1>5

LEMMA WriteDraftType ==
  ASSUME TypeOK, NEW a \in Actors, WriteDraft(a)
  PROVE  TypeOK'
<1>a. EngineTypeOK /\ DiskOK /\ RestOK
  BY TypeSplit
<1>1. DiskOK'
  BY <1>a, WriteType DEF WriteDraft, RestOK
<1>2. RestOK'
  BY <1>a DEF WriteDraft, RestOK, PairsAtHand, memVars, grantVars, cliVars
<1> QED
  BY <1>a, <1>1, <1>2, TypeSplitNext DEF WriteDraft, EngineTypeOK, engineVars

\* login and logout.
LEMMA CliType ==
  ASSUME TypeOK, Login \/ Logout
  PROVE  TypeOK'
<1>a. EngineTypeOK /\ DiskOK /\ RestOK
  BY TypeSplit
<1>b. file \in Records /\ Cli \in Actors
  BY <1>a DEF DiskOK, Actors
<1> USE DEF memVars, grantVars, cliVars, CliAt, CliTasks
<1>1. CASE LoginStart \/ LoginEnds \/ LoginFence \/ LoginSaveFails \/ LogoutNothing \/ LogoutStart
           \/ LogoutFence \/ LogoutTimeout
  <2>1. /\ UNCHANGED <<draft, task, stored, metadata, kept, post, reply, got, stray>>
        /\ holder' \in {holder, Cli, NoOne} /\ cliGot' \in {cliGot, 0}
        /\ replaced' \subseteq Procs /\ loggedOut' \in BOOLEAN
    BY <1>1, <1>a
    DEF LoginStart, LoginEnds, LoginFence, LoginSaveFails, LogoutNothing, LogoutStart, LogoutFence,
        LogoutTimeout, Acquires, Releases, RestOK, Keeping
  <2>3. /\ cli' \in CliTasks
        /\ cli' \in {"exchanged", "saving"} => cli \in {"exchanged", "saving"} /\ cliGot' = cliGot
    BY <1>1, <1>a
    DEF LoginStart, LoginEnds, LoginFence, LoginSaveFails, LogoutNothing, LogoutStart, LogoutFence,
        LogoutTimeout, RestOK
  <2>4. PairsAtHand'
    BY <1>a, <2>1, <2>3 DEF RestOK, PairsAtHand
  <2>5. RestOK'
    BY <1>a, <1>b, <2>1, <2>3, <2>4, MaxGenAssumption DEF RestOK
  <2>2. UNCHANGED engineVars /\ UNCHANGED diskVars
    BY <1>1 DEF LoginStart, LoginEnds, LoginFence, LoginSaveFails, LogoutNothing, LogoutStart, LogoutFence,
        LogoutTimeout
  <2> QED
    BY <1>a, <2>5, <2>2, UnchangedDiskType, TypeSplitNext DEF EngineTypeOK, engineVars
<1>2. CASE LoginRegister
  <2>1. DiskOK' /\ draft' \in [Actors -> SUBSET Records]
    BY <1>2, <1>a, <1>b, UnfencedType, RecordTypes DEF LoginRegister, RestOK
  <2>2. RestOK'
    BY <1>2, <1>a, <2>1 DEF LoginRegister, RestOK, PairsAtHand
  <2> QED
    BY <1>2, <1>a, <2>1, <2>2, TypeSplitNext DEF LoginRegister, EngineTypeOK, engineVars
<1>3. CASE LoginMetadata
  <2>1. DiskOK' /\ draft' \in [Actors -> SUBSET Records]
    BY <1>3, <1>a, <1>b, UnfencedType, RecordTypes DEF LoginMetadata, RestOK
  <2>2. RestOK'
    BY <1>3, <1>a, <2>1 DEF LoginMetadata, RestOK, PairsAtHand
  <2> QED
    BY <1>3, <1>a, <2>1, <2>2, TypeSplitNext DEF LoginMetadata, EngineTypeOK, engineVars
<1>4. CASE LoginExchange
  <2>1. EngineTypeOK' /\ issued' \in 0..MaxGen
    BY <1>4, <1>a, EngineType, MaxGenAssumption DEF LoginExchange, Gens
  <2>2. cliGot' \in 0..MaxGen /\ cliGot' # 0
    BY <1>4, <1>a, <2>1 DEF LoginExchange, Issue, EngineTypeOK
  <2>3. RestOK'
    BY <1>4, <1>a, <2>2 DEF LoginExchange, RestOK, PairsAtHand
  <2> QED
    BY <1>4, <1>a, <2>1, <2>3, UnchangedDiskType, TypeSplitNext DEF LoginExchange
<1>5. CASE LoginSave
  <2>1. cliGot \in Gens
    BY <1>5, <1>a DEF LoginSave, RestOK, PairsAtHand, Gens
  <2>2. DiskOK'
    BY <1>5, <1>a, <1>b, <2>1, WriteType, RecordTypes DEF LoginSave
  <2>3. PairsAtHand' /\ replaced' \subseteq Procs /\ cliGot' \in 0..MaxGen
    BY <1>5, <1>a, MaxGenAssumption DEF LoginSave, RestOK, PairsAtHand, Keeping
  <2>4. RestOK'
    BY <1>5, <1>a, <2>3 DEF LoginSave, Releases, RestOK
  <2> QED
    BY <1>5, <1>a, <2>2, <2>4, TypeSplitNext DEF LoginSave, EngineTypeOK, engineVars
<1>6. CASE LogoutUnlink
  <2>1. DiskOK'
    BY <1>6, <1>a, UnlinkType DEF LogoutUnlink
  <2>2. RestOK'
    BY <1>6, <1>a DEF LogoutUnlink, Releases, RestOK, PairsAtHand, Keeping
  <2> QED
    BY <1>6, <1>a, <2>1, <2>2, TypeSplitNext DEF LogoutUnlink, EngineTypeOK, engineVars
<1> QED
  BY <1>1, <1>2, <1>3, <1>4, <1>5, <1>6 DEF Login, Logout

\* The token endpoint.
LEMMA EngineStepType ==
  ASSUME TypeOK, Engine
  PROVE  TypeOK'
<1>a. EngineTypeOK /\ DiskOK /\ RestOK
  BY TypeSplit
<1> USE DEF processVars, memVars, cliVars
<1>1. ASSUME NEW p \in Procs, EngineRotates(p) \/ EngineFails(p) \/ EngineGarbles(p) \/ EngineRefuses(p)
      PROVE  TypeOK'
  <2>1. post[p] \in Gens
    BY <1>1, <1>a DEF EngineRotates, EngineFails, EngineGarbles, EngineRefuses, Pending, RestOK, PairsAtHand, Gens
  <2>2. EngineTypeOK' /\ issued' \in 0..MaxGen
    BY <1>1, <1>a, <2>1, EngineType DEF EngineRotates, EngineFails, EngineGarbles, EngineRefuses
  <2>3. got' \in [Procs -> 0..MaxGen] /\ (reply'[p] = "rotated" => got'[p] # 0)
    <3>1. CASE EngineRotates(p)
      BY <3>1, <1>a, <2>2 DEF EngineRotates, Rotate, Issue, EngineTypeOK, RestOK
    <3>2. CASE EngineFails(p) \/ EngineGarbles(p) \/ EngineRefuses(p)
      BY <3>2, <1>a DEF EngineFails, EngineGarbles, EngineRefuses, Replies1, RestOK
    <3> QED
      BY <1>1, <3>1, <3>2
  <2>4. /\ \E r \in {"rotated", "failed", "garbled", "refused"} : reply' = [reply EXCEPT ![p] = r]
        /\ task[p] = "sent"
        /\ \A q \in Procs \ {p} : got'[q] = got[q]
        /\ UNCHANGED <<processVars, post, stray>>
    BY <1>1, <1>a DEF EngineRotates, EngineFails, EngineGarbles, EngineRefuses, Pending, Replies1, RestOK
  <2>5. PairsAtHand'
    BY <1>a, <2>3, <2>4 DEF PairsAtHand, RestOK
  <2>6. RestOK'
    BY <1>a, <2>3, <2>4, <2>5 DEF RestOK, Replies
  <2> QED
    BY <1>a, <2>2, <2>4, <2>6, UnchangedDiskType, TypeSplitNext
<1>2. ASSUME NEW g \in stray, StrayEnds(g)
      PROVE  TypeOK'
  <2>1. EngineTypeOK'
    BY <1>2, <1>a, EngineType DEF StrayEnds, RestOK
  <2>2. RestOK'
    BY <1>2, <1>a DEF StrayEnds, RestOK, PairsAtHand
  <2> QED
    BY <1>2, <1>a, <2>1, <2>2, UnchangedDiskType, TypeSplitNext DEF StrayEnds
<1>3. CASE Tick
  <2>1. EngineTypeOK'
    BY <1>3, <1>a, EngineType, MaxGenAssumption DEF Tick, Gens
  <2>2. RestOK'
    BY <1>3, <1>a DEF Tick, RestOK, PairsAtHand, grantVars
  <2> QED
    BY <1>3, <1>a, <2>1, <2>2, UnchangedDiskType, TypeSplitNext DEF Tick
<1> QED
  BY <1>1, <1>2, <1>3 DEF Engine

\* The initial states are well typed.
LEMMA InitType == Init => TypeOK
<1> SUFFICES ASSUME Init PROVE TypeOK
  OBVIOUS
<1>1. EngineTypeOK
  <2>1. issued \in {0, 1} /\ issued \in 0..MaxGen
    BY MaxGenAssumption DEF Init, EngineInit
  <2>2. 1..issued \subseteq Gens
    BY <2>1, MaxGenAssumption DEF Gens
  <2>3. family \in [Gens -> 0..MaxGen]
    BY MaxGenAssumption DEF Init, EngineInit, Gens
  <2> QED
    BY <2>1, <2>2, <2>3 DEF Init, EngineInit, EngineTypeOK
<1>2. file \in Records
  <2>1. 1 \in 0..MaxGen
    BY MaxGenAssumption
  <2>2. \A c, m \in BOOLEAN : Pair(1, c, m) \in Records
    BY <2>1 DEF Pair, Records
  <2> QED
    BY <2>2, BoundsAssumption, RecordTypes DEF Init
<1>3. DiskOK
  BY <1>2 DEF Init, DiskOK, Stamps, Absent, Current, Older
<1>4. RestOK
  BY <1>2, MaxGenAssumption DEF Init, RestOK, PairsAtHand, Tasks, Replies, CliTasks, NoPair, Kept, EngineInit, Records
<1> QED
  BY <1>1, <1>3, <1>4, TypeSplit

\* Every step keeps the types.
LEMMA NextType == TypeOK /\ [Next]_vars => TypeOK'
<1> SUFFICES ASSUME TypeOK, [Next]_vars PROVE TypeOK'
  OBVIOUS
<1>1. ASSUME NEW p \in Procs, Progress(p) \/ WriteDraft(p) \/ Guard(p) \/ Restart(p) \/ Crash(p)
      PROVE  TypeOK'
  <2>1. p \in Actors
    BY DEF Actors
  <2> QED
    BY <1>1, <2>1, QuietStepsType, WritingStepsType, WriteDraftType DEF Progress, Guard, QuietSteps
<1>2. CASE Login \/ Logout
  BY <1>2, CliType
<1>3. CASE WriteDraft(Cli)
  BY <1>3, WriteDraftType DEF Actors
<1>4. CASE Engine
  BY <1>4, EngineStepType
<1>5. CASE UNCHANGED vars
  BY <1>5 DEF vars, TypeOK, PairsAtHand, EngineTypeOK
<1> QED
  BY <1>1, <1>2, <1>3, <1>4, <1>5 DEF Next

\* oauth.json, the processes' memory and the engine stay well typed, and nobody
\* presents, saves or restores a pair that is not there, whatever faults occur.
THEOREM TypeCorrect == Spec => []TypeOK
BY InitType, NextType, PTL DEF Spec
=============================================================================
