-------------------------- MODULE OAuthReplayProofs --------------------------
(***************************************************************************)
(* The safety of the refresh token, for any number of processes and pairs: *)
(* no replay, and a clean token on disk whenever the fence is free.  The   *)
(* assumption SafeFaults is what the code relies on: processes end in      *)
(* order, no write falls inside an unfenced update, the disk lets a token  *)
(* be dropped or unlinked, and a 200 can be read.                          *)
(***************************************************************************)
EXTENDS OAuthRefreshProofs

\* The invariant over what TypeOK does not say.
Strong == FenceInv /\ EngineInv /\ FileInv /\ SentInv /\ HeldInv

\* With no torn update, an unfenced update is a write.
LEMMA Untorn ==
  ASSUME SafeFaults, NEW a, NEW r, UnfencedUpdate(a, r)
  PROVE  Write(r) /\ UNCHANGED draft
BY DEF SafeFaults, UnfencedUpdate

\* The steps that touch neither the file nor a pair keep the invariant.
LEMMA QuietKeeps ==
  ASSUME SafeFaults, IInv, NEW p \in Procs,
         \/ StartSave(p) \/ StartReload(p) \/ FinishReload(p) \/ StartRefresh(p) \/ AcquireForRefresh(p)
         \/ FenceTimeout(p) \/ Reread(p) \/ NotSent(p) \/ Mark(p) \/ TakeRefusal(p)
         \/ TakeFailure(p) \/ Reload(p) \/ Settle(p) \/ AcquireForSave(p) \/ AbandonKept(p)
         \/ SaveKeptFails(p) \/ Discover(p)
  PROVE  Strong'
<1>a. TypeOK /\ Strong
  BY DEF IInv, Strong
<1>b. \A q, r \in Procs : task[q] \in FencedTasks /\ task[r] \in FencedTasks => q = r
  BY <1>a DEF Strong, FenceInv
<1>c. issued \in Nat
  BY <1>a, MaxGenAssumption DEF TypeOK, EngineTypeOK
<1> USE DEF At, Goto, engineVars, diskVars, stampVars, memVars, grantVars, cliVars
<1>1. CASE StartSave(p)
  <2>1. FenceInv'
    BY <1>a, <1>1, ActorsAssumption DEF StartSave, TypeOK, Strong, FenceInv, FencedTasks, Actors
  <2>2. EngineInv'
    BY <1>a, <1>1 DEF StartSave, TypeOK, Strong, EngineInv
  <2>3. FileInv'
    BY <1>a, <1>1 DEF StartSave, TypeOK, Strong, FileInv, Clean
  <2>4. SentInv'
    BY <1>a, <1>1 DEF StartSave, TypeOK, Strong, SentInv, Clean, PairsAtHand
  <2>5. HeldInv'
    BY <1>a, <1>1 DEF StartSave, TypeOK, Strong, HeldInv, Clean, PairsAtHand
  <2> QED
    BY <2>1, <2>2, <2>3, <2>4, <2>5 DEF Strong
<1>2. CASE StartReload(p)
  <2>1. FenceInv'
    BY <1>a, <1>2, ActorsAssumption DEF StartReload, TypeOK, Strong, FenceInv, FencedTasks, Actors
  <2>2. EngineInv'
    BY <1>a, <1>2 DEF StartReload, TypeOK, Strong, EngineInv
  <2>3. FileInv'
    BY <1>a, <1>2 DEF StartReload, TypeOK, Strong, FileInv, Clean
  <2>4. SentInv'
    BY <1>a, <1>2 DEF StartReload, TypeOK, Strong, SentInv, Clean, PairsAtHand
  <2>5. HeldInv'
    BY <1>a, <1>2 DEF StartReload, TypeOK, Strong, HeldInv, Clean, PairsAtHand
  <2> QED
    BY <2>1, <2>2, <2>3, <2>4, <2>5 DEF Strong
<1>3. CASE FinishReload(p)
  <2>1. FenceInv'
    BY <1>a, <1>3, ActorsAssumption DEF FinishReload, Reseeds, TypeOK, Strong, FenceInv, FencedTasks, Actors
  <2>2. EngineInv'
    BY <1>a, <1>3 DEF FinishReload, Reseeds, TypeOK, Strong, EngineInv
  <2>3. FileInv'
    BY <1>a, <1>3 DEF FinishReload, Reseeds, TypeOK, Strong, FileInv, Clean
  <2>4. SentInv'
    BY <1>a, <1>3 DEF FinishReload, Reseeds, TypeOK, Strong, SentInv, Clean, PairsAtHand
  <2>5. HeldInv'
    BY <1>a, <1>3 DEF FinishReload, Reseeds, TypeOK, Strong, HeldInv, Clean, PairsAtHand
  <2> QED
    BY <2>1, <2>2, <2>3, <2>4, <2>5 DEF Strong
<1>4. CASE StartRefresh(p)
  <2>1. FenceInv'
    BY <1>a, <1>4, ActorsAssumption DEF StartRefresh, TypeOK, Strong, FenceInv, FencedTasks, Actors
  <2>2. EngineInv'
    BY <1>a, <1>4 DEF StartRefresh, TypeOK, Strong, EngineInv
  <2>3. FileInv'
    BY <1>a, <1>4 DEF StartRefresh, TypeOK, Strong, FileInv, Clean
  <2>4. SentInv'
    BY <1>a, <1>4 DEF StartRefresh, TypeOK, Strong, SentInv, Clean, PairsAtHand
  <2>5. HeldInv'
    BY <1>a, <1>4 DEF StartRefresh, TypeOK, Strong, HeldInv, Clean, PairsAtHand
  <2> QED
    BY <2>1, <2>2, <2>3, <2>4, <2>5 DEF Strong
<1>5. CASE AcquireForRefresh(p)
  <2>1. FenceInv'
    BY <1>a, <1>5, ActorsAssumption
    DEF AcquireForRefresh, Acquires, TypeOK, Strong, FenceInv, FencedTasks, Actors
  <2>2. EngineInv'
    BY <1>a, <1>5 DEF AcquireForRefresh, Acquires, TypeOK, Strong, EngineInv
  <2>3. FileInv'
    BY <1>a, <1>5 DEF AcquireForRefresh, Acquires, TypeOK, Strong, FileInv, Clean
  <2>4. SentInv'
    BY <1>a, <1>5 DEF AcquireForRefresh, Acquires, TypeOK, Strong, SentInv, Clean, PairsAtHand
  <2>5. HeldInv'
    BY <1>a, <1>5 DEF AcquireForRefresh, Acquires, TypeOK, Strong, HeldInv, Clean, PairsAtHand
  <2> QED
    BY <2>1, <2>2, <2>3, <2>4, <2>5 DEF Strong
<1>6. CASE FenceTimeout(p)
  <2>1. FenceInv'
    BY <1>a, <1>6, ActorsAssumption DEF FenceTimeout, TypeOK, Strong, FenceInv, FencedTasks, Actors
  <2>2. EngineInv'
    BY <1>a, <1>6 DEF FenceTimeout, TypeOK, Strong, EngineInv
  <2>3. FileInv'
    BY <1>a, <1>6 DEF FenceTimeout, TypeOK, Strong, FileInv, Clean
  <2>4. SentInv'
    BY <1>a, <1>6 DEF FenceTimeout, TypeOK, Strong, SentInv, Clean, PairsAtHand
  <2>5. HeldInv'
    BY <1>a, <1>6 DEF FenceTimeout, TypeOK, Strong, HeldInv, Clean, PairsAtHand
  <2> QED
    BY <2>1, <2>2, <2>3, <2>4, <2>5 DEF Strong
<1>7. CASE Reread(p)
  <2>1. FenceInv'
    BY <1>a, <1>7, ActorsAssumption
    DEF Reread, Reseeds, Releases, TypeOK, Strong, FenceInv, FencedTasks, Actors
  <2>2. EngineInv'
    BY <1>a, <1>7 DEF Reread, Reseeds, Releases, TypeOK, Strong, EngineInv
  <2>3. FileInv'
    BY <1>a, <1>7 DEF Reread, Reseeds, Releases, TypeOK, Strong, FileInv, Clean
  <2>4. SentInv'
    BY <1>a, <1>7 DEF Reread, Reseeds, Releases, TypeOK, Strong, SentInv, Clean, PairsAtHand
  <2>5. HeldInv'
    BY <1>a, <1>7 DEF Reread, Reseeds, Releases, TypeOK, Strong, HeldInv, Clean, PairsAtHand
  <2> QED
    BY <2>1, <2>2, <2>3, <2>4, <2>5 DEF Strong
<1>8. CASE NotSent(p)
  <2>1. FenceInv'
    BY <1>a, <1>8, ActorsAssumption DEF NotSent, TypeOK, Strong, FenceInv, FencedTasks, Actors
  <2>2. EngineInv'
    BY <1>a, <1>b, <1>8 DEF NotSent, TypeOK, Strong, EngineInv, FencedTasks, SentInv, PairsAtHand, Clean
  <2>3. FileInv'
    BY <1>a, <1>b, <1>8
    DEF NotSent, TypeOK, Strong, FileInv, Clean, FencedTasks, SentInv, PairsAtHand, HeldInv
  <2>4. SentInv'
    BY <1>a, <1>b, <1>8
    DEF NotSent, TypeOK, Strong, SentInv, Clean, PairsAtHand, FencedTasks, FileInv, HeldInv
  <2>5. HeldInv'
    BY <1>a, <1>b, <1>8 DEF NotSent, TypeOK, Strong, HeldInv, Clean, PairsAtHand, FencedTasks, SentInv
  <2> QED
    BY <2>1, <2>2, <2>3, <2>4, <2>5 DEF Strong
<1>9. CASE Mark(p)
  <2>1. FenceInv'
    BY <1>a, <1>9, ActorsAssumption DEF Mark, Releases, TypeOK, Strong, FenceInv, FencedTasks, Actors
  <2>2. EngineInv'
    BY <1>a, <1>9 DEF Mark, Releases, TypeOK, Strong, EngineInv
  <2>3. FileInv'
    BY <1>a, <1>9 DEF Mark, Releases, TypeOK, Strong, FileInv, Clean
  <2>4. SentInv'
    BY <1>a, <1>9 DEF Mark, Releases, TypeOK, Strong, SentInv, Clean, PairsAtHand
  <2>5. HeldInv'
    BY <1>a, <1>9 DEF Mark, Releases, TypeOK, Strong, HeldInv, Clean, PairsAtHand
  <2> QED
    BY <2>1, <2>2, <2>3, <2>4, <2>5 DEF Strong
<1>10. CASE TakeRefusal(p)
  <2>1. FenceInv'
    BY <1>a, <1>10, ActorsAssumption
    DEF TakeRefusal, Fails, Answered, TypeOK, Strong, FenceInv, FencedTasks, Actors
  <2>2. EngineInv'
    BY <1>a, <1>b, <1>10
    DEF TakeRefusal, Fails, Answered, TypeOK, Strong, EngineInv, FencedTasks, SentInv, PairsAtHand, Clean
  <2>3. FileInv'
    BY <1>a, <1>b, <1>10
    DEF TakeRefusal, Fails, Answered, TypeOK, Strong, FileInv, Clean, FencedTasks, SentInv, PairsAtHand, HeldInv
  <2>4. SentInv'
    BY <1>a, <1>b, <1>10
    DEF TakeRefusal, Fails, Answered, TypeOK, Strong, SentInv, Clean, PairsAtHand, FencedTasks, FileInv, HeldInv
  <2>5. HeldInv'
    BY <1>a, <1>b, <1>10
    DEF TakeRefusal, Fails, Answered, TypeOK, Strong, HeldInv, Clean, PairsAtHand, FencedTasks, SentInv
  <2> QED
    BY <2>1, <2>2, <2>3, <2>4, <2>5 DEF Strong
<1>11. CASE TakeFailure(p)
  <2>1. FenceInv'
    BY <1>a, <1>11, ActorsAssumption
    DEF TakeFailure, Fails, Answered, TypeOK, Strong, FenceInv, FencedTasks, Actors
  <2>2. EngineInv'
    BY <1>a, <1>b, <1>11
    DEF TakeFailure, Fails, Answered, TypeOK, Strong, EngineInv, FencedTasks, SentInv, PairsAtHand, Clean
  <2>3. FileInv'
    BY <1>a, <1>b, <1>11
    DEF TakeFailure, Fails, Answered, TypeOK, Strong, FileInv, Clean, FencedTasks, SentInv, PairsAtHand, HeldInv
  <2>4. SentInv'
    BY <1>a, <1>b, <1>11
    DEF TakeFailure, Fails, Answered, TypeOK, Strong, SentInv, Clean, PairsAtHand, FencedTasks, FileInv, HeldInv
  <2>5. HeldInv'
    BY <1>a, <1>b, <1>11
    DEF TakeFailure, Fails, Answered, TypeOK, Strong, HeldInv, Clean, PairsAtHand, FencedTasks, SentInv
  <2> QED
    BY <2>1, <2>2, <2>3, <2>4, <2>5 DEF Strong
<1>12. CASE Reload(p)
  <2>1. FenceInv'
    BY <1>a, <1>12, ActorsAssumption DEF Reload, TypeOK, Strong, FenceInv, FencedTasks, Actors
  <2>2. EngineInv'
    BY <1>a, <1>12 DEF Reload, TypeOK, Strong, EngineInv
  <2>3. FileInv'
    BY <1>a, <1>12 DEF Reload, TypeOK, Strong, FileInv, Clean
  <2>4. SentInv'
    BY <1>a, <1>12 DEF Reload, TypeOK, Strong, SentInv, Clean, PairsAtHand
  <2>5. HeldInv'
    BY <1>a, <1>12 DEF Reload, TypeOK, Strong, HeldInv, Clean, PairsAtHand
  <2> QED
    BY <2>1, <2>2, <2>3, <2>4, <2>5 DEF Strong
<1>13. CASE Settle(p)
  <2>1. FenceInv'
    BY <1>a, <1>13, ActorsAssumption
    DEF Settle, Reseeds, Releases, TypeOK, Strong, FenceInv, FencedTasks, Actors
  <2>2. EngineInv'
    BY <1>a, <1>13 DEF Settle, Reseeds, Releases, TypeOK, Strong, EngineInv
  <2>3. FileInv'
    BY <1>a, <1>13 DEF Settle, Reseeds, Releases, TypeOK, Strong, FileInv, Clean
  <2>4. SentInv'
    BY <1>a, <1>13 DEF Settle, Reseeds, Releases, TypeOK, Strong, SentInv, Clean, PairsAtHand
  <2>5. HeldInv'
    BY <1>a, <1>13 DEF Settle, Reseeds, Releases, TypeOK, Strong, HeldInv, Clean, PairsAtHand
  <2> QED
    BY <2>1, <2>2, <2>3, <2>4, <2>5 DEF Strong
<1>14. CASE AcquireForSave(p)
  <2>1. FenceInv'
    BY <1>a, <1>14, ActorsAssumption
    DEF AcquireForSave, Acquires, TypeOK, Strong, FenceInv, FencedTasks, Actors
  <2>2. EngineInv'
    BY <1>a, <1>14 DEF AcquireForSave, Acquires, TypeOK, Strong, EngineInv
  <2>3. FileInv'
    BY <1>a, <1>14 DEF AcquireForSave, Acquires, TypeOK, Strong, FileInv, Clean
  <2>4. SentInv'
    BY <1>a, <1>14 DEF AcquireForSave, Acquires, TypeOK, Strong, SentInv, Clean, PairsAtHand
  <2>5. HeldInv'
    BY <1>a, <1>14 DEF AcquireForSave, Acquires, TypeOK, Strong, HeldInv, Clean, PairsAtHand
  <2> QED
    BY <2>1, <2>2, <2>3, <2>4, <2>5 DEF Strong
<1>15. CASE AbandonKept(p)
  <2>1. FenceInv'
    BY <1>a, <1>15, ActorsAssumption DEF AbandonKept, TypeOK, Strong, FenceInv, FencedTasks, Actors
  <2>2. EngineInv'
    BY <1>a, <1>15 DEF AbandonKept, TypeOK, Strong, EngineInv
  <2>3. FileInv'
    BY <1>a, <1>15 DEF AbandonKept, TypeOK, Strong, FileInv, Clean
  <2>4. SentInv'
    BY <1>a, <1>15 DEF AbandonKept, TypeOK, Strong, SentInv, Clean, PairsAtHand
  <2>5. HeldInv'
    BY <1>a, <1>15 DEF AbandonKept, TypeOK, Strong, HeldInv, Clean, PairsAtHand
  <2> QED
    BY <2>1, <2>2, <2>3, <2>4, <2>5 DEF Strong
<1>16. CASE SaveKeptFails(p)
  <2>1. FenceInv'
    BY <1>a, <1>16, ActorsAssumption
    DEF SaveKeptFails, Releases, TypeOK, Strong, FenceInv, FencedTasks, Actors
  <2>2. EngineInv'
    BY <1>a, <1>16 DEF SaveKeptFails, Releases, TypeOK, Strong, EngineInv
  <2>3. FileInv'
    BY <1>a, <1>16 DEF SaveKeptFails, Releases, TypeOK, Strong, FileInv, Clean
  <2>4. SentInv'
    BY <1>a, <1>16 DEF SaveKeptFails, Releases, TypeOK, Strong, SentInv, Clean, PairsAtHand
  <2>5. HeldInv'
    BY <1>a, <1>16 DEF SaveKeptFails, Releases, TypeOK, Strong, HeldInv, Clean, PairsAtHand
  <2> QED
    BY <2>1, <2>2, <2>3, <2>4, <2>5 DEF Strong
<1>17. CASE Discover(p)
  <2>1. FenceInv'
    BY <1>a, <1>17, ActorsAssumption DEF Discover, TypeOK, Strong, FenceInv, FencedTasks, Actors
  <2>2. EngineInv'
    BY <1>a, <1>17 DEF Discover, TypeOK, Strong, EngineInv
  <2>3. FileInv'
    BY <1>a, <1>17 DEF Discover, TypeOK, Strong, FileInv, Clean
  <2>4. SentInv'
    BY <1>a, <1>17 DEF Discover, TypeOK, Strong, SentInv, Clean, PairsAtHand
  <2>5. HeldInv'
    BY <1>a, <1>17 DEF Discover, TypeOK, Strong, HeldInv, Clean, PairsAtHand
  <2> QED
    BY <2>1, <2>2, <2>3, <2>4, <2>5 DEF Strong
<1> QED
  BY <1>1, <1>2, <1>3, <1>4, <1>5, <1>6, <1>7, <1>8, <1>9, <1>10, <1>11, <1>12, <1>13, <1>14, <1>15,
      <1>16, <1>17

\* The steps that send a token, or take a pair in or out of memory keep the invariant.
LEMMA GrantKeeps ==
  ASSUME SafeFaults, IInv, NEW p \in Procs,
         Present(p) \/ GiveUp(p) \/ ForgetKept(p) \/ Restart(p)
  PROVE  Strong'
<1>a. TypeOK /\ Strong
  BY DEF IInv, Strong
<1>b. \A q, r \in Procs : task[q] \in FencedTasks /\ task[r] \in FencedTasks => q = r
  BY <1>a DEF Strong, FenceInv
<1>c. issued \in Nat
  BY <1>a, MaxGenAssumption DEF TypeOK, EngineTypeOK
<1> USE DEF At, Goto, engineVars, diskVars, stampVars, memVars, grantVars, cliVars
<1>1. CASE Present(p)
  <2>1. FenceInv'
    BY <1>a, <1>1, ActorsAssumption DEF Present, TypeOK, Strong, FenceInv, FencedTasks, Actors
  <2>2. EngineInv'
    BY <1>a, <1>b, <1>1 DEF Present, TypeOK, Strong, EngineInv, FencedTasks, SentInv, PairsAtHand, Clean
  <2>3. FileInv'
    BY <1>a, <1>b, <1>1
    DEF Present, TypeOK, Strong, FileInv, Clean, FencedTasks, SentInv, PairsAtHand, HeldInv
  <2>4. SentInv'
    BY <1>a, <1>b, <1>1
    DEF Present, TypeOK, Strong, SentInv, Clean, PairsAtHand, FencedTasks, FileInv, HeldInv
  <2>5. HeldInv'
    BY <1>a, <1>b, <1>1 DEF Present, TypeOK, Strong, HeldInv, Clean, PairsAtHand, FencedTasks, SentInv
  <2> QED
    BY <2>1, <2>2, <2>3, <2>4, <2>5 DEF Strong
<1>2. CASE GiveUp(p)
  <2>1. FenceInv'
    BY <1>a, <1>2, ActorsAssumption DEF GiveUp, Fails, TypeOK, Strong, FenceInv, FencedTasks, Actors
  <2>2. EngineInv'
    <3>1. reply[p] = "none" => post[p] \in 1..issued /\ post[p] \notin spent
      BY <1>a, <1>2 DEF GiveUp, Fails, Strong, SentInv, Clean
    <3>2. stray' \subseteq 1..issued /\ spent \intersect stray' = {}
      BY <1>a, <1>2, <3>1 DEF GiveUp, Fails, Strong, EngineInv
    <3> QED
      BY <1>a, <1>2, <3>2 DEF GiveUp, Fails, Strong, EngineInv
  <2>3. FileInv'
    BY <1>a, <1>b, <1>2
    DEF GiveUp, Fails, TypeOK, Strong, FileInv, Clean, FencedTasks, SentInv, PairsAtHand, HeldInv
  <2>4. SentInv'
    BY <1>a, <1>b, <1>2
    DEF GiveUp, Fails, TypeOK, Strong, SentInv, Clean, PairsAtHand, FencedTasks, FileInv, HeldInv
  <2>5. HeldInv'
    BY <1>a, <1>b, <1>2 DEF GiveUp, Fails, TypeOK, Strong, HeldInv, Clean, PairsAtHand, FencedTasks, SentInv
  <2> QED
    BY <2>1, <2>2, <2>3, <2>4, <2>5 DEF Strong
<1>3. CASE ForgetKept(p)
  <2>1. FenceInv'
    BY <1>a, <1>3, ActorsAssumption DEF ForgetKept, NoPair, TypeOK, Strong, FenceInv, FencedTasks, Actors
  <2>2. EngineInv'
    BY <1>a, <1>b, <1>3
    DEF ForgetKept, NoPair, TypeOK, Strong, EngineInv, FencedTasks, SentInv, PairsAtHand, Clean
  <2>3. FileInv'
    BY <1>a, <1>b, <1>3
    DEF ForgetKept, NoPair, TypeOK, Strong, FileInv, Clean, FencedTasks, SentInv, PairsAtHand, HeldInv
  <2>4. SentInv'
    BY <1>a, <1>b, <1>3
    DEF ForgetKept, NoPair, TypeOK, Strong, SentInv, Clean, PairsAtHand, FencedTasks, FileInv, HeldInv
  <2>5. HeldInv'
    BY <1>a, <1>b, <1>3
    DEF ForgetKept, NoPair, TypeOK, Strong, HeldInv, Clean, PairsAtHand, FencedTasks, SentInv
  <2> QED
    BY <2>1, <2>2, <2>3, <2>4, <2>5 DEF Strong
<1>4. CASE Restart(p)
  <2>1. FenceInv'
    BY <1>a, <1>4, ActorsAssumption
    DEF Restart, Boots, NoPair, TypeOK, Strong, FenceInv, FencedTasks, Actors
  <2>2. EngineInv'
    BY <1>a, <1>4 DEF Restart, Boots, NoPair, TypeOK, Strong, EngineInv
  <2>3. FileInv'
    BY <1>a, <1>4 DEF Restart, Boots, NoPair, TypeOK, Strong, FileInv, Clean
  <2>4. SentInv'
    BY <1>a, <1>4 DEF Restart, Boots, NoPair, TypeOK, Strong, SentInv, Clean, PairsAtHand
  <2>5. HeldInv'
    BY <1>a, <1>4 DEF Restart, Boots, NoPair, TypeOK, Strong, HeldInv, Clean, PairsAtHand
  <2> QED
    BY <2>1, <2>2, <2>3, <2>4, <2>5 DEF Strong
<1> QED
  BY <1>1, <1>2, <1>3, <1>4

\* The steps that write the file keep the invariant.
LEMMA WriteKeeps ==
  ASSUME SafeFaults, IInv, NEW p \in Procs,
         SaveRotated(p) \/ KeepUnsaved(p) \/ Forget(p) \/ SaveKept(p) \/ SaveMetadata(p)
  PROVE  Strong'
<1>a. TypeOK /\ Strong
  BY DEF IInv, Strong
<1>b. \A q, r \in Procs : task[q] \in FencedTasks /\ task[r] \in FencedTasks => q = r
  BY <1>a DEF Strong, FenceInv
<1>c. issued \in Nat
  BY <1>a, MaxGenAssumption DEF TypeOK, EngineTypeOK
<1> USE DEF At, Goto, engineVars, diskVars, stampVars, memVars, grantVars, cliVars
<1>1. CASE SaveRotated(p)
  <2>1. FenceInv'
    BY <1>a, <1>1, ActorsAssumption
    DEF SaveRotated, Answered, Write, Replaces, WithTokens, Pair, TypeOK, Strong, FenceInv, FencedTasks,
        Actors
  <2>2. EngineInv'
    BY <1>a, <1>b, <1>1
    DEF SaveRotated, Answered, Write, Replaces, WithTokens, Pair, TypeOK, Strong, EngineInv, FencedTasks,
        SentInv, PairsAtHand, Clean
  <2>3. FileInv'
    BY <1>a, <1>b, <1>1
    DEF SaveRotated, Answered, Write, Replaces, WithTokens, Pair, TypeOK, Strong, FileInv, Clean,
        FencedTasks, SentInv, PairsAtHand, HeldInv
  <2>4. SentInv'
    BY <1>a, <1>b, <1>1
    DEF SaveRotated, Answered, Write, Replaces, WithTokens, Pair, TypeOK, Strong, SentInv, Clean,
        PairsAtHand, FencedTasks, FileInv, HeldInv
  <2>5. HeldInv'
    BY <1>a, <1>b, <1>1
    DEF SaveRotated, Answered, Write, Replaces, WithTokens, Pair, TypeOK, Strong, HeldInv, Clean,
        PairsAtHand, FencedTasks, SentInv
  <2> QED
    BY <2>1, <2>2, <2>3, <2>4, <2>5 DEF Strong
<1>2. CASE KeepUnsaved(p)
  <2>1. FenceInv'
    BY <1>a, <1>2, ActorsAssumption
    DEF KeepUnsaved, Answered, Retires, Drop, Write, Unlink, Replaces, DropRefresh, Empty, TypeOK,
        Strong, FenceInv, FencedTasks, Actors, SafeFaults
  <2>2. EngineInv'
    BY <1>a, <1>b, <1>2
    DEF KeepUnsaved, Answered, Retires, Drop, Write, Unlink, Replaces, DropRefresh, Empty, TypeOK,
        Strong, EngineInv, FencedTasks, SentInv, PairsAtHand, Clean, SafeFaults
  <2>3. FileInv'
    BY <1>a, <1>b, <1>c, <1>2
    DEF KeepUnsaved, Answered, Retires, Drop, Write, Unlink, Replaces, DropRefresh, Empty, TypeOK,
        Strong, FileInv, Clean, FencedTasks, SentInv, PairsAtHand, HeldInv, SafeFaults
  <2>4. SentInv'
    BY <1>a, <1>b, <1>2
    DEF KeepUnsaved, Answered, Retires, Drop, Write, Unlink, Replaces, DropRefresh, Empty, TypeOK,
        Strong, SentInv, Clean, PairsAtHand, FencedTasks, FileInv, HeldInv, SafeFaults
  <2>5. HeldInv'
    BY <1>a, <1>b, <1>2
    DEF KeepUnsaved, Answered, Retires, Drop, Write, Unlink, Replaces, DropRefresh, Empty, TypeOK,
        Strong, HeldInv, Clean, PairsAtHand, FencedTasks, SentInv, SafeFaults
  <2> QED
    BY <2>1, <2>2, <2>3, <2>4, <2>5 DEF Strong
<1>3. CASE Forget(p)
  <2>1. FenceInv'
    BY <1>a, <1>3, ActorsAssumption
    DEF Forget, Drop, Write, Replaces, DropRefresh, TypeOK, Strong, FenceInv, FencedTasks, Actors,
        SafeFaults
  <2>2. EngineInv'
    BY <1>a, <1>b, <1>3
    DEF Forget, Drop, Write, Replaces, DropRefresh, TypeOK, Strong, EngineInv, FencedTasks, SentInv,
        PairsAtHand, Clean, SafeFaults
  <2>3. FileInv'
    BY <1>a, <1>b, <1>3
    DEF Forget, Drop, Write, Replaces, DropRefresh, TypeOK, Strong, FileInv, Clean, FencedTasks, SentInv,
        PairsAtHand, HeldInv, SafeFaults
  <2>4. SentInv'
    BY <1>a, <1>b, <1>3
    DEF Forget, Drop, Write, Replaces, DropRefresh, TypeOK, Strong, SentInv, Clean, PairsAtHand,
        FencedTasks, FileInv, HeldInv, SafeFaults
  <2>5. HeldInv'
    BY <1>a, <1>b, <1>3
    DEF Forget, Drop, Write, Replaces, DropRefresh, TypeOK, Strong, HeldInv, Clean, PairsAtHand,
        FencedTasks, SentInv, SafeFaults
  <2> QED
    BY <2>1, <2>2, <2>3, <2>4, <2>5 DEF Strong
<1>4. CASE SaveKept(p)
  <2>1. FenceInv'
    BY <1>a, <1>4, ActorsAssumption
    DEF SaveKept, Write, Replaces, Restored, Pair, TypeOK, Strong, FenceInv, FencedTasks, Actors
  <2>2. EngineInv'
    BY <1>a, <1>b, <1>4
    DEF SaveKept, Write, Replaces, Restored, Pair, TypeOK, Strong, EngineInv, FencedTasks, SentInv,
        PairsAtHand, Clean
  <2>3. FileInv'
    BY <1>a, <1>b, <1>4
    DEF SaveKept, Write, Replaces, Restored, Pair, TypeOK, Strong, FileInv, Clean, FencedTasks, SentInv,
        PairsAtHand, HeldInv
  <2>4. SentInv'
    BY <1>a, <1>b, <1>4
    DEF SaveKept, Write, Replaces, Restored, Pair, TypeOK, Strong, SentInv, Clean, PairsAtHand,
        FencedTasks, FileInv, HeldInv
  <2>5. HeldInv'
    BY <1>a, <1>b, <1>4
    DEF SaveKept, Write, Replaces, Restored, Pair, TypeOK, Strong, HeldInv, Clean, PairsAtHand,
        FencedTasks, SentInv
  <2> QED
    BY <2>1, <2>2, <2>3, <2>4, <2>5 DEF Strong
<1>5. CASE SaveMetadata(p)
  <2>1. FenceInv'
    BY <1>a, Untorn, <1>5, ActorsAssumption
    DEF SaveMetadata, Suspended, Write, Replaces, WithMeta, TypeOK, Strong, FenceInv, FencedTasks, Actors
  <2>2. EngineInv'
    BY <1>a, <1>b, Untorn, <1>5
    DEF SaveMetadata, Suspended, Write, Replaces, WithMeta, TypeOK, Strong, EngineInv, FencedTasks, SentInv,
        PairsAtHand, Clean
  <2>3. FileInv'
    BY <1>a, <1>b, Untorn, <1>5
    DEF SaveMetadata, Suspended, Write, Replaces, WithMeta, TypeOK, Strong, FileInv, Clean, FencedTasks, SentInv,
        PairsAtHand, HeldInv
  <2>4. SentInv'
    BY <1>a, <1>b, Untorn, <1>5
    DEF SaveMetadata, Suspended, Write, Replaces, WithMeta, TypeOK, Strong, SentInv, Clean, PairsAtHand,
        FencedTasks, FileInv, HeldInv
  <2>5. HeldInv'
    BY <1>a, <1>b, Untorn, <1>5
    DEF SaveMetadata, Suspended, Write, Replaces, WithMeta, TypeOK, Strong, HeldInv, Clean, PairsAtHand,
        FencedTasks, SentInv
  <2> QED
    BY <2>1, <2>2, <2>3, <2>4, <2>5 DEF Strong
<1> QED
  BY <1>1, <1>2, <1>3, <1>4, <1>5

\* login and logout keep the invariant.
LEMMA CliKeeps ==
  ASSUME SafeFaults, IInv, Login \/ Logout
  PROVE  Strong'
<1>a. TypeOK /\ Strong
  BY DEF IInv, Strong
<1>b. \A q \in Procs : task[q] \in FencedTasks => cli \notin {"saving", "unlink"}
  BY <1>a, ActorsAssumption DEF Strong, FenceInv
<1>c. issued \in Nat
  BY <1>a, MaxGenAssumption DEF TypeOK, EngineTypeOK
<1> USE DEF CliAt, engineVars, diskVars, stampVars, memVars, grantVars, cliVars
<1>1. CASE LoginStart
  <2>1. FenceInv'
    BY <1>a, <1>1, ActorsAssumption DEF LoginStart, TypeOK, Strong, FenceInv, FencedTasks, Actors
  <2>2. EngineInv'
    BY <1>a, <1>1 DEF LoginStart, TypeOK, Strong, EngineInv
  <2>3. FileInv'
    BY <1>a, <1>1 DEF LoginStart, TypeOK, Strong, FileInv, Clean
  <2>4. SentInv'
    BY <1>a, <1>1 DEF LoginStart, TypeOK, Strong, SentInv, Clean, PairsAtHand
  <2>5. HeldInv'
    BY <1>a, <1>1 DEF LoginStart, TypeOK, Strong, HeldInv, Clean, PairsAtHand
  <2> QED
    BY <2>1, <2>2, <2>3, <2>4, <2>5 DEF Strong
<1>2. CASE LoginRegister
  <2>1. FenceInv'
    BY <1>a, Untorn, <1>2, ActorsAssumption
    DEF LoginRegister, Write, Replaces, WithClient, TypeOK, Strong, FenceInv, FencedTasks, Actors
  <2>2. EngineInv'
    BY <1>a, Untorn, <1>2 DEF LoginRegister, Write, Replaces, WithClient, TypeOK, Strong, EngineInv
  <2>3. FileInv'
    BY <1>a, Untorn, <1>2 DEF LoginRegister, Write, Replaces, WithClient, TypeOK, Strong, FileInv, Clean
  <2>4. SentInv'
    BY <1>a, Untorn, <1>2
    DEF LoginRegister, Write, Replaces, WithClient, TypeOK, Strong, SentInv, Clean, PairsAtHand
  <2>5. HeldInv'
    BY <1>a, Untorn, <1>2
    DEF LoginRegister, Write, Replaces, WithClient, TypeOK, Strong, HeldInv, Clean, PairsAtHand
  <2> QED
    BY <2>1, <2>2, <2>3, <2>4, <2>5 DEF Strong
<1>3. CASE LoginExchange
  <2>1. FenceInv'
    BY <1>a, <1>c, <1>3, ActorsAssumption
    DEF LoginExchange, Issue, TypeOK, Strong, FenceInv, FencedTasks, Actors
  <2>2. EngineInv'
    BY <1>a, <1>c, <1>3 DEF LoginExchange, Issue, TypeOK, Strong, EngineInv
  <2>3. FileInv'
    BY <1>a, <1>c, <1>3 DEF LoginExchange, Issue, TypeOK, Strong, FileInv, Clean
  <2>4. SentInv'
    BY <1>a, <1>c, <1>3 DEF LoginExchange, Issue, TypeOK, Strong, SentInv, Clean, PairsAtHand
  <2>5. HeldInv'
    BY <1>a, <1>c, <1>3
    DEF LoginExchange, Issue, TypeOK, Strong, HeldInv, Clean, PairsAtHand, SentInv, FileInv, EngineInv
  <2> QED
    BY <2>1, <2>2, <2>3, <2>4, <2>5 DEF Strong
<1>4. CASE LoginFence
  <2>1. FenceInv'
    BY <1>a, <1>4, ActorsAssumption DEF LoginFence, Acquires, TypeOK, Strong, FenceInv, FencedTasks, Actors
  <2>2. EngineInv'
    BY <1>a, <1>4 DEF LoginFence, Acquires, TypeOK, Strong, EngineInv
  <2>3. FileInv'
    BY <1>a, <1>4 DEF LoginFence, Acquires, TypeOK, Strong, FileInv, Clean
  <2>4. SentInv'
    BY <1>a, <1>4 DEF LoginFence, Acquires, TypeOK, Strong, SentInv, Clean, PairsAtHand
  <2>5. HeldInv'
    BY <1>a, <1>4
    DEF LoginFence, Acquires, TypeOK, Strong, HeldInv, Clean, PairsAtHand, SentInv, FileInv, EngineInv
  <2> QED
    BY <2>1, <2>2, <2>3, <2>4, <2>5 DEF Strong
<1>5. CASE LoginSave
  <2>1. FenceInv'
    BY <1>a, <1>5, ActorsAssumption
    DEF LoginSave, Releases, Write, Replaces, WithTokens, Pair, TypeOK, Strong, FenceInv, FencedTasks,
        Actors
  <2>2. EngineInv'
    BY <1>a, <1>b, <1>5
    DEF LoginSave, Releases, Write, Replaces, WithTokens, Pair, TypeOK, Strong, EngineInv, FencedTasks
  <2>3. FileInv'
    BY <1>a, <1>b, <1>5
    DEF LoginSave, Releases, Write, Replaces, WithTokens, Pair, TypeOK, Strong, FileInv, Clean,
        FencedTasks, HeldInv, PairsAtHand
  <2>4. SentInv'
    BY <1>a, <1>b, <1>5
    DEF LoginSave, Releases, Write, Replaces, WithTokens, Pair, TypeOK, Strong, SentInv, Clean,
        PairsAtHand, FencedTasks, HeldInv, PairsAtHand
  <2>5. HeldInv'
    BY <1>a, <1>b, <1>5
    DEF LoginSave, Releases, Write, Replaces, WithTokens, Pair, TypeOK, Strong, HeldInv, Clean,
        PairsAtHand, FencedTasks, SentInv, FileInv, EngineInv
  <2> QED
    BY <2>1, <2>2, <2>3, <2>4, <2>5 DEF Strong
<1>6. CASE LoginSaveFails
  <2>1. FenceInv'
    BY <1>a, <1>6, ActorsAssumption
    DEF LoginSaveFails, Releases, TypeOK, Strong, FenceInv, FencedTasks, Actors
  <2>2. EngineInv'
    BY <1>a, <1>6 DEF LoginSaveFails, Releases, TypeOK, Strong, EngineInv
  <2>3. FileInv'
    BY <1>a, <1>6 DEF LoginSaveFails, Releases, TypeOK, Strong, FileInv, Clean
  <2>4. SentInv'
    BY <1>a, <1>6 DEF LoginSaveFails, Releases, TypeOK, Strong, SentInv, Clean, PairsAtHand
  <2>5. HeldInv'
    BY <1>a, <1>6 DEF LoginSaveFails, Releases, TypeOK, Strong, HeldInv, Clean, PairsAtHand
  <2> QED
    BY <2>1, <2>2, <2>3, <2>4, <2>5 DEF Strong
<1>7. CASE LoginMetadata
  <2>1. FenceInv'
    BY <1>a, Untorn, <1>7, ActorsAssumption
    DEF LoginMetadata, Write, Replaces, WithMeta, TypeOK, Strong, FenceInv, FencedTasks, Actors
  <2>2. EngineInv'
    BY <1>a, Untorn, <1>7 DEF LoginMetadata, Write, Replaces, WithMeta, TypeOK, Strong, EngineInv
  <2>3. FileInv'
    BY <1>a, Untorn, <1>7 DEF LoginMetadata, Write, Replaces, WithMeta, TypeOK, Strong, FileInv, Clean
  <2>4. SentInv'
    BY <1>a, Untorn, <1>7
    DEF LoginMetadata, Write, Replaces, WithMeta, TypeOK, Strong, SentInv, Clean, PairsAtHand
  <2>5. HeldInv'
    BY <1>a, Untorn, <1>7
    DEF LoginMetadata, Write, Replaces, WithMeta, TypeOK, Strong, HeldInv, Clean, PairsAtHand
  <2> QED
    BY <2>1, <2>2, <2>3, <2>4, <2>5 DEF Strong
<1>8. CASE LoginEnds
  <2>1. FenceInv'
    BY <1>a, <1>8, ActorsAssumption DEF LoginEnds, TypeOK, Strong, FenceInv, FencedTasks, Actors
  <2>2. EngineInv'
    BY <1>a, <1>8 DEF LoginEnds, TypeOK, Strong, EngineInv
  <2>3. FileInv'
    BY <1>a, <1>8 DEF LoginEnds, TypeOK, Strong, FileInv, Clean
  <2>4. SentInv'
    BY <1>a, <1>8 DEF LoginEnds, TypeOK, Strong, SentInv, Clean, PairsAtHand
  <2>5. HeldInv'
    BY <1>a, <1>8 DEF LoginEnds, TypeOK, Strong, HeldInv, Clean, PairsAtHand
  <2> QED
    BY <2>1, <2>2, <2>3, <2>4, <2>5 DEF Strong
<1>9. CASE LogoutNothing
  <2>1. FenceInv'
    BY <1>a, <1>9, ActorsAssumption DEF LogoutNothing, TypeOK, Strong, FenceInv, FencedTasks, Actors
  <2>2. EngineInv'
    BY <1>a, <1>9 DEF LogoutNothing, TypeOK, Strong, EngineInv
  <2>3. FileInv'
    BY <1>a, <1>9 DEF LogoutNothing, TypeOK, Strong, FileInv, Clean
  <2>4. SentInv'
    BY <1>a, <1>9 DEF LogoutNothing, TypeOK, Strong, SentInv, Clean, PairsAtHand
  <2>5. HeldInv'
    BY <1>a, <1>9 DEF LogoutNothing, TypeOK, Strong, HeldInv, Clean, PairsAtHand
  <2> QED
    BY <2>1, <2>2, <2>3, <2>4, <2>5 DEF Strong
<1>10. CASE LogoutStart
  <2>1. FenceInv'
    BY <1>a, <1>10, ActorsAssumption DEF LogoutStart, TypeOK, Strong, FenceInv, FencedTasks, Actors
  <2>2. EngineInv'
    BY <1>a, <1>10 DEF LogoutStart, TypeOK, Strong, EngineInv
  <2>3. FileInv'
    BY <1>a, <1>10 DEF LogoutStart, TypeOK, Strong, FileInv, Clean
  <2>4. SentInv'
    BY <1>a, <1>10 DEF LogoutStart, TypeOK, Strong, SentInv, Clean, PairsAtHand
  <2>5. HeldInv'
    BY <1>a, <1>10 DEF LogoutStart, TypeOK, Strong, HeldInv, Clean, PairsAtHand
  <2> QED
    BY <2>1, <2>2, <2>3, <2>4, <2>5 DEF Strong
<1>11. CASE LogoutFence
  <2>1. FenceInv'
    BY <1>a, <1>11, ActorsAssumption
    DEF LogoutFence, Acquires, TypeOK, Strong, FenceInv, FencedTasks, Actors
  <2>2. EngineInv'
    BY <1>a, <1>11 DEF LogoutFence, Acquires, TypeOK, Strong, EngineInv
  <2>3. FileInv'
    BY <1>a, <1>11 DEF LogoutFence, Acquires, TypeOK, Strong, FileInv, Clean
  <2>4. SentInv'
    BY <1>a, <1>11 DEF LogoutFence, Acquires, TypeOK, Strong, SentInv, Clean, PairsAtHand
  <2>5. HeldInv'
    BY <1>a, <1>11 DEF LogoutFence, Acquires, TypeOK, Strong, HeldInv, Clean, PairsAtHand
  <2> QED
    BY <2>1, <2>2, <2>3, <2>4, <2>5 DEF Strong
<1>12. CASE LogoutTimeout
  <2>1. FenceInv'
    BY <1>a, <1>12, ActorsAssumption DEF LogoutTimeout, TypeOK, Strong, FenceInv, FencedTasks, Actors
  <2>2. EngineInv'
    BY <1>a, <1>12 DEF LogoutTimeout, TypeOK, Strong, EngineInv
  <2>3. FileInv'
    BY <1>a, <1>12 DEF LogoutTimeout, TypeOK, Strong, FileInv, Clean
  <2>4. SentInv'
    BY <1>a, <1>12 DEF LogoutTimeout, TypeOK, Strong, SentInv, Clean, PairsAtHand
  <2>5. HeldInv'
    BY <1>a, <1>12 DEF LogoutTimeout, TypeOK, Strong, HeldInv, Clean, PairsAtHand
  <2> QED
    BY <2>1, <2>2, <2>3, <2>4, <2>5 DEF Strong
<1>13. CASE LogoutUnlink
  <2>1. FenceInv'
    BY <1>a, <1>13, ActorsAssumption
    DEF LogoutUnlink, Releases, Unlink, Replaces, Empty, TypeOK, Strong, FenceInv, FencedTasks, Actors
  <2>2. EngineInv'
    BY <1>a, <1>b, <1>13
    DEF LogoutUnlink, Releases, Unlink, Replaces, Empty, TypeOK, Strong, EngineInv, FencedTasks
  <2>3. FileInv'
    BY <1>a, <1>b, <1>c, <1>13
    DEF LogoutUnlink, Releases, Unlink, Replaces, Empty, TypeOK, Strong, FileInv, Clean, FencedTasks,
        HeldInv, PairsAtHand
  <2>4. SentInv'
    BY <1>a, <1>b, <1>13
    DEF LogoutUnlink, Releases, Unlink, Replaces, Empty, TypeOK, Strong, SentInv, Clean, PairsAtHand,
        FencedTasks, HeldInv, PairsAtHand
  <2>5. HeldInv'
    BY <1>a, <1>b, <1>13
    DEF LogoutUnlink, Releases, Unlink, Replaces, Empty, TypeOK, Strong, HeldInv, Clean, PairsAtHand,
        FencedTasks
  <2> QED
    BY <2>1, <2>2, <2>3, <2>4, <2>5 DEF Strong
<1> QED
  BY <1>1, <1>2, <1>3, <1>4, <1>5, <1>6, <1>7, <1>8, <1>9, <1>10, <1>11, <1>12, <1>13 DEF Login, Logout

\* What the engine does with a request keeps the invariant: the token it spends is
\* the file's, or was in a request nobody awaits.
LEMMA EngineKeeps ==
  ASSUME SafeFaults, IInv, Engine
  PROVE  Strong'
<1>a. TypeOK /\ Strong
  BY DEF IInv, Strong
<1>b. \A q, r \in Procs : task[q] \in FencedTasks /\ task[r] \in FencedTasks => q = r
  BY <1>a DEF Strong, FenceInv
<1>c. issued \in Nat
  BY <1>a, MaxGenAssumption DEF TypeOK, EngineTypeOK
<1> USE DEF engineVars, diskVars, memVars, cliVars, grantVars, processVars, Pending, Replies1
<1>1. ASSUME NEW p \in Procs, EngineRotates(p) \/ EngineFails(p) \/ EngineGarbles(p) \/ EngineRefuses(p)
      PROVE  Strong'
  <2>a. Pending(p) /\ post[p] = file.gen /\ file.refresh /\ Clean(file.gen) /\ post[p] \notin spent
    BY <1>a, <1>1 DEF EngineRotates, EngineFails, EngineGarbles, EngineRefuses, Strong, SentInv, Clean
  <2>b. /\ UNCHANGED <<file, holder, task, draft, kept, cli, cliGot, post, stray>>
        /\ \E r \in {"rotated", "refused", "failed"} : reply' = [reply EXCEPT ![p] = r]
        /\ \A q \in Procs : q # p => got'[q] = got[q]
    BY <1>a, <1>1 DEF EngineRotates, EngineFails, EngineGarbles, EngineRefuses, SafeFaults, TypeOK
  <2>c. got[p] = 0
    BY <1>a, <2>a DEF Strong, SentInv
  <2>d. /\ issued' >= issued /\ issued' \in Nat
        /\ EngineInv'
        /\ \A h : Clean(h) /\ h # file.gen => Clean(h)'
        /\ reply'[p] = "refused" => UNCHANGED <<issued, spent>>
        /\ got'[p] # 0 => reply'[p] = "rotated" /\ got'[p] > issued /\ Clean(got[p])'
    <3>1. CASE EngineRotates(p)
      <4>1. /\ issued' = issued + 1 /\ spent' = spent \union {file.gen} /\ got'[p] = issued + 1
            /\ reply'[p] = "rotated" /\ UNCHANGED <<replayed, stray>>
        BY <1>a, <2>a, <3>1 DEF EngineRotates, Rotate, Issue, TypeOK
      <4>a. /\ ~replayed /\ spent \subseteq 1..issued /\ stray \subseteq 1..issued
            /\ spent \intersect stray = {}
            /\ file.gen \in 1..issued /\ file.gen \notin stray
        BY <1>a, <2>a DEF Strong, EngineInv, Clean
      <4>b. 1..issued \subseteq 1..(issued + 1) /\ issued + 1 \notin 1..issued /\ issued + 1 \in 1..(issued + 1)
        BY <1>c
      <4>2. EngineInv'
        BY <4>1, <4>a, <4>b DEF EngineInv
      <4>3. \A h : Clean(h) /\ h # file.gen => Clean(h)'
        BY <1>c, <4>1 DEF Clean
      <4>4. Clean(got[p])'
        <5>1. issued + 1 \notin spent \union {file.gen} /\ issued + 1 \notin stray
          BY <4>a, <4>b
        <5> QED
          BY <4>1, <4>b, <5>1 DEF Clean
      <4> QED
        BY <1>c, <4>1, <4>2, <4>3, <4>4
    <3>2. CASE EngineFails(p)
      <4>1. /\ issued' = issued /\ spent' \in {spent, spent \union {file.gen}}
            /\ reply'[p] = "failed" /\ UNCHANGED <<replayed, stray, got>>
        BY <1>a, <2>a, <3>2 DEF EngineFails, Burn, TypeOK
      <4> QED
        BY <1>a, <1>c, <2>a, <2>c, <4>1 DEF Strong, EngineInv, Clean
    <3>3. CASE EngineRefuses(p)
      <4>1. UNCHANGED <<issued, spent, replayed, stray, got>> /\ reply'[p] = "refused"
        BY <1>a, <2>a, <3>3 DEF EngineRefuses, RevokeFamily, TypeOK
      <4> QED
        BY <1>a, <1>c, <2>c, <4>1 DEF Strong, EngineInv, Clean
    <3> QED
      BY <1>1, <3>1, <3>2, <3>3 DEF EngineGarbles, SafeFaults
  <2>e. \A q \in Procs : q # p => task[q] \notin FencedTasks
    BY <1>b, <2>a DEF FencedTasks
  <2>1. FenceInv'
    BY <1>a, <2>b DEF Strong, FenceInv
  <2>2. FileInv'
    BY <1>a, <1>c, <2>a, <2>b, <2>d DEF Strong, FileInv
  <2>3. SentInv'
    <3>1. \A q \in Procs : q # p => task'[q] # "sent" /\ got'[q] = 0
      BY <1>a, <2>b, <2>e DEF Strong, SentInv, FencedTasks
    <3>2. /\ task'[p] = "sent" /\ file'.refresh /\ post'[p] = file'.gen
          /\ reply'[p] \in {"rotated", "refused", "failed"}
          /\ file.gen \in 0..issued
      BY <1>a, <2>a, <2>b DEF Strong, FileInv, TypeOK
    <3>3. reply'[p] = "refused" => Clean(file.gen)'
      BY <2>a, <2>b, <2>d DEF Clean
    <3>4. got'[p] # 0 => reply'[p] = "rotated" /\ Clean(got[p])' /\ got'[p] # file.gen
      BY <1>c, <2>d, <3>2
    <3>5. got'[p] # 0 => /\ got'[p] \in 1..issued' /\ got'[p] \notin spent' /\ got'[p] \notin stray'
      BY <3>4 DEF Clean
    <3>6. UNCHANGED <<file, task, post>>
      BY <2>b
    <3> QED
      BY <3>1, <3>2, <3>3, <3>4, <3>5, <3>6 DEF SentInv, Clean
  <2>4. HeldInv'
    <3>1. \A q \in Procs : task[q] # "unkeep"
      BY <2>a, <2>e DEF FencedTasks
    <3>2. cliGot # 0 => Clean(cliGot)' /\ cliGot # got'[p]
      <4>1. cliGot # 0 => Clean(cliGot) /\ cliGot # file.gen /\ cliGot <= issued
        BY <1>a, <1>c DEF Strong, HeldInv, Clean
      <4>2. cliGot # 0 => Clean(cliGot)'
        BY <1>c, <2>b, <2>d, <4>1 DEF Clean
      <4>3. cliGot # 0 => cliGot # got'[p]
        BY <1>a, <1>c, <2>d, <4>1 DEF TypeOK
      <4> QED
        BY <4>2, <4>3
    <3>3. \A q \in Procs : kept[q].gen # 0 => Clean(kept[q].gen)' /\ kept[q].gen # got'[p]
      <4>1. ASSUME NEW q \in Procs, kept[q].gen # 0
            PROVE  Clean(kept[q].gen) /\ kept[q].gen # file.gen /\ kept[q].gen <= issued
        BY <1>a, <1>c, <3>1, <4>1 DEF Strong, HeldInv, Clean
      <4>2. ASSUME NEW q \in Procs, kept[q].gen # 0
            PROVE  Clean(kept[q].gen)'
        <5> DEFINE h == kept[q].gen
        <5>1. Clean(h) /\ h # file.gen
          BY <4>1, <4>2
        <5>2. (issued' >= issued) /\ (Clean(h) => h \notin spent') /\ UNCHANGED <<kept, stray>>
          BY <2>b, <2>d, <5>1 DEF Clean
        <5> QED
          BY <1>c, <2>d, <5>1, <5>2 DEF Clean
      <4>3. ASSUME NEW q \in Procs, kept[q].gen # 0
            PROVE  kept[q].gen # got'[p]
        BY <1>a, <1>c, <2>d, <4>1, <4>3 DEF TypeOK, Kept
      <4> QED
        BY <4>2, <4>3
    <3> QED
      BY <1>a, <2>b, <3>1, <3>2, <3>3 DEF Strong, HeldInv
  <2> QED
    BY <2>1, <2>2, <2>3, <2>4, <2>d DEF Strong
<1>2. ASSUME NEW g \in stray, StrayEnds(g)
      PROVE  Strong'
  <2>a. g \notin spent /\ g \in 1..issued
    BY <1>a DEF Strong, EngineInv
  <2>b. ~RevokeFamily(g)
    BY <2>a DEF RevokeFamily
  <2>c. /\ UNCHANGED <<issued, replayed>>
        /\ spent' \in {spent, spent \union {g}} /\ stray' = stray \ {g}
        /\ UNCHANGED <<file, holder, task, draft, kept, cli, cliGot, post, reply, got>>
    BY <1>2, <2>b DEF StrayEnds, Burn
  <2>d. \A h : Clean(h) => Clean(h)'
    BY <1>2, <2>c DEF Clean
  <2>1. FenceInv'
    BY <1>a, <2>c DEF Strong, FenceInv
  <2>2. EngineInv'
    BY <1>a, <2>a, <2>c DEF Strong, EngineInv
  <2>3. FileInv'
    BY <1>a, <2>c, <2>d DEF Strong, FileInv
  <2>4. SentInv'
    BY <1>a, <2>c, <2>d DEF Strong, SentInv
  <2>5. HeldInv'
    BY <1>a, <2>c, <2>d DEF Strong, HeldInv
  <2> QED
    BY <2>1, <2>2, <2>3, <2>4, <2>5 DEF Strong
<1>3. CASE Tick
  <2>c. UNCHANGED <<issued, spent, replayed, stray, file, holder, task, draft, kept, cli, cliGot, post,
      reply, got>>
    BY <1>3 DEF Tick, ComesDue
  <2>d. \A h : Clean(h) <=> Clean(h)'
    BY <2>c DEF Clean
  <2>1. FenceInv' /\ EngineInv' /\ FileInv'
    BY <1>a, <2>c, <2>d DEF Strong, FenceInv, EngineInv, FileInv
  <2>2. SentInv'
    BY <1>a, <2>c, <2>d DEF Strong, SentInv
  <2>3. HeldInv'
    BY <1>a, <2>c, <2>d DEF Strong, HeldInv
  <2> QED
    BY <2>1, <2>2, <2>3 DEF Strong
<1> QED
  BY <1>1, <1>2, <1>3 DEF Engine

\* The initial states satisfy the invariant.
LEMMA InitInvariant == SafeFaults /\ Init => IInv
<1> SUFFICES ASSUME SafeFaults, Init PROVE IInv
  OBVIOUS
<1>1. TypeOK
  BY InitType
<1>2. FenceInv
  BY ActorsAssumption DEF Init, FenceInv, FencedTasks, Actors
<1>3. EngineInv
  BY DEF Init, EngineInit, EngineInv
<1>4. FileInv
  BY DEF Init, EngineInit, FileInv, Clean, Empty, Pair
<1>5. SentInv
  BY DEF Init, SentInv
<1>6. HeldInv
  BY DEF Init, HeldInv, NoPair
<1> QED
  BY <1>1, <1>2, <1>3, <1>4, <1>5, <1>6 DEF IInv

\* Every step keeps it.
LEMMA NextInvariant == SafeFaults /\ IInv /\ [Next]_vars => IInv'
<1> SUFFICES ASSUME SafeFaults, IInv, [Next]_vars PROVE IInv'
  OBVIOUS
<1>a. TypeOK /\ FenceInv /\ Strong
  BY DEF IInv, Strong
<1>1. ASSUME NEW p \in Procs, Progress(p) \/ WriteDraft(p) \/ Guard(p) \/ Restart(p) \/ Crash(p)
      PROVE  Strong'
  <2>1. ~Crash(p) /\ ~WriteDraft(p)
    BY <1>a DEF SafeFaults, Crash, WriteDraft, FenceInv, Actors
  <2> QED
    BY <1>1, <2>1, QuietKeeps, GrantKeeps, WriteKeeps DEF Progress, Guard
<1>2. ASSUME Login \/ Logout PROVE Strong'
  BY <1>2, CliKeeps
<1>3. ~WriteDraft(Cli)
  BY <1>a DEF WriteDraft, FenceInv, Actors
<1>4. ASSUME Engine PROVE Strong'
  BY <1>4, EngineKeeps
<1>5. ASSUME UNCHANGED vars PROVE Strong'
  <2>c. UNCHANGED <<issued, spent, replayed, stray, file, holder, task, draft, kept, cli, cliGot, post,
      reply, got>>
    BY <1>5 DEF vars
  <2>d. \A h : Clean(h) <=> Clean(h)'
    BY <2>c DEF Clean
  <2>1. FenceInv' /\ EngineInv' /\ FileInv'
    BY <1>a, <2>c, <2>d DEF Strong, FenceInv, EngineInv, FileInv
  <2>2. SentInv'
    BY <1>a, <2>c, <2>d DEF Strong, SentInv
  <2>3. HeldInv'
    BY <1>a, <2>c, <2>d DEF Strong, HeldInv
  <2> QED
    BY <2>1, <2>2, <2>3 DEF Strong
<1>6. Strong'
  BY <1>1, <1>2, <1>3, <1>4, <1>5 DEF Next
<1> QED
  BY <1>a, <1>6, NextType DEF IInv, Strong

\* The inductive invariant, for any number of processes, pairs and writes.
THEOREM Invariance ==
  ASSUME SafeFaults
  PROVE  Spec => []IInv
BY InitInvariant, NextInvariant, PTL DEF Spec

\* No process ever presents a refresh token the engine has spent.
THEOREM NeverReplayed ==
  ASSUME SafeFaults
  PROVE  Spec => []NoReplay
<1>1. IInv => NoReplay
  BY DEF IInv, EngineInv, NoReplay
<1> QED
  BY <1>1, Invariance, PTL

\* While the fence is free, a refresh token on disk is one the engine would take.
THEOREM DiskAlwaysClean ==
  ASSUME SafeFaults
  PROVE  Spec => []CleanDisk
<1>1. ASSUME IInv PROVE CleanDisk
  <2>1. SUFFICES ASSUME holder = NoOne, file.refresh PROVE Clean(file.gen)
    BY DEF CleanDisk, Clean
  <2>2. \A p \in Procs : task[p] \notin {"sent", "forget"}
    BY <1>1, <2>1, ActorsAssumption DEF IInv, FenceInv, FencedTasks, Actors
  <2> QED
    BY <1>1, <2>1, <2>2 DEF IInv, FileInv
<1> QED
  BY <1>1, Invariance, PTL
=============================================================================
