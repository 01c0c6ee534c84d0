----------------------------- MODULE ImportProofs -----------------------------
(* What the import of the built-in store guarantees for any entries, batch  *)
(* size and number of runs: every entry is proposed once, and a closed run  *)
(* accounts for its entries and for the proposals it added.                 *)
EXTENDS Import, FiniteSetTheorems, TLAPS

(* The proposals a run added. *)
Added(q, r) == {p \in q : p.by = r}

(* What the run under way has done so far. *)
PostingInv ==
  /\ counts.new = Cardinality(Added(queue, run))
  /\ counts.new + counts.reinforced = Cardinality(read \ rest)
  /\ \A e \in read \ rest : \E p \in queue : p.key = <<e>>

(* A run adds nothing before it opens and, once closed, nothing any more. *)
RunsInv ==
  /\ \A total \in closed : \A post \in late : post.run # total.run
  /\ stage = "posting" =>
       /\ run # 0
       /\ \A post \in late : post.run # run
       /\ \A total \in closed : total.run # run
  /\ stage = "opening" => run < MaxRuns /\ rest = read /\ counts = Zero

ImportInv ==
  /\ ImportTypeOK /\ IsFiniteSet(queue)
  /\ ProposedOnce /\ RunsInv
  /\ stage = "posting" => PostingInv
  /\ ImportComplete

---------------------------------------------------------------------------
(* Keys and finite sets. *)

LEMMA KeyTypes == \A e \in Entries : \A r : Key(e, r) = <<e>> /\ (r \in 1..MaxRuns => Key(e, r) \in Keys)
BY DEF Key, Keys

LEMMA KeyIsEntry ==
  ASSUME NEW k \in Keys
  PROVE  \E e \in Entries : k = <<e>> /\ k[1] = e
BY DEF Key, Keys

LEMMA FiniteEntries ==
  ASSUME NEW S \in SUBSET Entries
  PROVE  IsFiniteSet(S) /\ Cardinality(S) \in Nat /\ Cardinality(S) <= Cardinality(Entries)
BY ImportAssumption, FS_Subset, FS_CardinalityType

(* Disjoint parts add up. *)
LEMMA Parts ==
  ASSUME NEW S, NEW T, IsFiniteSet(S), IsFiniteSet(T), S \cap T = {}
  PROVE  IsFiniteSet(S \cup T) /\ Cardinality(S \cup T) = Cardinality(S) + Cardinality(T)
BY FS_Union, FS_EmptySet, FS_CardinalityType

(* The engine takes a batch: the run gains one proposal per fresh entry, no other run *)
(* gains any, and every entry of the batch is in the queue, once.                     *)
LEMMA Ingest ==
  ASSUME ImportTypeOK, IsFiniteSet(queue), ProposedOnce,
         NEW batch \in SUBSET Entries, NEW r \in 1..run, queue' = Ingested(batch, r)
  PROVE  /\ queue \subseteq queue' /\ queue' \subseteq [key : Keys, by : 1..run] /\ IsFiniteSet(queue')
         /\ Cardinality(Added(queue', r)) = Cardinality(Added(queue, r)) + Cardinality(Fresh(batch, r))
         /\ \A s : s # r => Added(queue', s) = Added(queue, s)
         /\ \A e \in batch : \E p \in queue' : p.key = <<e>>
         /\ ProposedOnce'
<1> DEFINE F == Fresh(batch, r)
           new(e) == [key |-> <<e>>, by |-> r]
           N == {new(e) : e \in F}
<1>1. F \subseteq batch /\ F \subseteq Entries /\ \A e \in F, p \in queue : p.key # <<e>>
  BY KeyTypes DEF Fresh
<1>2. queue' = queue \cup N
  BY <1>1, KeyTypes DEF Ingested
<1>3. r \in 1..MaxRuns /\ \A q \in queue : q.key \in Keys
  BY ImportAssumption DEF ImportTypeOK
<1>4. IsFiniteSet(N) /\ Cardinality(N) = Cardinality(F)
  <2> DEFINE f == [e \in F |-> new(e)]
  <2>1. f \in [F -> N] /\ \A a, b \in F : f[a] = f[b] => a = b
    <3>1. \A a, b : new(a) = new(b) => <<a>> = <<b>>
      OBVIOUS
    <3>2. \A a, b : <<a>> = <<b>> => a = b
      OBVIOUS
    <3> QED
      BY <3>1, <3>2
  <2>2. \A n \in N : \E e \in F : f[e] = n
    OBVIOUS
  <2>3. f \in Bijection(F, N)
    BY <2>1, <2>2 DEF Bijection, Injection, Surjection, IsInjective
  <2>4. IsFiniteSet(F)
    BY <1>1, FiniteEntries
  <2> QED
    BY <2>3, <2>4, FS_Bijection DEF ExistsBijection
<1>5. queue \cap N = {}
  BY <1>1
<1>6. N \subseteq [key : Keys, by : 1..run]
  BY <1>1, <1>3, KeyTypes
<1>7. Added(queue', r) = Added(queue, r) \cup N /\ Added(queue, r) \cap N = {} /\ IsFiniteSet(Added(queue, r))
  <2>1. Added(queue', r) = Added(queue, r) \cup N
    BY <1>2 DEF Added
  <2>2. Added(queue, r) \in SUBSET queue
    BY DEF Added
  <2> QED
    BY <2>1, <2>2, <1>5, FS_Subset
<1>8. Cardinality(Added(queue', r)) = Cardinality(Added(queue, r)) + Cardinality(F)
  BY <1>4, <1>7, Parts
<1>9. \A s : s # r => Added(queue', s) = Added(queue, s)
  BY <1>2 DEF Added
<1>10. \A e \in batch : \E p \in queue' : p.key = <<e>>
  <2> TAKE e \in batch
  <2>1. ASSUME e \in F PROVE new(e) \in queue' /\ new(e).key = <<e>>
    BY <1>2, <2>1
  <2>2. CASE e \notin F
    BY <1>2, <2>2, KeyTypes DEF Fresh
  <2> QED
    BY <2>1, <2>2
<1>11. ProposedOnce'
  <2> SUFFICES ASSUME NEW p \in queue', NEW q \in queue', p.key[1] = q.key[1]
               PROVE  p = q
    BY DEF ProposedOnce
  <2>1. CASE p \in queue /\ q \in queue
    BY <2>1 DEF ProposedOnce
  <2>2. \A x \in queue, e \in F : x.key[1] # e
    BY <1>1, <1>3, KeyIsEntry
  <2>3. \A e \in F : new(e).key[1] = e
    OBVIOUS
  <2>4. CASE p \in N /\ q \in N
    BY <2>3, <2>4
  <2> QED
    BY <1>2, <2>1, <2>2, <2>3, <2>4
<1>12. queue' \subseteq [key : Keys, by : 1..run]
  BY <1>2, <1>6 DEF ImportTypeOK
<1>13. IsFiniteSet(queue')
  BY <1>2, <1>4, FS_Union
<1> QED
  BY <1>2, <1>8, <1>9, <1>10, <1>11, <1>12, <1>13

---------------------------------------------------------------------------
(* The steps of the import, and of the commands that start and end it. *)
ImportMove ==
  \/ ImportStep \/ ImportGone \/ UNCHANGED imports
  \/ \E entries \in SUBSET Entries : ReadEntries(entries)

(* A closed run counts what it added, whatever other runs add. *)
ClosedCount ==
  \A total \in closed :
    /\ total.seen = total.new + total.reinforced
    /\ total.new = Cardinality(Added(queue, total.run))

LEMMA CompleteIs ==
  ImportComplete <=>
    /\ ClosedCount
    /\ stage = "reported" /\ read # {} =>
         /\ \A e \in read : \E p \in queue : p.key[1] = e
         /\ \E total \in closed : total.run = run /\ total.seen = Cardinality(read)
BY DEF ImportComplete, ClosedCount, Added

(* An answered batch. *)
LEMMA PostAnswered ==
  ASSUME ImportInv, NEW batch \in SUBSET rest, stage = "posting",
         queue' = Ingested(batch, run), rest' = rest \ batch, UNCHANGED <<stage, read, run, closed, late>>,
         counts' = [new |-> counts.new + Cardinality(Fresh(batch, run)),
                    reinforced |-> counts.reinforced + Cardinality(batch \ Fresh(batch, run))]
  PROVE  ImportInv'
<1> USE DEF ImportInv
<1>a. batch \in SUBSET Entries /\ run \in 1..run /\ run \in Nat
  BY ImportAssumption DEF ImportTypeOK, RunsInv
<1>b. /\ queue \subseteq queue' /\ queue' \subseteq [key : Keys, by : 1..run] /\ IsFiniteSet(queue')
      /\ Cardinality(Added(queue', run)) = Cardinality(Added(queue, run)) + Cardinality(Fresh(batch, run))
      /\ \A s : s # run => Added(queue', s) = Added(queue, s)
      /\ \A e \in batch : \E p \in queue' : p.key = <<e>>
      /\ ProposedOnce'
  BY <1>a, Ingest
<1>c. /\ Cardinality(batch) = Cardinality(Fresh(batch, run)) + Cardinality(batch \ Fresh(batch, run))
      /\ Cardinality(Fresh(batch, run)) \in Nat /\ Cardinality(batch \ Fresh(batch, run)) \in Nat
  <2> DEFINE A == Fresh(batch, run)
             B == batch \ Fresh(batch, run)
  <2>1. A \in SUBSET batch /\ A \cup B = batch /\ A \cap B = {} /\ A \in SUBSET Entries /\ B \in SUBSET Entries
    BY <1>a DEF Fresh
  <2>2. IsFiniteSet(A) /\ IsFiniteSet(B)
    BY <2>1, FiniteEntries
  <2> QED
    BY <2>1, <2>2, Parts, FS_CardinalityType
<1>d. /\ read \ rest' = (read \ rest) \cup batch
      /\ Cardinality(read \ rest') = Cardinality(read \ rest) + Cardinality(batch)
  <2>1. read \ rest' = (read \ rest) \cup batch /\ (read \ rest) \cap batch = {}
    BY DEF ImportTypeOK
  <2>2. read \ rest \in SUBSET Entries /\ batch \in SUBSET Entries
    BY <1>a DEF ImportTypeOK
  <2>3. IsFiniteSet(read \ rest) /\ IsFiniteSet(batch)
    BY <2>2, FiniteEntries
  <2> QED
    BY <2>1, <2>3, Parts
<1>e. Cardinality(read \ rest') \in Nat /\ Cardinality(read \ rest') <= Cardinality(Entries)
  <2>1. read \ rest' \in SUBSET Entries
    BY DEF ImportTypeOK
  <2> QED
    BY <2>1, FiniteEntries
<1>f. counts.new \in Nat /\ counts.reinforced \in Nat /\ Cardinality(Entries) \in Nat
  BY FiniteEntries DEF ImportTypeOK
<1>1. PostingInv'
  <2>1. counts'.new = Cardinality(Added(queue', run))
    BY <1>b DEF PostingInv
  <2>2. counts'.new + counts'.reinforced = Cardinality(read \ rest')
    BY <1>c, <1>d, <1>f DEF PostingInv
  <2>3. \A e \in read \ rest' : \E p \in queue' : p.key = <<e>>
    BY <1>b, <1>d DEF PostingInv
  <2> QED
    BY <2>1, <2>2, <2>3 DEF PostingInv
<1>2. ImportTypeOK'
  <2>1. counts' \in [new : 0..Cardinality(Entries), reinforced : 0..Cardinality(Entries)]
    BY <1>1, <1>c, <1>e, <1>f DEF PostingInv
  <2> QED
    BY <1>b, <2>1 DEF ImportTypeOK
<1>3. RunsInv'
  BY DEF RunsInv
<1>4. ImportComplete'
  <2>1. ClosedCount'
    <3> SUFFICES ASSUME NEW total \in closed
                 PROVE  total.seen = total.new + total.reinforced /\ total.new = Cardinality(Added(queue', total.run))
      BY DEF ClosedCount
    <3>1. total.run # run
      BY DEF RunsInv
    <3> QED
      BY <3>1, <1>b, CompleteIs DEF ClosedCount
  <2> QED
    BY <2>1 DEF ImportComplete, ClosedCount, Added
<1> QED
  BY <1>b, <1>1, <1>2, <1>3, <1>4

(* A batch whose answer is lost, in time or late: the proposals of an earlier or *)
(* failed run may still grow.                                                    *)
LEMMA LandsUnheard ==
  ASSUME ImportInv, NEW batch \in SUBSET Entries, NEW r \in 1..run, queue' = Ingested(batch, r),
         stage' # "posting" \/ r # run, \A total \in closed : total.run # r,
         stage' \in {stage, "failed"}, late' \subseteq late, UNCHANGED <<read, rest, run, counts, closed>>
  PROVE  ImportInv'
<1> USE DEF ImportInv
<1>b. /\ queue \subseteq queue' /\ queue' \subseteq [key : Keys, by : 1..run] /\ IsFiniteSet(queue')
      /\ \A s : s # r => Added(queue', s) = Added(queue, s)
      /\ ProposedOnce'
  BY Ingest
<1>1. ImportTypeOK'
  BY <1>b DEF ImportTypeOK
<1>2. RunsInv'
  BY DEF RunsInv
<1>3. stage' = "posting" => PostingInv'
  <2> SUFFICES ASSUME stage' = "posting" PROVE PostingInv'
    OBVIOUS
  <2>1. stage = "posting" /\ Added(queue', run) = Added(queue, run)
    BY <1>b
  <2> QED
    BY <1>b, <2>1 DEF PostingInv
<1>4. ClosedCount'
  BY <1>b, CompleteIs DEF ClosedCount
<1>5. ImportComplete'
  BY <1>b, <1>4 DEF ImportComplete, ClosedCount, Added
<1> QED
  BY <1>b, <1>1, <1>2, <1>3, <1>5

(* Where the queue does not change. *)
LEMMA QueueStays ==
  ASSUME ImportInv, UNCHANGED queue,
         ImportTypeOK', RunsInv', stage' = "posting" => PostingInv',
         stage' = "reported" /\ read' # {} => UNCHANGED <<stage, read, run, closed>>, UNCHANGED closed
  PROVE  ImportInv'
BY DEF ImportInv, ProposedOnce, ImportComplete

LEMMA ImportNext == ImportInv /\ ImportMove => ImportInv'
<1> SUFFICES ASSUME ImportInv, ImportMove PROVE ImportInv'
  OBVIOUS
<1>a. run \in Nat /\ MaxRuns \in Nat
  BY ImportAssumption DEF ImportInv, ImportTypeOK
<1>b. /\ \A e \in Entries : TRUE
      /\ Zero \in [new : 0..Cardinality(Entries), reinforced : 0..Cardinality(Entries)]
  BY FiniteEntries DEF Zero
<1>1. CASE OpenRun
  <2>1. /\ stage = "opening" /\ run' \in {run, run + 1} /\ stage' \in {"posting", "failed"}
        /\ stage' = "posting" => run' = run + 1
        /\ UNCHANGED <<read, rest, counts, queue, closed, late>>
    BY <1>1 DEF OpenRun
  <2>2. run < MaxRuns /\ rest = read /\ counts = Zero
    BY <2>1 DEF ImportInv, RunsInv
  <2>3. ImportTypeOK'
    BY <1>a, <2>1, <2>2 DEF ImportInv, ImportTypeOK
  <2>4. RunsInv'
    BY <1>a, <2>1 DEF ImportInv, ImportTypeOK, RunsInv
  <2>5. ASSUME stage' = "posting" PROVE PostingInv'
    <3>1. read' \ rest' = {} /\ run' = run + 1
      BY <2>1, <2>2, <2>5
    <3>2. \A p \in queue : p.by # run + 1
      BY <1>a DEF ImportInv, ImportTypeOK
    <3>3. Added(queue', run') = {}
      BY <2>1, <3>1, <3>2 DEF Added
    <3> QED
      BY <2>1, <2>2, <3>1, <3>3, FS_EmptySet DEF PostingInv, Zero
  <2> QED
    BY <2>1, <2>3, <2>4, <2>5, QueueStays
<1>2. CASE CloseRun
  <2> DEFINE totals == [run |-> run, seen |-> Cardinality(read),
                        new |-> counts.new, reinforced |-> counts.reinforced]
  <2>1. /\ stage = "posting" /\ rest = {} /\ stage' \in {"reported", "failed"}
        /\ closed' = closed \cup {totals} \/ (stage' = "failed" /\ closed' = closed)
        /\ UNCHANGED <<read, rest, run, counts, queue, late>>
    BY <1>2 DEF CloseRun
  <2>2. PostingInv /\ RunsInv /\ run # 0
    BY <2>1 DEF ImportInv, RunsInv
  <2>3. ImportTypeOK'
    BY <1>a, <2>1, <2>2 DEF ImportInv, ImportTypeOK
  <2>4. RunsInv'
    BY <2>1, <2>2 DEF RunsInv
  <2>5. read \ rest = read
    BY <2>1
  <2>6. ClosedCount'
    BY <2>1, <2>2, <2>5, CompleteIs DEF ImportInv, ClosedCount, PostingInv, Added
  <2>7. \A e \in read : \E p \in queue : p.key[1] = e
    <3>1. \A e \in read : \E p \in queue : p.key = <<e>>
      BY <2>2, <2>5 DEF PostingInv
    <3>2. \A e : <<e>>[1] = e
      OBVIOUS
    <3> QED
      BY <3>1, <3>2
  <2>8. stage' = "reported" => \E total \in closed' : total.run = run /\ total.seen = Cardinality(read)
    <3>1. totals.run = run /\ totals.seen = Cardinality(read)
      OBVIOUS
    <3>2. stage' = "reported" => totals \in closed'
      BY <2>1
    <3> QED
      BY <3>1, <3>2
  <2>9. ImportComplete'
    BY <2>1, <2>6, <2>7, <2>8 DEF ImportComplete, ClosedCount, Added
  <2> QED
    BY <2>1, <2>3, <2>4, <2>9 DEF ImportInv, ProposedOnce
<1>3. ASSUME NEW batch \in Batches, Post(batch)
      PROVE  ImportInv'
  <2>1. batch \in SUBSET rest /\ batch \in SUBSET Entries /\ stage = "posting" /\ run \in 1..run
    BY <1>3, <1>a DEF Batches, Post, ImportInv, ImportTypeOK, RunsInv
  <2>2. CASE stage' = stage
    BY <1>3, <2>1, <2>2, PostAnswered DEF Post
  <2>3. \A total \in closed : total.run # run
    BY <2>1 DEF ImportInv, RunsInv
  <2>4. CASE stage' = "failed" /\ queue' = Ingested(batch, run) /\ late' = late
    BY <1>3, <2>1, <2>3, <2>4, LandsUnheard DEF Post
  <2>5. CASE stage' = "failed" /\ queue' = queue
    <3>1. UNCHANGED <<read, rest, run, counts, closed>> /\ late' \subseteq late \cup {[batch |-> batch, run |-> run]}
      BY <1>3, <2>1, <2>5 DEF Post
    <3>2. ImportTypeOK'
      BY <2>1, <2>5, <3>1 DEF ImportInv, ImportTypeOK
    <3>3. RunsInv'
      BY <2>3, <2>5, <3>1 DEF ImportInv, RunsInv
    <3> QED
      BY <2>5, <3>1, <3>2, <3>3, QueueStays
  <2> QED
    BY <1>3, <2>2, <2>4, <2>5 DEF Post
<1>4. ASSUME NEW post \in late, LateLands(post)
      PROVE  ImportInv'
  <2>1. post.batch \in SUBSET Entries /\ post.run \in 1..run
    BY DEF ImportInv, ImportTypeOK
  <2>2. (stage = "posting" => post.run # run) /\ \A total \in closed : total.run # post.run
    BY DEF ImportInv, RunsInv
  <2> QED
    BY <1>4, <2>1, <2>2, LandsUnheard DEF LateLands
<1>5. ASSUME NEW entries \in SUBSET Entries, ReadEntries(entries)
      PROVE  ImportInv'
  <2>1. /\ read' = entries /\ rest' = entries /\ counts' = Zero /\ UNCHANGED <<run, queue, closed, late>>
        /\ stage' = (IF entries = {} THEN "reported" ELSE "opening") /\ (entries # {} => run < MaxRuns)
    BY <1>5 DEF ReadEntries
  <2>2. ImportTypeOK'
    BY <1>b, <2>1 DEF ImportInv, ImportTypeOK
  <2>3. RunsInv'
    BY <2>1 DEF ImportInv, RunsInv
  <2> QED
    BY <2>1, <2>2, <2>3, QueueStays
<1>6. CASE ImportGone
  <2>1. /\ stage' = "idle" /\ read' = {} /\ rest' = {} /\ counts' = Zero
        /\ UNCHANGED <<run, queue, closed, late>>
    BY <1>6 DEF ImportGone
  <2>2. ImportTypeOK'
    BY <1>b, <2>1 DEF ImportInv, ImportTypeOK
  <2>3. RunsInv'
    BY <2>1 DEF ImportInv, RunsInv
  <2> QED
    BY <2>1, <2>2, <2>3, QueueStays
<1>7. CASE UNCHANGED imports
  <2>1. UNCHANGED <<stage, read, rest, run, counts, queue, closed, late>>
    BY <1>7 DEF imports
  <2> QED
    BY <2>1 DEF ImportInv, ImportTypeOK, RunsInv, PostingInv, ProposedOnce, ImportComplete, Added
<1> QED
  BY <1>1, <1>2, <1>3, <1>4, <1>5, <1>6, <1>7 DEF ImportMove, ImportStep

LEMMA ImportInitially == ImportInit => ImportInv
<1> SUFFICES ASSUME ImportInit PROVE ImportInv
  OBVIOUS
<1>1. /\ stage = "idle" /\ read = {} /\ rest = {} /\ counts = Zero
      /\ run = 0 /\ queue = {} /\ closed = {} /\ late = {}
  BY DEF ImportInit
<1>2. ImportTypeOK
  BY <1>1, FiniteEntries, ImportAssumption DEF ImportTypeOK, Zero
<1> QED
  BY <1>1, <1>2, FS_EmptySet DEF ImportInv, ProposedOnce, RunsInv, ImportComplete
============================================================================
