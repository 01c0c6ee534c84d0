---------------------------- MODULE RecallProofs ----------------------------
(* What one provider guarantees for any identities, authors, memories,      *)
(* settings and lag of the sync worker.                                     *)
EXTENDS Recall, FiniteSetTheorems, TLAPS

---------------------------------------------------------------------------
(* compose, unfolded for the five parts a prefetch has. *)

(* One step of the fold, and its start. *)
Keep(acc, p) ==
  IF p.size = 0 \/ acc.full THEN acc
  ELSE IF acc.total + p.size > Room THEN [acc EXCEPT !.full = TRUE]
  ELSE [acc EXCEPT !.total = @ + p.size, !.kept = @ \cup {p.part}]
Nothing == [kept |-> {}, total |-> 0, full |-> FALSE]

(* f folds the parts of every set of positions. *)
IsFold(f, parts) ==
  f = [s \in SUBSET (DOMAIN parts) |->
         IF s = {} THEN Nothing ELSE Keep(f[s \ {Max(s)}], parts[Max(s)])]

LEMMA ComposeIsFold ==
  ASSUME NEW parts
  PROVE Compose(parts) = (CHOOSE f : IsFold(f, parts))[DOMAIN parts].kept
BY DEF Compose, FoldLeft, MapThenFoldSet, IsFold, Keep, Nothing

LEMMA MaxOf ==
  ASSUME NEW s \in SUBSET (1..5), NEW m \in s, \A i \in s : i <= m
  PROVE  Max(s) = m
<1>1. m \in s /\ \A y \in s : m >= y
  OBVIOUS
<1>2. \A x \in s : (\A y \in s : x >= y) => x = m
  OBVIOUS
<1>3. Max(s) \in s /\ \A y \in s : Max(s) >= y
  BY <1>1 DEF Max
<1> QED
  BY <1>2, <1>3

LEMMA FoldExists ==
  ASSUME NEW parts, DOMAIN parts = 1..5
  PROVE  \E f : IsFold(f, parts)
<1> DEFINE take(acc, i, s) == IF i \in s THEN Keep(acc, parts[i]) ELSE acc
           upto(s) == take(take(take(take(take(Nothing, 1, s), 2, s), 3, s), 4, s), 5, s)
           f == [s \in SUBSET (1..5) |-> upto(s)]
<1>1. ASSUME NEW s \in SUBSET (1..5), s # {}
      PROVE  upto(s) = Keep(upto(s \ {Max(s)}), parts[Max(s)])
  <2>1. ASSUME NEW m \in s, \A i \in s : i <= m
        PROVE  upto(s) = Keep(upto(s \ {m}), parts[m])
    <3>1. m \in 1..5
      OBVIOUS
    <3>2. CASE m = 1
      <4>1. 2 \notin s /\ 3 \notin s /\ 4 \notin s /\ 5 \notin s
        BY <2>1, <3>2
      <4> QED
        BY <3>2, <4>1
    <3>3. CASE m = 2
      <4>1. 3 \notin s /\ 4 \notin s /\ 5 \notin s
        BY <2>1, <3>3
      <4> QED
        BY <3>3, <4>1
    <3>4. CASE m = 3
      <4>1. 4 \notin s /\ 5 \notin s
        BY <2>1, <3>4
      <4> QED
        BY <3>4, <4>1
    <3>5. CASE m = 4
      <4>1. 5 \notin s
        BY <2>1, <3>5
      <4> QED
        BY <3>5, <4>1
    <3>6. CASE m = 5
      BY <3>6
    <3> QED
      BY <3>1, <3>2, <3>3, <3>4, <3>5, <3>6
  <2>2. \E m \in s : \A i \in s : i <= m
    <3>1. \A i \in s : i = 1 \/ i = 2 \/ i = 3 \/ i = 4 \/ i = 5
      OBVIOUS
    <3>2. CASE 5 \in s
      BY <3>1, <3>2
    <3>3. CASE 5 \notin s /\ 4 \in s
      BY <3>1, <3>3
    <3>4. CASE 5 \notin s /\ 4 \notin s /\ 3 \in s
      BY <3>1, <3>4
    <3>5. CASE 5 \notin s /\ 4 \notin s /\ 3 \notin s /\ 2 \in s
      BY <3>1, <3>5
    <3>6. CASE 5 \notin s /\ 4 \notin s /\ 3 \notin s /\ 2 \notin s
      <4>1. 1 \in s /\ \A i \in s : i = 1
        BY <1>1, <3>1, <3>6
      <4> QED
        BY <4>1
    <3> QED
      BY <3>2, <3>3, <3>4, <3>5, <3>6
  <2>3. PICK m \in s : \A i \in s : i <= m
    BY <2>2
  <2>4. Max(s) = m
    BY <2>3, MaxOf
  <2> HIDE DEF upto
  <2> QED
    BY <2>1, <2>3, <2>4
<1>2. upto({}) = Nothing
  OBVIOUS
<1> HIDE DEF upto
<1>3. \A s \in SUBSET (1..5) : s # {} => f[s \ {Max(s)}] = upto(s \ {Max(s)})
  OBVIOUS
<1>4. f = [s \in SUBSET (1..5) |->
             IF s = {} THEN Nothing ELSE Keep(f[s \ {Max(s)}], parts[Max(s)])]
  BY <1>1, <1>2, <1>3
<1>5. IsFold(f, parts)
  BY <1>4 DEF IsFold
<1> HIDE DEF f
<1> QED
  BY <1>5

LEMMA ComposeFive ==
  ASSUME NEW parts, DOMAIN parts = 1..5
  PROVE  Compose(parts) =
           Keep(Keep(Keep(Keep(Keep(Nothing, parts[1]), parts[2]), parts[3]), parts[4]), parts[5]).kept
<1> DEFINE f == CHOOSE f : IsFold(f, parts)
<1>1. IsFold(f, parts)
  BY FoldExists
<1>2. Compose(parts) = f[1..5].kept
  BY ComposeIsFold
<1> HIDE DEF f
<1>3. \A s \in SUBSET (1..5) :
        f[s] = IF s = {} THEN Nothing ELSE Keep(f[s \ {Max(s)}], parts[Max(s)])
  BY <1>1, Zenon DEF IsFold
<1>4. ASSUME NEW s \in SUBSET (1..5), NEW m \in s, \A i \in s : i <= m
      PROVE  f[s] = Keep(f[s \ {m}], parts[m])
  BY <1>3, <1>4, MaxOf
<1>5. f[{}] = Nothing
  BY <1>3
<1>6. f[1..1] = Keep(f[{}], parts[1])
  <2>1. (1..1) \ {1} = {} /\ 1 \in 1..1 /\ 1..1 \in SUBSET (1..5) /\ \A i \in 1..1 : i <= 1
    OBVIOUS
  <2> QED
    BY <1>4, <2>1
<1>7. ASSUME NEW n \in 2..5
      PROVE  f[1..n] = Keep(f[1..(n - 1)], parts[n])
  <2>1. (1..n) \ {n} = 1..(n - 1) /\ n \in 1..n /\ 1..n \in SUBSET (1..5) /\ \A i \in 1..n : i <= n
    OBVIOUS
  <2> QED
    BY <1>4, <2>1
<1> HIDE DEF Keep, Nothing
<1>8. /\ f[1..2] = Keep(f[1..1], parts[2]) /\ f[1..3] = Keep(f[1..2], parts[3])
      /\ f[1..4] = Keep(f[1..3], parts[4]) /\ f[1..5] = Keep(f[1..4], parts[5])
  <2>1. 2 - 1 = 1 /\ 3 - 1 = 2 /\ 4 - 1 = 3 /\ 5 - 1 = 4 /\ {2, 3, 4, 5} \subseteq 2..5
    OBVIOUS
  <2> QED
    BY <1>7, <2>1
<1> QED
  BY <1>2, <1>5, <1>6, <1>8

(* The parts that have something to say. *)
Wanted(parts) == {p.part : p \in {q \in ToSet(parts) : q.size > 0}}

(* One part: kept while it fits, and never kept when it is empty. *)
LEMMA KeepOne ==
  ASSUME NEW acc \in [kept : SUBSET Parts, total : Nat, full : BOOLEAN],
         NEW p \in [part : Parts, size : Nat]
  PROVE  /\ Keep(acc, p) \in [kept : SUBSET Parts, total : Nat, full : BOOLEAN]
         /\ Keep(acc, p).kept \subseteq acc.kept \cup (IF p.size > 0 THEN {p.part} ELSE {})
         /\ ~acc.full /\ acc.total + p.size <= Room =>
              /\ Keep(acc, p).kept = acc.kept \cup (IF p.size > 0 THEN {p.part} ELSE {})
              /\ Keep(acc, p).total = acc.total + p.size
              /\ ~Keep(acc, p).full
<1>a. /\ Room \in Nat /\ acc.total \in Nat /\ p.size \in Nat
      /\ acc.kept \in SUBSET Parts /\ p.part \in Parts
  BY RecallAssumption
<1>1. CASE p.size = 0
  BY <1>1 DEF Keep
<1>2. CASE p.size # 0 /\ acc.full
  BY <1>2 DEF Keep
<1>3. CASE p.size # 0 /\ ~acc.full /\ acc.total + p.size > Room
  <2>1. Keep(acc, p) = [acc EXCEPT !.full = TRUE]
    BY <1>3 DEF Keep
  <2>2. Keep(acc, p) \in [kept : SUBSET Parts, total : Nat, full : BOOLEAN]
    BY <2>1
  <2>3. Keep(acc, p).kept = acc.kept /\ ~(acc.total + p.size <= Room)
    BY <1>a, <1>3, <2>1
  <2> QED
    BY <2>2, <2>3
<1>4. CASE p.size # 0 /\ ~acc.full /\ acc.total + p.size <= Room
  <2>1. Keep(acc, p) = [acc EXCEPT !.total = @ + p.size, !.kept = @ \cup {p.part}]
    BY <1>a, <1>4 DEF Keep
  <2>2. p.size > 0 /\ acc.total + p.size \in Nat /\ acc.kept \cup {p.part} \in SUBSET Parts
    BY <1>a, <1>4
  <2>3. /\ Keep(acc, p).kept = acc.kept \cup {p.part} /\ Keep(acc, p).total = acc.total + p.size
        /\ Keep(acc, p).full = acc.full
    BY <2>1
  <2>4. Keep(acc, p) \in [kept : SUBSET Parts, total : Nat, full : BOOLEAN]
    BY <2>1, <2>2
  <2> QED
    BY <1>4, <2>2, <2>3, <2>4
<1> QED
  BY <1>a, <1>1, <1>2, <1>3, <1>4

(* What compose keeps has a size; where there is room for all, it keeps all. *)
LEMMA ComposeKeeps ==
  ASSUME NEW parts, DOMAIN parts = 1..5, \A i \in 1..5 : parts[i] \in [part : Parts, size : Nat]
  PROVE  /\ Compose(parts) \subseteq Wanted(parts)
         /\ parts[1].size + parts[2].size + parts[3].size + parts[4].size + parts[5].size <= Room
              => Compose(parts) = Wanted(parts)
<1> DEFINE Acc == [kept : SUBSET Parts, total : Nat, full : BOOLEAN]
           of(i) == IF parts[i].size > 0 THEN {parts[i].part} ELSE {}
           size(i) == parts[i].size
           a1 == Keep(Nothing, parts[1])
           a2 == Keep(a1, parts[2])
           a3 == Keep(a2, parts[3])
           a4 == Keep(a3, parts[4])
           a5 == Keep(a4, parts[5])
<1>1. Nothing \in Acc /\ Nothing.kept = {} /\ Nothing.total = 0 /\ ~Nothing.full
  BY DEF Nothing
<1>2. Compose(parts) = a5.kept
  BY ComposeFive
<1>3. Wanted(parts) = of(1) \cup of(2) \cup of(3) \cup of(4) \cup of(5)
  BY DEF Wanted, ToSet
<1>4. ASSUME NEW acc \in Acc, NEW i \in 1..5
      PROVE  /\ Keep(acc, parts[i]) \in Acc
             /\ Keep(acc, parts[i]).kept \subseteq acc.kept \cup of(i)
             /\ ~acc.full /\ acc.total + size(i) <= Room =>
                  /\ Keep(acc, parts[i]).kept = acc.kept \cup of(i)
                  /\ Keep(acc, parts[i]).total = acc.total + size(i)
                  /\ ~Keep(acc, parts[i]).full
  BY <1>4, KeepOne
<1>5. a1 \in Acc /\ a2 \in Acc /\ a3 \in Acc /\ a4 \in Acc /\ a5 \in Acc
  BY <1>1, <1>4
<1>6. \A i \in 1..5 : size(i) \in Nat
  OBVIOUS
<1> HIDE DEF of, size, Acc
<1>7. a5.kept \subseteq of(1) \cup of(2) \cup of(3) \cup of(4) \cup of(5)
  <2>1. a1.kept \subseteq of(1)
    BY <1>1, <1>4
  <2>2. a2.kept \subseteq a1.kept \cup of(2) /\ a3.kept \subseteq a2.kept \cup of(3)
    BY <1>4, <1>5
  <2>3. a4.kept \subseteq a3.kept \cup of(4) /\ a5.kept \subseteq a4.kept \cup of(5)
    BY <1>4, <1>5
  <2> QED
    BY <2>1, <2>2, <2>3
<1>8. ASSUME size(1) + size(2) + size(3) + size(4) + size(5) <= Room
      PROVE  a5.kept = of(1) \cup of(2) \cup of(3) \cup of(4) \cup of(5)
  <2>0. Room \in Nat
    BY RecallAssumption
  <2>00. {1, 2, 3, 4, 5} \subseteq 1..5
    OBVIOUS
  <2>1. a1.kept = of(1) /\ a1.total = size(1) /\ ~a1.full
    <3>1. 0 + size(1) <= Room
      BY <1>6, <1>8, <2>0, <2>00
    <3>2. /\ a1.kept = {} \cup of(1) /\ a1.total = 0 + size(1) /\ ~a1.full
      BY <1>1, <1>4, <2>00, <3>1
    <3> QED
      BY <1>6, <2>00, <3>2
  <2>2. a2.kept = of(1) \cup of(2) /\ a2.total = size(1) + size(2) /\ ~a2.full
    BY <1>4, <1>5, <1>6, <1>8, <2>0, <2>1
  <2>3. /\ a3.kept = of(1) \cup of(2) \cup of(3) /\ ~a3.full
        /\ a3.total = size(1) + size(2) + size(3)
    BY <1>4, <1>5, <1>6, <1>8, <2>0, <2>2
  <2>4. /\ a4.kept = of(1) \cup of(2) \cup of(3) \cup of(4) /\ ~a4.full
        /\ a4.total = size(1) + size(2) + size(3) + size(4)
    BY <1>4, <1>5, <1>6, <1>8, <2>0, <2>3
  <2> QED
    BY <1>4, <1>5, <1>6, <1>8, <2>0, <2>4
<1> QED
  BY <1>2, <1>3, <1>7, <1>8 DEF size

---------------------------------------------------------------------------
(* The end of a prefetch, its parts named. *)

Hits(d, s, ids) == IF Ending(d, s) = "ok" THEN ids ELSE {}
DigestSize(d, text) == IF call.digest /\ d = "ok" THEN text ELSE 0
SaysLogin(d, s) == Ending(d, s) = "login" /\ ~told
SaysOutage(d, s) == Ending(d, s) = "outage" /\ failures = 0
Nudges(d, s) == due /\ ident.context = "primary" /\ Ending(d, s) \in {"ok", "tool_error"}

Block(d, s, text, ids) ==
  <<Part("digest", DigestSize(d, text)), LineIf("login", SaysLogin(d, s)),
    LineIf("outage", SaysOutage(d, s)), Part("hits", Cardinality(Hits(d, s, ids))),
    LineIf("nudge", Nudges(d, s))>>

LEMMA PrefetchEnds ==
  ASSUME NEW d, NEW s, NEW text, NEW ids, EndPrefetch(d, s, text, ids)
  PROVE  /\ stage = "waiting" /\ stage' = "running" /\ call' = NoCall
         /\ TakeDigest(d) /\ Record(Ending(d, s))
         /\ told' = (told \/ SaysLogin(d, s)) /\ injected' = injected \cup Hits(d, s, ids)
         /\ due' = (due /\ ~Nudges(d, s))
         /\ made' = Wanted(Block(d, s, text, ids))
                     \cup IF call.digest /\ d = "ok" /\ text = 0 THEN {Empty} ELSE {}
         /\ shown' = Compose(Block(d, s, text, ids))
         /\ seen' = [m \in Ids |-> IF m \in Hits(d, s, ids) /\ "hits" \in shown'
                                   THEN seen[m] + 1 ELSE seen[m]]
         /\ warned' = (Ending(d, s) # "ok" /\ (warned \/ "outage" \in shown'))
         /\ credit' = IF Nudges(d, s) THEN credit - Interval ELSE credit
         /\ UNCHANGED <<status, ident, author, speaker, turns, queue, reached>>
BY DEF EndPrefetch, Hits, DigestSize, SaysLogin, SaysOutage, Nudges, Block, Wanted

(* The sizes of the parts, and which of them are wanted. *)
LEMMA BlockSizes ==
  ASSUME NEW d \in Outcomes, NEW s \in Outcomes, NEW text \in Sizes, NEW ids \in Fitting(Ids)
  PROVE  LET hits == Hits(d, s, ids)
             block == Block(d, s, text, ids)
         IN  /\ hits \in SUBSET (Ids \ injected) /\ Cardinality(hits) \in 0..HitsMax
             /\ DOMAIN block = 1..5 /\ \A i \in 1..5 : block[i] \in [part : Parts, size : Nat]
             /\ block[1].size <= DigestMax /\ block[4].size <= HitsMax
             /\ block[1].size = DigestSize(d, text) /\ block[4].size = Cardinality(hits)
             /\ \A i \in {2, 3, 5} : block[i].size \in {0, Line}
             /\ block[2].size + block[3].size + block[5].size <= Line
             /\ block[2].size + block[3].size > 0 => hits = {}
             /\ "digest" \in Wanted(block) <=> DigestSize(d, text) > 0
             /\ "hits" \in Wanted(block) <=> hits # {}
             /\ "outage" \in Wanted(block) <=> SaysOutage(d, s)
             /\ Wanted(block) \subseteq Parts
<1> DEFINE hits == Hits(d, s, ids)
           block == Block(d, s, text, ids)
<1>1. hits \in SUBSET (Ids \ injected) /\ IsFiniteSet(hits) /\ Cardinality(hits) \in 0..HitsMax
      /\ (Cardinality(hits) = 0 <=> hits = {})
  <2>1. ids \in SUBSET (Ids \ injected) /\ Cardinality(ids) <= HitsMax /\ HitsMax \in Nat
    BY RecallAssumption DEF Fitting
  <2>2. hits = ids \/ hits = {}
    BY DEF Hits
  <2>3. IsFiniteSet(ids) /\ Cardinality(ids) \in Nat
    BY <2>1, RecallAssumption, FS_Subset, FS_CardinalityType
  <2>4. Cardinality({}) = 0 /\ IsFiniteSet({}) /\ (Cardinality(ids) = 0 <=> ids = {})
    BY <2>3, FS_EmptySet
  <2> QED
    BY <2>1, <2>2, <2>3, <2>4
<1>2. DigestSize(d, text) \in Nat /\ DigestSize(d, text) <= DigestMax
  BY RecallAssumption DEF DigestSize, Sizes
<1>3. /\ DOMAIN block = 1..5
      /\ block[1] = [part |-> "digest", size |-> DigestSize(d, text)]
      /\ block[2] = [part |-> "login", size |-> IF SaysLogin(d, s) THEN 1 ELSE 0]
      /\ block[3] = [part |-> "outage", size |-> IF SaysOutage(d, s) THEN 1 ELSE 0]
      /\ block[4] = [part |-> "hits", size |-> Cardinality(hits)]
      /\ block[5] = [part |-> "nudge", size |-> IF Nudges(d, s) THEN 1 ELSE 0]
  BY DEF Block, Part, LineIf, Line
<1>4. /\ ~(SaysLogin(d, s) /\ SaysOutage(d, s)) /\ ~(SaysLogin(d, s) /\ Nudges(d, s))
      /\ ~(SaysOutage(d, s) /\ Nudges(d, s)) /\ (SaysLogin(d, s) \/ SaysOutage(d, s) => hits = {})
  BY DEF SaysLogin, SaysOutage, Nudges, Hits
<1> HIDE DEF hits, block
<1>5. \A i \in 1..5 : block[i] \in [part : Parts, size : Nat]
  <2>1. {"digest", "login", "outage", "hits", "nudge"} \subseteq Parts /\ Cardinality(hits) \in Nat
    BY <1>1 DEF Parts
  <2> QED
    BY <1>2, <1>3, <2>1
<1>6. \A part : part \in Wanted(block) <=> \E i \in 1..5 : block[i].part = part /\ block[i].size > 0
  BY <1>3 DEF Wanted, ToSet
<1>7. /\ "digest" \in Wanted(block) <=> DigestSize(d, text) > 0
      /\ "hits" \in Wanted(block) <=> hits # {}
      /\ "outage" \in Wanted(block) <=> SaysOutage(d, s)
  <2>1. "digest" \in Wanted(block) <=> block[1].size > 0
    BY <1>3, <1>6
  <2>2. "hits" \in Wanted(block) <=> block[4].size > 0
    BY <1>3, <1>6
  <2>3. "outage" \in Wanted(block) <=> block[3].size > 0
    BY <1>3, <1>6
  <2> QED
    BY <1>1, <1>3, <2>1, <2>2, <2>3
<1>8. Wanted(block) \subseteq Parts
  BY <1>5, <1>6
<1>9. /\ block[1].size <= DigestMax /\ block[4].size <= HitsMax
      /\ block[1].size = DigestSize(d, text) /\ block[4].size = Cardinality(hits)
  BY <1>1, <1>2, <1>3
<1>10. /\ \A i \in {2, 3, 5} : block[i].size \in {0, Line}
       /\ block[2].size + block[3].size + block[5].size <= Line
       /\ block[2].size + block[3].size > 0 => hits = {}
  BY <1>3, <1>4 DEF Line
<1> QED
  BY <1>1, <1>3, <1>5, <1>7, <1>8, <1>9, <1>10 DEF hits, block

---------------------------------------------------------------------------
(* The owner's turns in the queue of the sync worker. *)

Owed(q) == {i \in DOMAIN q : TurnAllowed(ident, q[i])}

LEMMA OwedTypes ==
  ASSUME NEW q \in Seq(Authors)
  PROVE  IsFiniteSet(Owed(q)) /\ Cardinality(Owed(q)) \in Nat /\ Cardinality(Owed(q)) <= Len(q)
<1>1. Len(q) \in Nat /\ DOMAIN q = 1..Len(q)
  OBVIOUS
<1>2. IsFiniteSet(1..Len(q)) /\ Cardinality(1..Len(q)) = Len(q)
  BY <1>1, FS_Interval
<1>3. Owed(q) \in SUBSET (1..Len(q))
  BY <1>1 DEF Owed
<1> QED
  BY <1>2, <1>3, FS_Subset, FS_CardinalityType

LEMMA OwedAppend ==
  ASSUME NEW q \in Seq(Authors), NEW a \in Authors
  PROVE  Cardinality(Owed(Append(q, a))) = Cardinality(Owed(q)) + (IF TurnAllowed(ident, a) THEN 1 ELSE 0)
<1> DEFINE n == Len(q) + 1
<1>1. /\ n \in Nat /\ DOMAIN q = 1..(n - 1) /\ n \notin DOMAIN q /\ DOMAIN Append(q, a) = DOMAIN q \cup {n}
      /\ Append(q, a)[n] = a /\ \A i \in DOMAIN q : Append(q, a)[i] = q[i]
  OBVIOUS
<1> HIDE DEF n
<1>2. Owed(Append(q, a)) = IF TurnAllowed(ident, a) THEN Owed(q) \cup {n} ELSE Owed(q)
  BY <1>1 DEF Owed
<1>3. n \notin Owed(q)
  BY <1>1 DEF Owed
<1>4. CASE TurnAllowed(ident, a)
  <2>1. Cardinality(Owed(q) \cup {n}) = Cardinality(Owed(q)) + 1
    BY <1>3, OwedTypes, FS_AddElement
  <2> QED
    BY <1>2, <1>4, <2>1
<1>5. CASE ~TurnAllowed(ident, a)
  BY <1>2, <1>5, OwedTypes
<1> QED
  BY <1>4, <1>5

LEMMA OwedTail ==
  ASSUME NEW q \in Seq(Authors), q # <<>>
  PROVE  Cardinality(Owed(q)) = Cardinality(Owed(Tail(q))) + (IF TurnAllowed(ident, Head(q)) THEN 1 ELSE 0)
<1>1. /\ Len(q) \in Nat /\ DOMAIN q = 1..Len(q) /\ 1 \in DOMAIN q /\ Head(q) = q[1]
      /\ Tail(q) \in Seq(Authors) /\ DOMAIN Tail(q) = 1..(Len(q) - 1)
      /\ \A i \in DOMAIN Tail(q) : i + 1 \in DOMAIN q /\ Tail(q)[i] = q[i + 1]
  OBVIOUS
<1> DEFINE S == Owed(Tail(q))
           T == {i \in Owed(q) : i # 1}
           shift == [i \in S |-> i + 1]
<1>2. shift \in Bijection(S, T)
  <2>1. \A i \in S : i + 1 \in T /\ i \in Nat
    BY <1>1 DEF Owed
  <2>2. \A j \in T : j - 1 \in S /\ (j - 1) + 1 = j
    BY <1>1 DEF Owed
  <2>3. \A j \in T : \E i \in S : shift[i] = j
    BY <2>2
  <2>4. \A i, j \in S : shift[i] = shift[j] => i = j
    BY <2>1
  <2> HIDE DEF S, T
  <2>5. shift \in [S -> T]
    BY <2>1
  <2> QED
    BY <2>3, <2>4, <2>5 DEF Bijection, Injection, Surjection, IsInjective
<1>3. IsFiniteSet(S)
  BY <1>1, OwedTypes
<1>4. IsFiniteSet(T) /\ Cardinality(T) = Cardinality(S)
  BY <1>2, <1>3, FS_Bijection DEF ExistsBijection
<1>5. Owed(q) = IF TurnAllowed(ident, Head(q)) THEN T \cup {1} ELSE T
  BY <1>1 DEF Owed
<1>6. 1 \notin T /\ Cardinality(S) \in Nat
  BY <1>1, OwedTypes
<1> HIDE DEF S, T
<1>7. Cardinality(T \cup {1}) = Cardinality(T) + 1
  BY <1>4, <1>6, FS_AddElement
<1> QED
  BY <1>4, <1>5, <1>6, <1>7 DEF S

---------------------------------------------------------------------------
(* The invariant. *)

(* A turn in hand was written by its speaker; what reached the engine was   *)
(* allowed for that turn.                                                   *)
GateInv ==
  /\ stage # "idle" => author = speaker
  /\ reached \/ stage = "waiting" => TurnAllowed(ident, author)
  /\ reached => stage = "running"

(* A prefetch runs with the breaker closed, and a closed breaker is below   *)
(* its threshold.                                                           *)
BreakerInv ==
  /\ ~opened => failures < Threshold
  /\ stage = "waiting" => ~opened

(* There is room for the turn in hand; nudges are for primary contexts.     *)
NudgeInv ==
  /\ stage # "idle" => Len(queue) < MaxQueue
  /\ due => Interval > 0 /\ ident.context = "primary"
  /\ turns = 0 \/ turns < Interval
  /\ NudgeEarned

ProviderInv == TypeOK /\ GateInv /\ BreakerInv /\ NudgeInv

Settings ==
  /\ DigestMax \in Nat /\ HitsMax \in Nat /\ Interval \in Nat /\ MaxQueue \in Nat
  /\ RecallOn \in BOOLEAN /\ DigestOn \in BOOLEAN /\ MaxCredit \in Nat
  /\ MaxCredit = 2 * Interval + MaxQueue

LEMMA SettingsTyped == Settings
BY RecallAssumption DEF Settings, MaxCredit

(* What is owed does not depend on how the sum is written. *)
LEMMA NudgeEarnedIs ==
  NudgeEarned <=> (ident.context = "primary" /\ Interval > 0 =>
                     credit >= (IF due THEN Interval ELSE 0) + turns + Cardinality(Owed(queue)))
BY DEF NudgeEarned, Owed

LEMMA ProviderInitially == Init => ProviderInv
<1> SUFFICES ASSUME Init PROVE ProviderInv
  OBVIOUS
<1>1. Owed(<<>>) = {} /\ Cardinality({}) = 0
  BY FS_EmptySet DEF Owed
<1>2. <<>> \in Seq(Authors) /\ Len(<<>>) = 0
  OBVIOUS
<1>3. TypeOK
  <2>1. queue \in Seq(Authors) /\ Len(queue) <= MaxQueue
    BY <1>2, SettingsTyped DEF Settings, Init
  <2>2. seen \in [Ids -> Nat] /\ call \in [digest : BOOLEAN, query : BOOLEAN]
    BY DEF Init, NoCall
  <2>3. failures \in 0..Threshold /\ credit \in 0..MaxCredit /\ author \in Authors /\ speaker \in Authors
    BY SettingsTyped, RecallAssumption DEF Settings, Init, Threshold
  <2> QED
    BY <2>1, <2>2, <2>3 DEF Init, TypeOK
<1>4. NudgeInv
  BY <1>1, <1>2, NudgeEarnedIs, SettingsTyped DEF Settings, Init, NudgeInv
<1> QED
  BY <1>3, <1>4 DEF Init, ProviderInv, GateInv, BreakerInv, Threshold

(* Where the nudge and the queue are left alone. *)
LEMMA NudgeStays ==
  ASSUME NudgeInv, UNCHANGED <<ident, turns, due, queue, credit>>, Len(queue) < MaxQueue \/ stage' = "idle"
  PROVE  NudgeInv'
BY DEF NudgeInv, NudgeEarned

(* The steps that are neither a prefetch nor the end of a turn. *)
Starts ==
  \/ Initialize \/ NoPrefetch \/ ToolCall \/ Cool \/ Switches
  \/ (\E a \in Authors : StartTurn(a)) \/ UNCHANGED vars

LEMMA StartsNext ==
  ASSUME ProviderInv, Starts
  PROVE  ProviderInv'
<1>a. TypeOK /\ GateInv /\ BreakerInv /\ NudgeInv
  BY DEF ProviderInv
<1> USE DEF breaker, nudging, history
<1>1. UNCHANGED <<ident, turns, due, queue, credit>>
  BY DEF Starts, Initialize, NoPrefetch, ToolCall, Cool, Switches, SwitchSession, StartTurn, vars
<1>2. TypeOK'
  <2>1. CASE Initialize
    <3>1. status' \in {"new", "inert", "refused", "ready"} /\ armed' \in BOOLEAN
      BY <1>a, <2>1 DEF TypeOK, Initialize
    <3>2. UNCHANGED <<ident, author, speaker, stage, call, queryOff, injected, told, failures, opened, cooled,
                      turns, due, queue, made, shown, seen, warned, credit, reached>>
      BY <2>1 DEF Initialize
    <3> QED
      BY <1>a, <3>1, <3>2 DEF TypeOK
  <2>2. CASE NoPrefetch \/ ToolCall \/ UNCHANGED vars
    <3>1. stage' \in {"idle", "turn", "waiting", "running"} /\ reached' \in BOOLEAN
      BY <1>a, <2>2 DEF TypeOK, NoPrefetch, ToolCall, vars
    <3>2. UNCHANGED <<status, ident, author, speaker, call, armed, queryOff, injected, told, failures, opened,
                      cooled, turns, due, queue, made, shown, seen, warned, credit>>
      BY <2>2 DEF NoPrefetch, ToolCall, vars
    <3> QED
      BY <1>a, <3>1, <3>2 DEF TypeOK
  <2>3. CASE Cool
    BY <1>a, <2>3 DEF TypeOK, Cool
  <2>4. ASSUME NEW how, SwitchSession(how)
        PROVE  TypeOK'
    <3>1. seen' \in [Ids -> Nat]
      BY <2>4 DEF SwitchSession
    <3>2. armed' \in BOOLEAN /\ queryOff' \in BOOLEAN
      BY <1>a, <2>4 DEF SwitchSession, TypeOK
    <3> QED
      BY <1>a, <2>4, <3>1, <3>2 DEF SwitchSession, TypeOK
  <2>5. CASE \E a \in Authors : StartTurn(a)
    BY <1>a, <2>5 DEF TypeOK, StartTurn
  <2> QED
    BY <2>1, <2>2, <2>3, <2>4, <2>5 DEF Starts, Switches
<1>3. GateInv'
  BY <1>a DEF Starts, GateInv, Initialize, NoPrefetch, ToolCall, Cool, Switches, SwitchSession, StartTurn,
              ReachesEngine, vars
<1>4. BreakerInv'
  BY <1>a DEF Starts, BreakerInv, Initialize, NoPrefetch, ToolCall, Cool, Switches, SwitchSession, StartTurn, vars
<1>5. NudgeInv'
  <2>1. Len(queue) < MaxQueue \/ stage' = "idle"
    <3>1. stage' = stage \/ stage # "idle" \/ Len(queue) < MaxQueue
      BY DEF Starts, Initialize, NoPrefetch, ToolCall, Cool, Switches, SwitchSession, StartTurn, vars
    <3>2. stage # "idle" => Len(queue) < MaxQueue
      BY <1>a DEF NudgeInv
    <3> QED
      BY <3>1, <3>2
  <2> QED
    BY <1>a, <1>1, <2>1, NudgeStays
<1> QED
  BY <1>2, <1>3, <1>4, <1>5 DEF ProviderInv

LEMMA StartPrefetchNext ==
  ASSUME ProviderInv, NEW long \in BOOLEAN, StartPrefetch(long)
  PROVE  ProviderInv'
<1>a. TypeOK /\ GateInv /\ BreakerInv /\ NudgeInv
  BY DEF ProviderInv
<1>1. /\ stage = "turn" /\ stage' = "waiting" /\ TurnAllowed(ident, author)
      /\ call' = [digest |-> DigestOn /\ armed, query |-> (DigestOn /\ armed) /\ long /\ ~queryOff]
      /\ failures' = (IF opened THEN 0 ELSE failures) /\ opened' = FALSE /\ cooled' = FALSE
      /\ UNCHANGED <<status, ident, author, speaker, armed, queryOff, injected, told, turns, due,
                     queue, made, shown, seen, warned, credit, reached>>
  BY DEF StartPrefetch, ReachesEngine, nudging, history
<1>2. TypeOK'
  <2>1. call' \in [digest : BOOLEAN, query : BOOLEAN]
    BY <1>1
  <2>2. failures' \in 0..Threshold
    BY <1>a, <1>1 DEF TypeOK, Threshold
  <2> QED
    BY <1>a, <1>1, <2>1, <2>2 DEF TypeOK
<1>3. GateInv'
  BY <1>a, <1>1 DEF GateInv
<1>4. BreakerInv'
  BY <1>a, <1>1 DEF BreakerInv, Threshold
<1>5. NudgeInv'
  BY <1>a, <1>1, NudgeStays DEF NudgeInv
<1> QED
  BY <1>2, <1>3, <1>4, <1>5 DEF ProviderInv

LEMMA EndPrefetchNext ==
  ASSUME ProviderInv, NEW d \in Outcomes, NEW s \in Outcomes, NEW text \in Sizes,
         NEW ids \in Fitting(Ids), EndPrefetch(d, s, text, ids)
  PROVE  ProviderInv'
<1>a. TypeOK /\ GateInv /\ BreakerInv /\ NudgeInv /\ Settings
  BY SettingsTyped DEF ProviderInv
<1>b. Ending(d, s) \in Outcomes
  BY DEF Ending, Outcomes
<1>1. /\ stage = "waiting" /\ stage' = "running"
      /\ TakeDigest(d) /\ Record(Ending(d, s))
      /\ due' = (due /\ ~Nudges(d, s)) /\ credit' = (IF Nudges(d, s) THEN credit - Interval ELSE credit)
      /\ UNCHANGED <<status, ident, author, speaker, turns, queue, reached>>
  BY PrefetchEnds
<1>2. failures' \in 0..Threshold /\ opened' \in BOOLEAN /\ cooled' = FALSE /\ (~opened' => failures' < Threshold)
  <2>1. failures \in 0..2 /\ opened = FALSE
    BY <1>a, <1>1 DEF TypeOK, BreakerInv, Threshold
  <2>2. \/ failures' = failures + 1 /\ opened' = (failures + 1 >= 3)
        \/ failures' \in {0, failures} /\ opened' = FALSE
    BY <1>1, <2>1 DEF Record, Threshold
  <2>3. cooled' = FALSE
    BY <1>1 DEF Record
  <2>4. CASE failures' = failures + 1 /\ opened' = (failures + 1 >= 3)
    <3>1. CASE failures + 1 >= 3
      <4>1. opened' = TRUE
        BY <2>4, <3>1
      <4>2. failures' \in 0..3
        BY <2>1, <2>4
      <4> QED
        BY <2>3, <4>1, <4>2 DEF Threshold
    <3>2. CASE ~(failures + 1 >= 3)
      BY <2>1, <2>3, <2>4, <3>2 DEF Threshold
    <3> QED
      BY <3>1, <3>2
  <2>5. CASE failures' \in {0, failures} /\ opened' = FALSE
    <3>1. failures' \in 0..3 /\ failures' < 3
      BY <2>1, <2>5
    <3> QED
      BY <2>3, <2>5, <3>1 DEF Threshold
  <2> QED
    BY <2>2, <2>4, <2>5
<1>3. credit' \in 0..MaxCredit /\ NudgeInv'
  <2>1. turns \in Nat /\ Cardinality(Owed(queue)) \in Nat /\ credit \in 0..MaxCredit /\ due \in BOOLEAN
    BY <1>a, OwedTypes DEF TypeOK
  <2>2. Owed(queue)' = Owed(queue)
    BY <1>1 DEF Owed
  <2>3. CASE Nudges(d, s)
    <3>1. due /\ ident.context = "primary" /\ Interval > 0
      BY <1>a, <2>3 DEF Nudges, NudgeInv
    <3>2. credit >= Interval + turns + Cardinality(Owed(queue))
      BY <1>a, <3>1, NudgeEarnedIs DEF NudgeInv
    <3>3. due' = FALSE /\ credit' = credit - Interval
      BY <1>1, <2>3
    <3>4. credit' \in 0..MaxCredit /\ credit' >= turns' + Cardinality(Owed(queue))
      BY <1>a, <1>1, <2>1, <3>2, <3>3 DEF Settings
    <3>5. NudgeEarned'
      BY <1>1, <2>1, <3>3, <3>4 DEF NudgeEarned, Owed
    <3> QED
      BY <1>a, <1>1, <3>3, <3>4, <3>5 DEF NudgeInv
  <2>4. CASE ~Nudges(d, s)
    <3>1. UNCHANGED <<ident, turns, due, queue, credit>>
      BY <1>1, <2>1, <2>4
    <3> QED
      BY <1>a, <1>1, <2>1, <3>1, NudgeStays DEF NudgeInv
  <2> QED
    BY <2>3, <2>4
<1>4. TypeOK'
  <2>1. call' \in [digest : BOOLEAN, query : BOOLEAN] /\ told' \in BOOLEAN /\ warned' \in BOOLEAN
    <3>1. call' = NoCall /\ told' = (told \/ SaysLogin(d, s))
          /\ warned' = (Ending(d, s) # "ok" /\ (warned \/ "outage" \in shown'))
      BY PrefetchEnds
    <3> QED
      BY <3>1 DEF NoCall
  <2>2. injected' \subseteq Ids /\ seen' \in [Ids -> Nat]
    <3>1. injected \subseteq Ids /\ seen \in [Ids -> Nat] /\ Hits(d, s, ids) \subseteq Ids
      BY <1>a, BlockSizes DEF TypeOK
    <3>2. /\ injected' = injected \cup Hits(d, s, ids)
          /\ seen' = [m \in Ids |-> IF m \in Hits(d, s, ids) /\ "hits" \in shown'
                                    THEN seen[m] + 1 ELSE seen[m]]
      BY PrefetchEnds
    <3> QED
      BY <3>1, <3>2
  <2>3. made' \subseteq Parts \cup {Empty} /\ shown' \subseteq made'
    <3>1. Compose(Block(d, s, text, ids)) \subseteq Wanted(Block(d, s, text, ids))
      BY BlockSizes, ComposeKeeps
    <3> QED
      BY <3>1, BlockSizes, PrefetchEnds
  <2>4. armed' \in BOOLEAN /\ queryOff' \in BOOLEAN /\ due' \in BOOLEAN
    BY <1>a, <1>1 DEF TakeDigest, TypeOK, Nudges
  <2> QED
    BY <1>a, <1>1, <1>2, <1>3, <2>1, <2>2, <2>3, <2>4 DEF TypeOK
<1>5. GateInv' /\ BreakerInv'
  BY <1>a, <1>1, <1>2 DEF GateInv, BreakerInv
<1> QED
  BY <1>3, <1>4, <1>5 DEF ProviderInv

LEMMA EndTurnNext ==
  ASSUME ProviderInv, EndTurn
  PROVE  ProviderInv'
<1>a. TypeOK /\ GateInv /\ BreakerInv /\ NudgeInv /\ Settings
  BY SettingsTyped DEF ProviderInv
<1>1. /\ stage = "running" /\ stage' = "idle" /\ queue' = Append(queue, speaker) /\ speaker \in Authors
      /\ made' = {} /\ shown' = {} /\ reached' = FALSE
      /\ UNCHANGED <<status, ident, author, speaker, call, armed, queryOff, injected, told,
                     failures, opened, cooled, turns, due, seen, warned>>
  BY <1>a DEF EndTurn, TypeOK, breaker, nudging
<1>2. credit' = IF ident.context = "primary" /\ TurnAllowed(ident, speaker) /\ credit < MaxCredit
                THEN credit + 1 ELSE credit
  BY DEF EndTurn
<1>3. queue' \in Seq(Authors) /\ Len(queue') = Len(queue) + 1 /\ Len(queue') <= MaxQueue
  BY <1>a, <1>1 DEF TypeOK, NudgeInv, Settings
<1>4. credit' \in 0..MaxCredit
  BY <1>a, <1>2 DEF TypeOK, Settings
<1>5. NudgeEarned'
  <2> SUFFICES ASSUME ident.context = "primary", Interval > 0
               PROVE  credit' >= (IF due THEN Interval ELSE 0) + turns + Cardinality(Owed(queue'))
    BY <1>1 DEF NudgeEarned, Owed
  <2>1. /\ turns \in Nat /\ turns < Interval /\ Interval \in Nat /\ MaxQueue \in Nat /\ credit \in 0..MaxCredit
        /\ MaxCredit = 2 * Interval + MaxQueue
    BY <1>a DEF TypeOK, NudgeInv, Settings
  <2>2. /\ Cardinality(Owed(queue')) = Cardinality(Owed(queue)) + (IF TurnAllowed(ident, speaker) THEN 1 ELSE 0)
        /\ Cardinality(Owed(queue)) \in Nat /\ Cardinality(Owed(queue')) <= MaxQueue
        /\ Cardinality(Owed(queue')) \in Nat
    <3>1. Cardinality(Owed(queue')) \in Nat /\ Cardinality(Owed(queue')) <= Len(queue') /\ Len(queue') \in Nat
      BY <1>3, OwedTypes
    <3> QED
      BY <1>a, <1>1, <1>3, <2>1, <3>1, OwedAppend, OwedTypes DEF TypeOK
  <2>3. credit >= (IF due THEN Interval ELSE 0) + turns + Cardinality(Owed(queue))
    BY <1>a, NudgeEarnedIs DEF NudgeInv
  <2>4. CASE TurnAllowed(ident, speaker) /\ credit < MaxCredit
    BY <1>2, <2>1, <2>2, <2>3, <2>4
  <2>5. CASE TurnAllowed(ident, speaker) /\ ~(credit < MaxCredit)
    BY <1>2, <2>1, <2>2, <2>5
  <2>6. CASE ~TurnAllowed(ident, speaker)
    BY <1>2, <2>1, <2>2, <2>3, <2>6
  <2> QED
    BY <2>4, <2>5, <2>6
<1>6. TypeOK'
  BY <1>a, <1>1, <1>3, <1>4 DEF TypeOK
<1>7. GateInv' /\ BreakerInv'
  BY <1>a, <1>1 DEF GateInv, BreakerInv
<1>8. NudgeInv'
  BY <1>a, <1>1, <1>5 DEF NudgeInv
<1> QED
  BY <1>6, <1>7, <1>8 DEF ProviderInv

LEMMA SyncTurnNext ==
  ASSUME ProviderInv, SyncTurn
  PROVE  ProviderInv'
<1>a. TypeOK /\ GateInv /\ BreakerInv /\ NudgeInv /\ Settings
  BY SettingsTyped DEF ProviderInv
<1>1. /\ queue # <<>> /\ queue' = Tail(queue)
      /\ UNCHANGED <<status, ident, author, speaker, stage, call, armed, queryOff, injected,
                     told, failures, opened, cooled, made, shown, seen, warned, credit, reached>>
  BY DEF SyncTurn, breaker, history
<1>2. /\ turns \in Nat /\ Interval \in Nat /\ credit \in Nat /\ due \in BOOLEAN
      /\ queue \in Seq(Authors) /\ Len(queue) \in Nat /\ MaxQueue \in Nat /\ Len(queue) <= MaxQueue
  BY <1>a DEF TypeOK, Settings
<1>3. queue' \in Seq(Authors) /\ Len(queue') = Len(queue) - 1
  BY <1>1, <1>2
<1>4. \/ UNCHANGED <<turns, due>>
      \/ /\ Counts(Head(queue)) /\ Interval > 0 /\ ident.context = "primary" /\ TurnAllowed(ident, Head(queue))
         /\ \/ turns + 1 >= Interval /\ turns' = 0 /\ due' = TRUE
            \/ ~(turns + 1 >= Interval) /\ turns' = turns + 1 /\ due' = due
  <2>1. CASE ~Counts(Head(queue))
    BY <2>1 DEF SyncTurn, nudging
  <2>2. CASE Counts(Head(queue))
    <3>1. /\ turns' = (IF turns + 1 >= Interval THEN 0 ELSE turns + 1)
          /\ due' = (due \/ turns + 1 >= Interval)
      BY <2>2 DEF SyncTurn
    <3> QED
      BY <1>2, <2>2, <3>1 DEF Counts
  <2> QED
    BY <2>1, <2>2
<1>5. TypeOK'
  <2>1. turns' \in Nat
    BY <1>2, <1>4
  <2>2. due' \in BOOLEAN
    BY <1>2, <1>4
  <2> QED
    BY <1>a, <1>1, <1>2, <1>3, <2>1, <2>2 DEF TypeOK
<1>6. NudgeEarned'
  <2> SUFFICES ASSUME ident.context = "primary", Interval > 0
               PROVE  credit >= (IF due' THEN Interval ELSE 0) + turns' + Cardinality(Owed(queue'))
    BY <1>1 DEF NudgeEarned, Owed
  <2>1. /\ Cardinality(Owed(queue)) = Cardinality(Owed(queue')) + (IF TurnAllowed(ident, Head(queue)) THEN 1 ELSE 0)
        /\ Cardinality(Owed(queue')) \in Nat
    BY <1>1, <1>2, <1>3, OwedTail, OwedTypes
  <2>2. credit >= (IF due THEN Interval ELSE 0) + turns + Cardinality(Owed(queue))
    BY <1>a, NudgeEarnedIs DEF NudgeInv
  <2>3. turns < Interval
    BY <1>a DEF NudgeInv
  <2> QED
    BY <1>2, <1>4, <2>1, <2>2, <2>3
<1>7. NudgeInv'
  BY <1>a, <1>1, <1>2, <1>3, <1>4, <1>6 DEF NudgeInv
<1>8. GateInv' /\ BreakerInv'
  BY <1>a, <1>1 DEF GateInv, BreakerInv
<1> QED
  BY <1>5, <1>7, <1>8 DEF ProviderInv

LEMMA ProviderNext == ProviderInv /\ [Next]_vars => ProviderInv'
BY StartsNext, StartPrefetchNext, EndPrefetchNext, EndTurnNext, SyncTurnNext DEF Next, Starts, Answers

LEMMA ProviderAlways == Spec => []ProviderInv
BY ProviderInitially, ProviderNext, PTL DEF Spec

(* The provider's fields and the history stay in their sets (provider.py).  *)
THEOREM RecallTypes == Spec => []TypeOK
<1>1. ProviderInv => TypeOK
  BY DEF ProviderInv
<1> QED
  BY <1>1, ProviderAlways, PTL

(* What gate.py decides is what the README promises of the owner gate.      *)
LEMMA GateIsReadme ==
  ASSUME NEW i, NEW a, TurnAllowed(i, a)
  PROVE  OwnerSpeaks(i, a)
BY DEF TurnAllowed, SessionAllowed, Listed, OwnerSpeaks

(* The engine hears from a provider only while the owner speaks, whatever   *)
(* the session, the lists and the author of the turn before (gate.py,       *)
(* on_turn_start, prefetch, handle_tool_call).                              *)
THEOREM OnlyOwnerHeard == Spec => []OwnerOnly
<1>1. ProviderInv => OwnerOnly
  <2> SUFFICES ASSUME ProviderInv, reached \/ stage = "waiting" PROVE OwnerSpeaks(ident, speaker)
    BY DEF OwnerOnly
  <2>1. TurnAllowed(ident, author) /\ author = speaker
    BY DEF ProviderInv, GateInv
  <2> QED
    BY <2>1, GateIsReadme
<1> QED
  BY <1>1, ProviderAlways, PTL

(* A nudge is paid for by turns of the owner, however far the sync worker   *)
(* lags and whoever speaks meanwhile (sync_turn).                           *)
THEOREM NudgeIsEarned == Spec => []NudgeEarned
<1>1. ProviderInv => NudgeEarned
  BY DEF ProviderInv, NudgeInv
<1> QED
  BY <1>1, ProviderAlways, PTL

(* No answer of the engine and no session switch loses the digest: only the *)
(* turn that has it in hand disarms it (prefetch, on_session_switch).       *)
THEOREM DigestIsKept == Spec => DigestKept
<1>1. ProviderInv /\ [Next]_vars => [armed /\ ~armed' => {"digest", Empty} \cap made' # {}]_vars
  <2> SUFFICES ASSUME ProviderInv, Next, armed, ~armed'
               PROVE  {"digest", Empty} \cap made' # {}
    OBVIOUS
  <2>1. ASSUME NEW d \in Outcomes, NEW s \in Outcomes, NEW text \in Sizes, NEW ids \in Fitting(Ids),
               EndPrefetch(d, s, text, ids)
        PROVE  {"digest", Empty} \cap made' # {}
    <3>1. call.digest /\ d = "ok"
      BY <2>1, PrefetchEnds DEF TakeDigest
    <3>2. /\ text = 0 => Empty \in made'
          /\ text > 0 => "digest" \in Wanted(Block(d, s, text, ids))
          /\ Wanted(Block(d, s, text, ids)) \subseteq made'
      BY <2>1, <3>1, PrefetchEnds, BlockSizes DEF DigestSize
    <3>3. text = 0 \/ text > 0
      BY SettingsTyped DEF Sizes, Settings
    <3> QED
      BY <3>2, <3>3
  <2>2. ASSUME ~Answers
        PROVE  armed' = armed \/ armed' = TRUE
    BY <2>2 DEF Next, Initialize, NoPrefetch, ToolCall, EndTurn, SyncTurn, Cool, StartTurn, StartPrefetch,
                Switches, SwitchSession
  <2> QED
    BY <2>1, <2>2 DEF Answers
<1> QED
  BY <1>1, ProviderAlways, PTL DEF Spec, DigestKept

---------------------------------------------------------------------------
(* What a block holds, when the settings leave room for all of it.          *)

(* The longest digest, the most hits and a line fit: so they do with the    *)
(* defaults of config.py (6000 and 1200 of PREFETCH_MAX_CHARS = 8000); a    *)
(* digest_max_chars over the whole Room would not be shown at all.          *)
RoomForAll == DigestMax + HitsMax + Line <= Room

BlockInv == NothingDropped /\ InjectedOnce /\ SilenceExplained

LEMMA AllShown ==
  ASSUME RoomForAll, NEW d \in Outcomes, NEW s \in Outcomes, NEW text \in Sizes,
         NEW ids \in Fitting(Ids), EndPrefetch(d, s, text, ids)
  PROVE  shown' = Wanted(Block(d, s, text, ids)) /\ made' \ {Empty} = shown'
<1> DEFINE block == Block(d, s, text, ids)
<1>1. /\ DOMAIN block = 1..5 /\ \A i \in 1..5 : block[i] \in [part : Parts, size : Nat]
      /\ block[1].size <= DigestMax /\ block[4].size <= HitsMax
      /\ block[2].size + block[3].size + block[5].size <= Line
      /\ Wanted(block) \subseteq Parts
  BY BlockSizes
<1> HIDE DEF block
<1>2. block[1].size + block[2].size + block[3].size + block[4].size + block[5].size <= Room
  <2>1. /\ block[1].size \in Nat /\ block[2].size \in Nat /\ block[3].size \in Nat
        /\ block[4].size \in Nat /\ block[5].size \in Nat
    BY <1>1
  <2> QED
    BY <1>1, <2>1, SettingsTyped, RecallAssumption DEF Settings, RoomForAll, Line
<1>3. Compose(block) = Wanted(block)
  BY <1>1, <1>2, ComposeKeeps
<1>4. Empty \notin Parts
  BY DEF Empty, Parts
<1>5. shown' = Compose(block) /\ made' = Wanted(block) \cup (IF call.digest /\ d = "ok" /\ text = 0 THEN {Empty} ELSE {})
  BY PrefetchEnds DEF block
<1> QED
  BY <1>1, <1>3, <1>4, <1>5 DEF block

LEMMA BlockNext ==
  ASSUME RoomForAll, ProviderInv, BlockInv, [Next]_vars
  PROVE  BlockInv'
<1>a. NothingDropped /\ InjectedOnce /\ SilenceExplained /\ TypeOK /\ BreakerInv
  BY DEF BlockInv, ProviderInv
<1>1. ASSUME NEW d \in Outcomes, NEW s \in Outcomes, NEW text \in Sizes, NEW ids \in Fitting(Ids),
             EndPrefetch(d, s, text, ids)
      PROVE  BlockInv'
  <2>1. shown' = Wanted(Block(d, s, text, ids)) /\ NothingDropped'
    BY <1>1, AllShown DEF NothingDropped
  <2>2. InjectedOnce'
    <3> DEFINE hits == Hits(d, s, ids)
    <3>1. hits \in SUBSET (Ids \ injected) /\ ("hits" \in shown' <=> hits # {})
      BY <1>1, <2>1, BlockSizes
    <3>2. /\ injected' = injected \cup hits
          /\ seen' = [m \in Ids |-> IF m \in hits /\ "hits" \in shown' THEN seen[m] + 1 ELSE seen[m]]
      BY <1>1, PrefetchEnds
    <3> HIDE DEF hits
    <3>3. ASSUME NEW m \in Ids
          PROVE  seen'[m] = IF m \in injected' THEN 1 ELSE 0
      <4>1. CASE m \in hits
        <5>1. m \notin injected /\ seen[m] = 0 /\ "hits" \in shown'
          BY <1>a, <3>1, <4>1 DEF InjectedOnce
        <5> QED
          BY <3>2, <4>1, <5>1
      <4>2. CASE m \notin hits
        BY <1>a, <3>2, <4>2 DEF InjectedOnce
      <4> QED
        BY <4>1, <4>2
    <3> QED
      BY <3>3 DEF InjectedOnce
  <2>3. SilenceExplained'
    <3>1. /\ Record(Ending(d, s)) /\ warned' = (Ending(d, s) # "ok" /\ (warned \/ "outage" \in shown'))
          /\ stage = "waiting"
      BY <1>1, PrefetchEnds
    <3>2. ~opened /\ failures \in Nat /\ (failures > 0 => warned)
      BY <1>a, <3>1 DEF BreakerInv, SilenceExplained, TypeOK
    <3>3. Ending(d, s) = "outage" /\ failures = 0 => "outage" \in shown'
      BY <1>1, <2>1, BlockSizes DEF SaysOutage
    <3>4. CASE Ending(d, s) = "ok"
      <4>1. failures' = 0 /\ opened' = FALSE
        BY <3>1, <3>4 DEF Record
      <4> QED
        BY <4>1 DEF SilenceExplained
    <3>5. CASE Ending(d, s) = "outage"
      <4>1. failures > 0 \/ failures = 0
        BY <3>2
      <4>2. warned \/ "outage" \in shown'
        BY <3>2, <3>3, <3>5, <4>1
      <4>3. "outage" # "ok"
        OBVIOUS
      <4>4. warned'
        BY <3>1, <3>5, <4>2, <4>3, Zenon
      <4> QED
        BY <4>4 DEF SilenceExplained
    <3>6. CASE Ending(d, s) \notin {"ok", "outage"}
      <4>1. failures' = failures /\ opened' = opened
        BY <3>1, <3>6 DEF Record
      <4> QED
        BY <3>1, <3>2, <3>6, <4>1 DEF SilenceExplained
    <3> QED
      BY <3>4, <3>5, <3>6
  <2> QED
    BY <2>1, <2>2, <2>3 DEF BlockInv
<1>2. ASSUME NEW how, SwitchSession(how)
      PROVE  BlockInv'
  BY <1>2, <1>a DEF SwitchSession, breaker, BlockInv, NothingDropped, InjectedOnce, SilenceExplained
<1>3. CASE EndTurn
  BY <1>3, <1>a DEF EndTurn, breaker, BlockInv, NothingDropped, InjectedOnce, SilenceExplained
<1>4. ASSUME NEW long, StartPrefetch(long)
      PROVE  BlockInv'
  <2>1. failures' \in {0, failures} /\ opened' = FALSE /\ UNCHANGED <<injected, made, shown, seen, warned>>
    BY <1>4 DEF StartPrefetch, history
  <2> QED
    BY <1>a, <2>1 DEF BlockInv, NothingDropped, InjectedOnce, SilenceExplained
<1>5. CASE UNCHANGED <<made, shown, injected, seen, failures, opened, warned>>
  BY <1>5, <1>a DEF BlockInv, NothingDropped, InjectedOnce, SilenceExplained
<1> QED
  BY <1>1, <1>2, <1>3, <1>4, <1>5
     DEF Next, vars, breaker, history, Answers, Switches, Initialize, NoPrefetch, ToolCall, SyncTurn, Cool,
         StartTurn

LEMMA BlockAlways == ASSUME RoomForAll PROVE Spec => []BlockInv
<1>1. Init => BlockInv
  BY DEF Init, BlockInv, NothingDropped, InjectedOnce, SilenceExplained
<1>2. BlockInv /\ ProviderInv /\ [Next]_vars => BlockInv'
  BY BlockNext
<1> QED
  BY <1>1, <1>2, ProviderAlways, PTL DEF Spec

(* What prefetch spent state on is in the block it returns (compose).       *)
THEOREM NothingIsDropped == ASSUME RoomForAll PROVE Spec => []NothingDropped
<1>1. BlockInv => NothingDropped
  BY DEF BlockInv
<1> QED
  BY <1>1, BlockAlways, PTL

(* A memory marked as injected reached the conversation, exactly once, until *)
(* the next session (InjectedIds, format_hits, on_session_switch).           *)
THEOREM InjectedIsSeen == ASSUME RoomForAll PROVE Spec => []InjectedOnce
<1>1. BlockInv => InjectedOnce
  BY DEF BlockInv
<1> QED
  BY <1>1, BlockAlways, PTL

(* An outage that leaves searches failing, or the breaker open, was shown   *)
(* to the model (Breaker, prefetch).                                        *)
THEOREM OutageAnnounced == ASSUME RoomForAll PROVE Spec => []SilenceExplained
<1>1. BlockInv => SilenceExplained
  BY DEF BlockInv
<1> QED
  BY <1>1, BlockAlways, PTL
=============================================================================
