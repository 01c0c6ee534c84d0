------------------------------- MODULE Import -------------------------------
(* The import of the built-in store (importer.py, and http_json of          *)
(* bridge.py): read MEMORY.md and USER.md, open an ingest run, post the     *)
(* entries in batches, close the run with the totals. The first answer that *)
(* is not a readable 200, or none in time, ends the import there; what was  *)
(* posted stays, and a second import starts over.                           *)
(*                                                                          *)
(* The files change under other sessions, so each read may find any         *)
(* entries. Outside the plugin is the engine's queue: it adds a proposal    *)
(* unless its source key is there, counts which, and may take a request     *)
(* whose answer nobody awaits any more.                                     *)
EXTENDS Integers, FiniteSets

CONSTANTS
  Entries,     \* what the two files may hold; an entry is its file and its text
  BatchSize,   \* BATCH_SIZE
  MaxRuns      \* bound: ingest runs opened

ASSUME ImportAssumption ==
  IsFiniteSet(Entries) /\ BatchSize \in Nat \ {0} /\ MaxRuns \in Nat \ {0}

VARIABLES
  stage,    \* "idle", "opening", "posting", "reported", "failed"
  read,     \* the entries import_builtin read
  rest,     \* those not posted yet
  run,      \* the run's id, the number of runs opened so far
  counts,   \* [new, reinforced]: the totals so far
  queue,    \* the engine's proposals, [key, by], by the run that added them
  closed,   \* the runs closed, [run, seen, new, reinforced]
  late      \* batches in the air whose sender stopped waiting

imports == <<stage, read, rest, run, counts, queue, closed, late>>

Zero == [new |-> 0, reinforced |-> 0]

ImportInit ==
  /\ stage = "idle" /\ read = {} /\ rest = {} /\ counts = Zero
  /\ run = 0 /\ queue = {} /\ closed = {} /\ late = {}

(* The process of the import ends; a batch it had sent may still land. *)
ImportGone ==
  /\ stage' = "idle" /\ read' = {} /\ rest' = {} /\ counts' = Zero
  /\ UNCHANGED <<run, queue, closed, late>>

---------------------------------------------------------------------------
(* Mutant: the run is part of the source key. *)
KeyOfRun(e, r) == <<e, r>>

(* proposals_body: file_path and entry_uuid name the source; the run that   *)
(* posts it does not.                                                       *)
Key(e, r) == <<e>>

Fresh(batch, r) == {e \in batch : \A p \in queue : p.key # Key(e, r)}

(* The engine takes a batch: a source it knows is only reinforced. *)
Ingested(batch, r) == queue \cup {[key |-> Key(e, r), by |-> r] : e \in Fresh(batch, r)}

(* import_builtin up to its first request; with no entries it is done. *)
ReadEntries(entries) ==
  /\ stage = "idle" /\ (entries # {} => run < MaxRuns)
  /\ read' = entries /\ rest' = entries /\ counts' = Zero
  /\ stage' = IF entries = {} THEN "reported" ELSE "opening"
  /\ UNCHANGED <<run, queue, closed, late>>

(* POST /admin/ingest/runs; the engine may open one the answer is lost of. *)
OpenRun ==
  /\ stage = "opening"
  /\ \/ stage' = "posting" /\ run' = run + 1
     \/ stage' = "failed" /\ run' \in {run, run + 1}
  /\ UNCHANGED <<read, rest, counts, queue, closed, late>>

(* The next slice of the entries, whichever order the files gave them. *)
Batches ==
  {b \in SUBSET rest :
     Cardinality(b) = (IF Cardinality(rest) < BatchSize THEN Cardinality(rest) ELSE BatchSize)}

(* Mutant: a batch the engine did not answer 200 counts as posted. *)
PostUnchecked(batch) ==
  /\ stage = "posting" /\ rest # {} /\ batch \in Batches
  /\ stage' = stage /\ rest' = rest \ batch
  /\ \/ /\ queue' = Ingested(batch, run)
        /\ counts' = [new |-> counts.new + Cardinality(Fresh(batch, run)),
                      reinforced |-> counts.reinforced + Cardinality(batch \ Fresh(batch, run))]
     \/ UNCHANGED <<queue, counts>>
  /\ UNCHANGED <<read, run, closed, late>>

(* POST /admin/ingest/proposals, one batch: answered 200, or the import     *)
(* fails, and the engine took the batch, did not, or will.                  *)
Post(batch) ==
  /\ stage = "posting" /\ rest # {} /\ batch \in Batches
  /\ \/ /\ stage' = stage /\ rest' = rest \ batch
        /\ queue' = Ingested(batch, run) /\ late' = late
        /\ counts' = [new |-> counts.new + Cardinality(Fresh(batch, run)),
                      reinforced |-> counts.reinforced + Cardinality(batch \ Fresh(batch, run))]
     \/ /\ stage' = "failed" /\ UNCHANGED <<rest, counts>>
        /\ \/ queue' \in {queue, Ingested(batch, run)} /\ late' = late
           \/ queue' = queue /\ late' = late \cup {[batch |-> batch, run |-> run]}
  /\ UNCHANGED <<read, run, closed>>

LateLands(post) ==
  /\ queue' = Ingested(post.batch, post.run) /\ late' = late \ {post}
  /\ UNCHANGED <<stage, read, rest, run, counts, closed>>

(* POST .../close with the totals, then the report. *)
CloseRun ==
  /\ stage = "posting" /\ rest = {}
  /\ stage' \in {"reported", "failed"}
  /\ LET totals == [run |-> run, seen |-> Cardinality(read),
                    new |-> counts.new, reinforced |-> counts.reinforced]
     IN  \/ closed' = closed \cup {totals}
         \/ stage' = "failed" /\ closed' = closed
  /\ UNCHANGED <<read, rest, run, counts, queue, late>>

ImportStep ==
  \/ OpenRun \/ CloseRun
  \/ \E batch \in Batches : Post(batch)
  \/ \E post \in late : LateLands(post)

---------------------------------------------------------------------------
Keys == {Key(e, r) : e \in Entries, r \in 1..MaxRuns}

ImportTypeOK ==
  /\ stage \in {"idle", "opening", "posting", "reported", "failed"}
  /\ rest \subseteq read /\ read \subseteq Entries /\ run \in 0..MaxRuns
  /\ counts \in [new : 0..Cardinality(Entries), reinforced : 0..Cardinality(Entries)]
  /\ queue \subseteq [key : Keys, by : 1..run]
  /\ \A total \in closed : total.run \in 1..run
  /\ late \subseteq [batch : SUBSET Entries, run : 1..run]

(* Every entry is proposed once, however often the import is repeated and   *)
(* whenever a batch of an earlier try lands ("idempotent on a re-run").     *)
ProposedOnce ==
  \A p, q \in queue : p.key[1] = q.key[1] => p = q

(* An import that reports success left nothing out: its run is closed and   *)
(* every entry it read is proposed. Every run closed, whatever failed or    *)
(* landed late around it, accounts for each of its entries, and for exactly *)
(* the proposals it added.                                                  *)
ImportComplete ==
  /\ stage = "reported" /\ read # {} =>
       /\ \A e \in read : \E p \in queue : p.key[1] = e
       /\ \E total \in closed : total.run = run /\ total.seen = Cardinality(read)
  /\ \A total \in closed :
       /\ total.seen = total.new + total.reinforced
       /\ total.new = Cardinality({p \in queue : p.by = total.run})
============================================================================
