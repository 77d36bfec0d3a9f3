------------------------------ MODULE SweepRun ------------------------------
(***************************************************************************)
(* The producer: invocations of model/sweep_b.py on one run id, which may  *)
(* be killed at any point and started again.                               *)
(*                                                                         *)
(* checkpoints.jsonl is what its readers make of it: the records that      *)
(* stand on lines of their own, the number of lines that no longer parse,  *)
(* and what follows the last newline.  A record is the configuration, the  *)
(* invocation that wrote it and the source hashes in that invocation's     *)
(* manifest; the numbers in it are a function of the configuration.        *)
(*                                                                         *)
(* An invocation that finds the lock held exits without writing anything,  *)
(* and so does one with another config_hash: neither is an action.  The    *)
(* pool is left out but for two facts: it completes configurations in any  *)
(* order, and its forked workers share the lock's open file, so that a     *)
(* kill of the parent alone frees the lock only when they have gone too.   *)
(***************************************************************************)
EXTENDS Integers, FiniteSets

CONSTANTS
  Configs,       \* the configurations of the grid
  Invocations,   \* the times somebody starts the runner: 1..n, in order
  Versions       \* states of the source files, 0..n: an edit leads to the next

ASSUME SweepAssumption ==
  /\ IsFiniteSet(Configs)
  /\ Invocations \subseteq Nat
  /\ 0 \in Versions /\ Versions \subseteq Nat

VARIABLES
  pc,         \* where each invocation is
  lock,       \* the invocation whose open file holds the flock, or Nobody
  done,       \* the records each invocation has in memory, by configuration
  srcs,       \* the source hashes each invocation has taken
  lines,      \* the records on lines of their own
  tail,       \* what follows the last newline
  malformed,  \* terminated lines that do not parse
  manifest,   \* manifest.json
  results,    \* results.json
  src         \* the source files as they are now

memory == <<done, srcs>>
file == <<lines, tail, malformed>>
swvars == <<pc, lock, memory, file, manifest, results, src>>

Nobody == 0 - 1
Record == [cfg : Configs, by : Invocations, src : Versions]
Nothing == [kind |-> "nothing"]
Torn(c) == [kind |-> "torn", cfg |-> c]     \* part of the record of c
Whole(r) == [kind |-> "whole", rec |-> r]   \* all of it but the newline
NoFile == [kind |-> "none"]
Unreadable == [kind |-> "unreadable"]
Manifest(i, v, p) ==
  [kind |-> "manifest", by |-> i, src |-> v, provenance |-> p]
Results(d) == [kind |-> "results", done |-> d]

Alive == {"locked", "manifest", "running", "written"}

SweepInit ==
  /\ pc = [i \in Invocations |-> "new"]
  /\ lock = Nobody
  /\ done = [i \in Invocations |-> {}] /\ srcs = [i \in Invocations |-> 0]
  /\ lines = {} /\ tail = Nothing /\ malformed = 0
  /\ manifest = NoFile /\ results = NoFile
  /\ src = 0
---------------------------------------------------------------------------
(* RunLock.acquire: LOCK_EX | LOCK_NB. *)
LockFreeUnchecked == TRUE                                  \* a mutant
LockFree == lock = Nobody

Start(i) ==
  /\ pc[i] = "new" /\ LockFree
  /\ \A j \in Invocations : j < i => pc[j] # "new"
  /\ pc' = [pc EXCEPT ![i] = "locked"]
  /\ lock' = i
  /\ UNCHANGED <<memory, file, manifest, results, src>>

(* _load_checkpoints keeps the lines that parse, the last one's newline or  *)
(* not; what is loaded is not run again.                                    *)
LoadedTornToo ==                                           \* a mutant
  {r.cfg : r \in lines} \cup
  (IF tail.kind = "torn" THEN {tail.cfg}
   ELSE IF tail.kind = "whole" THEN {tail.rec.cfg} ELSE {})
LoadedNothing == {}                                        \* a mutant
Loaded == {r.cfg : r \in lines} \cup
          (IF tail.kind = "whole" THEN {tail.rec.cfg} ELSE {})

(* main, up to the manifest: write_text truncates the old one first. A      *)
(* prior manifest that does not parse ends the invocation, which releases   *)
(* the lock.                                                                *)
Setup(i) ==
  /\ pc[i] = "locked" /\ manifest.kind # "unreadable"
  /\ pc' = [pc EXCEPT ![i] = "manifest"]
  /\ done' = [done EXCEPT ![i] = Loaded]
  /\ srcs' = [srcs EXCEPT ![i] = src]
  /\ UNCHANGED <<lock, file, manifest, results, src>>

SetupFails(i) ==
  /\ pc[i] = "locked" /\ manifest.kind = "unreadable"
  /\ pc' = [pc EXCEPT ![i] = "exit1"]
  /\ lock' = Nobody
  /\ UNCHANGED <<memory, file, manifest, results, src>>

(* The prior manifest's own entry goes to the end of the provenance. *)
ProvenanceOfPriorOnly ==                                   \* a mutant
  IF manifest.kind = "manifest" THEN {manifest.src} ELSE {}
Provenance ==
  IF manifest.kind = "manifest"
  THEN manifest.provenance \cup {manifest.src} ELSE {}

WriteManifest(i) ==
  /\ pc[i] = "manifest"
  /\ pc' = [pc EXCEPT ![i] = "running"]
  /\ manifest' = Manifest(i, srcs[i], Provenance)
  /\ UNCHANGED <<lock, memory, file, results, src>>

(* One completed configuration, in the order the pool yields them: written, *)
(* flushed, fsync'd, and then remembered.  After a torn or unterminated     *)
(* tail the record ends up on the same line, and neither parses.            *)
Rec(i, c) == [cfg |-> c, by |-> i, src |-> srcs[i]]

Checkpoint(i, c) ==
  /\ pc[i] = "running" /\ c \in Configs \ done[i]
  /\ done' = [done EXCEPT ![i] = @ \cup {c}] /\ UNCHANGED srcs
  /\ \/ tail = Nothing /\ lines' = lines \cup {Rec(i, c)}
                       /\ UNCHANGED malformed
     \/ tail # Nothing /\ malformed' = malformed + 1 /\ UNCHANGED lines
  /\ tail' = Nothing
  /\ UNCHANGED <<pc, lock, manifest, results, src>>

(* results.json.tmp is renamed over results.json once nothing is left. *)
WriteResults(i) ==
  /\ pc[i] = "running" /\ Configs \subseteq done[i]
  /\ pc' = [pc EXCEPT ![i] = "written"]
  /\ results' = Results(done[i])
  /\ UNCHANGED <<lock, memory, file, manifest, src>>

Forget(i) == /\ done' = [done EXCEPT ![i] = {}]
             /\ srcs' = [srcs EXCEPT ![i] = 0]

(* validate: over the records in memory, not over the file. *)
RecordsMatch(d) == d = Configs

(* The lock is released and the summary printed. *)
Exit(i) ==
  /\ pc[i] = "written"
  /\ pc' = [pc EXCEPT ![i] = IF RecordsMatch(done[i]) THEN "exit0" ELSE "exit1"]
  /\ lock' = Nobody /\ Forget(i)
  /\ UNCHANGED <<file, manifest, results, src>>
---------------------------------------------------------------------------
(* A kill: with the pool's workers, or of the parent alone, in which case   *)
(* they live on until their configurations are done.                        *)
Dies(i) ==
  \/ /\ pc' = [pc EXCEPT ![i] = "killed"] /\ lock' = Nobody
  \/ /\ pc[i] = "running" /\ pc' = [pc EXCEPT ![i] = "orphans"]
     /\ UNCHANGED lock

Kill(i) ==
  /\ pc[i] \in Alive /\ Dies(i) /\ Forget(i)
  /\ \/ UNCHANGED manifest
     \/ pc[i] = "manifest" /\ manifest' = Unreadable
  /\ UNCHANGED <<file, results, src>>

(* ... while a record is being written. *)
KillMidWrite(i, c) ==
  /\ pc[i] = "running" /\ c \in Configs \ done[i] /\ Dies(i) /\ Forget(i)
  /\ \/ tail' = Torn(c)
     \/ tail = Nothing /\ tail' = Whole(Rec(i, c))
  /\ UNCHANGED <<lines, malformed, manifest, results, src>>

OrphansExit(i) ==
  /\ pc[i] = "orphans"
  /\ pc' = [pc EXCEPT ![i] = "killed"]
  /\ lock' = Nobody
  /\ UNCHANGED <<memory, file, manifest, results, src>>

EditSources ==
  /\ src + 1 \in Versions
  /\ src' = src + 1
  /\ UNCHANGED <<pc, lock, memory, file, manifest, results>>

SweepStep(i) ==
  \/ Start(i) \/ Setup(i) \/ SetupFails(i) \/ WriteManifest(i)
  \/ \E c \in Configs : Checkpoint(i, c) \/ KillMidWrite(i, c)
  \/ WriteResults(i) \/ Exit(i) \/ Kill(i) \/ OrphansExit(i)

SweepNext == EditSources \/ \E i \in Invocations : SweepStep(i)

SweepSpec == SweepInit /\ [][SweepNext]_swvars
---------------------------------------------------------------------------
(* Readers: the records that parse. *)
Readable == lines \cup (IF tail.kind = "whole" THEN {tail.rec} ELSE {})
OnDisk == {r.cfg : r \in Readable}

Parses == malformed = 0 /\ tail.kind # "torn"

(* Every line parses and every configuration is there once. *)
Complete ==
  /\ Parses
  /\ OnDisk = Configs
  /\ \A r1, r2 \in Readable : r1.cfg = r2.cfg => r1 = r2

(* Kills, orphans, resumes and racing starts never put a configuration in   *)
(* the file twice (sweep_b.py:158-205, 468-482, 560-570).                   *)
EachConfigOnce == \A r1, r2 \in Readable : r1.cfg = r2.cfg => r1 = r2

(* What a live runner believes done, and what results.json reports, is in   *)
(* the file, but for the record and the tail that each malformed line has   *)
(* swallowed (sweep_b.py:404-419, 560-570, 602-615).                        *)
LossIsBounded ==
  /\ \A i \in Invocations : Cardinality(done[i] \ OnDisk) <= 2 * malformed
  /\ results.kind = "results" =>
       /\ results.done = Configs
       /\ Cardinality(Configs \ OnDisk) <= 2 * malformed

(* The manifest names the sources of every record in the file, whatever was *)
(* edited between resumes (sweep_b.py:491-504).                             *)
ProvenanceKept ==
  manifest.kind = "manifest" =>
    \A r \in Readable : r.src \in manifest.provenance \cup {manifest.src}

(* sweep_b.py:12-16 and 405-406: a kill loses at most the configuration in  *)
(* flight, which a resume recomputes, so a run that exits 0 has its file.   *)
ResumeRepairs == \A i \in Invocations : pc[i] = "exit0" => Complete
=============================================================================
