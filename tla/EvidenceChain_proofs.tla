------------------------ MODULE EvidenceChain_proofs -----------------------
(***************************************************************************)
(* What kills, resumes, racing starts and edits of the sources cannot do to*)
(* the checkpoint file, for any grid and any number of invocations; what   *)
(* they may lose of it; and that an audit that has not failed speaks of a  *)
(* file that is final.  The argument is ownership: who may write holds the *)
(* lock, has read the file, and has put its own sources in the manifest.   *)
(* And that a verdict is right about the scores it has read: its regions   *)
(* are regions, and a branch is closed only when there are none.           *)
(***************************************************************************)
EXTENDS EvidenceChain, FiniteSetTheorems, WellFoundedInduction, TLAPS

USE SweepAssumption
---------------------------------------------------------------------------
Loaders == {"manifest", "running", "written"}
Writers == {"running", "written"}

Types ==
  /\ DOMAIN pc = Invocations
  /\ DOMAIN done = Invocations /\ DOMAIN srcs = Invocations

(* Who is alive, or has workers that are, holds the lock. *)
HoldsLock ==
  \A i \in Invocations : pc[i] \in Alive \cup {"orphans"} => lock = i

(* Who has read the file knows what is in it. *)
KnowsFile ==
  \A i \in Invocations : pc[i] \in Loaders => OnDisk \subseteq done[i]

(* Who may write a record stands in the manifest, and a manifest that could *)
(* not be read is not replaced.                                             *)
StandsInManifest ==
  \A i \in Invocations :
    /\ pc[i] = "manifest" => manifest.kind \in {"none", "manifest"}
    /\ pc[i] \in Writers =>
         manifest.kind = "manifest" /\ manifest.src = srcs[i]

(* Records come after a manifest. *)
ManifestFirst == Readable # {} => manifest.kind \in {"unreadable", "manifest"}

SweepInv ==
  /\ Types /\ HoldsLock /\ KnowsFile /\ StandsInManifest /\ ManifestFirst
  /\ manifest.kind \in {"none", "unreadable", "manifest"}
  /\ EachConfigOnce /\ ProvenanceKept

AuditInv ==
  /\ auditor.step \in {"idle", "probe", "rows", "hashes", "artifact"}
  /\ auditor.step \in {"hashes", "artifact"} /\ auditor.ok => Complete
  /\ AuditedFileIsFinal
---------------------------------------------------------------------------
(* The lock has one holder. *)
LEMMA OneOwner ==
  ASSUME HoldsLock, NEW i \in Invocations, NEW j \in Invocations,
         pc[i] \in Alive \cup {"orphans"}, pc[j] \in Alive \cup {"orphans"}
  PROVE  i = j
BY DEF HoldsLock

(* A step that leaves the file and the manifest alone keeps what they say. *)
LEMMA FileUntouched ==
  ASSUME SweepInv, UNCHANGED <<file, manifest>>
  PROVE  /\ Readable' = Readable /\ OnDisk' = OnDisk /\ (Parses' <=> Parses)
         /\ ManifestFirst' /\ EachConfigOnce' /\ ProvenanceKept'
         /\ manifest'.kind \in {"none", "unreadable", "manifest"}
         /\ (Complete => Complete')
<1>1. /\ lines' = lines /\ tail' = tail
      /\ malformed' = malformed /\ manifest' = manifest
  BY DEF file
<1>2. Readable' = Readable
  BY <1>1 DEF Readable
<1>3. OnDisk' = OnDisk /\ (Parses' <=> Parses)
  BY <1>1, <1>2 DEF OnDisk, Parses
<1> QED
  BY <1>1, <1>2, <1>3
     DEF SweepInv, ManifestFirst, EachConfigOnce, ProvenanceKept, Complete

(* A new record of a configuration that was not in the file. *)
LEMMA NewRecord ==
  ASSUME SweepInv, NEW i \in Invocations, pc[i] = "running",
         NEW c \in Configs \ done[i],
         Readable' = Readable \cup {Rec(i, c)} \/ Readable' \subseteq Readable,
         manifest' = manifest
  PROVE  /\ EachConfigOnce' /\ ProvenanceKept' /\ ManifestFirst'
         /\ OnDisk' \subseteq OnDisk \cup {c}
         /\ ~Complete
<1>1. /\ OnDisk \subseteq done[i]
      /\ manifest.kind = "manifest" /\ manifest.src = srcs[i]
  BY DEF SweepInv, KnowsFile, StandsInManifest, Loaders, Writers
<1>2. \A r \in Readable : r.cfg # c
  BY <1>1 DEF OnDisk
<1>3. Rec(i, c).cfg = c /\ Rec(i, c).src = srcs[i]
  BY DEF Rec
<1>4. EachConfigOnce'
  BY <1>2, <1>3 DEF SweepInv, EachConfigOnce
<1>5. ProvenanceKept'
  BY <1>1, <1>3 DEF SweepInv, ProvenanceKept
<1>6. OnDisk' \subseteq OnDisk \cup {c}
  BY <1>3 DEF OnDisk
<1>7. ManifestFirst' /\ ~Complete
  BY <1>1 DEF ManifestFirst, Complete
<1> QED
  BY <1>4, <1>5, <1>6, <1>7
---------------------------------------------------------------------------
(* The steps of an invocation that leave the file and the manifest alone.   *)
LEMMA QuietSteps ==
  ASSUME SweepInv, NEW i \in Invocations,
         \/ Start(i) \/ Setup(i) \/ SetupFails(i) \/ WriteResults(i)
         \/ Exit(i) \/ OrphansExit(i) \/ (Kill(i) /\ UNCHANGED manifest)
  PROVE  SweepInv' /\ (Complete => Complete')
<1>1. UNCHANGED <<file, manifest>>
  BY DEF Start, Setup, SetupFails, WriteResults, Exit, OrphansExit, Kill
<1>2. /\ Readable' = Readable /\ OnDisk' = OnDisk /\ (Complete => Complete')
      /\ ManifestFirst' /\ EachConfigOnce' /\ ProvenanceKept'
      /\ manifest'.kind \in {"none", "unreadable", "manifest"}
  BY <1>1, FileUntouched
<1>3. /\ manifest' = manifest
      /\ Types /\ HoldsLock /\ KnowsFile /\ StandsInManifest
  BY <1>1 DEF SweepInv
<1>4. \A j \in Invocations : j # Nobody
  BY DEF Nobody
<1> SUFFICES Types' /\ HoldsLock' /\ KnowsFile' /\ StandsInManifest'
  BY <1>2, <1>3 DEF SweepInv
<1>5. CASE Start(i)
  BY <1>5, <1>2, <1>3, <1>4
     DEF Start, LockFree, Types, HoldsLock, KnowsFile, StandsInManifest,
         Alive, Loaders, Writers, memory
<1>6. CASE Setup(i)
  <2>1. Loaded = OnDisk
    BY DEF Loaded, OnDisk, Readable
  <2>2. manifest.kind \in {"none", "manifest"}
    BY <1>6 DEF Setup, SweepInv
  <2> QED
    BY <1>6, <2>1, <2>2, <1>2, <1>3
       DEF Setup, Types, HoldsLock, KnowsFile, StandsInManifest,
           Alive, Loaders, Writers
<1>7. CASE SetupFails(i)
  BY <1>7, <1>2, <1>3, OneOwner
     DEF SetupFails, Types, HoldsLock, KnowsFile, StandsInManifest,
         Alive, Loaders, Writers, memory
<1>8. CASE WriteResults(i)
  BY <1>8, <1>2, <1>3
     DEF WriteResults, Types, HoldsLock, KnowsFile, StandsInManifest,
         Alive, Loaders, Writers, memory
<1>9. CASE Exit(i)
  BY <1>9, <1>2, <1>3, OneOwner
     DEF Exit, Forget, Types, HoldsLock, KnowsFile, StandsInManifest,
         Alive, Loaders, Writers
<1>10. CASE OrphansExit(i)
  BY <1>10, <1>2, <1>3, OneOwner
     DEF OrphansExit, Types, HoldsLock, KnowsFile, StandsInManifest,
         Alive, Loaders, Writers, memory
<1>11. CASE Kill(i) /\ UNCHANGED manifest
  <2>1. CASE lock' = Nobody /\ pc' = [pc EXCEPT ![i] = "killed"]
    BY <1>11, <2>1, <1>2, <1>3, OneOwner
       DEF Kill, Forget, Types, HoldsLock, KnowsFile, StandsInManifest,
           Alive, Loaders, Writers
  <2>2. CASE UNCHANGED lock /\ pc' = [pc EXCEPT ![i] = "orphans"]
    BY <1>11, <2>2, <1>2, <1>3, OneOwner
       DEF Kill, Forget, Types, HoldsLock, KnowsFile, StandsInManifest,
           Alive, Loaders, Writers
  <2> QED
    BY <1>11, <2>1, <2>2 DEF Kill, Dies
<1> QED
  BY <1>5, <1>6, <1>7, <1>8, <1>9, <1>10, <1>11

(* The manifest is replaced, or a kill leaves it cut off. *)
LEMMA ManifestSteps ==
  ASSUME SweepInv, NEW i \in Invocations,
         WriteManifest(i) \/ (Kill(i) /\ manifest' = Unreadable)
  PROVE  SweepInv' /\ (Complete => Complete')
<1>1. /\ Readable' = Readable /\ OnDisk' = OnDisk /\ (Parses' <=> Parses)
      /\ UNCHANGED file /\ pc[i] \in Alive
  BY DEF WriteManifest, Kill, file, Readable, OnDisk, Parses, Alive
<1>2. EachConfigOnce' /\ (Complete => Complete')
  BY <1>1 DEF SweepInv, EachConfigOnce, Complete
<1>3. Types /\ HoldsLock /\ KnowsFile /\ StandsInManifest
  BY DEF SweepInv
<1>4. \A j \in Invocations : j # Nobody
  BY DEF Nobody
<1>5. CASE WriteManifest(i)
  <2>1. /\ manifest' = Manifest(i, srcs[i], Provenance)
        /\ pc' = [pc EXCEPT ![i] = "running"] /\ pc[i] = "manifest"
        /\ UNCHANGED <<lock, memory>>
    BY <1>5 DEF WriteManifest
  <2>2. manifest'.kind = "manifest" /\ manifest'.src = srcs[i]
        /\ manifest'.provenance = Provenance
    BY <2>1 DEF Manifest
  <2>3. manifest.kind \in {"none", "manifest"}
    BY <1>3, <2>1 DEF StandsInManifest
  <2>4. ProvenanceKept'
    <3>1. CASE manifest.kind = "none"
      BY <3>1, <1>1 DEF SweepInv, ManifestFirst, ProvenanceKept
    <3>2. CASE manifest.kind = "manifest"
      BY <3>2, <1>1, <2>2 DEF SweepInv, ProvenanceKept, Provenance
    <3> QED
      BY <2>3, <3>1, <3>2
  <2>5. /\ Types' /\ HoldsLock' /\ KnowsFile'
        /\ StandsInManifest' /\ ManifestFirst'
    BY <1>1, <1>3, <2>1, <2>2, OneOwner
       DEF Types, HoldsLock, KnowsFile, StandsInManifest, ManifestFirst,
           Alive, Loaders, Writers, memory
  <2> QED
    BY <1>2, <2>2, <2>4, <2>5 DEF SweepInv
<1>6. CASE Kill(i) /\ manifest' = Unreadable
  <2>1. manifest'.kind = "unreadable"
    BY <1>6 DEF Unreadable
  <2>2. ProvenanceKept' /\ ManifestFirst'
    BY <2>1 DEF ProvenanceKept, ManifestFirst
  <2>3. CASE lock' = Nobody /\ pc' = [pc EXCEPT ![i] = "killed"]
    <3>1. Types' /\ HoldsLock' /\ KnowsFile' /\ StandsInManifest'
      BY <1>1, <1>3, <1>4, <1>6, <2>3, OneOwner
         DEF Kill, Forget, Types, HoldsLock, KnowsFile, StandsInManifest,
             Alive, Loaders, Writers
    <3> QED
      BY <1>2, <2>1, <2>2, <3>1 DEF SweepInv
  <2>4. CASE UNCHANGED lock /\ pc' = [pc EXCEPT ![i] = "orphans"]
    <3>1. Types' /\ HoldsLock' /\ KnowsFile' /\ StandsInManifest'
      BY <1>1, <1>3, <1>4, <1>6, <2>4, OneOwner
         DEF Kill, Forget, Types, HoldsLock, KnowsFile, StandsInManifest,
             Alive, Loaders, Writers
    <3> QED
      BY <1>2, <2>1, <2>2, <3>1 DEF SweepInv
  <2> QED
    BY <1>6, <2>3, <2>4 DEF Kill, Dies
<1> QED
  BY <1>5, <1>6

(* A record is written, in whole or in part. *)
LEMMA WritingSteps ==
  ASSUME SweepInv, NEW i \in Invocations, NEW c \in Configs,
         Checkpoint(i, c) \/ KillMidWrite(i, c)
  PROVE  SweepInv' /\ ~Complete
<1>1. pc[i] = "running" /\ c \in Configs \ done[i] /\ manifest' = manifest
  BY DEF Checkpoint, KillMidWrite
<1>2. Readable' = Readable \cup {Rec(i, c)} \/ Readable' \subseteq Readable
  <2>1. CASE Checkpoint(i, c)
    <3>1. tail'.kind = "nothing"
      BY <2>1 DEF Checkpoint, Nothing
    <3>2. CASE tail = Nothing
      BY <2>1, <3>1, <3>2 DEF Checkpoint, Nothing, Readable
    <3>3. CASE tail # Nothing
      BY <2>1, <3>1, <3>3 DEF Checkpoint, Readable
    <3> QED
      BY <3>2, <3>3
  <2>2. CASE KillMidWrite(i, c)
    BY <2>2 DEF KillMidWrite, Torn, Whole, Nothing, Readable
  <2> QED
    BY <2>1, <2>2
<1>3. /\ EachConfigOnce' /\ ProvenanceKept' /\ ManifestFirst'
      /\ OnDisk' \subseteq OnDisk \cup {c} /\ ~Complete
  BY <1>1, <1>2, NewRecord
<1>4. Types /\ HoldsLock /\ KnowsFile /\ StandsInManifest
  BY DEF SweepInv
<1>5. \A j \in Invocations : j # Nobody
  BY DEF Nobody
<1>6. \A j \in Invocations : pc[j] \in Alive \cup {"orphans"} => j = i
  BY <1>1, <1>4, OneOwner DEF Alive
<1>7. Types' /\ HoldsLock' /\ KnowsFile' /\ StandsInManifest'
  <2>1. CASE Checkpoint(i, c)
    BY <1>1, <1>3, <1>4, <1>6, <2>1
       DEF Checkpoint, Types, HoldsLock, KnowsFile, StandsInManifest,
           Alive, Loaders, Writers
  <2>2. CASE KillMidWrite(i, c)
    BY <1>1, <1>4, <1>5, <1>6, <2>2
       DEF KillMidWrite, Dies, Forget, Types, HoldsLock, KnowsFile,
           StandsInManifest, Alive, Loaders, Writers
  <2> QED
    BY <2>1, <2>2
<1> QED
  BY <1>1, <1>3, <1>7 DEF SweepInv
---------------------------------------------------------------------------
(* No step of a sweep, and no edit, harms the file or undoes completeness.  *)
LEMMA SweepKeeps ==
  ASSUME SweepInv, SweepNext
  PROVE  SweepInv' /\ (Complete => Complete')
<1>1. CASE EditSources
  <2>1. UNCHANGED <<file, manifest>> /\ UNCHANGED <<pc, lock, memory>>
    BY <1>1 DEF EditSources
  <2>2. Types' /\ HoldsLock' /\ KnowsFile' /\ StandsInManifest'
    BY <2>1, FileUntouched
       DEF SweepInv, Types, HoldsLock, KnowsFile, StandsInManifest, memory
  <2> QED
    BY <2>1, <2>2, FileUntouched DEF SweepInv
<1>2. ASSUME NEW i \in Invocations, SweepStep(i)
      PROVE  SweepInv' /\ (Complete => Complete')
  <2>1. CASE \E c \in Configs : Checkpoint(i, c) \/ KillMidWrite(i, c)
    BY <2>1, WritingSteps
  <2>2. CASE WriteManifest(i)
    <3>1. WriteManifest(i) \/ (Kill(i) /\ manifest' = Unreadable)
      BY <2>2
    <3> QED
      BY <3>1, ManifestSteps
  <2>3. CASE Kill(i)
    <3>1. UNCHANGED manifest \/ manifest' = Unreadable
      BY <2>3 DEF Kill
    <3> QED
      BY <2>3, <3>1, ManifestSteps, QuietSteps
  <2>4. CASE \/ Start(i) \/ Setup(i) \/ SetupFails(i) \/ WriteResults(i)
             \/ Exit(i) \/ OrphansExit(i)
    <3>1. \/ Start(i) \/ Setup(i) \/ SetupFails(i) \/ WriteResults(i)
          \/ Exit(i) \/ OrphansExit(i) \/ (Kill(i) /\ UNCHANGED manifest)
      BY <2>4
    <3> QED
      BY <3>1, QuietSteps
  <2> QED
    BY <1>2, <2>1, <2>2, <2>3, <2>4 DEF SweepStep
<1> QED
  BY <1>1, <1>2 DEF SweepNext

LEMMA ChainInvHolds == ChainSpec => [](SweepInv /\ AuditInv)
<1>1. ChainInit => SweepInv /\ AuditInv
  <2> SUFFICES ASSUME ChainInit PROVE SweepInv /\ AuditInv
    OBVIOUS
  <2>1. Readable = {} /\ OnDisk = {}
    BY DEF ChainInit, SweepInit, Nothing, Readable, OnDisk
  <2>2. SweepInv
    BY <2>1 DEF ChainInit, SweepInit, NoFile, SweepInv, Types, HoldsLock,
                KnowsFile, StandsInManifest, ManifestFirst, EachConfigOnce,
                ProvenanceKept, Alive, Loaders, Writers
  <2>3. AuditInv
    BY DEF ChainInit, NoAudit, NoFile, AuditInv, AuditedFileIsFinal, Audited
  <2> QED
    BY <2>2, <2>3
<1>2. SweepInv /\ AuditInv /\ [ChainNext]_ecvars => (SweepInv /\ AuditInv)'
  <2> SUFFICES ASSUME SweepInv, AuditInv, [ChainNext]_ecvars
               PROVE  SweepInv' /\ AuditInv'
    OBVIOUS
  <2>1. CASE SweepNext /\ UNCHANGED chainvars
    <3>1. SweepInv' /\ (Complete => Complete')
      BY <2>1, SweepKeeps
    <3> QED
      BY <2>1, <3>1 DEF chainvars, AuditInv, AuditedFileIsFinal, Audited
  <2>2. ASSUME UNCHANGED swvars PROVE SweepInv' /\ (Complete => Complete')
    <3>1. UNCHANGED <<file, manifest>> /\ UNCHANGED <<pc, lock, memory>>
      BY <2>2 DEF swvars
    <3>2. Types' /\ HoldsLock' /\ KnowsFile' /\ StandsInManifest'
      BY <3>1, FileUntouched
         DEF SweepInv, Types, HoldsLock, KnowsFile, StandsInManifest, memory
    <3> QED
      BY <3>1, <3>2, FileUntouched DEF SweepInv
  <2>3. CASE AuditOpens \/ AuditProbes \/ AuditRefuses
    <3>1. auditor'.step \in {"probe", "rows", "idle"} /\ UNCHANGED artifact
      BY <2>3 DEF AuditOpens, AuditProbes, AuditRefuses, NoAudit
    <3>2. UNCHANGED swvars
      BY <2>3 DEF AuditOpens, AuditProbes, AuditRefuses
    <3> QED
      BY <2>2, <3>1, <3>2 DEF AuditInv, AuditedFileIsFinal, Audited
  <2>4. CASE AuditReads
    BY <2>2, <2>4
       DEF AuditReads, RowsAreSound, AuditInv, AuditedFileIsFinal, Audited
  <2>5. CASE AuditHashes
    <3>1. auditor'.step = "artifact" /\ (auditor'.ok => auditor.ok)
      BY <2>5 DEF AuditHashes
    <3> QED
      BY <2>2, <2>5, <3>1 DEF AuditHashes, AuditInv, AuditedFileIsFinal, Audited
  <2>6. ASSUME NEW cohort, AuditWrites(cohort) PROVE SweepInv' /\ AuditInv'
    <3>1. artifact'.status = AuditStatus(cohort) /\ auditor'.step = "idle"
      BY <2>6 DEF AuditWrites, NoAudit
    <3>2. AuditStatus(cohort) # "FAIL" => auditor.ok
      BY DEF AuditStatus
    <3> QED
      BY <2>2, <2>6, <3>1, <3>2
         DEF AuditWrites, AuditInv, AuditedFileIsFinal, Audited
  <2>7. ASSUME UNCHANGED <<swvars, auditor, artifact>>
        PROVE  SweepInv' /\ AuditInv'
    BY <2>2, <2>7 DEF AuditInv, AuditedFileIsFinal, Audited
  <2> QED
    BY <2>1, <2>3, <2>4, <2>5, <2>6, <2>7
       DEF ChainNext, ecvars, chainvars, Preflight, ReportInvalid, Compute
<1> QED
  BY <1>1, <1>2, PTL DEF ChainSpec

(* Kills, orphans, resumes and racing starts never put a configuration in   *)
(* the file twice (model/sweep_b.py:158-205, 468-482, 560-570).             *)
THEOREM EachConfigOnceCorrect == ChainSpec => []EachConfigOnce
<1>1. SweepInv => EachConfigOnce
  BY DEF SweepInv
<1> QED
  BY <1>1, ChainInvHolds, PTL

(* The manifest names the sources of every record in the file               *)
(* (model/sweep_b.py:491-504).                                              *)
THEOREM ProvenanceCorrect == ChainSpec => []ProvenanceKept
<1>1. SweepInv => ProvenanceKept
  BY DEF SweepInv
<1> QED
  BY <1>1, ChainInvHolds, PTL

(* Whatever starts while an audit reads and after it, a file that an audit  *)
(* has not failed is complete and stays so                                  *)
(* (model/audit_sweep_b.py:78-128, 258-286; model/sweep_b.py:482).          *)
THEOREM AuditedFileCorrect == ChainSpec => []AuditedFileIsFinal
<1>1. AuditInv => AuditedFileIsFinal
  BY DEF AuditInv
<1> QED
  BY <1>1, ChainInvHolds, PTL
---------------------------------------------------------------------------
(* What stands on a line of its own stays there. *)
Terminated == {r.cfg : r \in lines}

(* A live invocation that still sees an unterminated tail has written       *)
(* nothing: what it has in memory is what it loaded.  And results come      *)
(* either with a file that holds everything, which nobody writes to again,  *)
(* or with what the malformed lines have swallowed.                         *)
MemoryKnown ==
  \A i \in Invocations :
    /\ done[i] \subseteq Configs
    /\ pc[i] \notin Loaders => done[i] = {}
    /\ pc[i] \in Loaders /\ tail # Nothing => done[i] \subseteq OnDisk
    /\ Cardinality(done[i] \ OnDisk) <= 2 * malformed

ResultsHeld ==
  results.kind = "results" =>
    /\ results.done = Configs
    /\ \/ Configs \subseteq OnDisk
       \/ Cardinality(Configs \ Terminated) <= 2 * malformed

LossInv ==
  /\ malformed \in Nat /\ OnDisk \subseteq Configs
  /\ MemoryKnown /\ ResultsHeld

(* Smaller sets of configurations are no larger. *)
LEMMA FewerConfigs ==
  ASSUME NEW S, NEW T, S \subseteq T, T \subseteq Configs
  PROVE  /\ Cardinality(S) \in Nat /\ Cardinality(T) \in Nat
         /\ Cardinality(S) <= Cardinality(T)
<1>1. IsFiniteSet(T)
  BY FS_Subset
<1>2. IsFiniteSet(S) /\ Cardinality(S) <= Cardinality(T)
  BY <1>1, FS_Subset
<1> QED
  BY <1>1, <1>2, FS_CardinalityType

(* Two configurations count two at most, and none counts nothing.           *)
LEMMA TwoConfigs ==
  ASSUME NEW a, NEW b, NEW S, S \subseteq {a, b}
  PROVE  Cardinality(S) \in Nat /\ Cardinality(S) <= 2
<1>1. IsFiniteSet({a}) /\ Cardinality({a}) = 1
  BY FS_Singleton
<1>2. /\ IsFiniteSet({a} \cup {b})
      /\ Cardinality({a} \cup {b}) = IF b \in {a} THEN 1 ELSE 1 + 1
  BY <1>1, FS_AddElement
<1>3. {a} \cup {b} = {a, b}
  OBVIOUS
<1>4. IsFiniteSet({a, b}) /\ Cardinality({a, b}) <= 2
  BY <1>2, <1>3
<1>5. IsFiniteSet(S) /\ Cardinality(S) <= Cardinality({a, b})
  BY <1>4, FS_Subset
<1> QED
  BY <1>4, <1>5, FS_CardinalityType

LEMMA NoConfig == Cardinality({}) = 0
BY FS_EmptySet

(* The malformed lines account for what is missing from the file. *)
LEMMA LossSuffices == LossInv => LossIsBounded
<1> SUFFICES ASSUME LossInv PROVE LossIsBounded
  OBVIOUS
<1>1. ASSUME results.kind = "results"
      PROVE  /\ results.done = Configs
             /\ Cardinality(Configs \ OnDisk) <= 2 * malformed
  <2>1. malformed \in Nat /\ results.done = Configs
    BY <1>1 DEF LossInv, ResultsHeld
  <2>2. CASE Configs \subseteq OnDisk
    <3>1. Configs \ OnDisk = {}
      BY <2>2
    <3> QED
      BY <2>1, <3>1, NoConfig
  <2>3. CASE Cardinality(Configs \ Terminated) <= 2 * malformed
    <3>1. Configs \ OnDisk \subseteq Configs \ Terminated
      BY DEF OnDisk, Readable, Terminated
    <3>2. /\ Cardinality(Configs \ OnDisk) \in Nat
          /\ Cardinality(Configs \ Terminated) \in Nat
          /\ Cardinality(Configs \ OnDisk) <= Cardinality(Configs \ Terminated)
      BY <3>1, FewerConfigs
    <3> QED
      BY <2>1, <2>3, <3>2
  <2> QED
    BY <1>1, <2>1, <2>2, <2>3 DEF LossInv, ResultsHeld
<1> QED
  BY <1>1 DEF LossInv, MemoryKnown, LossIsBounded

(* Steps that leave the file alone: an invocation's memory is unchanged, is *)
(* forgotten, or is what the file holds.                                    *)
LEMMA LossQuiet ==
  ASSUME SweepInv, LossInv, NEW i \in Invocations,
         \/ Start(i) \/ Setup(i) \/ SetupFails(i) \/ WriteManifest(i)
         \/ Exit(i) \/ Kill(i) \/ OrphansExit(i)
  PROVE  LossInv'
<1>1. UNCHANGED file /\ UNCHANGED results
  BY DEF Start, Setup, SetupFails, WriteManifest, Exit, Kill, OrphansExit
<1>2. /\ OnDisk' = OnDisk /\ Terminated' = Terminated
      /\ malformed' = malformed /\ tail' = tail
  BY <1>1 DEF file, OnDisk, Readable, Terminated
<1>3. ResultsHeld'
  BY <1>1, <1>2 DEF LossInv, ResultsHeld
<1>4. /\ DOMAIN pc = Invocations /\ DOMAIN done = Invocations
      /\ malformed \in Nat /\ MemoryKnown
  BY DEF SweepInv, Types, LossInv
<1>5. Cardinality({} \ OnDisk) <= 2 * malformed
      /\ Cardinality(OnDisk \ OnDisk) <= 2 * malformed
  <2>1. {} \ OnDisk = {} /\ OnDisk \ OnDisk = {}
    OBVIOUS
  <2> QED
    BY <2>1, <1>4, NoConfig
<1>6. MemoryKnown'
  <2>1. CASE Start(i)
    BY <2>1, <1>2, <1>4 DEF Start, MemoryKnown, memory, Loaders
  <2>2. CASE Setup(i)
    <3>1. Loaded = OnDisk
      BY DEF Loaded, OnDisk, Readable
    <3>2. OnDisk \subseteq Configs
      BY DEF LossInv
    <3> QED
      BY <2>2, <3>1, <3>2, <1>2, <1>4, <1>5
         DEF Setup, MemoryKnown, Loaders
  <2>3. CASE SetupFails(i)
    BY <2>3, <1>2, <1>4 DEF SetupFails, MemoryKnown, memory, Loaders
  <2>4. CASE WriteManifest(i)
    BY <2>4, <1>2, <1>4 DEF WriteManifest, MemoryKnown, memory, Loaders
  <2>5. CASE Exit(i)
    BY <2>5, <1>2, <1>4, <1>5 DEF Exit, Forget, MemoryKnown, Loaders
  <2>6. CASE Kill(i)
    <3>1. /\ done' = [done EXCEPT ![i] = {}]
          /\ \/ pc' = [pc EXCEPT ![i] = "killed"]
             \/ pc' = [pc EXCEPT ![i] = "orphans"]
      BY <2>6 DEF Kill, Dies, Forget
    <3> QED
      BY <3>1, <1>2, <1>4, <1>5 DEF MemoryKnown, Loaders
  <2>7. CASE OrphansExit(i)
    BY <2>7, <1>2, <1>4 DEF OrphansExit, MemoryKnown, memory, Loaders
  <2> QED
    BY <2>1, <2>2, <2>3, <2>4, <2>5, <2>6, <2>7
<1> QED
  BY <1>2, <1>3, <1>6 DEF LossInv

(* results.json is renamed into place: what is not in the file was lost     *)
(* before, or stands in the unterminated tail.                              *)
LEMMA LossResults ==
  ASSUME SweepInv, LossInv, NEW i \in Invocations, WriteResults(i)
  PROVE  LossInv'
<1>1. /\ UNCHANGED file /\ UNCHANGED memory /\ pc[i] = "running"
      /\ pc' = [pc EXCEPT ![i] = "written"] /\ Configs \subseteq done[i]
      /\ results' = Results(done[i])
  BY DEF WriteResults
<1>2. /\ OnDisk' = OnDisk /\ Terminated' = Terminated /\ done' = done
      /\ malformed' = malformed /\ tail' = tail
  BY <1>1 DEF file, memory, OnDisk, Readable, Terminated
<1>3. DOMAIN pc = Invocations /\ MemoryKnown
  BY DEF SweepInv, Types, LossInv
<1>4. MemoryKnown'
  BY <1>1, <1>2, <1>3 DEF MemoryKnown, Loaders
<1>5. done[i] = Configs
  BY <1>1, <1>3 DEF MemoryKnown
<1>6. \/ Configs \subseteq OnDisk
      \/ Cardinality(Configs \ Terminated) <= 2 * malformed
  <2>1. CASE tail # Nothing
    BY <2>1, <1>1, <1>3, <1>5 DEF MemoryKnown, Loaders
  <2>2. CASE tail = Nothing
    <3>1. Terminated = OnDisk
      BY <2>2 DEF Terminated, OnDisk, Readable, Nothing
    <3> QED
      BY <3>1, <1>3, <1>5 DEF MemoryKnown
  <2> QED
    BY <2>1, <2>2
<1>7. results'.done = Configs
  BY <1>1, <1>5 DEF Results
<1> QED
  BY <1>2, <1>4, <1>6, <1>7 DEF LossInv, ResultsHeld

(* A record is written, in whole or in part.  The writer is the only one    *)
(* with anything in memory; behind an unterminated tail the new record is   *)
(* lost, and what the tail held, and a malformed line is there to show it.  *)
LEMMA LossWriting ==
  ASSUME SweepInv, LossInv, NEW i \in Invocations, NEW c \in Configs,
         Checkpoint(i, c) \/ KillMidWrite(i, c)
  PROVE  LossInv'
<1>1. pc[i] = "running" /\ c \in Configs \ done[i] /\ results' = results
  BY DEF Checkpoint, KillMidWrite
<1>2. /\ DOMAIN pc = Invocations /\ DOMAIN done = Invocations
      /\ malformed \in Nat /\ MemoryKnown /\ OnDisk \subseteq Configs
      /\ OnDisk \subseteq done[i] /\ HoldsLock
  BY <1>1 DEF SweepInv, Types, LossInv, KnowsFile, Loaders
<1>3. ASSUME NEW j \in Invocations, j # i
      PROVE  pc[j] \notin Loaders /\ done[j] = {}
  <2>1. pc[j] \notin Loaders
    BY <1>1, <1>2, <1>3, OneOwner DEF Alive, Loaders
  <2> QED
    BY <2>1, <1>2 DEF MemoryKnown
<1>4. ~(Configs \subseteq OnDisk)
  BY <1>1, <1>2
<1>5. ASSUME NEW S PROVE Cardinality({} \ S) <= 2 * malformed
  <2>1. {} \ S = {}
    OBVIOUS
  <2> QED
    BY <2>1, <1>2, NoConfig
<1>6. CASE KillMidWrite(i, c)
  <2>1. /\ lines' = lines /\ malformed' = malformed
        /\ done' = [done EXCEPT ![i] = {}]
        /\ \/ pc' = [pc EXCEPT ![i] = "killed"]
           \/ pc' = [pc EXCEPT ![i] = "orphans"]
    BY <1>6 DEF KillMidWrite, Dies, Forget
  <2>2. Terminated' = Terminated /\ OnDisk' \subseteq OnDisk \cup {c}
    BY <1>6, <2>1
       DEF KillMidWrite, Torn, Whole, Rec, Nothing, OnDisk, Readable, Terminated
  <2>3. \A j \in Invocations : done'[j] = {} /\ pc'[j] \notin Loaders
    BY <2>1, <1>2, <1>3 DEF Loaders
  <2>4. MemoryKnown'
    BY <2>1, <2>3, <1>5 DEF MemoryKnown
  <2>5. ResultsHeld'
    BY <2>1, <2>2, <1>1, <1>4 DEF LossInv, ResultsHeld
  <2> QED
    BY <2>1, <2>2, <2>4, <2>5, <1>2 DEF LossInv
<1>7. CASE Checkpoint(i, c)
  <2>1. /\ done' = [done EXCEPT ![i] = @ \cup {c}] /\ pc' = pc
        /\ tail' = Nothing
        /\ \/ tail = Nothing /\ lines' = lines \cup {Rec(i, c)}
                             /\ malformed' = malformed
           \/ tail # Nothing /\ malformed' = malformed + 1 /\ lines' = lines
    BY <1>7 DEF Checkpoint
  <2>2. malformed' \in Nat /\ 2 * malformed <= 2 * malformed'
    BY <2>1, <1>2
  <2>3. OnDisk' = Terminated' /\ Terminated \subseteq Terminated'
    BY <2>1 DEF Nothing, OnDisk, Readable, Terminated
  <2>4. Terminated' \subseteq Terminated \cup {c} /\ Terminated \subseteq OnDisk
    BY <2>1 DEF Rec, OnDisk, Readable, Terminated
  <2>5. done[i] \subseteq Configs /\ done'[i] = done[i] \cup {c}
    BY <2>1, <1>2 DEF MemoryKnown
  <2>6. Cardinality(done'[i] \ OnDisk') <= 2 * malformed'
    <3>1. CASE tail = Nothing
      <4>1. c \in Terminated' /\ OnDisk = Terminated /\ malformed' = malformed
        BY <2>1, <3>1 DEF Rec, Nothing, OnDisk, Readable, Terminated
      <4>2. done'[i] \ OnDisk' \subseteq done[i] \ OnDisk
        BY <4>1, <2>3, <2>5
      <4>3. /\ Cardinality(done'[i] \ OnDisk') \in Nat
            /\ Cardinality(done[i] \ OnDisk) \in Nat
            /\ Cardinality(done'[i] \ OnDisk') <= Cardinality(done[i] \ OnDisk)
        BY <4>2, <2>5, FewerConfigs
      <4>4. Cardinality(done[i] \ OnDisk) <= 2 * malformed
        BY <1>2 DEF MemoryKnown
      <4>5. 2 * malformed' = 2 * malformed /\ 2 * malformed \in Nat
        BY <4>1, <1>2
      <4> QED
        BY <4>3, <4>4, <4>5
    <3>2. CASE tail # Nothing
      <4>1. done[i] \subseteq OnDisk
        BY <3>2, <1>1, <1>2 DEF MemoryKnown, Loaders
      <4>2. OnDisk \subseteq Terminated \cup {tail.rec.cfg}
        BY DEF OnDisk, Readable, Terminated
      <4>3. done'[i] \ OnDisk' \subseteq {tail.rec.cfg, c}
        BY <4>1, <4>2, <2>3, <2>5
      <4>4. /\ Cardinality(done'[i] \ OnDisk') \in Nat
            /\ Cardinality(done'[i] \ OnDisk') <= 2
        BY <4>3, TwoConfigs
      <4>5. malformed' = malformed + 1
        BY <2>1, <3>2
      <4> QED
        BY <4>4, <4>5, <1>2
    <3> QED
      BY <3>1, <3>2
  <2>7. MemoryKnown'
    <3>1. ASSUME NEW j \in Invocations, j # i
          PROVE  /\ done'[j] = {} /\ pc'[j] \notin Loaders
                 /\ Cardinality(done'[j] \ OnDisk') <= 2 * malformed'
      <4>1. done'[j] = {} /\ pc'[j] \notin Loaders
        BY <3>1, <1>2, <1>3, <2>1
      <4>2. {} \ OnDisk' = {}
        OBVIOUS
      <4> QED
        BY <4>1, <4>2, <2>2, NoConfig
    <3> QED
      BY <3>1, <1>1, <2>1, <2>5, <2>6 DEF MemoryKnown, Loaders
  <2>8. ResultsHeld'
    <3>1. ASSUME results.kind = "results"
          PROVE  /\ results.done = Configs
                 /\ Cardinality(Configs \ Terminated') <= 2 * malformed'
      <4>1. /\ results.done = Configs
            /\ Cardinality(Configs \ Terminated) <= 2 * malformed
        BY <3>1, <1>4 DEF LossInv, ResultsHeld
      <4>2. Configs \ Terminated' \subseteq Configs \ Terminated
        BY <2>3
      <4>3. /\ Cardinality(Configs \ Terminated') \in Nat
            /\ Cardinality(Configs \ Terminated) \in Nat
            /\ Cardinality(Configs \ Terminated')
                 <= Cardinality(Configs \ Terminated)
        BY <4>2, FewerConfigs
      <4> QED
        BY <4>1, <4>3, <2>2, <1>2
    <3> QED
      BY <3>1, <1>1 DEF ResultsHeld
  <2>9. OnDisk' \subseteq Configs
    BY <2>3, <2>4, <1>2
  <2> QED
    BY <2>2, <2>7, <2>8, <2>9 DEF LossInv
<1> QED
  BY <1>6, <1>7

LEMMA LossInvHolds == ChainSpec => []LossInv
<1>1. ChainInit => LossInv
  <2> SUFFICES ASSUME ChainInit PROVE LossInv
    OBVIOUS
  <2>1. OnDisk = {} /\ malformed = 0 /\ results.kind = "none"
    BY DEF ChainInit, SweepInit, Nothing, NoFile, Readable, OnDisk
  <2>2. \A i \in Invocations : done[i] = {}
    BY DEF ChainInit, SweepInit
  <2>3. {} \ OnDisk = {} /\ Cardinality({} \ OnDisk) <= 2 * malformed
    BY <2>1, NoConfig
  <2> QED
    BY <2>1, <2>2, <2>3 DEF LossInv, MemoryKnown, ResultsHeld
<1>2. SweepInv /\ LossInv /\ [ChainNext]_ecvars => LossInv'
  <2> SUFFICES ASSUME SweepInv, LossInv, [ChainNext]_ecvars PROVE LossInv'
    OBVIOUS
  <2>1. ASSUME UNCHANGED <<pc, memory, file, results>>
        PROVE  LossInv'
    BY <2>1 DEF LossInv, MemoryKnown, ResultsHeld, OnDisk, Readable,
                Terminated, memory, file
  <2>2. ASSUME UNCHANGED swvars PROVE LossInv'
    BY <2>1, <2>2 DEF swvars
  <2>3. CASE SweepNext
    <3>1. CASE EditSources
      BY <3>1, <2>1 DEF EditSources
    <3>2. ASSUME NEW i \in Invocations, SweepStep(i) PROVE LossInv'
      BY <3>2, LossQuiet, LossResults, LossWriting DEF SweepStep
    <3> QED
      BY <2>3, <3>1, <3>2 DEF SweepNext
  <2>4. SweepNext \/ UNCHANGED swvars
    <3>1. CASE SweepNext /\ UNCHANGED chainvars
      BY <3>1
    <3>2. CASE AuditOpens \/ AuditProbes \/ AuditRefuses \/ AuditReads
      BY <3>2 DEF AuditOpens, AuditProbes, AuditRefuses, AuditReads
    <3>3. CASE AuditHashes \/ \E cohort \in Cohorts : AuditWrites(cohort)
      BY <3>3 DEF AuditHashes, AuditWrites
    <3>4. CASE \/ \E passed \in BOOLEAN : Preflight(passed)
               \/ ReportInvalid \/ \E table \in Tables : Compute(table)
      BY <3>4 DEF Preflight, ReportInvalid, Compute
    <3>5. CASE UNCHANGED ecvars
      BY <3>5 DEF ecvars
    <3> QED
      BY <3>1, <3>2, <3>3, <3>4, <3>5 DEF ChainNext
  <2> QED
    BY <2>2, <2>3, <2>4
<1>3. SweepInv /\ AuditInv => SweepInv
  OBVIOUS
<1> QED
  BY <1>1, <1>2, <1>3, ChainInvHolds, PTL DEF ChainSpec

(* However often the sweep is killed and started again, what a live runner  *)
(* believes done, and what results.json reports, is in the file but for two *)
(* records for each malformed line in it                                    *)
(* (model/sweep_b.py:404-419, 560-570, 602-615).                            *)
THEOREM LossCorrect == ChainSpec => []LossIsBounded
BY LossInvHolds, LossSuffices, PTL
---------------------------------------------------------------------------
(* Only a PASS leads to exit 0. *)
LEMMA OnlyPassExitsZero ==
  ASSUME NEW status, NEW regions, Verdict(status, regions).exit = 0
  PROVE  status = "PASS"
<1>1. ExitCode(Outcome(status, regions)) = 0
  BY DEF Verdict
<1>2. ASSUME status # "PASS" PROVE FALSE
  <2>1. Outcome(status, regions) \in
          {"PROVISIONAL_REGIONS_ONLY", "INCONCLUSIVE_BRANCH_REMAINS_OPEN",
           "RUN_INVALID"}
    BY <1>2 DEF Outcome
  <2>2. ExitCode(Outcome(status, regions)) \in {2, 3}
    BY <2>1 DEF ExitCode
  <2> QED
    BY <1>1, <2>2
<1> QED
  BY <1>2

(* A run that exits 0 has read the scores of every configuration, behind a  *)
(* passed preflight and a PASS that is bound to the manifest on disk        *)
(* (model/compute_verdict.py:66-83, 341-393).                               *)
THEOREM GatesCorrect == ChainSpec => []BehindGates
<1>1. ChainInit => BehindGates
  BY DEF ChainInit, NoVerdict, BehindGates, Decided
<1>2. SweepInv /\ AuditInv /\ BehindGates /\ [ChainNext]_ecvars => BehindGates'
  <2> SUFFICES ASSUME SweepInv, AuditInv, BehindGates, [ChainNext]_ecvars
               PROVE  BehindGates'
    OBVIOUS
  <2>1. CASE UNCHANGED ecvars
    BY <2>1 DEF ecvars, swvars, chainvars, BehindGates, Decided
  <2>2. CASE ChainNext /\ UNCHANGED verdict
    <3>1. ~Decided'
      BY <2>2 DEF ChainNext, NoVerdict, Decided
    <3> QED
      BY <3>1 DEF BehindGates
  <2>3. CASE ReportInvalid
    <3>1. verdict'.says = Verdict("FAIL", {})
      BY <2>3 DEF ReportInvalid
    <3>2. verdict'.says.exit # 0
      BY <3>1, OnlyPassExitsZero
    <3> QED
      BY <3>2 DEF BehindGates
  <2>4. ASSUME NEW table, Compute(table) PROVE BehindGates'
    <3> DEFINE rows == [c \in OnDisk |-> table[c]]
               regions == BuildRegions(Passing(rows))
    <3>1. /\ Gate /\ artifact.status # "FAIL"
          /\ verdict'.rows = rows
          /\ verdict'.says = Verdict(artifact.status, regions)
          /\ UNCHANGED <<manifest, artifact, preflight>>
      BY <2>4 DEF Compute, swvars
    <3>2. OnDisk = Configs
      BY <3>1 DEF Gate, AuditInv, AuditedFileIsFinal, Audited, Complete
    <3> HIDE DEF regions
    <3>3. verdict'.says.exit = 0 => artifact.status = "PASS"
      BY <3>1, OnlyPassExitsZero
    <3> QED
      BY <3>1, <3>2, <3>3 DEF BehindGates, Gate
  <2>5. ChainNext => \/ UNCHANGED verdict \/ ReportInvalid
                     \/ \E table \in Tables : Compute(table)
    BY DEF ChainNext, chainvars, AuditOpens, AuditProbes, AuditRefuses,
           AuditReads, AuditHashes, AuditWrites, Preflight
  <2> QED
    BY <2>1, <2>2, <2>3, <2>4, <2>5
<1> QED
  BY <1>1, <1>2, ChainInvHolds, PTL DEF ChainSpec
---------------------------------------------------------------------------
HIDE SweepAssumption

(* Sets of numbers have a least element; finite ones a greatest.            *)
LEMMA LeastNumber ==
  ASSUME NEW S, S \subseteq Nat, S # {}
  PROVE  \E x \in S : \A y \in S : x <= y
<1> DEFINE R == OpToRel(<, Nat)
<1>1. IsWellFoundedOn(R, Nat)
  BY NatLessThanWellFounded
<1>2. \E x \in S : \A y \in S : ~(<<y, x>> \in R)
  <2> HIDE DEF R
  <2> QED
    BY <1>1, WFMin
<1>3. PICK x \in S : \A y \in S : ~(<<y, x>> \in R)
  BY <1>2
<1>4. ASSUME NEW y \in S PROVE x <= y
  <2>1. <<y, x>> \in Nat \X Nat
    OBVIOUS
  <2>2. ~(y < x)
    BY <2>1, <1>3 DEF OpToRel
  <2> QED
    BY <2>2
<1> QED
  BY <1>4

LEMMA FiniteIsBounded ==
  ASSUME NEW S, S \subseteq Nat, IsFiniteSet(S)
  PROVE  \E b \in Nat : \A x \in S : x <= b
<1>1. PICK n \in Nat : ExistsSurjection(1 .. n, S)
  BY FS_NatSurjection
<1>2. PICK f \in [1 .. n -> S] : \A x \in S : \E i \in 1 .. n : f[i] = x
  BY <1>1 DEF ExistsSurjection, Surjection
<1> DEFINE Bounds(i) == {b \in Nat : \A j \in 1 .. i : f[j] <= b}
           Bad == {i \in 0 .. n : Bounds(i) = {}}
<1>3. Bad = {}
  <2> SUFFICES ASSUME Bad # {} PROVE FALSE
    OBVIOUS
  <2>1. Bad \subseteq Nat
    OBVIOUS
  <2>2. PICK i \in Bad : \A j \in Bad : i <= j
    <3> HIDE DEF Bad
    <3> QED
      BY <2>1, LeastNumber
  <2>3. i \in 0 .. n /\ Bounds(i) = {}
    OBVIOUS
  <2>4. i # 0
    <3>1. 0 \in Bounds(0)
      OBVIOUS
    <3> QED
      BY <2>3, <3>1
  <2>5. i - 1 \in 0 .. n /\ ~(i <= i - 1) /\ i \in 1 .. n
    BY <2>3, <2>4
  <2>6. PICK b \in Bounds(i - 1) : TRUE
    <3> HIDE DEF Bounds
    <3> QED
      BY <2>2, <2>5
  <2>7. f[i] \in Nat
    BY <2>5
  <2> DEFINE c == IF f[i] <= b THEN b ELSE f[i]
  <2>8. c \in Bounds(i)
    <3>1. c \in Nat /\ f[i] <= c /\ b <= c
      BY <2>7
    <3>2. ASSUME NEW j \in 1 .. i PROVE f[j] <= c
      <4>1. CASE j = i
        BY <3>1, <4>1
      <4>2. CASE j # i
        <5>1. j \in 1 .. i - 1 /\ j \in 1 .. n
          BY <2>3, <4>2
        <5>2. f[j] <= b /\ f[j] \in Nat
          BY <5>1
        <5> HIDE DEF c
        <5> QED
          BY <3>1, <5>2
      <4> QED
        BY <4>1, <4>2
    <3> HIDE DEF c
    <3> QED
      BY <3>1, <3>2
  <2> QED
    BY <2>3, <2>8
<1>4. PICK b \in Bounds(n) : TRUE
  <2>1. n \in 0 .. n
    OBVIOUS
  <2> QED
    BY <1>3, <2>1
<1>5. b \in Nat /\ \A j \in 1 .. n : f[j] <= b
  OBVIOUS
<1> QED
  BY <1>2, <1>5
---------------------------------------------------------------------------
(* The scan of build_regions, as a function of the loads seen.              *)
Positions == Max({0} \cup {l + 1 : l \in Loads})
Begin == [regions |-> {}, run |-> {}]
Scanned(f, n, passing) ==
  f = [l \in 0 .. n |->
         IF l = 0 THEN Begin
         ELSE IF l - 1 \in DOMAIN passing
         THEN ScanStep(passing, f[l - 1], l - 1)
         ELSE f[l - 1]]

LEMMA PositionsAre ==
  Positions \in Nat /\ \A l \in Loads : l \in Nat /\ l < Positions
<1>1. Loads \subseteq Nat /\ IsFiniteSet(Loads)
  BY RulesAssumption DEF RulesAssumption
<1>2. PICK b \in Nat : \A l \in Loads : l <= b
  BY <1>1, FiniteIsBounded
<1> DEFINE S == {0} \cup {l + 1 : l \in Loads}
           Above == {n \in Nat : \A x \in S : x <= n}
<1>3. S \subseteq Nat /\ 0 \in S /\ b + 1 \in Above
  BY <1>1, <1>2
<1>4. PICK m \in Above : \A n \in Above : m <= n
  <2>1. Above \subseteq Nat
    OBVIOUS
  <2> HIDE DEF Above
  <2> QED
    BY <1>3, <2>1, LeastNumber
<1>5. m \in Nat /\ \A x \in S : x <= m /\ x \in Nat
  BY <1>3
<1>6. m \in S
  <2> SUFFICES ASSUME m \notin S PROVE FALSE
    OBVIOUS
  <2>1. m # 0
    BY <1>3
  <2>2. m - 1 \in Nat /\ ~(m <= m - 1)
    BY <1>5, <2>1
  <2>3. \A x \in S : x <= m - 1
    <3> HIDE DEF S
    <3> QED
      BY <1>5
  <2>4. m - 1 \in Above
    BY <2>2, <2>3
  <2> QED
    BY <1>4, <2>2, <2>4
<1>7. Positions \in S /\ \A x \in S : Positions >= x
  <2>1. Positions = CHOOSE x \in S : \A y \in S : x >= y
    BY DEF Positions, Max
  <2>2. \A y \in S : m >= y
    <3> HIDE DEF S
    <3> QED
      BY <1>5
  <2> HIDE DEF S
  <2> QED
    BY <1>6, <2>1, <2>2
<1>8. Positions \in Nat
  BY <1>3, <1>7
<1>9. ASSUME NEW l \in Loads PROVE l \in Nat /\ l < Positions
  <2>1. l + 1 \in S /\ l \in Nat
    BY <1>1
  <2>2. Positions >= l + 1
    <3> HIDE DEF S
    <3> QED
      BY <1>7, <2>1
  <2> QED
    BY <1>8, <2>1, <2>2
<1> QED
  BY <1>8, <1>9

LEMMA ScanExists ==
  ASSUME NEW n \in Nat, NEW passing
  PROVE  \E f : Scanned(f, n, passing)
<1> DEFINE None == {m \in Nat : ~\E f : Scanned(f, m, passing)}
<1> SUFFICES ASSUME None # {} PROVE FALSE
  OBVIOUS
<1>1. None \subseteq Nat
  OBVIOUS
<1>2. PICK m \in None : \A k \in None : m <= k
  <2> HIDE DEF None
  <2> QED
    BY <1>1, LeastNumber
<1>3. m \in Nat /\ ~\E f : Scanned(f, m, passing)
  OBVIOUS
<1>4. CASE m = 0
  <2> DEFINE f == [l \in 0 .. 0 |-> Begin]
  <2>1. f = [l \in 0 .. 0 |->
               IF l = 0 THEN Begin
               ELSE IF l - 1 \in DOMAIN passing
               THEN ScanStep(passing, f[l - 1], l - 1)
               ELSE f[l - 1]]
    OBVIOUS
  <2> HIDE DEF f
  <2> QED
    BY <1>3, <1>4, <2>1 DEF Scanned
<1>5. CASE m # 0
  <2> DEFINE k == m - 1
  <2>1. k \in Nat /\ m = k + 1 /\ ~(m <= k)
    BY <1>3, <1>5
  <2>2. PICK f : Scanned(f, k, passing)
    <3> HIDE DEF k, None
    <3> QED
      BY <1>2, <2>1 DEF None
  <2> HIDE DEF k
  <2>3. \A l \in 0 .. k :
          f[l] = IF l = 0 THEN Begin
                 ELSE IF l - 1 \in DOMAIN passing
                 THEN ScanStep(passing, f[l - 1], l - 1)
                 ELSE f[l - 1]
    BY <2>2 DEF Scanned
  <2> DEFINE e == IF k \in DOMAIN passing THEN ScanStep(passing, f[k], k)
                  ELSE f[k]
             g == [l \in 0 .. m |-> IF l <= k THEN f[l] ELSE e]
  <2>4. ASSUME NEW l \in 0 .. m
        PROVE  g[l] = IF l = 0 THEN Begin
                      ELSE IF l - 1 \in DOMAIN passing
                      THEN ScanStep(passing, g[l - 1], l - 1)
                      ELSE g[l - 1]
    <3>1. CASE l <= k
      <4>1. l \in 0 .. k /\ (l # 0 => l - 1 \in 0 .. m /\ l - 1 <= k)
        BY <2>1, <3>1
      <4>2. g[l] = f[l] /\ (l # 0 => g[l - 1] = f[l - 1])
        BY <3>1, <4>1
      <4> HIDE DEF g
      <4> QED
        BY <2>3, <4>1, <4>2
    <3>2. CASE l = m
      <4>1. l # 0 /\ l - 1 = k /\ k \in 0 .. m /\ ~(l <= k)
        BY <2>1, <3>2
      <4>2. g[l] = e /\ g[l - 1] = f[k]
        BY <2>1, <4>1
      <4> HIDE DEF g
      <4> QED
        BY <4>1, <4>2
    <3> QED
      BY <2>1, <3>1, <3>2
  <2>5. g = [l \in 0 .. m |->
               IF l = 0 THEN Begin
               ELSE IF l - 1 \in DOMAIN passing
               THEN ScanStep(passing, g[l - 1], l - 1)
               ELSE g[l - 1]]
    <3>1. g = [l \in 0 .. m |-> g[l]]
      OBVIOUS
    <3> HIDE DEF g
    <3> QED
      BY <2>4, <3>1
  <2> HIDE DEF g
  <2> QED
    BY <1>3, <2>5 DEF Scanned
<1> QED
  BY <1>4, <1>5

(* build_regions is the end of that scan.                                   *)
LEMMA RegionsAre ==
  ASSUME NEW passing
  PROVE  \E f : /\ Scanned(f, Positions, passing)
                /\ BuildRegions(passing) =
                     f[Positions].regions
                       \cup Reported(passing, f[Positions].run)
<1> DEFINE f == CHOOSE f : Scanned(f, Positions, passing)
<1>1. Scanned(f, Positions, passing)
  BY PositionsAre, ScanExists
<1>2. BuildRegions(passing) =
        f[Positions].regions \cup Reported(passing, f[Positions].run)
  BY DEF BuildRegions, Positions, Scanned, Begin
<1> HIDE DEF f
<1> QED
  BY <1>1, <1>2
---------------------------------------------------------------------------
(* What the scan is given: winners of passing loads.                        *)
Sound(passing) ==
  /\ DOMAIN passing \subseteq Loads
  /\ \A l \in DOMAIN passing :
       passing[l] \subseteq Seeds /\ Cardinality(passing[l]) >= SeedsMin

(* Loads a to b pass and have enough winners in common.                     *)
Stretch(passing, a, b) ==
  /\ a <= b /\ a .. b \subseteq DOMAIN passing
  /\ Cardinality(Common(passing, a .. b)) >= SeedsMin

GoodRegion(passing, r) ==
  \E a, b \in Nat : a < b /\ r.loads = a .. b /\ Stretch(passing, a, b)

Shares(passing, k) ==
  /\ k \in DOMAIN passing /\ k + 1 \in DOMAIN passing
  /\ Cardinality(passing[k] \cap passing[k + 1]) >= SeedsMin

(* Over the loads before l: every region reported is one; the run under way *)
(* is a stretch that ends at the last load that passed; and two neighbours  *)
(* that share enough winners have left a trace.                             *)
ScanInv(passing, acc, l) ==
  /\ acc = [regions |-> acc.regions, run |-> acc.run]
  /\ \A r \in acc.regions : GoodRegion(passing, r)
  /\ \/ acc.run = {} /\ \A k \in DOMAIN passing : k >= l
     \/ \E a, b \in Nat : /\ acc.run = a .. b /\ Stretch(passing, a, b)
                          /\ b < l
                          /\ \A k \in DOMAIN passing : k > b => k >= l
  /\ \A k \in Nat : Shares(passing, k) /\ k + 1 < l =>
       acc.regions # {} \/ Cardinality(acc.run) >= AdjMin

LEMMA SpanSize ==
  ASSUME NEW a \in Nat, NEW b \in Nat, a <= b
  PROVE  /\ Cardinality(a .. b) = b - a + 1 /\ IsFiniteSet(a .. b)
         /\ Cardinality(a .. b) >= AdjMin <=> a < b
<1>1. a \in Int /\ b \in Int /\ ~(a > b)
  OBVIOUS
<1>2. Cardinality(a .. b) = b - a + 1 /\ IsFiniteSet(a .. b)
  BY <1>1, FS_Interval
<1> QED
  BY <1>2 DEF AdjMin

(* Smaller sets of seeds have fewer.                                        *)
LEMMA FewerSeeds ==
  ASSUME NEW S, NEW T, S \subseteq T, T \subseteq Seeds
  PROVE  /\ Cardinality(S) \in Nat /\ Cardinality(T) \in Nat
         /\ Cardinality(S) <= Cardinality(T)
<1>1. IsFiniteSet(Seeds)
  BY RulesAssumption DEF RulesAssumption
<1>2. IsFiniteSet(T) /\ IsFiniteSet(S)
  BY <1>1, FS_Subset
<1>3. Cardinality(S) <= Cardinality(T)
  BY <1>2, FS_Subset
<1> QED
  BY <1>2, <1>3, FS_CardinalityType

(* What is reported of a run is a region, and it is reported if it spans    *)
(* two loads.                                                               *)
LEMMA ReportedIs ==
  ASSUME NEW passing, NEW acc, NEW l \in Nat, ScanInv(passing, acc, l)
  PROVE  /\ \A r \in Reported(passing, acc.run) : GoodRegion(passing, r)
         /\ Cardinality(acc.run) >= AdjMin =>
              Reported(passing, acc.run) # {}
<1>1. Cardinality(acc.run) >= AdjMin => Reported(passing, acc.run) # {}
  BY DEF Reported
<1>2. ASSUME NEW r \in Reported(passing, acc.run)
      PROVE  GoodRegion(passing, r)
  <2>1. r.loads = acc.run /\ Cardinality(acc.run) >= AdjMin
    BY DEF Reported
  <2>2. CASE acc.run = {}
    <3>1. Cardinality({}) = 0
      BY FS_EmptySet
    <3> QED
      BY <2>1, <2>2, <3>1 DEF AdjMin
  <2>3. CASE \E a, b \in Nat : acc.run = a .. b /\ Stretch(passing, a, b)
    <3>1. PICK a \in Nat, b \in Nat :
            acc.run = a .. b /\ Stretch(passing, a, b)
      BY <2>3
    <3>2. a <= b
      BY <3>1 DEF Stretch
    <3>3. a < b
      BY <2>1, <3>1, <3>2, SpanSize
    <3> QED
      BY <2>1, <3>1, <3>3 DEF GoodRegion
  <2> QED
    BY <2>2, <2>3 DEF ScanInv
<1> QED
  BY <1>1, <1>2

(* One load more that passes.                                               *)
LEMMA ScanStepKeeps ==
  ASSUME NEW passing, Sound(passing), NEW acc, NEW l \in DOMAIN passing,
         ScanInv(passing, acc, l)
  PROVE  ScanInv(passing, ScanStep(passing, acc, l), l + 1)
<1> DEFINE new == ScanStep(passing, acc, l)
<1>0. l \in Nat /\ DOMAIN passing \subseteq Nat /\ SeedsMin \in Nat \ {0}
  BY RulesAssumption DEF RulesAssumption, Sound
<1>1. \A k \in DOMAIN passing : k > l => k >= l + 1
  BY <1>0
<1>2. /\ \A r \in acc.regions : GoodRegion(passing, r)
      /\ \A k \in Nat : Shares(passing, k) /\ k + 1 < l =>
           acc.regions # {} \/ Cardinality(acc.run) >= AdjMin
      /\ acc = [regions |-> acc.regions, run |-> acc.run]
  BY DEF ScanInv
<1>3. CASE Extends(passing, acc.run, l)
  <2>1. /\ l - 1 \in acc.run
        /\ Cardinality(Common(passing, acc.run) \cap passing[l]) >= SeedsMin
    BY <1>3 DEF Extends, RunSeeds
  <2>2. PICK a \in Nat, b \in Nat :
          acc.run = a .. b /\ Stretch(passing, a, b) /\ b < l
    BY <2>1 DEF ScanInv
  <2>3. a <= b /\ a .. b \subseteq DOMAIN passing
    BY <2>2 DEF Stretch
  <2>4. b = l - 1 /\ a <= l /\ a < l
    BY <1>0, <2>1, <2>2, <2>3
  <2>5. acc.run \cup {l} = a .. l
    BY <1>0, <2>2, <2>3, <2>4
  <2>6. new = [regions |-> acc.regions, run |-> a .. l]
    BY <1>2, <1>3, <2>5 DEF ScanStep
  <2>7. Common(passing, a .. l) = Common(passing, acc.run) \cap passing[l]
    <3>1. passing[l] \subseteq Seeds
      BY DEF Sound
    <3> QED
      BY <2>5, <3>1 DEF Common
  <2>8. Stretch(passing, a, l)
    <3>1. a .. l \subseteq DOMAIN passing
      BY <2>2, <2>3, <2>5
    <3> QED
      BY <2>1, <2>4, <2>7, <3>1 DEF Stretch
  <2>9. Cardinality(a .. l) >= AdjMin
    BY <1>0, <2>4, SpanSize
  <2> HIDE DEF new
  <2>10. new.run = a .. l /\ new.regions = acc.regions
    BY <2>6
  <2>11. l < l + 1
    BY <1>0
  <2> QED
    BY <1>0, <1>1, <1>2, <2>6, <2>8, <2>9, <2>10, <2>11 DEF ScanInv, new
<1>4. CASE ~Extends(passing, acc.run, l)
  <2>1. new = [regions |-> acc.regions \cup Reported(passing, acc.run),
               run |-> l .. l]
    <3>1. {l} = l .. l
      BY <1>0
    <3> QED
      BY <1>4, <3>1 DEF ScanStep
  <2> HIDE DEF new
  <2>2. /\ new.run = l .. l
        /\ new.regions = acc.regions \cup Reported(passing, acc.run)
        /\ new = [regions |-> new.regions, run |-> new.run]
    BY <2>1
  <2>3. \A r \in new.regions : GoodRegion(passing, r)
    BY <1>0, <1>2, <2>2, ReportedIs
  <2>4. Stretch(passing, l, l)
    <3>1. passing[l] \subseteq Seeds /\ Cardinality(passing[l]) >= SeedsMin
      BY DEF Sound
    <3>2. \A x : x \in l .. l <=> x = l
      BY <1>0
    <3>3. Common(passing, l .. l) = passing[l]
      BY <3>1, <3>2 DEF Common
    <3> QED
      BY <1>0, <3>1, <3>2, <3>3 DEF Stretch
  <2>5. ASSUME NEW k \in Nat, Shares(passing, k), k + 1 < l + 1
        PROVE  new.regions # {}
    <3>1. CASE k + 1 < l
      BY <1>0, <1>2, <2>2, <2>5, <3>1, ReportedIs
    <3>2. CASE k + 1 = l
      <4>1. k \in DOMAIN passing /\ ~(k >= l) /\ l - 1 = k
        BY <1>0, <2>5, <3>2 DEF Shares
      <4>2. PICK a \in Nat, b \in Nat :
              /\ acc.run = a .. b /\ Stretch(passing, a, b) /\ b < l
              /\ \A j \in DOMAIN passing : j > b => j >= l
        BY <4>1 DEF ScanInv
      <4>3. a <= b
        BY <4>2 DEF Stretch
      <4>4. b = k
        BY <1>0, <3>2, <4>1, <4>2
      <4>5. ASSUME a = b PROVE FALSE
        <5>1. \A x : x \in acc.run <=> x = k
          BY <4>2, <4>4, <4>5
        <5>2. passing[k] \subseteq Seeds
          BY <4>1 DEF Sound
        <5>3. Common(passing, acc.run) = passing[k]
          BY <5>1, <5>2 DEF Common
        <5>4. Cardinality(passing[k] \cap passing[l]) >= SeedsMin
          BY <2>5, <3>2 DEF Shares
        <5>5. Extends(passing, acc.run, l)
          BY <4>1, <5>1, <5>3, <5>4 DEF Extends, RunSeeds
        <5> QED
          BY <1>4, <5>5
      <4>6. Cardinality(acc.run) >= AdjMin
        BY <4>2, <4>3, <4>5, SpanSize
      <4> QED
        BY <1>0, <2>2, <4>6, ReportedIs
    <3> QED
      BY <1>0, <2>5, <3>1, <3>2
  <2>6. l < l + 1
    BY <1>0
  <2> QED
    BY <1>0, <1>1, <2>2, <2>3, <2>4, <2>5, <2>6 DEF ScanInv, new
<1> QED
  BY <1>3, <1>4

LEMMA ScanKeeps ==
  ASSUME NEW passing, Sound(passing), NEW n \in Nat, NEW f,
         Scanned(f, n, passing)
  PROVE  ScanInv(passing, f[n], n)
<1> DEFINE Bad == {l \in 0 .. n : ~ScanInv(passing, f[l], l)}
<1> SUFFICES ASSUME Bad # {} PROVE FALSE
  OBVIOUS
<1>1. PICK l \in Bad : \A k \in Bad : l <= k
  <2>1. Bad \subseteq Nat
    OBVIOUS
  <2> HIDE DEF Bad
  <2> QED
    BY <2>1, LeastNumber
<1>2. l \in 0 .. n /\ ~ScanInv(passing, f[l], l)
  OBVIOUS
<1>3. f[l] = IF l = 0 THEN Begin
             ELSE IF l - 1 \in DOMAIN passing
             THEN ScanStep(passing, f[l - 1], l - 1)
             ELSE f[l - 1]
  BY <1>2 DEF Scanned
<1>4. DOMAIN passing \subseteq Nat
  BY RulesAssumption DEF RulesAssumption, Sound
<1>5. l # 0
  <2> SUFFICES ASSUME l = 0 PROVE FALSE
    OBVIOUS
  <2>1. f[l] = [regions |-> {}, run |-> {}]
    BY <1>3 DEF Begin
  <2>2. ScanInv(passing, f[l], 0)
    BY <1>4, <2>1 DEF ScanInv
  <2> QED
    BY <1>2, <2>2
<1> DEFINE k == l - 1
<1>6. k \in 0 .. n /\ k \in Nat /\ l = k + 1 /\ ~(l <= k)
  BY <1>2, <1>5
<1>7. ScanInv(passing, f[k], k)
  <2> HIDE DEF k
  <2> QED
    BY <1>1, <1>6
<1> HIDE DEF k
<1>8. CASE k \in DOMAIN passing
  BY <1>2, <1>3, <1>5, <1>6, <1>7, <1>8, ScanStepKeeps DEF k
<1>9. CASE k \notin DOMAIN passing
  <2>1. f[l] = f[k]
    BY <1>3, <1>5, <1>9 DEF k
  <2>2. \A j \in DOMAIN passing : j >= k => j >= k + 1
    BY <1>4, <1>6, <1>9
  <2>3. \A j \in Nat : Shares(passing, j) /\ j + 1 < k + 1 => j + 1 < k
    BY <1>6, <1>9 DEF Shares
  <2>4. \A b \in Nat : b < k => b < k + 1
    BY <1>6
  <2>5. ScanInv(passing, f[k], k + 1)
    BY <1>7, <2>2, <2>3, <2>4 DEF ScanInv
  <2> QED
    BY <1>2, <1>6, <2>1, <2>5
<1> QED
  BY <1>8, <1>9
---------------------------------------------------------------------------
(* What build_regions makes of the passing loads: regions only, and one at  *)
(* least if two neighbours share enough winners.                            *)
LEMMA OnlyGoodRegions ==
  ASSUME NEW passing, Sound(passing)
  PROVE  /\ \A r \in BuildRegions(passing) : GoodRegion(passing, r)
         /\ \A k \in Nat : Shares(passing, k) => BuildRegions(passing) # {}
<1>1. PICK f : /\ Scanned(f, Positions, passing)
               /\ BuildRegions(passing) =
                    f[Positions].regions
                      \cup Reported(passing, f[Positions].run)
  BY RegionsAre
<1> DEFINE acc == f[Positions]
<1>2. Positions \in Nat
  BY PositionsAre
<1>3. ScanInv(passing, acc, Positions)
  BY <1>1, <1>2, ScanKeeps
<1> HIDE DEF acc
<1>4. BuildRegions(passing) = acc.regions \cup Reported(passing, acc.run)
  BY <1>1 DEF acc
<1>5. \A r \in BuildRegions(passing) : GoodRegion(passing, r)
  BY <1>2, <1>3, <1>4, ReportedIs DEF ScanInv
<1>6. ASSUME NEW k \in Nat, Shares(passing, k)
      PROVE  BuildRegions(passing) # {}
  <2>1. k + 1 < Positions
    BY <1>6, PositionsAre DEF Shares, Sound
  <2>2. acc.regions # {} \/ Cardinality(acc.run) >= AdjMin
    BY <1>3, <1>6, <2>1 DEF ScanInv
  <2> QED
    BY <1>2, <1>3, <1>4, <2>2, ReportedIs
<1> QED
  BY <1>5, <1>6

LEMMA PassingIs ==
  ASSUME NEW rows
  PROVE  /\ Sound(Passing(rows))
         /\ \A l : l \in DOMAIN Passing(rows) <=>
                     l \in Loads /\ Cardinality(Winners(rows, l)) >= SeedsMin
         /\ \A l \in DOMAIN Passing(rows) : Passing(rows)[l] = Winners(rows, l)
<1>1. \A l : Winners(rows, l) \subseteq Seeds
  BY DEF Winners
<1> QED
  BY <1>1 DEF Passing, CellPasses, Sound

(* No region if and only if no two neighbours share enough winners.         *)
LEMMA ClosedExactly ==
  ASSUME NEW rows
  PROVE  BuildRegions(Passing(rows)) = {} <=>
           ~\E l, k \in Loads : SharedPair(rows, l, k)
<1> DEFINE passing == Passing(rows)
           regions == BuildRegions(passing)
<1>1. /\ Sound(passing) /\ SeedsMin \in Nat \ {0} /\ Loads \subseteq Nat
      /\ \A l : l \in DOMAIN passing <=>
                  l \in Loads /\ Cardinality(Winners(rows, l)) >= SeedsMin
      /\ \A l \in DOMAIN passing : passing[l] = Winners(rows, l)
  BY PassingIs, RulesAssumption DEF RulesAssumption
<1>2. \A l : Winners(rows, l) \subseteq Seeds
  BY DEF Winners
<1> HIDE DEF passing
<1>3. /\ \A r \in regions : GoodRegion(passing, r)
      /\ \A k \in Nat : Shares(passing, k) => regions # {}
  BY <1>1, OnlyGoodRegions
<1> HIDE DEF regions
<1>4. ASSUME NEW r \in regions
      PROVE  \E l, k \in Loads : SharedPair(rows, l, k)
  <2>1. PICK a \in Nat, b \in Nat :
          a < b /\ r.loads = a .. b /\ Stretch(passing, a, b)
    BY <1>3 DEF GoodRegion
  <2>2. /\ a .. b \subseteq DOMAIN passing
        /\ Cardinality(Common(passing, a .. b)) >= SeedsMin
    BY <2>1 DEF Stretch
  <2>3. a \in a .. b /\ a + 1 \in a .. b
    BY <2>1
  <2>4. /\ a \in Loads /\ a + 1 \in Loads
        /\ passing[a] = Winners(rows, a)
        /\ passing[a + 1] = Winners(rows, a + 1)
    BY <1>1, <2>2, <2>3
  <2> DEFINE both == Winners(rows, a) \cap Winners(rows, a + 1)
             common == Common(passing, a .. b)
  <2>5. common \subseteq both /\ both \subseteq Seeds
    BY <1>2, <2>3, <2>4 DEF Common
  <2> HIDE DEF both, common
  <2>6. /\ Cardinality(common) \in Nat /\ Cardinality(both) \in Nat
        /\ Cardinality(common) <= Cardinality(both)
    BY <2>5, FewerSeeds
  <2>7. Cardinality(both) >= SeedsMin
    BY <1>1, <2>2, <2>6 DEF common
  <2> QED
    BY <2>4, <2>7 DEF SharedPair, both
<1>5. ASSUME NEW l \in Loads, NEW k \in Loads, SharedPair(rows, l, k)
      PROVE  regions # {}
  <2> DEFINE both == Winners(rows, l) \cap Winners(rows, k)
  <2>1. k = l + 1 /\ Cardinality(both) >= SeedsMin /\ l \in Nat
    BY <1>1, <1>5 DEF SharedPair
  <2>2. /\ both \subseteq Winners(rows, l) /\ Winners(rows, l) \subseteq Seeds
        /\ both \subseteq Winners(rows, k) /\ Winners(rows, k) \subseteq Seeds
    BY <1>2
  <2> HIDE DEF both
  <2>3. /\ Cardinality(both) \in Nat /\ Cardinality(Winners(rows, l)) \in Nat
        /\ Cardinality(both) <= Cardinality(Winners(rows, l))
    BY <2>2, FewerSeeds
  <2>4. /\ Cardinality(Winners(rows, k)) \in Nat
        /\ Cardinality(both) <= Cardinality(Winners(rows, k))
    BY <2>2, FewerSeeds
  <2>5. Cardinality(Winners(rows, l)) >= SeedsMin
    BY <1>1, <2>1, <2>3
  <2>6. Cardinality(Winners(rows, k)) >= SeedsMin
    BY <1>1, <2>1, <2>3, <2>4
  <2>7. l \in DOMAIN passing /\ k \in DOMAIN passing
    BY <1>1, <2>5, <2>6
  <2>8. passing[l] \cap passing[k] = both
    BY <1>1, <2>7 DEF both
  <2>9. Shares(passing, l)
    BY <2>1, <2>7, <2>8 DEF Shares
  <2> QED
    BY <1>3, <2>1, <2>9
<1> QED
  BY <1>4, <1>5 DEF regions, passing

(* The cross-multiplied comparisons are the fractions they stand for.       *)
LEMMA WinnersBeat ==
  ASSUME NEW row \in Row, SeedWins(row)
  PROVE  Beats(row)
<1>1. ~row.violations
  BY DEF SeedWins
<1>2. ASSUME NEW b \in Baselines
      PROVE  LET base == row.base[b]
             IN  /\ row.cand.offered > 0 /\ base.offered > 0
                 /\ base.on_time > 0
                 /\ 110 * base.on_time * row.cand.offered
                      <= 100 * row.cand.on_time * base.offered
                 /\ base.completed > 0
                 /\ 100 * row.cand.completed >= 90 * base.completed
  <2> DEFINE c == row.cand
             base == row.base[b]
             p == base.on_time * c.offered
             q == c.on_time * base.offered
  <2>1. /\ c.offered \in Nat /\ c.on_time \in Nat /\ c.completed \in Nat
        /\ base.offered \in Nat /\ base.on_time \in Nat
        /\ base.completed \in Nat
    BY DEF Row, Score
  <2>2. GainOk(c, base) /\ RetainOk(c, base)
    BY DEF SeedWins
  <2> HIDE DEF c, base
  <2>3. /\ p \in Nat /\ q \in Nat
        /\ 10 * c.on_time * base.offered = 10 * q
        /\ 11 * base.on_time * c.offered = 11 * p
        /\ 110 * base.on_time * c.offered = 110 * p
        /\ 100 * c.on_time * base.offered = 100 * q
    BY <2>1
  <2> HIDE DEF p, q
  <2>4. 110 * p <= 100 * q
    <3>1. 10 * q >= 11 * p
      BY <2>2, <2>3 DEF GainOk
    <3> QED
      BY <2>3, <3>1
  <2>5. c.offered > 0 /\ base.offered > 0 /\ base.on_time > 0
    BY <2>1, <2>2 DEF GainOk
  <2>6. base.completed > 0 /\ 100 * c.completed >= 90 * base.completed
    BY <2>1, <2>2 DEF RetainOk
  <2> QED
    BY <2>3, <2>4, <2>5, <2>6 DEF c, base
<1> QED
  BY <1>1, <1>2 DEF Beats

(* What RegionsQualify says of a region.                                    *)
BeatenAt(rows, run) ==
  {s \in Seeds : \A l \in run :
     <<l, s>> \in DOMAIN rows /\ Beats(rows[<<l, s>>])}

LEMMA RegionsBeat ==
  ASSUME NEW rows, \A c \in DOMAIN rows : rows[c] \in Row,
         NEW r \in BuildRegions(Passing(rows))
  PROVE  /\ Cardinality(r.loads) >= AdjMin
         /\ \A l, k \in r.loads : l .. k \subseteq r.loads
         /\ Cardinality(BeatenAt(rows, r.loads)) >= SeedsMin
<1> DEFINE passing == Passing(rows)
<1>1. /\ Sound(passing) /\ SeedsMin \in Nat \ {0}
      /\ \A l \in DOMAIN passing : passing[l] = Winners(rows, l)
  BY PassingIs, RulesAssumption DEF RulesAssumption
<1> HIDE DEF passing
<1>2. GoodRegion(passing, r)
  BY <1>1, OnlyGoodRegions DEF passing
<1>3. PICK a \in Nat, b \in Nat :
        a < b /\ r.loads = a .. b /\ Stretch(passing, a, b)
  BY <1>2 DEF GoodRegion
<1>4. Cardinality(r.loads) >= AdjMin
  BY <1>3, SpanSize
<1>5. \A l, k \in r.loads : l .. k \subseteq r.loads
  BY <1>3
<1>6. Cardinality(BeatenAt(rows, r.loads)) >= SeedsMin
  <2> DEFINE common == Common(passing, r.loads)
             beaten == BeatenAt(rows, r.loads)
  <2>1. ASSUME NEW s \in common PROVE s \in beaten
    <3>1. s \in Seeds /\ \A l \in r.loads : s \in passing[l]
      BY DEF Common
    <3>2. ASSUME NEW l \in r.loads
          PROVE  <<l, s>> \in DOMAIN rows /\ Beats(rows[<<l, s>>])
      <4>1. s \in Winners(rows, l)
        BY <1>1, <1>3, <3>1, <3>2 DEF Stretch
      <4>2. <<l, s>> \in DOMAIN rows /\ SeedWins(rows[<<l, s>>])
        BY <4>1 DEF Winners
      <4> QED
        BY <4>2, WinnersBeat
    <3> QED
      BY <3>1, <3>2 DEF BeatenAt
  <2>2. common \subseteq beaten /\ beaten \subseteq Seeds
    BY <2>1 DEF BeatenAt
  <2>3. Cardinality(common) >= SeedsMin
    BY <1>3 DEF Stretch
  <2> HIDE DEF common, beaten
  <2>4. /\ Cardinality(common) \in Nat /\ Cardinality(beaten) \in Nat
        /\ Cardinality(common) <= Cardinality(beaten)
    BY <2>2, FewerSeeds
  <2>5. Cardinality(beaten) >= SeedsMin
    BY <1>1, <2>3, <2>4
  <2> QED
    BY <2>5 DEF beaten
<1> QED
  BY <1>4, <1>5, <1>6

(* A verdict is as it was, that of a failed audit, or a computed one.       *)
LEMMA VerdictSteps ==
  ASSUME [ChainNext]_ecvars
  PROVE  \/ UNCHANGED verdict \/ ReportInvalid
         \/ \E table \in Tables : Compute(table)
BY DEF ChainNext, ecvars, chainvars, AuditOpens, AuditProbes, AuditRefuses,
       AuditReads, AuditHashes, AuditWrites, Preflight

(* Every region of a verdict spans AdjMin consecutive loads at least, and   *)
(* the same SeedsMin seeds beat both baselines at all of them               *)
(* (model/compute_verdict.py:98-188).                                       *)
THEOREM RegionsCorrect == ChainSpec => []RegionsQualify
<1>1. ChainInit => RegionsQualify
  BY DEF ChainInit, NoVerdict, RegionsQualify, Decided
<1>2. SweepInv /\ AuditInv /\ RegionsQualify /\ [ChainNext]_ecvars
        => RegionsQualify'
  <2> SUFFICES ASSUME AuditInv, RegionsQualify, [ChainNext]_ecvars
               PROVE  RegionsQualify'
    OBVIOUS
  <2>1. CASE UNCHANGED verdict
    BY <2>1 DEF RegionsQualify, Decided
  <2>2. CASE ReportInvalid
    <3>1. verdict'.regions = {}
      BY <2>2 DEF ReportInvalid
    <3> QED
      BY <3>1 DEF RegionsQualify
  <2>3. ASSUME NEW table \in Tables, Compute(table) PROVE RegionsQualify'
    <3> DEFINE rows == [c \in OnDisk |-> table[c]]
    <3>1. /\ Gate /\ artifact.status # "FAIL"
          /\ verdict'.rows = rows
          /\ verdict'.regions = BuildRegions(Passing(rows))
      BY <2>3 DEF Compute
    <3>2. OnDisk = Configs
      BY <3>1 DEF Gate, AuditInv, AuditedFileIsFinal, Audited, Complete
    <3>3. table \in [Configs -> Row]
      BY ChainAssumption DEF ChainAssumption
    <3>4. \A c \in DOMAIN rows : rows[c] \in Row
      BY <3>2, <3>3
    <3> HIDE DEF rows
    <3>5. \A r \in BuildRegions(Passing(rows)) :
            /\ Cardinality(r.loads) >= AdjMin
            /\ \A l, k \in r.loads : l .. k \subseteq r.loads
            /\ Cardinality(BeatenAt(rows, r.loads)) >= SeedsMin
      BY <3>4, RegionsBeat
    <3> QED
      BY <3>1, <3>5 DEF RegionsQualify, BeatenAt
  <2> QED
    BY <2>1, <2>2, <2>3, VerdictSteps
<1> QED
  BY <1>1, <1>2, ChainInvHolds, PTL DEF ChainSpec

(* A run that exits 0 closes its branch exactly when no two adjacent loads  *)
(* share enough winners, and does so behind every gate                      *)
(* (model/compute_verdict.py:66-83, 154-188, 210-263, 341-393).             *)
ClosesRightly ==
  Decided /\ verdict.says.exit = 0
    => (verdict.says.branch_closed <=>
          ~\E l, k \in Loads : SharedPair(verdict.rows, l, k))

THEOREM DecisionCorrect == ChainSpec => []DecisionIsEarned
<1>1. ChainInit => ClosesRightly
  BY DEF ChainInit, NoVerdict, ClosesRightly, Decided
<1>2. ClosesRightly /\ [ChainNext]_ecvars => ClosesRightly'
  <2> SUFFICES ASSUME ClosesRightly, [ChainNext]_ecvars
               PROVE  ClosesRightly'
    OBVIOUS
  <2>1. CASE UNCHANGED verdict
    BY <2>1 DEF ClosesRightly, Decided
  <2>2. CASE ReportInvalid
    <3>1. verdict'.says = Verdict("FAIL", {})
      BY <2>2 DEF ReportInvalid
    <3>2. verdict'.says.exit # 0
      BY <3>1, OnlyPassExitsZero
    <3> QED
      BY <3>2 DEF ClosesRightly
  <2>3. ASSUME NEW table \in Tables, Compute(table) PROVE ClosesRightly'
    <3> DEFINE rows == [c \in OnDisk |-> table[c]]
               regions == BuildRegions(Passing(rows))
    <3>1. /\ verdict'.rows = rows
          /\ verdict'.says = Verdict(artifact.status, regions)
      BY <2>3 DEF Compute
    <3> HIDE DEF rows
    <3>2. regions = {} <=> ~\E l, k \in Loads : SharedPair(rows, l, k)
      BY ClosedExactly
    <3> HIDE DEF regions
    <3>3. verdict'.says.exit = 0 => artifact.status = "PASS"
      BY <3>1, OnlyPassExitsZero
    <3>4. verdict'.says.branch_closed
            = (artifact.status = "PASS" /\ regions = {})
      BY <3>1 DEF Verdict
    <3> QED
      BY <3>1, <3>2, <3>3, <3>4 DEF ClosesRightly
  <2> QED
    BY <2>1, <2>2, <2>3, VerdictSteps
<1>3. BehindGates /\ ClosesRightly => DecisionIsEarned
  BY DEF ClosesRightly, DecisionIsEarned
<1> QED
  BY <1>1, <1>2, <1>3, GatesCorrect, PTL DEF ChainSpec
===========================================================================
