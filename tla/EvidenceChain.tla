---------------------------- MODULE EvidenceChain ---------------------------
(***************************************************************************)
(* The gates between a sweep and its verdict: model/audit_sweep_b.py and   *)
(* model/preflight.py read the run directory that SweepRun writes, each    *)
(* leaves an artifact in it, and model/compute_verdict.py issues a verdict *)
(* only behind both.  Anybody may start any of them at any time.           *)
(*                                                                         *)
(* The audit reads the manifest, probes the lock, reads the checkpoints,   *)
(* hashes the sources and last hashes the manifest again for its artifact: *)
(* a step each, between which a sweep may start.  A hash is the identity   *)
(* of what is hashed.  What an audit finds in the numbers (the regenerated *)
(* cohort) and a preflight in theirs is any outcome; the frozen analysis   *)
(* files are taken not to change.                                          *)
(***************************************************************************)
EXTENDS SweepRun, VerdictRules

CONSTANT Tables   \* what the configurations may have scored

ASSUME ChainAssumption ==
  /\ Configs \subseteq Loads \X Seeds
  /\ Tables \subseteq [Configs -> Row]

VARIABLES
  auditor,    \* the running audit: its step, the hashes it read, its checks
  artifact,   \* audit_artifact.json
  preflight,  \* preflight.json
  verdict     \* what compute_verdict printed, and the scores it read

chainvars == <<auditor, artifact, preflight, verdict>>
ecvars == <<swvars, chainvars>>

NoAudit == [step |-> "idle"]
NoVerdict == [kind |-> "none"]

ChainInit ==
  /\ SweepInit
  /\ auditor = NoAudit /\ artifact = NoFile
  /\ preflight = NoFile /\ verdict = NoVerdict
---------------------------------------------------------------------------
(* A manifest that is missing or does not parse raises. *)
AuditOpens ==
  /\ auditor = NoAudit /\ manifest.kind = "manifest"
  /\ auditor' = [step |-> "probe", src |-> manifest.src]
  /\ UNCHANGED <<swvars, artifact, preflight, verdict>>

(* Liveness: the lock is probed with LOCK_EX | LOCK_NB and released at once,*)
(* and whoever holds it, a worker included, is also found by its process.   *)
AuditProbes ==
  /\ auditor.step = "probe" /\ lock = Nobody
  /\ auditor' = [step |-> "rows", src |-> auditor.src]
  /\ UNCHANGED <<swvars, artifact, preflight, verdict>>

AuditRefuses ==
  /\ auditor.step = "probe" /\ lock # Nobody
  /\ auditor' = NoAudit
  /\ UNCHANGED <<swvars, artifact, preflight, verdict>>

(* No malformed line, the expected product, no duplicate.  A file that does *)
(* not exist yet counts as an empty one.                                    *)
RowsAreSound == Complete

AuditReads ==
  /\ auditor.step = "rows"
  /\ auditor' = [step |-> "hashes", src |-> auditor.src,
               ok |-> RowsAreSound]
  /\ UNCHANGED <<swvars, artifact, preflight, verdict>>

Drift == src # auditor.src

AuditHashes ==
  /\ auditor.step = "hashes"
  /\ auditor' = [step |-> "artifact", ok |-> auditor.ok /\ ~Drift]
  /\ UNCHANGED <<swvars, artifact, preflight, verdict>>

(* _regenerate_cohorts: True, None or False. *)
Cohorts == {"verified", "unverified", "disagrees"}

AuditStatus(cohort) ==
  IF ~auditor.ok \/ cohort = "disagrees" THEN "FAIL"
  ELSE IF cohort = "unverified" THEN "INDETERMINATE_COHORT_IDENTITY"
  ELSE "PASS"

AuditWrites(cohort) ==
  /\ auditor.step = "artifact"
  /\ artifact' = [kind |-> "artifact", man |-> manifest,
                  status |-> AuditStatus(cohort)]
  /\ auditor' = NoAudit
  /\ UNCHANGED <<swvars, preflight, verdict>>

(* A line that does not parse, or no line at all, raises.  Liveness is not  *)
(* asked.                                                                   *)
Preflight(passed) ==
  /\ Parses /\ Readable # {}
  /\ preflight' = [kind |-> "preflight", passed |-> passed]
  /\ UNCHANGED <<swvars, auditor, artifact, verdict>>

(* load_gate: preflight first, then the audit, bound to the manifest as it  *)
(* is now.                                                                  *)
GateWithoutPreflight ==                                    \* a mutant
  artifact.kind = "artifact" /\ artifact.man = manifest
Gate ==
  /\ preflight.kind = "preflight" /\ preflight.passed
  /\ artifact.kind = "artifact" /\ artifact.man = manifest
  /\ manifest.kind = "manifest"

(* Of a failed audit nothing is read. *)
ReportInvalid ==
  /\ Gate /\ artifact.status = "FAIL"
  /\ verdict' = [kind |-> "verdict", rows |-> <<>>, regions |-> {},
                 says |-> Verdict("FAIL", {})]
  /\ UNCHANGED <<swvars, auditor, artifact, preflight>>

(* Every configuration in the file, with whatever it scored. *)
Compute(table) ==
  LET rows == [c \in OnDisk |-> table[c]]
      regions == BuildRegions(Passing(rows))
  IN  /\ Gate /\ artifact.status # "FAIL" /\ Parses
      /\ verdict' = [kind |-> "verdict", rows |-> rows, regions |-> regions,
                     says |-> Verdict(artifact.status, regions)]
      /\ UNCHANGED <<swvars, auditor, artifact, preflight>>

(* The behaviour ends with the first verdict. *)
ChainNext ==
  /\ verdict = NoVerdict
  /\ \/ SweepNext /\ UNCHANGED chainvars
     \/ AuditOpens \/ AuditProbes \/ AuditRefuses
     \/ AuditReads \/ AuditHashes
     \/ \E cohort \in Cohorts : AuditWrites(cohort)
     \/ \E passed \in BOOLEAN : Preflight(passed)
     \/ ReportInvalid
     \/ \E table \in Tables : Compute(table)

ChainSpec == ChainInit /\ [][ChainNext]_ecvars
---------------------------------------------------------------------------
Audited == artifact.kind = "artifact" /\ artifact.status # "FAIL"

(* Once an audit has not failed, the file is complete and stays so whatever *)
(* starts afterwards, the moments between the audit's own reads included    *)
(* (audit_sweep_b.py:78-128, 258-286; sweep_b.py:482).                      *)
AuditedFileIsFinal == Audited => Complete

Decided == verdict.kind = "verdict"

(* Two loads next to each other with enough winners in common. *)
SharedPair(rows, l, k) ==
  k = l + 1 /\ Cardinality(Winners(rows, l) \cap Winners(rows, k)) >= SeedsMin

(* The run exits 0 only from scores of every configuration, behind a passed *)
(* preflight and a PASS for the manifest on disk                            *)
(* (compute_verdict.py:66-83, 341-393).                                     *)
BehindGates ==
  Decided /\ verdict.says.exit = 0
    => /\ DOMAIN verdict.rows = Configs
       /\ preflight.kind = "preflight" /\ preflight.passed
       /\ artifact.status = "PASS" /\ artifact.man = manifest

(* A branch is closed or sent to confirmation only there; and it is closed  *)
(* exactly when no two adjacent loads share enough winners                  *)
(* (compute_verdict.py:66-83, 210-263, 341-393).                            *)
DecisionIsEarned ==
  /\ BehindGates
  /\ Decided /\ verdict.says.exit = 0
       => (verdict.says.branch_closed <=>
             ~\E l, k \in Loads : SharedPair(verdict.rows, l, k))

(* 110% of the on-time fraction and 90% of the completions of both          *)
(* baselines, as fractions of nonempty cohorts, without a safety trigger.   *)
Beats(row) ==
  /\ ~row.violations
  /\ \A b \in Baselines :
       LET base == row.base[b]
       IN  /\ row.cand.offered > 0 /\ base.offered > 0 /\ base.on_time > 0
           /\ 110 * base.on_time * row.cand.offered
                <= 100 * row.cand.on_time * base.offered
           /\ base.completed > 0
           /\ 100 * row.cand.completed >= 90 * base.completed

(* A region spans at least AdjMin consecutive loads, and the same SeedsMin  *)
(* seeds beat both baselines at every one of them: region-wide, not pair by *)
(* pair (compute_verdict.py:154-188).                                       *)
RegionsQualify ==
  Decided => \A r \in verdict.regions :
    /\ Cardinality(r.loads) >= AdjMin
    /\ \A l, k \in r.loads : l..k \subseteq r.loads
    /\ Cardinality({s \in Seeds : \A l \in r.loads :
                      /\ <<l, s>> \in DOMAIN verdict.rows
                      /\ Beats(verdict.rows[<<l, s>>])}) >= SeedsMin
=============================================================================
