---------------------------- MODULE VerdictRules ----------------------------
(***************************************************************************)
(* The frozen decision rules of model/compute_verdict.py, for one group of *)
(* cells that differ in load and seed only (build_regions treats the       *)
(* groups of axes one by one).  A configuration is a <<load, seed>>, loads *)
(* being numbered in LOAD_ORDER.                                           *)
(***************************************************************************)
EXTENDS Integers, FiniteSets, FiniteSetsExt

CONSTANTS
  Loads,      \* LOAD_ORDER, by position
  Seeds,      \* the seeds of a cell
  Baselines,  \* BASELINES
  SeedsMin    \* SEEDS_MIN

ASSUME RulesAssumption ==
  /\ Loads \subseteq Nat /\ IsFiniteSet(Loads) /\ IsFiniteSet(Seeds)
  /\ SeedsMin \in Nat \ {0}

AdjMin == 2   \* ADJ_MIN

(* What one policy scored: counts over the eligible cohort. *)
Score == [offered : Nat, on_time : Nat, completed : Nat]
(* The candidate's and the baselines' scores in one configuration. *)
Row == [violations : BOOLEAN, cand : Score, base : [Baselines -> Score]]
---------------------------------------------------------------------------
(* candidate / baseline >= 11/10 and >= 9/10, cross-multiplied. *)
GainOk(c, b) ==
  /\ c.offered # 0 /\ b.offered # 0   \* else Degenerate: the seed is skipped
  /\ b.on_time # 0
  /\ 10 * c.on_time * b.offered >= 11 * b.on_time * c.offered

RetainOk(c, b) == b.completed # 0 /\ 10 * c.completed >= 9 * b.completed

SeedWins(row) ==
  /\ ~row.violations
  /\ \A b \in Baselines : /\ GainOk(row.cand, row.base[b])
                          /\ RetainOk(row.cand, row.base[b])

Winners(rows, load) ==
  {s \in Seeds : <<load, s>> \in DOMAIN rows /\ SeedWins(rows[<<load, s>>])}

(* cell_passes: at least SEEDS_MIN seeds win. *)
CellPasses(rows, load) == Cardinality(Winners(rows, load)) >= SeedsMin

Passing(rows) ==
  [l \in {k \in Loads : CellPasses(rows, k)} |-> Winners(rows, l)]
---------------------------------------------------------------------------
Common(passing, run) == {s \in Seeds : \A l \in run : s \in passing[l]}

(* The seeds the region so far has in common: not only those of its last    *)
(* load.                                                                    *)
RunSeedsPairwise(passing, run) ==                       \* a mutant
  passing[CHOOSE l \in run : \A k \in run : k <= l]
RunSeeds(passing, run) == Common(passing, run)

Extends(passing, run, l) ==
  /\ l - 1 \in run
  /\ Cardinality(RunSeeds(passing, run) \cap passing[l]) >= SeedsMin

(* A run is reported once it spans AdjMin loads. *)
Reported(passing, run) ==
  IF Cardinality(run) >= AdjMin
  THEN {[loads |-> run, seeds |-> Common(passing, run)]}
  ELSE {}

(* build_regions: one pass over the passing loads in ascending order.       *)
ScanStep(passing, acc, l) ==
  IF Extends(passing, acc.run, l)
  THEN [acc EXCEPT !.run = @ \cup {l}]
  ELSE [regions |-> acc.regions \cup Reported(passing, acc.run), run |-> {l}]

BuildRegions(passing) ==
  LET n == Max({0} \cup {l + 1 : l \in Loads})
      scan[l \in 0 .. n] ==                    \* over the loads before l
        IF l = 0 THEN [regions |-> {}, run |-> {}]
        ELSE IF l - 1 \in DOMAIN passing
        THEN ScanStep(passing, scan[l - 1], l - 1)
        ELSE scan[l - 1]
  IN  scan[n].regions \cup Reported(passing, scan[n].run)
---------------------------------------------------------------------------
(* outcome_fields and OUTCOME_EXIT. *)
Outcome(status, regions) ==
  CASE status = "PASS" /\ regions # {} -> "DISCOVERY_PASS_CONFIRMATION_REQUIRED"
    [] status = "PASS" /\ regions = {} -> "DISCOVERY_NO_GO_BRANCH_CLOSED"
    [] status = "INDETERMINATE_COHORT_IDENTITY" /\ regions # {} ->
         "PROVISIONAL_REGIONS_ONLY"
    [] status = "INDETERMINATE_COHORT_IDENTITY" /\ regions = {} ->
         "INCONCLUSIVE_BRANCH_REMAINS_OPEN"
    [] OTHER -> "RUN_INVALID"

ExitCode(outcome) ==
  CASE outcome \in {"DISCOVERY_PASS_CONFIRMATION_REQUIRED",
                    "DISCOVERY_NO_GO_BRANCH_CLOSED"} -> 0
    [] outcome \in {"PROVISIONAL_REGIONS_ONLY",
                    "INCONCLUSIVE_BRANCH_REMAINS_OPEN"} -> 2
    [] OTHER -> 3

Verdict(status, regions) ==
  [outcome |-> Outcome(status, regions),
   exit |-> ExitCode(Outcome(status, regions)),
   branch_closed |-> status = "PASS" /\ regions = {},
   confirmation_required |-> status = "PASS" /\ regions # {},
   interpretation_permitted |-> status # "FAIL"]
=============================================================================
