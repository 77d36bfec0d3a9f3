--------------------------- MODULE MCEvidenceChain --------------------------
(* A grid of four configurations over three loads, and the scores around   *)
(* the two thresholds.                                                     *)
EXTENDS EvidenceChain

CONSTANTS s1, s2, b1, b2

(* Seed s1 at the two lower loads, s2 at the two upper ones: every adjacent *)
(* pair shares a seed, the three loads together share none.                 *)
Staircase == {<<1, s1>>, <<2, s1>>, <<2, s2>>, <<3, s2>>}
ThreeLoads == 1..3

Points(n, o, d) == [offered |-> n, on_time |-> o, completed |-> d]
Against(c, b) ==
  [violations |-> FALSE, cand |-> c, base |-> [x \in Baselines |-> b]]

JustWins == Against(Points(20, 11, 9), Points(20, 10, 10))
(* Too little gain over one baseline. *)
Loses == [JustWins EXCEPT !.base[b2].offered = 19]
(* A safety trigger, too few completions, a baseline at zero, no cohort. *)
Disqualified == {[JustWins EXCEPT !.violations = TRUE],
                 [JustWins EXCEPT !.cand.completed = 8],
                 Against(Points(20, 11, 9), Points(20, 0, 10)),
                 Against(Points(0, 0, 9), Points(0, 0, 10))}

(* No load or one of them loses, or the lowest is disqualified. *)
ScoreTables ==
  {[c \in Configs |-> IF c[1] = l THEN Loses ELSE JustWins] : l \in 0..3} \cup
  {[c \in Configs |-> IF c[1] = 1 THEN row ELSE JustWins] :
     row \in Disqualified}
=============================================================================
