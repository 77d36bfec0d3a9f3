------------------------- MODULE MCDisciplinedHost -------------------------
(***************************************************************************)
(* Input sets for TLC.                                                     *)
(***************************************************************************)
EXTENDS DisciplinedHost

NoInputs == {}

(* A read under any generation of the slot, current or not, and the two     *)
(* commands that go before it.                                              *)
Plans == {[ZeroDesc EXCEPT !.transaction_tag = t, !.expected_generation = g] :
            t \in Tags, g \in 0..GenMax}
PlannedReads ==
  {[ZeroRequest EXCEPT !.is_read = TRUE, !.desc = d] : d \in Plans} \cup
  {[ZeroRequest EXCEPT !.ev = ev, !.use_desc = TRUE, !.desc = d] :
     d \in Plans, ev \in {"ADMIT", "ISSUE"}}

OneWindow == {[base |-> 0, limit |-> 8]}
OneReuse == {ZeroReuseCfg}
Started == {[start |-> TRUE, srst |-> FALSE, unsafe |-> FALSE,
             nogen |-> FALSE]}
===========================================================================
