---------------------------- MODULE MCGuardTop ----------------------------
(***************************************************************************)
(* Input sets for TLC.                                                     *)
(***************************************************************************)
EXTENDS GuardTop

NoInputs == {}   \* the free-standing table's inputs are not used here

Desc(t) == [ZeroDesc EXCEPT !.transaction_tag = t]
Read(t, l) == [ZeroRequest EXCEPT !.is_read = TRUE, !.desc = Desc(t),
                                  !.len = l]
Raw(ev) == [ZeroRequest EXCEPT !.ev = ev]

SetCtrl(start, srst, unsafe, nogen) ==
  [start |-> start, srst |-> srst, unsafe |-> unsafe, nogen |-> nogen]

OneWindow == {[base |-> 0, limit |-> 8]}
OneReuse == {ZeroReuseCfg}
SafeCtrl == {SetCtrl(a, b, FALSE, FALSE) : a, b \in BOOLEAN}

ReadsOnly == {Read(t, l) : t \in Tags, l \in BurstLens}
ReadsAndAdmit == ReadsOnly \cup {Raw("ADMIT")}
===========================================================================
