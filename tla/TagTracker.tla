---------------------------- MODULE TagTracker ----------------------------
(***************************************************************************)
(* The map from a live AXI tag to the descriptor it was accepted with      *)
(* (rtl/v1/tag_tracker.sv).  One step is one rising clock edge; an accept, *)
(* a completion and a cancel may all be presented in the same edge.        *)
(***************************************************************************)
EXTENDS LifecyclePkg

CONSTANTS
  MaxOutstanding,  \* MAX_OUTSTANDING, 2 in the shipped build
  OutMax           \* 2^$clog2(MAX_OUTSTANDING+1) - 1: where the counter wraps

VARIABLES
  tag_desc,     \* descriptor stored for each tag
  tag_busy,     \* tag is live
  lookup,       \* o_lookup_valid, o_lookup_desc
  tt_err,       \* o_err, "NONE" when o_err_valid is low
  outstanding   \* o_outstanding

ttvars == <<tag_desc, tag_busy, lookup, tt_err, outstanding>>

ASSUME TrackerAssumption ==
  /\ MaxOutstanding \in Nat \ {0}
  /\ OutMax \in Nat
  /\ OutMax >= MaxOutstanding

AcceptReadyTooLate == outstanding + 1 < MaxOutstanding   \* mutant
AcceptReady == outstanding < MaxOutstanding

(* Both are judged on the registers before the edge. *)
AcceptOk(accept, desc) ==
  accept /\ ~tag_busy[desc.transaction_tag] /\ AcceptReady
CompleteOk(complete, tag) == complete /\ tag_busy[tag]

(* The later of the three checks that fails names the error. *)
TrackerError(accept, desc, complete, ctag, cancel, xtag) ==
  IF cancel /\ tag_busy[xtag] THEN "CANCEL_AFTER_ACC"
  ELSE IF complete /\ ~tag_busy[ctag] THEN "TAG_UNKNOWN"
  ELSE IF accept /\ tag_busy[desc.transaction_tag] THEN "TAG_REUSE"
  ELSE IF accept /\ ~AcceptReady THEN "OVERFLOW"
  ELSE "NONE"

(* Mutant: two assignments in one edge, of which the decrement survives. *)
OutstandingLastWins(acc_ok, cmp_ok) ==
  IF cmp_ok THEN Pred(outstanding, OutMax)
  ELSE IF acc_ok THEN Succ(outstanding, OutMax) ELSE outstanding

(* A coincident accept and completion hold the count: the delta is applied  *)
(* once.                                                                    *)
OutstandingAfter(acc_ok, cmp_ok) ==
  IF acc_ok /\ ~cmp_ok THEN Succ(outstanding, OutMax)
  ELSE IF cmp_ok /\ ~acc_ok THEN Pred(outstanding, OutMax)
  ELSE outstanding

TrackerClock(accept, desc, complete, ctag, cancel, xtag) ==
  LET acc_ok == AcceptOk(accept, desc)
      cmp_ok == CompleteOk(complete, ctag)
      atag   == desc.transaction_tag
  IN  /\ tag_desc' = IF acc_ok THEN [tag_desc EXCEPT ![atag] = desc]
                               ELSE tag_desc
      \* a completion of the tag just accepted would clear it: it is written last
      /\ tag_busy' = [t \in Tags |->
                        IF cmp_ok /\ t = ctag THEN FALSE
                        ELSE tag_busy[t] \/ (acc_ok /\ t = atag)]
      /\ lookup' = [valid |-> cmp_ok,
                    desc  |-> IF cmp_ok THEN tag_desc[ctag] ELSE lookup.desc]
      /\ tt_err' = TrackerError(accept, desc, complete, ctag, cancel, xtag)
      /\ outstanding' = OutstandingAfter(acc_ok, cmp_ok)

TrackerCleared(d, b, l, e, o) ==
  /\ d = [t \in Tags |-> ZeroDesc]
  /\ b = [t \in Tags |-> FALSE]
  /\ l = [valid |-> FALSE, desc |-> ZeroDesc]
  /\ e = "NONE"
  /\ o = 0

TrackerInit == TrackerCleared(tag_desc, tag_busy, lookup, tt_err, outstanding)
TrackerReset ==
  TrackerCleared(tag_desc', tag_busy', lookup', tt_err', outstanding')

TrackerTypeOK ==
  /\ tag_desc \in [Tags -> Descriptor]
  /\ tag_busy \in [Tags -> BOOLEAN]
  /\ lookup \in [valid : BOOLEAN, desc : Descriptor]
  /\ tt_err \in Errors
  /\ outstanding \in 0..OutMax
===========================================================================
