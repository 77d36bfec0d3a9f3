---------------------------- MODULE ReadBlocks ----------------------------
(***************************************************************************)
(* The read manager and the tag tracker as the top level wires them        *)
(* (rtl/v1/lifecycle_guard_top.sv:288-413), facing an AXI slave that       *)
(* accepts AR when it likes, returns the beats of live bursts in any order *)
(* across tags, and ends each burst with RLAST on its last beat.           *)
(*                                                                         *)
(* The tracker's cancel port is tied off at the top.                       *)
(***************************************************************************)
EXTENDS FiniteSets, AxiReadManager, TagTracker

VARIABLE bus   \* beats each tag still has to come on the R channel

NoBeat == [valid |-> FALSE, id |-> ZeroDesc.transaction_tag, last |-> FALSE,
           err |-> FALSE, match |-> FALSE]

(* The R beats the slave may return now: the next one of a live burst. *)
Beats == {NoBeat} \cup
  {[valid |-> TRUE, id |-> t, last |-> bus[t] = 1, err |-> e, match |-> m] :
     t \in {u \in Tags : bus[u] > 0}, e \in BOOLEAN, m \in BOOLEAN}

(* The two blocks on one edge, wired together. *)
ReadClock(valid, req, w, arready, r) ==
  /\ RdmClock(valid, req, w, AcceptReady, arready, r)
  /\ TrackerClock(ArHs(arready), issue.desc, RLast(r), r.id,
                  FALSE, ZeroDesc.transaction_tag)

(* The slave's side of the same edge. *)
Slave(arready, r) ==
  bus' = [t \in Tags |->
            IF ArHs(arready) /\ t = issue.desc.transaction_tag
            THEN issue.len + 1
            ELSE IF r.valid /\ t = r.id THEN bus[t] - 1 ELSE bus[t]]

SlaveInit == bus = [t \in Tags |-> 0]
---------------------------------------------------------------------------
Live == {t \in Tags : tag_busy[t]}

(* Three parties each keep their own idea of which bursts are live: the     *)
(* manager's shadow, the tracker and the bus. They agree on every cycle, the*)
(* two descriptor copies included (axi_read_manager.sv:158-164, 321-332;    *)
(* tag_tracker.sv:80-104).                                                  *)
LiveSetsAgree ==
  /\ busy_sh = tag_busy
  /\ \A t \in Tags : /\ tag_busy[t] <=> bus[t] > 0
                     /\ tag_busy[t] => /\ tag_desc[t] = desc_sh[t]
                                        /\ tag_desc[t].transaction_tag = t

(* The outstanding counter counts the live tags exactly, and the room that  *)
(* was checked when a request was taken is still there when its AR is       *)
(* accepted, several cycles and any number of completions later             *)
(* (tag_tracker.sv:70-108, axi_read_manager.sv:182-187).                    *)
OutstandingIsExact ==
  /\ outstanding = Cardinality(Live)
  /\ outstanding <= MaxOutstanding
  /\ state # "IDLE" => /\ outstanding < MaxOutstanding
                       /\ ~tag_busy[issue.desc.transaction_tag]
===========================================================================
