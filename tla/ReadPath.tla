----------------------------- MODULE ReadPath -----------------------------
(***************************************************************************)
(* ReadBlocks with a requester that presents any request on any cycle, a   *)
(* window the host has programmed and locked (axi_lite_regs.sv:301), and an*)
(* observer of the event stream.                                           *)
(***************************************************************************)
EXTENDS Integers, ReadBlocks

CONSTANTS
  ReadReqs,     \* the requests presented
  Windows       \* values the host programs into the window registers

ASSUME ReadPathAssumption ==
  /\ ReadReqs \subseteq ReadReq
  /\ Windows \subseteq Window /\ Windows # {}

VARIABLES
  win,    \* the window registers
  trail   \* observer: the last event reported for each tag

rpvars == <<rdmvars, ttvars, bus, win, trail>>

(* The observer follows the event registers. *)
Reported(t) ==
  IF evt_r'.valid /\ evt_r'.desc.transaction_tag = t
  THEN IF evt_r'.last THEN "AXI_COMPLETE" ELSE "AXI_FIRST_DATA"
  ELSE IF evt_a'.valid /\ evt_a'.desc.transaction_tag = t THEN evt_a'.code
  ELSE trail[t]

Edge(valid, req, arready, r) ==
  /\ ReadClock(valid, req, win, arready, r)
  /\ Slave(arready, r)
  /\ trail' = [t \in Tags |-> Reported(t)]
  /\ UNCHANGED win

ReadPathInit ==
  /\ RdmInit /\ TrackerInit
  /\ win \in Windows
  /\ SlaveInit
  /\ trail = [t \in Tags |-> "AXI_COMPLETE"]

(* What the requester presents: a request, or nothing. *)
Presented == [valid : {TRUE}, req : ReadReqs] \cup
             {[valid |-> FALSE, req |-> CHOOSE req \in ReadReqs : TRUE]}

ReadPathNext ==
  \E p \in Presented, arready \in BOOLEAN, r \in Beats :
    Edge(p.valid, p.req, arready, r)

ReadPathSpec == ReadPathInit /\ [][ReadPathNext]_rpvars

(* The slave eventually accepts a pending AR and eventually returns the next*)
(* beat of every live burst, as AXI requires of it.                         *)
AcceptsAr == \E p \in Presented, r \in Beats : Edge(p.valid, p.req, TRUE, r)
Serves(t) == \E p \in Presented, arready \in BOOLEAN, r \in Beats :
               r.valid /\ r.id = t /\ Edge(p.valid, p.req, arready, r)

FairReadPathSpec == /\ ReadPathSpec
                    /\ WF_rpvars(AcceptsAr)
                    /\ \A t \in Tags : WF_rpvars(Serves(t))
---------------------------------------------------------------------------
(* The counters the host audits a run with balance modulo their width:      *)
(* accepts less completes are the live bursts, first beats less completes   *)
(* those already answering, dispatches less accepts the AR being offered    *)
(* (axi_read_manager.sv:303-316, 342-343).                                  *)
Less(x, y) == (x - y) % (CntMax + 1)

CountersBalance ==
  /\ Less(rdm_cnt.accept, rdm_cnt.complete) = Cardinality(Live)
  /\ Less(rdm_cnt.first_data, rdm_cnt.complete)
       = Cardinality({t \in Live : seen_sh[t]})
  /\ Less(rdm_cnt.dispatch, rdm_cnt.accept) = IF state = "AR" THEN 1 ELSE 0

(* AXI: once ARVALID is high the address channel does not move until the    *)
(* slave has taken it, and then exactly that burst is live.                 *)
ArIsHeld ==
  [][arvalid => \/ arvalid' /\ issue' = issue
                \/ bus'[issue.desc.transaction_tag] = issue.len + 1]_rpvars

(* A completed burst reaches the lifecycle table once, on the next cycle,   *)
(* with the descriptor it was accepted with, and nothing else does          *)
(* (tag_tracker.sv:94-104).                                                 *)
CompletionIsRouted ==
  [][/\ \A t \in Tags : bus[t] > 0 /\ bus'[t] = 0 =>
                         lookup'.valid /\ lookup'.desc = tag_desc[t]
     /\ lookup'.valid => \E t \in Tags : /\ bus[t] > 0 /\ bus'[t] = 0
                                         /\ lookup'.desc.transaction_tag = t
    ]_rpvars

(* Per tag the event stream is DISPATCH, AXI_ACCEPT, AXI_FIRST_DATA,        *)
(* AXI_COMPLETE, over and over, with nothing missing: the two event slots   *)
(* never report one transaction out of order (axi_read_manager.sv:349-364). *)
EventsInOrder ==
  [][/\ evt_a'.valid =>
          trail[evt_a'.desc.transaction_tag] =
            IF evt_a'.code = "DISPATCH" THEN "AXI_COMPLETE" ELSE "DISPATCH"
     /\ evt_r'.valid =>
          trail[evt_r'.desc.transaction_tag] =
            IF evt_r'.first THEN "AXI_ACCEPT" ELSE "AXI_FIRST_DATA"
    ]_rpvars

(* Every byte of an offered burst, beat by beat, lies inside the window as  *)
(* it stands on that cycle and in the page the burst starts in, and every   *)
(* beat is aligned. Needs the window to be locked                           *)
(* (axi_read_manager.sv:135-156).                                           *)
ArIsLegal ==
  arvalid => \A beat \in 0..issue.len :
    LET first == issue.addr + beat * BeatBytes
        last  == first + BeatBytes - 1
    IN  /\ first >= win.base /\ last < win.limit
        /\ last \div PageBytes = issue.addr \div PageBytes
        /\ first % BeatBytes = 0

(* With a slave that serves, a dispatched read completes                    *)
(* (axi_read_manager.sv:183-345).                                           *)
DispatchedCompletes ==
  \A t \in Tags : (trail[t] = "DISPATCH") ~> (trail[t] = "AXI_COMPLETE")
===========================================================================
