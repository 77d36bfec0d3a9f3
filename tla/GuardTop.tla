----------------------------- MODULE GuardTop -----------------------------
(***************************************************************************)
(* The top level of the guard (rtl/v1/lifecycle_guard_top.sv): the register*)
(* block, the request FIFO, the deferred soft reset and the arbitration    *)
(* that feeds the lifecycle table and the read path, with any host behind  *)
(* the registers and any AXI slave in front of the read manager.           *)
(*                                                                         *)
(* One step is one rising clock edge of the whole design: every block reads*)
(* the registers as they were before the edge.  rst_n stays high: the hard *)
(* reset is the initial state.                                             *)
(***************************************************************************)
EXTENDS Sequences, PageStateLut, ReadBlocks, AxiLiteRegs

CONSTANTS
  FifoDepth,   \* REQ_FIFO_DEPTH (8)
  SrstHold     \* cycles the datapath reset is held (16)

ASSUME TopAssumption == FifoDepth \in Nat \ {0} /\ SrstHold \in Nat \ {0}

VARIABLES
  fifo,        \* the request FIFO, head first
  srst_pend,   \* a soft reset waits for the read manager to be idle
  srst_cnt,    \* cycles the datapath reset is still held
  lc_err,      \* p_lc_err, a refused command, one edge after its answer
  trap         \* sticky_q[7], the violation trap of the debug probe

topvars == <<lutvars, rdmvars, ttvars, bus, regvars,
             fifo, srst_pend, srst_cnt, lc_err, trap>>
---------------------------------------------------------------------------
CoreUp == srst_cnt = 0

(* The deferred soft reset. Mutants: it does not wait for the reads in      *)
(* flight, or it waits for the request queue as well.                       *)
SrstTakenAtOnce == ~ctrl.srst /\ srst_pend /\ srst_cnt = 0
SrstTakenWhenDrained ==
  ~ctrl.srst /\ srst_pend /\ RdmIdle /\ fifo = <<>> /\ srst_cnt = 0
SrstTaken == ~ctrl.srst /\ srst_pend /\ RdmIdle /\ srst_cnt = 0

SoftResetUnderflows ==   \* mutant: the hold counter never stops
  /\ srst_pend' = (ctrl.srst \/ (srst_pend /\ ~SrstTaken))
  /\ srst_cnt' = IF SrstTaken THEN SrstHold ELSE srst_cnt - 1

SoftReset ==
  /\ srst_pend' = (ctrl.srst \/ (srst_pend /\ ~SrstTaken))
  /\ srst_cnt' = IF SrstTaken THEN SrstHold
                 ELSE IF srst_cnt # 0 THEN srst_cnt - 1 ELSE 0

(* The head of the request FIFO: a read for the read manager once started,  *)
(* or a lifecycle command for the table. It blocks whatever is behind it.   *)
HeadIsRead == fifo # <<>> /\ Head(fifo).is_read
HeadIsLc   == fifo # <<>> /\ ~Head(fifo).is_read

RdReq == LET h == IF fifo = <<>> THEN ZeroRequest ELSE Head(fifo)
         IN  [desc |-> h.desc, addr |-> h.addr, len |-> h.len,
              sigchk |-> h.sigchk]
RdValid == HeadIsRead /\ ctrl.start

ReqPop == \/ RdValid /\ ReqReady(win, RdReq, AcceptReady)
          \/ HeadIsLc /\ ~lookup.valid

FifoFullLate == Len(fifo) > FifoDepth   \* mutant
FifoFull == Len(fifo) = FifoDepth
ReqPush == req_valid /\ CoreUp /\ ~FifoFull

RequestFifo ==
  fifo' = IF ~CoreUp THEN <<>>
          ELSE (IF ReqPop THEN Tail(fifo) ELSE fifo)
                 \o (IF ReqPush THEN <<cmd_r>> ELSE <<>>)

(* Mutant: the queue wins the port and the one-cycle completion is lost. *)
LutCmdQueueFirst ==
  IF HeadIsLc
  THEN [valid |-> TRUE, ev |-> Head(fifo).ev, desc |-> Head(fifo).desc,
        use_desc |-> Head(fifo).use_desc]
  ELSE [valid |-> lookup.valid, ev |-> "COMPLETE", desc |-> lookup.desc,
        use_desc |-> TRUE]

(* A completion cannot be stalled, so it always wins the command port.      *)
LutCmd ==
  IF lookup.valid
  THEN [valid |-> TRUE, ev |-> "COMPLETE", desc |-> lookup.desc,
        use_desc |-> TRUE]
  ELSE IF HeadIsLc
  THEN [valid |-> TRUE, ev |-> Head(fifo).ev, desc |-> Head(fifo).desc,
        use_desc |-> Head(fifo).use_desc]
  ELSE [valid |-> FALSE, ev |-> "ACQUIRE", desc |-> ZeroDesc,
        use_desc |-> FALSE]

(* A reuse request goes round the FIFO, straight to the table. *)
LutReuse == [valid |-> reuse_req /\ CoreUp, slot |-> reuse_r.slot,
             phys |-> reuse_r.phys, tenant |-> reuse_r.tenant]

LutMode == [unsafe_bypass |-> ctrl.unsafe, no_generation_check |-> ctrl.nogen]

(* The trap: a grant while the entry last answered for is still in use. *)
Trap == trap' = (trap \/ (reuse.grant /\ ~Evictable(rsp.entry)))

LcErr == lc_err' = (CoreUp /\ rsp.valid /\ ~rsp.ok)

(* The event pulses the register block latches. REQ_DROP is its own; the    *)
(* event FIFO that would raise EVT_DROP is left out.                        *)
Raised ==
  {b \in StickyBits :
     \/ b = "WIN_REF" /\ "window" \in pulse
     \/ b = "BND_REF" /\ "boundary" \in pulse
     \/ b = "ALN_REF" /\ "align" \in pulse
     \/ b = "TAG_CONF" /\ "tag" \in pulse
     \/ b = "AXI_ERR" /\ "axi_err" \in pulse
     \/ b = "PAY_MM" /\ "payload" \in pulse
     \/ b = "STALE" /\ stale
     \/ b = "UNSAFE" /\ reuse.committed
     \/ b = "REUSE_REF" /\ reuse.refused
     \/ b = "LC_ERR" /\ lc_err}
---------------------------------------------------------------------------
(* The datapath on one edge. The table and the tracker assert their reset   *)
(* asynchronously, so they are already cleared when the reset is taken; the *)
(* read manager and the FIFO clear on the next edge.                        *)
Datapath(arready, r) ==
  /\ IF CoreUp THEN RdmClock(RdValid, RdReq, win, AcceptReady, arready, r)
               ELSE RdmReset
  /\ IF CoreUp /\ srst_cnt' = 0
     THEN /\ LutClock(LutCmd, LutReuse, LutMode)
          /\ TrackerClock(ArHs(arready), issue.desc, RLast(r), r.id,
                          FALSE, ZeroDesc.transaction_tag)
     ELSE LutReset /\ TrackerReset
  /\ Slave(arready, r)

TopEdge(arready, r) ==
  /\ SoftReset
  /\ RegsClock(~FifoFull, Raised)
  /\ RequestFifo
  /\ LcErr /\ Trap
  /\ Datapath(arready, r)

TopInit ==
  /\ LutInit /\ RdmInit /\ TrackerInit /\ SlaveInit /\ RegsInit
  /\ fifo = <<>>
  /\ srst_pend = FALSE /\ srst_cnt = 0
  /\ lc_err = FALSE /\ trap = FALSE

TopNext == \E arready \in BOOLEAN, r \in Beats : TopEdge(arready, r)

TopSpec == TopInit /\ [][TopNext]_topvars

(* The clock runs, and the slave does what AXI asks of it: it accepts the   *)
(* address in the end and returns the next beat of every live burst.        *)
TakesAr == \E r \in Beats : TopEdge(TRUE, r)
Returns(t) == \E arready \in BOOLEAN, r \in Beats :
                r.valid /\ r.id = t /\ TopEdge(arready, r)

FairTopSpec == /\ TopSpec
               /\ WF_topvars(TopNext)
               /\ WF_topvars(TakesAr)
               /\ \A t \in Tags : WF_topvars(Returns(t))
---------------------------------------------------------------------------
TopTypeOK ==
  /\ LutTypeOK /\ RdmTypeOK /\ TrackerTypeOK /\ RegsTypeOK
  /\ fifo \in Seq(Requests \cup {ZeroRequest})
  /\ srst_pend \in BOOLEAN /\ srst_cnt \in 0..SrstHold
  /\ lc_err \in BOOLEAN /\ trap \in BOOLEAN

(* A soft reset never abandons a burst: while the datapath reset is held    *)
(* nothing is outstanding on the bus and no address is offered, although a  *)
(* read may be taken from the queue on the very edge the reset is granted   *)
(* (lifecycle_guard_top.sv:43-46, 215-235).                                 *)
SoftResetIsClean ==
  ~CoreUp => ~arvalid /\ \A t \in Tags : bus[t] = 0

(* The room the register block saw when it accepted a CMD_GO is still there *)
(* one edge later, when the request is pushed: no accepted command is lost  *)
(* to a full queue (axi_lite_regs.sv:368-377, lifecycle_guard_top.sv:281).  *)
AcceptedGoHasRoom == req_valid => Len(fifo) < FifoDepth

(* What is pushed is what the host had written when it said GO: the command *)
(* registers do not move under the one-edge-late push                       *)
(* (axi_lite_regs.sv:251-264, 368-377).                                     *)
PushIsStable ==
  [][/\ req_valid => cmd_r' = cmd_r
     /\ reuse_req => reuse_r' = reuse_r]_topvars

(* "impossible for a KV cache page to be reused while a transaction is still*)
(* reading it" (README.md:3-4): no slot changes hands while a burst that was*)
(* issued through it is live on the bus.                                    *)
NoReuseUnderRead ==
  [][\A s \in Slots : NewOwner(s) =>
       \A t \in Tags : bus[t] > 0 => tag_desc[t].lifecycle_slot # s]_topvars

(* Once started the request queue never stops for good: reads, bookkeeping  *)
(* and completions contending for one table port and MAX_OUTSTANDING places *)
(* leave no head stuck (lifecycle_guard_top.sv:316-318, 415-433).           *)
QueueKeepsMoving == [](ctrl.start => <>(fifo = <<>> \/ ReqPop \/ ~ctrl.start))

(* A requested soft reset is taken unless a read is waiting to go out: what *)
(* is already in flight cannot hold it off (lifecycle_guard_top.sv:222-235).*)
SoftResetHappens == srst_pend ~> (~CoreUp \/ RdValid)
===========================================================================
