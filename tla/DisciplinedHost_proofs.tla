----------------------- MODULE DisciplinedHost_proofs -----------------------
(***************************************************************************)
(* Theorems about the whole guard, for any number of tags, slots and queue *)
(* places.                                                                 *)
(*                                                                         *)
(* First behind any host and in front of any AXI slave: the read blocks    *)
(* keep their agreement through soft resets too, a soft reset abandons     *)
(* nothing, and an accepted command is never lost.                         *)
(*                                                                         *)
(* Then behind a host that reads under a recorded use: everything on its   *)
(* way to the table, in the queue or one edge before it, belongs to a read *)
(* whose phase says that it is there (PipeInv, InOrder); a burst on the bus*)
(* belongs to a read in phase "reading" (UnderWay); such a read still      *)
(* resolves (Held), because it is counted in its slot's inflight and the   *)
(* interlock grants nothing there (ReadsAreCovered); and every reservation *)
(* is owed to a read that will give it back (OnlyReads).                   *)
(***************************************************************************)
EXTENDS DisciplinedHost, PageStateLut_proofs, ReadBlocks_proofs,
        SequenceTheorems

USE PkgAssumption, TrackerAssumption, RdmAssumption, RegsAssumption,
    TopAssumption

---------------------------------------------------------------------------
(* While the datapath reset is held the read blocks are empty. A request    *)
(* taken on the edge that grants the reset may still be in the issue        *)
(* register, but its address is not offered yet.                            *)
ResetIsEmpty == ~CoreUp => ~arvalid /\ Live = {}

QueueFits == Len(fifo) <= FifoDepth

(* The GO pulses are raised by the write whose response is then on offer.   *)
PulseHasResponse == req_valid \/ reuse_req => b_pend

TopInv ==
  /\ TopTypeOK /\ BlocksInv
  /\ ResetIsEmpty /\ QueueFits /\ PulseHasResponse /\ AcceptedGoHasRoom
---------------------------------------------------------------------------
(* The command registers always hold some request, out of reset too         *)
(* (axi_lite_regs.sv:160-183).                                              *)
LEMMA RequestType ==
  /\ ZeroRequest \in Request
  /\ Requests \cup {ZeroRequest} \subseteq Request
<1>1. ZeroRequest \in Request
  BY ZeroDescType DEF ZeroRequest, Request, LcEvents
<1> QED
  BY <1>1

LEMMA ReuseCfgType ==
  /\ ZeroReuseCfg \in ReuseCfg
  /\ ReuseCfgs \cup {ZeroReuseCfg} \subseteq ReuseCfg
<1>1. ZeroReuseCfg \in ReuseCfg
  BY ZeroDescType DEF ZeroReuseCfg, ReuseCfg, Descriptor
<1> QED
  BY <1>1

(* What is at the head of the queue.                                        *)
LEMMA HeadType ==
  ASSUME TopTypeOK, fifo # <<>>
  PROVE  Head(fifo) \in Request
<1>1. Head(fifo) \in Requests \cup {ZeroRequest}
  BY HeadTailProperties DEF TopTypeOK
<1> QED
  BY <1>1, RequestType

(* What the arbitration presents to the blocks is always a legal input      *)
(* (lifecycle_guard_top.sv:297-330, 415-456).                               *)
LEMMA PortTypes ==
  ASSUME TopTypeOK
  PROVE  /\ LutCmd \in LcCmd /\ LutReuse \in ReuseReq /\ LutMode \in BypassMode
         /\ RdReq \in ReadReq /\ RdValid \in BOOLEAN
<1>1. LutCmd \in LcCmd
  <2>1. lookup.valid \in BOOLEAN /\ lookup.desc \in Descriptor
    BY DEF TopTypeOK, TrackerTypeOK
  <2>2. "COMPLETE" \in LcEvents /\ "ACQUIRE" \in LcEvents
    BY DEF LcEvents
  <2>3. CASE lookup.valid
    BY <2>1, <2>2, <2>3 DEF LutCmd, LcCmd
  <2>4. CASE ~lookup.valid /\ HeadIsLc
    <3>1. Head(fifo) \in Request
      BY <2>4, HeadType DEF HeadIsLc
    <3> QED
      BY <2>4, <3>1 DEF LutCmd, LcCmd, Request
  <2>5. CASE ~lookup.valid /\ ~HeadIsLc
    BY <2>2, <2>5, ZeroDescType DEF LutCmd, LcCmd
  <2> QED
    BY <2>3, <2>4, <2>5
<1>2. LutReuse \in ReuseReq
  <2>1. reuse_r \in ReuseCfg /\ reuse_req \in BOOLEAN
    BY ReuseCfgType DEF TopTypeOK, RegsTypeOK
  <2> QED
    BY <2>1 DEF LutReuse, ReuseReq, ReuseCfg, CoreUp
<1>3. LutMode \in BypassMode /\ ctrl.start \in BOOLEAN
  BY DEF TopTypeOK, RegsTypeOK, Ctrl, LutMode, BypassMode
<1>4. RdReq \in ReadReq
  <2>1. (IF fifo = <<>> THEN ZeroRequest ELSE Head(fifo)) \in Request
    BY HeadType, RequestType
  <2> QED
    BY <2>1 DEF RdReq, ReadReq, Request
<1>5. RdValid \in BOOLEAN
  BY <1>3, HeadType DEF RdValid, HeadIsRead, Request
<1> QED
  BY <1>1, <1>2, <1>3, <1>4, <1>5
---------------------------------------------------------------------------
(* One edge of the register block (axi_lite_regs.sv:280-410).               *)
LEMMA RegsTypeStep ==
  ASSUME RegsTypeOK, NEW ready \in BOOLEAN, NEW raised,
         RegsClock(ready, raised)
  PROVE  RegsTypeOK'
<1>1. PICK w : /\ w \in (IF WrCommit THEN HostWrites ELSE {"NONE"})
               /\ Written(w)
               /\ \E cleared : Pulses(w, ready, raised, cleared)
  BY DEF RegsClock
<1>2. PICK cleared : Pulses(w, ready, raised, cleared)
  BY <1>1
<1>3. wr_pend' \in BOOLEAN /\ b_pend' \in BOOLEAN
  BY DEF RegsClock, Handshake, RegsTypeOK
<1>4. ctrl' \in Ctrl
  BY <1>1 DEF Written, RegsTypeOK, Ctrl
<1>5. /\ win' \in WindowValues \cup {[base |-> 0, limit |-> 0]}
      /\ win_locked' \in BOOLEAN
      /\ cmd_r' \in Requests \cup {ZeroRequest}
      /\ reuse_r' \in ReuseCfgs \cup {ZeroReuseCfg}
  BY <1>1 DEF Written, RegsTypeOK
<1>6. /\ req_valid' \in BOOLEAN /\ reuse_req' \in BOOLEAN
      /\ sticky' \subseteq StickyKept
  BY <1>2 DEF Pulses
<1>7. reg_cnt' \in [req_drop : Count, illegal : Count]
  <2>1. reg_cnt.req_drop \in Count /\ reg_cnt.illegal \in Count
    BY DEF RegsTypeOK
  <2>2. Dropped(w, ready) \in BOOLEAN /\ (w = "READ_ONLY") \in BOOLEAN
    BY DEF Dropped
  <2> QED
    BY <1>2, <2>1, <2>2, TickType DEF Pulses
<1> QED
  BY <1>3, <1>4, <1>5, <1>6, <1>7 DEF RegsTypeOK

(* A pulse needs a write that commits, and nothing moves without one.       *)
LEMMA PulseStep ==
  ASSUME NEW ready \in BOOLEAN, NEW raised, RegsClock(ready, raised)
  PROVE  /\ req_valid' \/ reuse_req' => WrCommit /\ b_pend'
         /\ req_valid' => ready
         /\ ~WrCommit => cmd_r' = cmd_r /\ reuse_r' = reuse_r /\ win' = win
         /\ req_valid' \/ reuse_req' => cmd_r' = cmd_r /\ reuse_r' = reuse_r
         /\ ctrl' \in CtrlValues \/ ctrl' = [ctrl EXCEPT !.srst = FALSE]
<1>1. PICK w : /\ w \in (IF WrCommit THEN HostWrites ELSE {"NONE"})
               /\ Written(w)
               /\ \E cleared : Pulses(w, ready, raised, cleared)
  BY DEF RegsClock
<1>2. /\ req_valid' = (w = "CMD_GO" /\ ready)
      /\ reuse_req' = (w = "REUSE_GO")
  BY <1>1 DEF Pulses
<1>3. ~WrCommit => w = "NONE"
  BY <1>1
<1>4. WrCommit => b_pend'
  BY DEF RegsClock, Handshake, WrCommit
<1> QED
  BY <1>1, <1>2, <1>3, <1>4 DEF Written

(* The queue on one edge (lifecycle_guard_top.sv:270-296).                  *)
LEMMA FifoStep ==
  ASSUME TopTypeOK, QueueFits, RequestFifo
  PROVE  /\ fifo' \in Seq(Requests \cup {ZeroRequest})
         /\ Len(fifo') <= FifoDepth
         /\ ~req_valid => Len(fifo') <= Len(fifo)
<1> DEFINE S == Requests \cup {ZeroRequest}
           kept == IF ReqPop THEN Tail(fifo) ELSE fifo
           new == IF ReqPush THEN <<cmd_r>> ELSE <<>>
<1>1. /\ fifo \in Seq(S) /\ cmd_r \in S
      /\ Len(fifo) \in Nat /\ Len(fifo) <= FifoDepth
  BY LenProperties DEF TopTypeOK, RegsTypeOK, QueueFits
<1>2. ReqPop => fifo # <<>>
  BY DEF ReqPop, RdValid, HeadIsRead, HeadIsLc
<1>3. kept \in Seq(S) /\ Len(kept) <= Len(fifo) /\ Len(kept) \in Nat
  BY <1>1, <1>2, HeadTailProperties, LenProperties
<1>4. /\ new \in Seq(S) /\ Len(new) = IF ReqPush THEN 1 ELSE 0
  <2>1. <<cmd_r>> \in Seq(S) /\ Len(<<cmd_r>>) = 1
    BY <1>1
  <2>2. <<>> \in Seq(S) /\ Len(<<>>) = 0
    OBVIOUS
  <2> HIDE DEF S
  <2> QED
    BY <2>1, <2>2
<1>5. ReqPush => req_valid /\ Len(fifo) # FifoDepth
  BY DEF ReqPush, FifoFull
<1>6. fifo' = IF ~CoreUp THEN <<>> ELSE kept \o new
  BY DEF RequestFifo
<1>7. Len(<<>>) = 0 /\ <<>> \in Seq(S)
  OBVIOUS
<1>8. kept \o new \in Seq(S) /\ Len(kept \o new) = Len(kept) + Len(new)
  BY <1>3, <1>4, ConcatProperties
<1> HIDE DEF S, kept, new
<1> QED
  BY <1>1, <1>3, <1>4, <1>5, <1>6, <1>7, <1>8 DEF S
---------------------------------------------------------------------------
(* The reset counter on one edge.                                           *)
LEMMA SoftResetStep ==
  ASSUME TopTypeOK, SoftReset
  PROVE  /\ srst_pend' \in BOOLEAN /\ srst_cnt' \in 0 .. SrstHold
         /\ CoreUp /\ srst_cnt' # 0 => RdmIdle
<1>1. srst_cnt \in 0 .. SrstHold /\ srst_pend \in BOOLEAN /\ ctrl \in Ctrl
  BY DEF TopTypeOK, RegsTypeOK
<1>2. SrstTaken \in BOOLEAN /\ ctrl.srst \in BOOLEAN
  BY <1>1 DEF SrstTaken, Ctrl
<1> QED
  BY <1>1, <1>2 DEF SoftReset, CoreUp, SrstTaken

(* With no burst live the bus is silent.                                    *)
LEMMA SilentBus ==
  ASSUME BlocksInv, Live = {}, NEW r \in Beats
  PROVE  r = NoBeat /\ \A t \in Tags : bus[t] = 0 /\ ~tag_busy[t]
<1>1. \A t \in Tags : ~tag_busy[t]
  BY DEF Live
<1>2. \A t \in Tags : bus[t] = 0
  BY <1>1 DEF BlocksInv, RecordTypes, LiveSetsAgree
<1> QED
  BY <1>1, <1>2 DEF Beats

(* The tracker is cleared while no burst is live: the bus agrees, and only  *)
(* a request that has not been offered yet can be under way.                *)
LEMMA EmptyAgain ==
  ASSUME BlocksInv, Live = {}, ~arvalid, NEW arready \in BOOLEAN,
         NEW r \in Beats, Slave(arready, r), TrackerReset,
         RdmTypeOK', ArIsState', ~arvalid', busy_sh' = [t \in Tags |-> FALSE]
  PROVE  BlocksInv' /\ Live' = {}
<1>1. /\ tag_busy' = [t \in Tags |-> FALSE] /\ outstanding' = 0
      /\ TrackerTypeOK'
  BY ZeroDescType DEF TrackerReset, TrackerCleared, TrackerTypeOK, Errors
<1>2. Live' = {} /\ IsFiniteSet(Live') /\ Cardinality(Live') = 0
  BY <1>1, FS_EmptySet DEF Live
<1>3. bus' = [t \in Tags |-> 0]
  BY SilentBus DEF Slave, ArHs, NoBeat
<1>4. issue'.desc.transaction_tag \in Tags
  BY DEF RdmTypeOK, ReadReq, Descriptor
<1>5. RecordTypes' /\ LiveSetsAgree'
  BY <1>1, <1>2, <1>3 DEF RecordTypes, LiveSetsAgree
<1>6. OutstandingIsExact'
  BY <1>1, <1>2, <1>4 DEF OutstandingIsExact
<1> QED
  BY <1>2, <1>5, <1>6 DEF BlocksInv

(* The edge on which the reset is granted: the tracker clears at once, the  *)
(* manager still runs, from idle (lifecycle_guard_top.sv:222-235).          *)
LEMMA TakenStep ==
  ASSUME TopTypeOK, BlocksInv, CoreUp, RdmIdle, srst_cnt' # 0,
         NEW arready \in BOOLEAN, NEW r \in Beats, Datapath(arready, r)
  PROVE  BlocksInv' /\ ~arvalid' /\ Live' = {}
<1>1. /\ RdmClock(RdValid, RdReq, win, AcceptReady, arready, r)
      /\ TrackerReset /\ Slave(arready, r)
  BY DEF Datapath
<1>2. state = "IDLE" /\ ~arvalid /\ busy_sh = tag_busy /\ Live = {}
      /\ \A t \in Tags : ~busy_sh[t]
  BY DEF RdmIdle, BlocksInv, ArIsState, LiveSetsAgree, Live
<1>3. ~r.valid
  BY <1>2, SilentBus DEF NoBeat
<1>4. RdmTypeOK'
  BY <1>1, PortTypes, BeatFacts, RdmTypeStep DEF BlocksInv, RecordTypes
<1>5. ~arvalid' /\ state' # "AR"
  BY <1>1, <1>2 DEF RdmClock, IssueMachine
<1>6. busy_sh' = [t \in Tags |-> FALSE]
  BY <1>1, <1>2, <1>3 DEF RdmClock, Shadow, ArHs, RLast
<1> QED
  BY <1>1, <1>2, <1>4, <1>5, <1>6, EmptyAgain DEF ArIsState

(* An edge while the reset is held.                                         *)
LEMMA HeldStep ==
  ASSUME BlocksInv, ResetIsEmpty, ~CoreUp,
         NEW arready \in BOOLEAN, NEW r \in Beats, Datapath(arready, r)
  PROVE  BlocksInv' /\ ~arvalid' /\ Live' = {}
<1>1. RdmReset /\ TrackerReset /\ Slave(arready, r)
  BY DEF Datapath
<1>2. Live = {} /\ ~arvalid
  BY DEF ResetIsEmpty
<1>3. /\ busy_sh' = [t \in Tags |-> FALSE] /\ state' = "IDLE" /\ ~arvalid'
  BY <1>1 DEF RdmReset, RdmCleared
<1>4. RdmTypeOK'
  <2>1. /\ 0 \in Count /\ ZeroDesc \in Descriptor
        /\ [desc |-> ZeroDesc, addr |-> 0, len |-> 0, sigchk |-> FALSE]
             \in ReadReq
    BY ZeroDescType DEF Count, ReadReq
  <2> USE <1>1 DEF RdmReset, RdmCleared
  <2>2. /\ evt_a' \in [valid : BOOLEAN, code : {"DISPATCH", "AXI_ACCEPT"},
                       desc : Descriptor]
        /\ evt_r' \in [valid : BOOLEAN, first : BOOLEAN, last : BOOLEAN,
                       desc : Descriptor]
    BY <2>1
  <2>3. rdm_cnt' \in [dispatch : Count, accept : Count, first_data : Count,
                      complete : Count]
    BY <2>1
  <2>4. /\ state' \in {"IDLE", "DISP", "AR"} /\ arvalid' \in BOOLEAN
        /\ issue' \in ReadReq
        /\ busy_sh' \in [Tags -> BOOLEAN] /\ seen_sh' \in [Tags -> BOOLEAN]
        /\ desc_sh' \in [Tags -> Descriptor] /\ chk_sh' \in [Tags -> BOOLEAN]
        /\ pulse' \subseteq (Refusals \cup {"axi_err", "payload"})
    BY <2>1
  <2> QED
    BY <2>2, <2>3, <2>4 DEF RdmTypeOK
<1> QED
  BY <1>1, <1>2, <1>3, <1>4, EmptyAgain DEF ArIsState

(* An edge with the core running: ReadBlocks_proofs applies.                *)
LEMMA RunningStep ==
  ASSUME TopTypeOK, BlocksInv, CoreUp, srst_cnt' = 0,
         NEW arready \in BOOLEAN, NEW r \in Beats, Datapath(arready, r)
  PROVE  /\ BlocksEdge(RdValid, RdReq, win, arready, r)
         /\ LutClock(LutCmd, LutReuse, LutMode)
         /\ BlocksInv'
<1>1. /\ BlocksEdge(RdValid, RdReq, win, arready, r)
      /\ LutClock(LutCmd, LutReuse, LutMode)
  BY DEF Datapath, BlocksEdge, ReadClock
<1> QED
  BY <1>1, PortTypes, BlocksStep

LEMMA DatapathStep ==
  ASSUME TopTypeOK, BlocksInv, ResetIsEmpty, SoftReset,
         NEW arready \in BOOLEAN, NEW r \in Beats, Datapath(arready, r)
  PROVE  BlocksInv' /\ ResetIsEmpty' /\ LutTypeOK'
<1>1. CASE CoreUp /\ srst_cnt' = 0
  BY <1>1, PortTypes, RunningStep, ClockTyped
     DEF TopTypeOK, ResetIsEmpty, CoreUp
<1>2. CASE CoreUp /\ srst_cnt' # 0
  <2>1. LutReset
    BY <1>2 DEF Datapath
  <2> QED
    BY <1>2, <2>1, SoftResetStep, TakenStep, ResetTyped DEF ResetIsEmpty
<1>3. CASE ~CoreUp
  <2>1. LutReset
    BY <1>3 DEF Datapath
  <2> QED
    BY <1>3, <2>1, HeldStep, ResetTyped DEF ResetIsEmpty
<1> QED
  BY <1>1, <1>2, <1>3
---------------------------------------------------------------------------
LEMMA TopInvInit == TopInit => TopInv
<1> SUFFICES ASSUME TopInit PROVE TopInv
  OBVIOUS
<1> USE DEF TopInit, RegsInit
<1>1. BlocksInv /\ LutTypeOK
  BY BlocksInvInit, InitTyped
<1>2. RegsTypeOK
  <2>1. ctrl \in Ctrl
    BY DEF Ctrl
  <2>2. reg_cnt \in [req_drop : Count, illegal : Count]
    BY DEF Count
  <2> QED
    BY <2>1, <2>2 DEF RegsTypeOK
<1>3. fifo \in Seq(Requests \cup {ZeroRequest}) /\ Len(fifo) = 0
  <2>1. fifo = <<>>
    OBVIOUS
  <2> QED
    BY <2>1, EmptySeq
<1>4. TopTypeOK
  <2>1. srst_pend \in BOOLEAN /\ lc_err \in BOOLEAN /\ trap \in BOOLEAN
    BY Zenon
  <2>3. srst_cnt \in 0..SrstHold
    OBVIOUS
  <2>2. RdmTypeOK /\ TrackerTypeOK
    BY <1>1 DEF BlocksInv, RecordTypes
  <2> QED
    BY <1>1, <1>2, <1>3, <2>1, <2>2, <2>3, Zenon DEF TopTypeOK
<1> QED
  BY <1>1, <1>3, <1>4 DEF TopInv, ResetIsEmpty, CoreUp, QueueFits,
     PulseHasResponse, AcceptedGoHasRoom

(* One edge of the whole design.                                            *)
LEMMA TopInvStep ==
  ASSUME TopInv, NEW arready \in BOOLEAN, NEW r \in Beats, TopEdge(arready, r)
  PROVE  TopInv'
<1> USE DEF TopInv
<1>1. /\ SoftReset /\ RegsClock(~FifoFull, Raised) /\ RequestFifo
      /\ LcErr /\ Trap /\ Datapath(arready, r)
  BY DEF TopEdge
<1>2. FifoFull \in BOOLEAN
  BY DEF FifoFull
<1>3. BlocksInv' /\ ResetIsEmpty' /\ LutTypeOK'
  BY <1>1, DatapathStep
<1>4. TopTypeOK'
  <2>1. lc_err' \in BOOLEAN /\ trap' \in BOOLEAN
    <3>1. /\ reuse.grant \in BOOLEAN /\ trap \in BOOLEAN
          /\ rsp.valid \in BOOLEAN /\ rsp.ok \in BOOLEAN
      BY DEF TopTypeOK, LutTypeOK, LcRsp
    <3> QED
      BY <1>1, <3>1 DEF LcErr, Trap, CoreUp
  <2>2. RegsTypeOK'
    BY <1>1, <1>2, RegsTypeStep DEF TopTypeOK
  <2> QED
    BY <1>1, <1>3, <2>1, <2>2, SoftResetStep, FifoStep
       DEF TopTypeOK, BlocksInv, RecordTypes
<1>5. QueueFits' /\ PulseHasResponse'
  BY <1>1, <1>2, FifoStep, PulseStep DEF QueueFits, PulseHasResponse
<1>6. AcceptedGoHasRoom'
  <2> SUFFICES ASSUME req_valid' PROVE Len(fifo') < FifoDepth
    BY DEF AcceptedGoHasRoom
  <2>1. ~FifoFull /\ ~req_valid
    BY <1>1, <1>2, PulseStep DEF WrCommit, PulseHasResponse
  <2>2. Len(fifo) \in Nat /\ Len(fifo) < FifoDepth
    BY <2>1, LenProperties DEF FifoFull, QueueFits, TopTypeOK
  <2>3. Len(fifo') \in Nat /\ Len(fifo') <= Len(fifo)
    BY <1>1, <1>4, <2>1, FifoStep, LenProperties DEF TopTypeOK
  <2> QED
    BY <2>2, <2>3
<1> QED
  BY <1>3, <1>4, <1>5, <1>6

LEMMA TopStutter == TopInv /\ UNCHANGED topvars => TopInv'
<1> SUFFICES ASSUME TopInv, UNCHANGED topvars PROVE TopInv'
  OBVIOUS
<1>1. BlocksInv'
  BY BlocksStutter DEF TopInv, topvars
<1>2. TopTypeOK'
  BY DEF TopInv, TopTypeOK, topvars, LutTypeOK, RdmTypeOK, TrackerTypeOK,
         RegsTypeOK, lutvars, rdmvars, ttvars, regvars
<1>3. (ResetIsEmpty /\ QueueFits /\ PulseHasResponse /\ AcceptedGoHasRoom)'
  BY DEF TopInv, ResetIsEmpty, QueueFits, PulseHasResponse,
         AcceptedGoHasRoom, CoreUp, Live, topvars, rdmvars, ttvars, regvars
<1> QED
  BY <1>1, <1>2, <1>3 DEF TopInv

LEMMA TopInvHolds == TopSpec => []TopInv
<1>1. TopInv /\ [TopNext]_topvars => TopInv'
  BY TopInvStep, TopStutter DEF TopNext
<1> QED
  BY <1>1, TopInvInit, PTL DEF TopSpec
---------------------------------------------------------------------------
(* Every register of the design stays within its width and the queue holds  *)
(* requests the host wrote.                                                 *)
THEOREM TopTypeCorrect == TopSpec => []TopTypeOK
<1>1. TopInv => TopTypeOK
  BY DEF TopInv
<1> QED
  BY <1>1, TopInvHolds, PTL

(* A soft reset never abandons a burst, for any number of tags, any queue   *)
(* and any length of the reset (lifecycle_guard_top.sv:43-46, 215-235).     *)
THEOREM SoftResetCorrect == TopSpec => []SoftResetIsClean
<1>1. TopInv => SoftResetIsClean
  BY DEF TopInv, ResetIsEmpty, SoftResetIsClean, BlocksInv, RecordTypes,
         LiveSetsAgree, Live
<1> QED
  BY <1>1, TopInvHolds, PTL

(* No accepted command is lost to a full queue, at any depth                *)
(* (axi_lite_regs.sv:368-377, lifecycle_guard_top.sv:281).                  *)
THEOREM RoomCorrect == TopSpec => []AcceptedGoHasRoom
<1>1. TopInv => AcceptedGoHasRoom
  BY DEF TopInv
<1> QED
  BY <1>1, TopInvHolds, PTL

(* The three records of the live bursts agree in the whole design too,      *)
(* through any number of soft resets (lifecycle_guard_top.sv:288-413).      *)
THEOREM TopRecordsAgree == TopSpec => [](LiveSetsAgree /\ OutstandingIsExact)
<1>1. TopInv => LiveSetsAgree /\ OutstandingIsExact
  BY DEF TopInv, BlocksInv
<1> QED
  BY <1>1, TopInvHolds, PTL

(* What is pushed is what the host had written when it said GO              *)
(* (axi_lite_regs.sv:251-264, 368-377).                                     *)
THEOREM PushCorrect == TopSpec => PushIsStable
<1> DEFINE Stable == /\ req_valid => cmd_r' = cmd_r
                     /\ reuse_req => reuse_r' = reuse_r
<1>1. TopInv /\ [TopNext]_topvars => [Stable]_topvars
  <2> SUFFICES ASSUME TopInv, TopNext, req_valid \/ reuse_req
               PROVE  cmd_r' = cmd_r /\ reuse_r' = reuse_r
    OBVIOUS
  <2>1. RegsClock(~FifoFull, Raised) /\ (~FifoFull) \in BOOLEAN
    BY DEF TopNext, TopEdge, FifoFull
  <2>2. ~WrCommit
    BY DEF TopInv, PulseHasResponse, WrCommit
  <2> QED
    BY <2>1, <2>2, PulseStep
<1> QED
  BY <1>1, TopInvHolds, PTL DEF TopSpec, PushIsStable
---------------------------------------------------------------------------
(* Whatever the host asks, a slot changes hands cleanly: only by a grant    *)
(* that advances its generation, and without a committed bypass only when   *)
(* unused before and after (page_state_lut.sv:180-214).                     *)
THEOREM TopHandOverCorrect == TopSpec => HandOverIsClean
<1>1. TopInv /\ [TopNext]_topvars => [\A s \in Slots : Clean(s)]_lutvars
  <2> SUFFICES ASSUME TopInv, [TopNext]_topvars, ~UNCHANGED lutvars,
                      NEW s \in Slots
               PROVE  Clean(s)
    OBVIOUS
  <2>1. PICK arready \in BOOLEAN, r \in Beats : Datapath(arready, r)
    BY DEF topvars, TopNext, TopEdge
  <2>2. TopTypeOK /\ LutTypeOK
    BY DEF TopInv, TopTypeOK
  <2>3. CASE LutClock(LutCmd, LutReuse, LutMode)
    BY <2>2, <2>3, PortTypes, CleanClock
  <2>4. CASE LutReset
    BY <2>4, CleanReset
  <2> QED
    BY <2>1, <2>3, <2>4 DEF Datapath
<1> QED
  BY <1>1, TopInvHolds, PTL DEF TopSpec, HandOverIsClean, Clean

(* A host that never sets the bypass bit: CTRL is all there is to it        *)
(* (axi_lite_regs.sv:284-293).                                              *)
NoBypass == ~ctrl.unsafe

LEMMA BypassStaysOff ==
  ASSUME \A c \in CtrlValues : ~c.unsafe
  PROVE  TopSpec => []NoBypass
<1>1. TopInit => NoBypass
  BY DEF NoBypass, TopInit, RegsInit
<1>2. TopInv /\ NoBypass /\ [TopNext]_topvars => NoBypass'
  <2> SUFFICES ASSUME TopInv, ~ctrl.unsafe, [TopNext]_topvars
               PROVE  ~ctrl'.unsafe
    BY DEF NoBypass
  <2>1. CASE TopNext
    <3>1. RegsClock(~FifoFull, Raised) /\ (~FifoFull) \in BOOLEAN
      BY <2>1 DEF TopNext, TopEdge, FifoFull
    <3>2. ctrl' \in CtrlValues \/ ctrl' = [ctrl EXCEPT !.srst = FALSE]
      BY <3>1, PulseStep
    <3>3. ctrl \in Ctrl
      BY DEF TopInv, TopTypeOK, RegsTypeOK
    <3> QED
      BY <3>2, <3>3 DEF Ctrl
  <2>2. CASE UNCHANGED topvars
    BY <2>2 DEF topvars, regvars
  <2> QED
    BY <2>1, <2>2
<1> QED
  BY <1>1, <1>2, TopInvHolds, PTL DEF TopSpec

(* Behind such a host the whole guard implements SlotLifecycle: completions *)
(* and commands sharing one table port, deferred resets and a queue in      *)
(* front of it leave the promise of the table as it was                     *)
(* (lifecycle_guard_top.sv:215-235, 415-456).                               *)
THEOREM GuardImplementsLifecycle ==
  ASSUME \A c \in CtrlValues : ~c.unsafe
  PROVE  TopSpec => LifeSpec
<1>1. TopInit => Life!SLInit
  BY InitImplementsLife DEF TopInit
<1>2. TopInv /\ TopInv' /\ NoBypass /\ [TopNext]_topvars
        => [Life!SLNext]_(Life!slvars)
  <2> SUFFICES ASSUME TopInv, TopInv', NoBypass, [TopNext]_topvars
               PROVE  Life!SLNext \/ UNCHANGED Life!slvars
    OBVIOUS
  <2>1. CASE TopNext
    <3>1. PICK arready \in BOOLEAN, r \in Beats : Datapath(arready, r)
      BY <2>1 DEF TopNext, TopEdge
    <3>2. TopTypeOK /\ LutTypeOK /\ LutTypeOK'
      BY DEF TopInv, TopTypeOK
    <3>3. CASE LutClock(LutCmd, LutReuse, LutMode)
      <4>1. ~Bypassed(LutReuse, LutMode)
        BY DEF Bypassed, LutMode, NoBypass
      <4> QED
        BY <3>2, <3>3, <4>1, PortTypes, ClockImplementsLife
    <3>4. CASE LutReset
      BY <3>4, ResetImplementsLife
    <3> QED
      BY <3>1, <3>3, <3>4 DEF Datapath
  <2>2. CASE UNCHANGED topvars
    BY <2>2 DEF topvars, lutvars, Life!slvars
  <2> QED
    BY <2>1, <2>2
<1>3. TopSpec => []NoBypass
  BY BypassStaysOff
<1> QED
  BY <1>1, <1>2, <1>3, TopInvHolds, PTL DEF TopSpec, LifeSpec, Life!SLSpec

HIDE PkgAssumption
HIDE TrackerAssumption
HIDE RdmAssumption
HIDE RegsAssumption
HIDE TopAssumption
---------------------------------------------------------------------------
(* The host never bypasses, never switches the generation check off and     *)
(* never resets under its own reads; and inflight can count one read per    *)
(* tag: 6 bits against 16 tags (lifecycle_pkg.sv:27-33).                    *)
HostConstants ==
  /\ \A c \in CtrlValues : ~c.unsafe /\ ~c.nogen /\ ~c.srst
  /\ IsFiniteSet(Tags) /\ Cardinality(Tags) <= InfMax
---------------------------------------------------------------------------
Tame == /\ ~ctrl.unsafe /\ ~ctrl.nogen /\ ~ctrl.srst
        /\ ~srst_pend /\ srst_cnt = 0

Phases == {"idle", "admitting", "issuing", "issued", "reading"}

HostTypes ==
  /\ phase \in [Tags -> Phases] /\ plan \in [Tags -> Descriptor]
  /\ \A t \in Tags : phase[t] # "idle" => plan[t].transaction_tag = t

(* What is on its way to the table and the manager: the queue, and the      *)
(* request about to be pushed onto it.                                      *)
Pipe == fifo \o (IF req_valid THEN <<cmd_r>> ELSE <<>>)
TagAt(i) == Pipe[i].desc.transaction_tag
InPipe(t) == \E i \in 1 .. Len(Pipe) : TagAt(i) = t

IsAdmit(q) == ~q.is_read /\ q.ev = "ADMIT" /\ q.use_desc
IsIssue(q) == ~q.is_read /\ q.ev = "ISSUE" /\ q.use_desc

(* Each request belongs to the read of its tag and fits that read's phase.  *)
PipeInv ==
  \A i \in 1 .. Len(Pipe) :
    /\ Pipe[i].desc = plan[TagAt(i)]
    /\ \/ IsAdmit(Pipe[i]) /\ phase[TagAt(i)] \in {"admitting", "issuing"}
       \/ IsIssue(Pipe[i]) /\ phase[TagAt(i)] = "issuing"
       \/ Pipe[i].is_read /\ phase[TagAt(i)] = "reading"

(* Two requests of one tag are its ADMIT and, behind it, its ISSUE.         *)
InOrder ==
  \A i, j \in 1 .. Len(Pipe) :
    i < j /\ TagAt(i) = TagAt(j) => IsAdmit(Pipe[i]) /\ IsIssue(Pipe[j])

(* A burst that the manager issues or the bus owes is of a read in phase    *)
(* "reading", and nothing of that read is queued any more.                  *)
UnderWay ==
  /\ state # "IDLE" =>
       /\ phase[issue.desc.transaction_tag] = "reading"
       /\ issue.desc = plan[issue.desc.transaction_tag]
       /\ ~InPipe(issue.desc.transaction_tag)
  /\ \A t \in Live : /\ phase[t] = "reading" /\ tag_desc[t] = plan[t]
                     /\ ~InPipe(t)

Resolves(d) == /\ DescValid(ram[d.lifecycle_slot], d)
               /\ ram[d.lifecycle_slot].tenant = d.tenant

(* Every recorded read still resolves, the completion on its way included.  *)
Held ==
  /\ \A t \in Tags : phase[t] \in {"issued", "reading"} => Resolves(plan[t])
  /\ lookup.valid => Resolves(lookup.desc)

(* The reads that may hold a reservation of slot s: their ADMIT has been    *)
(* answered, their ISSUE has not, and it will not be refused as stale.      *)
Holders(s) ==
  {t \in Tags : /\ phase[t] \in {"admitting", "issuing"}
                /\ plan[t].lifecycle_slot = s /\ Resolves(plan[t])
                /\ ~\E i \in 1 .. Len(Pipe) : TagAt(i) = t /\ IsAdmit(Pipe[i])}

OnlyReads ==
  \A s \in Slots : /\ ram[s].refcount = 0 /\ ram[s].fill_pending = 0
                   /\ ram[s].reservation <= Cardinality(Holders(s))

HostInv ==
  /\ TopInv /\ Tame /\ HostTypes
  /\ PipeInv /\ InOrder /\ UnderWay /\ Held
  /\ ReadsAreCovered /\ OnlyReads
---------------------------------------------------------------------------
(* The queue and the request behind it on one edge: what is there after it  *)
(* was there before, one place further back if the head was popped, or is   *)
(* the command that was just accepted (lifecycle_guard_top.sv:270-296).     *)
Popped == IF ReqPop THEN 1 ELSE 0

PipeShape ==
  /\ Len(Pipe) \in Nat /\ Len(fifo) \in Nat
  /\ Len(Pipe) = Len(fifo) + (IF req_valid THEN 1 ELSE 0)
  /\ \A i \in 1 .. Len(Pipe) :
       /\ Pipe[i] \in Request
       /\ Pipe[i] = IF i <= Len(fifo) THEN fifo[i] ELSE cmd_r
  /\ fifo # <<>> => Len(fifo) >= 1 /\ Pipe[1] = Head(fifo)

LEMMA PipeNow == TopInv => PipeShape
<1> SUFFICES ASSUME TopInv PROVE PipeShape
  OBVIOUS
<1> DEFINE S == Requests \cup {ZeroRequest}
           new == IF req_valid THEN <<cmd_r>> ELSE <<>>
<1>1. fifo \in Seq(S) /\ cmd_r \in S /\ S \subseteq Request
  BY RequestType DEF TopInv, TopTypeOK, RegsTypeOK
<1>2. /\ new \in Seq(S) /\ Len(new) = IF req_valid THEN 1 ELSE 0
      /\ req_valid => new[1] = cmd_r
  <2>1. <<cmd_r>> \in Seq(S) /\ Len(<<cmd_r>>) = 1 /\ <<cmd_r>>[1] = cmd_r
    BY <1>1
  <2>2. <<>> \in Seq(S) /\ Len(<<>>) = 0
    BY EmptySeq
  <2> HIDE DEF S
  <2> QED
    BY <2>1, <2>2
<1>3. Len(fifo) \in Nat
  BY <1>1, LenProperties
<1> HIDE DEF S, new
<1>4. Pipe = fifo \o new
  BY DEF Pipe, new
<1>5. /\ Pipe \in Seq(S) /\ Len(Pipe) = Len(fifo) + Len(new)
      /\ \A i \in 1 .. Len(fifo) + Len(new) :
           Pipe[i] = IF i <= Len(fifo) THEN fifo[i] ELSE new[i - Len(fifo)]
  BY <1>1, <1>2, <1>4, ConcatProperties
<1>6. ASSUME NEW i \in 1 .. Len(Pipe)
      PROVE  /\ Pipe[i] \in Request
             /\ Pipe[i] = IF i <= Len(fifo) THEN fifo[i] ELSE cmd_r
  <2>1. Pipe[i] \in S
    BY <1>5, ElementOfSeq
  <2>2. Pipe[i] = IF i <= Len(fifo) THEN fifo[i] ELSE new[i - Len(fifo)]
    BY <1>2, <1>3, <1>5
  <2>3. ~(i <= Len(fifo)) => i - Len(fifo) = 1 /\ req_valid
    BY <1>2, <1>3, <1>5
  <2> QED
    BY <1>1, <1>2, <2>1, <2>2, <2>3
<1>7. fifo # <<>> => Len(fifo) >= 1 /\ Head(fifo) = fifo[1]
  BY <1>1, EmptySeq
<1> QED
  BY <1>2, <1>3, <1>5, <1>6, <1>7 DEF PipeShape

PipeMoves ==
  \A j \in 1 .. Len(Pipe') :
    \/ j + Popped \in 1 .. Len(Pipe) /\ Pipe'[j] = Pipe[j + Popped]
    \/ j = Len(Pipe') /\ req_valid' /\ Pipe'[j] = cmd_r

LEMMA PipeStep ==
  ASSUME TopInv, TopInv', CoreUp, RequestFifo, req_valid' => cmd_r' = cmd_r
  PROVE  PipeMoves
<1> DEFINE S == Requests \cup {ZeroRequest}
           kept == IF ReqPop THEN Tail(fifo) ELSE fifo
           new == IF ReqPush THEN <<cmd_r>> ELSE <<>>
<1>1. fifo \in Seq(S) /\ cmd_r \in S /\ Len(fifo) \in Nat
  BY LenProperties DEF TopInv, TopTypeOK, RegsTypeOK
<1>2. ReqPush <=> req_valid
  BY DEF TopInv, AcceptedGoHasRoom, ReqPush, FifoFull
<1>3. ReqPop => fifo # <<>>
  BY DEF ReqPop, RdValid, HeadIsRead, HeadIsLc
<1>4. /\ kept \in Seq(S) /\ Len(kept) \in Nat
      /\ Len(kept) = Len(fifo) - Popped
      /\ \A i \in 1 .. Len(kept) : kept[i] = fifo[i + Popped]
  <2>1. CASE ReqPop
    BY <1>1, <1>3, <2>1, HeadTailProperties, LenProperties DEF Popped
  <2>2. CASE ~ReqPop
    BY <1>1, <2>2 DEF Popped
  <2> QED
    BY <2>1, <2>2
<1>5. /\ new \in Seq(S) /\ Len(new) = IF req_valid THEN 1 ELSE 0
      /\ req_valid => new[1] = cmd_r
  <2>1. <<cmd_r>> \in Seq(S) /\ Len(<<cmd_r>>) = 1 /\ <<cmd_r>>[1] = cmd_r
    BY <1>1
  <2>2. <<>> \in Seq(S) /\ Len(<<>>) = 0
    BY EmptySeq
  <2> HIDE DEF S
  <2> QED
    BY <1>2, <2>1, <2>2
<1>6. fifo' = kept \o new
  BY DEF RequestFifo
<1> HIDE DEF S, kept, new
<1>7. /\ Len(fifo') = Len(kept) + Len(new)
      /\ \A i \in 1 .. Len(kept) + Len(new) :
           fifo'[i] = IF i <= Len(kept) THEN kept[i] ELSE new[i - Len(kept)]
  BY <1>4, <1>5, <1>6, ConcatProperties
<1>8. /\ Len(Pipe') = Len(fifo') + (IF req_valid' THEN 1 ELSE 0)
      /\ \A j \in 1 .. Len(Pipe') :
           Pipe'[j] = IF j <= Len(fifo') THEN fifo'[j] ELSE cmd_r'
  <2>1. PipeShape'
    BY PipeNow, PTL
  <2> QED
    BY <2>1 DEF PipeShape
<1>9. /\ Len(Pipe) = Len(fifo) + (IF req_valid THEN 1 ELSE 0)
      /\ \A i \in 1 .. Len(Pipe) :
           Pipe[i] = IF i <= Len(fifo) THEN fifo[i] ELSE cmd_r
  BY PipeNow DEF PipeShape
<1>10. Popped \in {0, 1}
  BY DEF Popped
<1> SUFFICES ASSUME NEW j \in 1 .. Len(Pipe')
             PROVE  \/ /\ j + Popped \in 1 .. Len(Pipe)
                       /\ Pipe'[j] = Pipe[j + Popped]
                    \/ j = Len(Pipe') /\ req_valid' /\ Pipe'[j] = cmd_r
  BY DEF PipeMoves
<1>11. CASE j <= Len(kept)
  <2>1. j + Popped \in 1 .. Len(Pipe) /\ j + Popped <= Len(fifo)
    BY <1>1, <1>4, <1>9, <1>10, <1>11
  <2>2. Pipe'[j] = kept[j]
    BY <1>4, <1>5, <1>7, <1>8, <1>11
  <2> QED
    BY <1>4, <1>9, <1>11, <2>1, <2>2
<1>12. CASE j > Len(kept) /\ j <= Len(fifo')
  <2>1. req_valid /\ j = Len(kept) + 1
    BY <1>4, <1>5, <1>7, <1>12
  <2>2. Pipe'[j] = cmd_r
    BY <1>4, <1>5, <1>7, <1>8, <1>12, <2>1
  <2>3. j + Popped = Len(fifo) + 1 /\ j + Popped \in 1 .. Len(Pipe)
    BY <1>1, <1>4, <1>9, <1>10, <2>1
  <2>4. Pipe[j + Popped] = cmd_r
    BY <1>1, <1>9, <2>3
  <2> QED
    BY <2>2, <2>3, <2>4
<1>13. CASE j > Len(fifo')
  BY <1>4, <1>5, <1>7, <1>8, <1>13
<1> QED
  BY <1>4, <1>5, <1>7, <1>11, <1>12, <1>13
---------------------------------------------------------------------------
(* Nothing but CTRL could start a reset or a bypass, and this host leaves   *)
(* those bits alone (axi_lite_regs.sv:284-293).                             *)
LEMMA TameStep ==
  ASSUME HostConstants, TopInv, Tame,
         NEW arready \in BOOLEAN, NEW r \in Beats, TopEdge(arready, r)
  PROVE  Tame' /\ CoreUp /\ srst_cnt' = 0
<1>1. SoftReset /\ RegsClock(~FifoFull, Raised) /\ (~FifoFull) \in BOOLEAN
  BY DEF TopEdge, FifoFull
<1>2. ctrl' \in CtrlValues \/ ctrl' = [ctrl EXCEPT !.srst = FALSE]
  BY <1>1, PulseStep
<1>3. ctrl \in Ctrl
  BY DEF TopInv, TopTypeOK, RegsTypeOK
<1>4. ~ctrl'.unsafe /\ ~ctrl'.nogen /\ ~ctrl'.srst
  BY <1>2, <1>3 DEF HostConstants, Tame, Ctrl
<1>5. srst_pend' = FALSE /\ srst_cnt' = 0
  BY <1>1 DEF SoftReset, SrstTaken, Tame
<1> QED
  BY <1>4, <1>5 DEF Tame, CoreUp

(* What one edge of the guard and its host consists of.                     *)
LEMMA EdgeFacts ==
  ASSUME HostConstants, TopInv, Tame, NEW arready \in BOOLEAN,
         NEW r \in CleanBeats, HostEdge(arready, r)
  PROVE  /\ r \in Beats /\ TopInv' /\ Tame' /\ PipeMoves
         /\ BlocksEdge(RdValid, RdReq, win, arready, r)
         /\ LutClock(LutCmd, LutReuse, LutMode)
         /\ Follow(r) /\ \A t \in Tags : Goes(t) => MayGo(t)
<1>1. r \in Beats /\ TopEdge(arready, r)
  BY DEF CleanBeats, HostEdge
<1>2. TopInv' /\ Tame' /\ CoreUp /\ srst_cnt' = 0
  BY <1>1, TameStep, TopInvStep
<1>3. /\ BlocksEdge(RdValid, RdReq, win, arready, r)
      /\ LutClock(LutCmd, LutReuse, LutMode)
  BY <1>1, <1>2, RunningStep DEF TopEdge, TopInv
<1>4. req_valid' => cmd_r' = cmd_r
  <2>1. RegsClock(~FifoFull, Raised) /\ (~FifoFull) \in BOOLEAN
    BY <1>1 DEF TopEdge, FifoFull
  <2> QED
    BY <2>1, PulseStep
<1>5. PipeMoves
  BY <1>1, <1>2, <1>4, PipeStep DEF TopEdge
<1> QED
  BY <1>1, <1>2, <1>3, <1>5 DEF HostEdge
---------------------------------------------------------------------------
(* The ways one edge moves the host's read of a tag.                        *)
ReadEnds(t, r) == RLast(r) /\ r.id = t

IssueAnswered(t) ==
  /\ Answered(t) /\ ~Goes(t)
  /\ phase[t] = "issuing" /\ plan'[t] = plan[t]
  /\ IsIssue(Head(fifo)) /\ Head(fifo).desc = plan[t]
  /\ phase'[t] = IF CmdOk(LutCmd, LutMode) THEN "issued" ELSE "idle"

ReadEnded(t, r) ==
  /\ ReadEnds(t, r) /\ ~Goes(t) /\ ~Answered(t)
  /\ phase[t] = "reading" /\ plan'[t] = plan[t] /\ phase'[t] = "idle"
  /\ tag_desc[t] = plan[t] /\ ~InPipe(t)

AdmitQueued(t) ==
  /\ Goes(t) /\ IsAdmit(cmd_r)
  /\ phase[t] = "idle" /\ phase'[t] = "admitting" /\ plan'[t] = cmd_r.desc

IssueQueued(t) ==
  /\ Goes(t) /\ IsIssue(cmd_r) /\ cmd_r.desc = plan[t]
  /\ phase[t] = "admitting" /\ phase'[t] = "issuing" /\ plan'[t] = plan[t]

ReadQueued(t) ==
  /\ Goes(t) /\ cmd_r.is_read /\ cmd_r.desc = plan[t]
  /\ phase[t] = "issued" /\ phase'[t] = "reading" /\ plan'[t] = plan[t]

Rests(t, r) ==
  /\ ~Goes(t) /\ ~Answered(t) /\ ~ReadEnds(t, r)
  /\ phase'[t] = phase[t] /\ plan'[t] = plan[t]

Moves(t, r) ==
  \/ IssueAnswered(t) \/ ReadEnded(t, r)
  \/ ((AdmitQueued(t) \/ IssueQueued(t) \/ ReadQueued(t))
        /\ ~Answered(t) /\ ~ReadEnds(t, r))
  \/ Rests(t, r)

(* The requests of the pipe one at a time.                                  *)
LEMMA PipeAt ==
  ASSUME TopInv, PipeInv, NEW i \in 1 .. Len(Pipe)
  PROVE  /\ Pipe[i] \in Request /\ TagAt(i) \in Tags
         /\ Pipe[i].desc = plan[TagAt(i)]
         /\ \/ IsAdmit(Pipe[i]) /\ phase[TagAt(i)] \in {"admitting", "issuing"}
            \/ IsIssue(Pipe[i]) /\ phase[TagAt(i)] = "issuing"
            \/ Pipe[i].is_read /\ phase[TagAt(i)] = "reading"
<1>1. Pipe[i] \in Request
  BY PipeNow DEF PipeShape
<1> QED
  BY <1>1 DEF Request, Descriptor, TagAt, PipeInv

LEMMA HeadAt ==
  ASSUME TopInv, fifo # <<>>
  PROVE  1 \in 1 .. Len(Pipe) /\ Pipe[1] = Head(fifo)
         /\ TagAt(1) = Head(fifo).desc.transaction_tag
BY PipeNow DEF PipeShape, TagAt

(* The answer to an ISSUE is of a read that waits for it, and a last beat   *)
(* is of a read under way; the host sends neither of them anything then.    *)
LEMMA MovesStep ==
  ASSUME HostInv, NEW t \in Tags, NEW r \in Beats, Follow(r),
         Goes(t) => MayGo(t)
  PROVE  Moves(t, r)
<1> USE DEF HostInv
<1>1. Goes(t) => phase[t] \in {"idle", "admitting", "issued"}
  BY DEF MayGo
<1>2. Answered(t) => /\ phase[t] = "issuing" /\ IsIssue(Head(fifo))
                     /\ Head(fifo).desc = plan[t]
  <2> SUFFICES ASSUME Answered(t)
               PROVE  /\ phase[t] = "issuing" /\ IsIssue(Head(fifo))
                      /\ Head(fifo).desc = plan[t]
    OBVIOUS
  <2>1. fifo # <<>> /\ ~Head(fifo).is_read /\ Head(fifo).ev = "ISSUE"
        /\ Head(fifo).desc.transaction_tag = t
    BY DEF Answered, HeadIsLc
  <2>2. 1 \in 1 .. Len(Pipe) /\ Pipe[1] = Head(fifo) /\ TagAt(1) = t
    BY <2>1, HeadAt
  <2>3. ~IsAdmit(Head(fifo))
    BY <2>1 DEF IsAdmit
  <2> QED
    BY <2>1, <2>2, <2>3, PipeAt
<1>3. ReadEnds(t, r) => /\ phase[t] = "reading" /\ tag_desc[t] = plan[t]
                        /\ ~InPipe(t)
  <2>1. RLast(r) => tag_busy[r.id]
    BY BothGoThrough DEF TopInv
  <2> QED
    BY <2>1 DEF ReadEnds, UnderWay, Live
<1>4. /\ phase'[t] = IF Answered(t)
                     THEN IF CmdOk(LutCmd, LutMode) THEN "issued" ELSE "idle"
                     ELSE IF ReadEnds(t, r) THEN "idle"
                     ELSE IF Goes(t) THEN Queued[phase[t]]
                     ELSE phase[t]
      /\ plan'[t] = IF Goes(t) /\ phase[t] = "idle"
                    THEN cmd_r.desc ELSE plan[t]
  BY DEF Follow, ReadEnds
<1>5. CASE Answered(t)
  BY <1>1, <1>2, <1>4, <1>5 DEF Moves, IssueAnswered
<1>6. CASE ReadEnds(t, r) /\ ~Answered(t)
  BY <1>1, <1>3, <1>4, <1>6 DEF Moves, ReadEnded
<1>7. CASE Goes(t) /\ ~ReadEnds(t, r) /\ ~Answered(t)
  <2>1. phase'[t] = Queued[phase[t]]
    BY <1>4, <1>7
  <2>2. CASE phase[t] = "idle" /\ Bookkeep("ADMIT", cmd_r.desc)
    BY <1>4, <1>7, <2>1, <2>2
       DEF Bookkeep, Queued, Moves, AdmitQueued, IsAdmit
  <2>3. CASE phase[t] = "admitting" /\ Bookkeep("ISSUE", plan[t])
    BY <1>4, <1>7, <2>1, <2>3
       DEF Bookkeep, Queued, Moves, IssueQueued, IsIssue
  <2>4. CASE phase[t] = "issued" /\ cmd_r.is_read /\ cmd_r.desc = plan[t]
    BY <1>4, <1>7, <2>1, <2>4 DEF Queued, Moves, ReadQueued
  <2> QED
    BY <1>7, <2>2, <2>3, <2>4 DEF MayGo
<1>8. CASE ~Goes(t) /\ ~ReadEnds(t, r) /\ ~Answered(t)
  BY <1>4, <1>8 DEF Moves, Rests
<1> QED
  BY <1>5, <1>6, <1>7, <1>8

(* The host's own two records stay what they are.                           *)
LEMMA HostTypesStep ==
  ASSUME HostInv, NEW r \in Beats, Follow(r),
         \A t \in Tags : Moves(t, r)
  PROVE  HostTypes'
<1> USE DEF HostInv
<1>1. cmd_r.desc \in Descriptor
  BY RequestType DEF TopInv, TopTypeOK, RegsTypeOK, Request
<1>2. DOMAIN phase' = Tags /\ DOMAIN plan' = Tags
  BY DEF Follow
<1>3. ASSUME NEW t \in Tags
      PROVE  /\ phase'[t] \in Phases /\ plan'[t] \in Descriptor
             /\ phase'[t] # "idle" => plan'[t].transaction_tag = t
  <2>1. /\ phase[t] \in Phases /\ plan[t] \in Descriptor
        /\ phase[t] # "idle" => plan[t].transaction_tag = t
    BY DEF HostTypes
  <2>2. Moves(t, r)
    OBVIOUS
  <2>3. CASE IssueAnswered(t) \/ ReadEnded(t, r)
    BY <2>1, <2>3 DEF IssueAnswered, ReadEnded, Phases
  <2>4. CASE AdmitQueued(t)
    BY <1>1, <2>4 DEF AdmitQueued, Goes, Phases
  <2>5. CASE IssueQueued(t) \/ ReadQueued(t)
    BY <2>1, <2>5 DEF IssueQueued, ReadQueued, Phases
  <2>6. CASE Rests(t, r)
    BY <2>1, <2>6 DEF Rests
  <2> QED
    BY <2>2, <2>3, <2>4, <2>5, <2>6 DEF Moves
<1>4. phase' \in [Tags -> Phases] /\ plan' \in [Tags -> Descriptor]
  BY <1>2, <1>3 DEF Follow
<1> QED
  BY <1>3, <1>4 DEF HostTypes
---------------------------------------------------------------------------
(* A request that was in the pipe already keeps fitting its read's phase:   *)
(* only an ISSUE queued behind its ADMIT moves the phase under it.          *)
LEMMA OldRequest ==
  ASSUME HostInv, NEW r \in Beats, NEW j \in 1 .. Len(Pipe),
         j > Popped, NEW t, t = TagAt(j), Moves(t, r)
  PROVE  /\ Pipe[j].desc = plan'[t]
         /\ \/ IsAdmit(Pipe[j]) /\ phase'[t] \in {"admitting", "issuing"}
            \/ IsIssue(Pipe[j]) /\ phase'[t] = "issuing"
            \/ Pipe[j].is_read /\ phase'[t] = "reading"
         /\ Goes(t) => IsAdmit(Pipe[j]) /\ IsIssue(cmd_r)
<1> USE DEF HostInv
<1>1. /\ t \in Tags /\ Pipe[j].desc = plan[t] /\ InPipe(t)
      /\ \/ IsAdmit(Pipe[j]) /\ phase[t] \in {"admitting", "issuing"}
         \/ IsIssue(Pipe[j]) /\ phase[t] = "issuing"
         \/ Pipe[j].is_read /\ phase[t] = "reading"
  BY PipeAt DEF InPipe
<1>2. ~IssueAnswered(t)
  <2> SUFFICES ASSUME IssueAnswered(t) PROVE FALSE
    OBVIOUS
  <2>1. /\ fifo # <<>> /\ ReqPop /\ IsIssue(Head(fifo))
        /\ Head(fifo).desc.transaction_tag = t
    BY DEF IssueAnswered, Answered, HeadIsLc
  <2>2. 1 \in 1 .. Len(Pipe) /\ Pipe[1] = Head(fifo) /\ TagAt(1) = t
    BY <2>1, HeadAt
  <2>3. 1 < j
    BY <2>1 DEF Popped
  <2>4. IsAdmit(Pipe[1])
    BY <2>2, <2>3 DEF InOrder
  <2> QED
    BY <2>1, <2>2, <2>4 DEF IsAdmit, IsIssue
<1>3. ~ReadEnded(t, r)
  BY <1>1 DEF ReadEnded
<1>4. CASE AdmitQueued(t)
  BY <1>1, <1>4 DEF AdmitQueued
<1>5. CASE IssueQueued(t)
  BY <1>1, <1>5 DEF IssueQueued
<1>6. CASE ReadQueued(t)
  BY <1>1, <1>6 DEF ReadQueued
<1>7. CASE Rests(t, r)
  BY <1>1, <1>7 DEF Rests
<1> QED
  BY <1>2, <1>3, <1>4, <1>5, <1>6, <1>7 DEF Moves

(* So does the request that joins it.                                       *)
LEMMA NewRequest ==
  ASSUME HostInv, NEW r, NEW t \in Tags, Goes(t), Moves(t, r)
  PROVE  /\ cmd_r.desc = plan'[t]
         /\ \/ IsAdmit(cmd_r) /\ phase'[t] \in {"admitting", "issuing"}
            \/ IsIssue(cmd_r) /\ phase'[t] = "issuing"
            \/ cmd_r.is_read /\ phase'[t] = "reading"
BY DEF Moves, IssueAnswered, ReadEnded, AdmitQueued, IssueQueued, ReadQueued,
       Rests

LEMMA PipeInvStep ==
  ASSUME HostInv, NEW r \in Beats, PipeMoves, \A t \in Tags : Moves(t, r)
  PROVE  PipeInv'
<1> USE DEF HostInv
<1> SUFFICES ASSUME NEW i \in 1 .. Len(Pipe')
             PROVE  LET q == Pipe'[i]
                        t == Pipe'[i].desc.transaction_tag
                    IN  /\ q.desc = plan'[t]
                        /\ \/ /\ IsAdmit(q)
                              /\ phase'[t] \in {"admitting", "issuing"}
                           \/ IsIssue(q) /\ phase'[t] = "issuing"
                           \/ q.is_read /\ phase'[t] = "reading"
  BY DEF PipeInv, TagAt
<1>1. CASE i + Popped \in 1 .. Len(Pipe) /\ Pipe'[i] = Pipe[i + Popped]
  <2>1. i + Popped > Popped
    BY DEF Popped
  <2>2. TagAt(i + Popped) \in Tags
    BY <1>1, PipeAt
  <2> QED
    BY <1>1, <2>1, <2>2, OldRequest DEF TagAt
<1>2. CASE req_valid' /\ Pipe'[i] = cmd_r
  <2>1. cmd_r.desc.transaction_tag \in Tags
    BY RequestType DEF TopInv, TopTypeOK, RegsTypeOK, Request, Descriptor
  <2>2. Goes(cmd_r.desc.transaction_tag)
    BY <1>2 DEF Goes
  <2> QED
    BY <1>2, <2>1, <2>2, NewRequest
<1> QED
  BY <1>1, <1>2 DEF PipeMoves

LEMMA InOrderStep ==
  ASSUME HostInv, NEW r \in Beats, PipeMoves, \A t \in Tags : Moves(t, r)
  PROVE  InOrder'
<1> USE DEF HostInv
<1> SUFFICES ASSUME NEW i \in 1 .. Len(Pipe'), NEW j \in 1 .. Len(Pipe'),
                    i < j,
                    Pipe'[i].desc.transaction_tag
                      = Pipe'[j].desc.transaction_tag
             PROVE  IsAdmit(Pipe'[i]) /\ IsIssue(Pipe'[j])
  BY DEF InOrder, TagAt
<1>0. i \in Int /\ j \in Int /\ Popped \in Int
  BY DEF Popped
<1>1. i + Popped \in 1 .. Len(Pipe) /\ Pipe'[i] = Pipe[i + Popped]
  BY <1>0 DEF PipeMoves
<1>2. CASE j + Popped \in 1 .. Len(Pipe) /\ Pipe'[j] = Pipe[j + Popped]
  <2>1. i + Popped < j + Popped
    BY <1>0
  <2>2. TagAt(i + Popped) = TagAt(j + Popped)
    BY <1>1, <1>2 DEF TagAt
  <2> QED
    BY <1>1, <1>2, <2>1, <2>2 DEF InOrder
<1>3. CASE req_valid' /\ Pipe'[j] = cmd_r
  <2>1. i + Popped > Popped
    BY <1>0
  <2>2. TagAt(i + Popped) \in Tags
    BY <1>1, PipeAt
  <2>3. Goes(TagAt(i + Popped))
    BY <1>1, <1>3 DEF TagAt, Goes
  <2> QED
    BY <1>1, <1>3, <2>1, <2>2, <2>3, OldRequest
<1> QED
  BY <1>2, <1>3 DEF PipeMoves
---------------------------------------------------------------------------
(* A request of tag t is in the pipe after the edge.                        *)
StillQueued(t) ==
  \E i \in 1 .. Len(Pipe') : Pipe'[i].desc.transaction_tag = t

(* A read under way, of which nothing is queued or only the READ that is    *)
(* being popped, stays so until its last beat.                              *)
LEMMA ReadingStays ==
  ASSUME HostInv, NEW r, PipeMoves, NEW t \in Tags, Moves(t, r),
         phase[t] = "reading", ~ReadEnds(t, r),
         \A i \in 1 .. Len(Pipe) : TagAt(i) = t => i <= Popped
  PROVE  phase'[t] = "reading" /\ plan'[t] = plan[t] /\ ~StillQueued(t)
<1>1. Rests(t, r)
  BY DEF Moves, IssueAnswered, ReadEnded, AdmitQueued, IssueQueued, ReadQueued
<1>2. ASSUME NEW i \in 1 .. Len(Pipe'),
             Pipe'[i].desc.transaction_tag = t
      PROVE  FALSE
  <2>1. ~(req_valid' /\ Pipe'[i] = cmd_r)
    BY <1>1, <1>2 DEF Rests, Goes
  <2>2. i + Popped \in 1 .. Len(Pipe) /\ TagAt(i + Popped) = t
    BY <1>2, <2>1 DEF PipeMoves, TagAt
  <2>3. i + Popped > Popped
    BY DEF Popped
  <2> QED
    BY <2>2, <2>3 DEF Popped
<1>3. ~StillQueued(t)
  BY <1>2 DEF StillQueued
<1> QED
  BY <1>1, <1>3 DEF Rests

LEMMA UnderWayStep ==
  ASSUME HostInv, NEW arready \in BOOLEAN, NEW r \in Beats, PipeMoves,
         BlocksEdge(RdValid, RdReq, win, arready, r),
         \A t \in Tags : Moves(t, r)
  PROVE  UnderWay'
<1> USE DEF HostInv
<1>1. /\ IssueMachine(RdValid, RdReq, win, AcceptReady, arready)
      /\ TrackerClock(ArHs(arready), issue.desc, RLast(r), r.id,
                      FALSE, ZeroDesc.transaction_tag)
  BY DEF BlocksEdge, ReadClock, RdmClock
<1>2. /\ issue.desc.transaction_tag \in Tags
      /\ state # "IDLE" => ~tag_busy[issue.desc.transaction_tag]
      /\ RLast(r) => r.id \in Live
      /\ tag_busy \in [Tags -> BOOLEAN] /\ DOMAIN tag_desc = Tags
  BY BothGoThrough, BeatFacts
     DEF TopInv, BlocksInv, OutstandingIsExact, RecordTypes, TrackerTypeOK,
         Live
<1>3. state # "IDLE" =>
        LET t == issue.desc.transaction_tag
        IN  /\ phase'[t] = "reading" /\ issue.desc = plan'[t] /\ ~StillQueued(t)
  <2> SUFFICES ASSUME state # "IDLE", NEW t, t = issue.desc.transaction_tag
               PROVE  /\ phase'[t] = "reading" /\ issue.desc = plan'[t]
                      /\ ~StillQueued(t)
    OBVIOUS
  <2>1. phase[t] = "reading" /\ issue.desc = plan[t] /\ ~InPipe(t)
    BY DEF UnderWay
  <2>2. ~ReadEnds(t, r)
    BY <1>2 DEF ReadEnds, Live
  <2> QED
    BY <1>2, <2>1, <2>2, ReadingStays DEF InPipe
<1>4. state' # "IDLE" =>
        LET t == issue'.desc.transaction_tag
        IN  /\ phase'[t] = "reading" /\ issue'.desc = plan'[t]
            /\ ~StillQueued(t)
  <2>1. CASE state # "IDLE"
    <3>1. issue' = issue
      BY <1>1, <2>1 DEF IssueMachine
    <3> QED
      BY <1>3, <2>1, <3>1
  <2>2. CASE state = "IDLE" /\ state' # "IDLE"
    <3>1. RdValid /\ ReqReady(win, RdReq, AcceptReady) /\ issue' = RdReq
          /\ Refusal(win, RdReq) = {}
      BY <1>1, <2>2 DEF IssueMachine
    <3>2. /\ fifo # <<>> /\ Head(fifo).is_read /\ Popped = 1
          /\ issue'.desc = Head(fifo).desc
      BY <3>1 DEF RdValid, HeadIsRead, ReqPop, Popped, RdReq
    <3> DEFINE t == Head(fifo).desc.transaction_tag
    <3>3. 1 \in 1 .. Len(Pipe) /\ Pipe[1] = Head(fifo) /\ TagAt(1) = t
      BY <3>2, HeadAt
    <3>4. ~IsAdmit(Pipe[1]) /\ ~IsIssue(Pipe[1])
      BY <3>2, <3>3 DEF IsAdmit, IsIssue
    <3>5. t \in Tags /\ Head(fifo).desc = plan[t] /\ phase[t] = "reading"
      BY <3>3, <3>4, PipeAt
    <3>6. \A i \in 1 .. Len(Pipe) : TagAt(i) = t => i <= Popped
      BY <3>2, <3>3, <3>4 DEF InOrder
    <3>7. ~ReadEnds(t, r)
      BY <1>2, <3>3 DEF ReadEnds, UnderWay, InPipe
    <3> QED
      BY <3>2, <3>5, <3>6, <3>7, ReadingStays
  <2> QED
    BY <2>1, <2>2
<1>5. ASSUME NEW t \in Live'
      PROVE  phase'[t] = "reading" /\ tag_desc'[t] = plan'[t] /\ ~StillQueued(t)
  <2>1. \/ t \in Live /\ ~ReadEnds(t, r)
        \/ ArHs(arready) /\ t = issue.desc.transaction_tag
    BY <1>5, LiveStep DEF ReadEnds, TopInv
  <2>2. tag_desc' = IF ArHs(arready)
                    THEN [tag_desc EXCEPT ![issue.desc.transaction_tag]
                            = issue.desc]
                    ELSE tag_desc
    BY <1>1, BothGoThrough DEF TrackerClock, TopInv
  <2>3. CASE ArHs(arready) /\ t = issue.desc.transaction_tag
    <3>1. state = "AR"
      BY <2>3, BothGoThrough DEF TopInv
    <3>2. tag_desc'[t] = issue.desc
      BY <1>2, <2>2, <2>3
    <3> QED
      BY <1>3, <2>3, <3>1, <3>2
  <2>4. CASE /\ t \in Live /\ ~ReadEnds(t, r)
             /\ ~(ArHs(arready) /\ t = issue.desc.transaction_tag)
    <3>1. /\ t \in Tags /\ phase[t] = "reading" /\ tag_desc[t] = plan[t]
          /\ ~InPipe(t)
      BY <2>4 DEF UnderWay, Live
    <3>2. tag_desc'[t] = tag_desc[t]
      BY <1>2, <2>2, <2>4, <3>1
    <3> QED
      BY <2>4, <3>1, <3>2, ReadingStays DEF InPipe
  <2> QED
    BY <2>1, <2>3, <2>4
<1> QED
  BY <1>4, <1>5 DEF UnderWay, InPipe, TagAt, StillQueued
---------------------------------------------------------------------------
(* The command port and the reuse port on one edge, slot by slot.           *)
Completes(s) == lookup.valid /\ lookup.desc.lifecycle_slot = s

Taken(s, ev) ==
  /\ HeadIsLc /\ ReqPop /\ ~lookup.valid /\ CmdOk(LutCmd, LutMode)
  /\ Head(fifo).ev = ev /\ Head(fifo).desc.lifecycle_slot = s

Granted(s) ==
  LutReuse.valid /\ LutReuse.slot = s /\ Evictable(ram[s])

SameBut(s, rsv, inf) ==
  /\ Owner(ram'[s]) = Owner(ram[s])
  /\ ram'[s].refcount = ram[s].refcount
  /\ ram'[s].fill_pending = ram[s].fill_pending
  /\ ram'[s].reservation = ram[s].reservation + rsv
  /\ ram'[s].inflight = ram[s].inflight + inf

Reused(s) ==
  /\ Granted(s) /\ ~Completes(s) /\ ~Taken(s, "ISSUE")
  /\ Evictable(ram'[s])

Completed(s) == Completes(s) /\ ~Taken(s, "ISSUE") /\ SameBut(s, 0, -1)

Admitted(s) ==
  /\ Taken(s, "ADMIT") /\ IsAdmit(Head(fifo)) /\ Resolves(Head(fifo).desc)
  /\ ~Completes(s) /\ ~Taken(s, "ISSUE") /\ SameBut(s, 1, 0)

IssuedOn(s) ==
  /\ Taken(s, "ISSUE") /\ IsIssue(Head(fifo)) /\ Resolves(Head(fifo).desc)
  /\ ~Completes(s) /\ SameBut(s, -1, 1)

Untouched(s) ==
  ~Completes(s) /\ ~Taken(s, "ISSUE") /\ ram'[s] = ram[s]

SlotMoves(s) ==
  Reused(s) \/ Completed(s) \/ Admitted(s) \/ IssuedOn(s) \/ Untouched(s)

(* The reads recorded on a slot are finitely many, and a completion on its  *)
(* way is counted in its slot's inflight still.                             *)
LEMMA RecordedFinite ==
  ASSUME HostConstants, NEW s
  PROVE  /\ IsFiniteSet(Recorded(s)) /\ Cardinality(Recorded(s)) \in Nat
         /\ Recorded(s) # {} => Cardinality(Recorded(s)) > 0
<1>1. Recorded(s) \subseteq Tags /\ IsFiniteSet(Tags)
  BY DEF Recorded, HostConstants
<1>2. IsFiniteSet(Recorded(s))
  BY <1>1, FS_Subset
<1> QED
  BY <1>2, FS_CardinalityType, FS_EmptySet

LEMMA CoveredFacts ==
  ASSUME HostConstants, HostInv, NEW s \in Slots
  PROVE  /\ Recorded(s) # {} => ram[s].inflight > 0
         /\ Completes(s) => ram[s].inflight > 0
<1>1. ram[s].inflight = Cardinality(Recorded(s)) + Returning(s)
  BY DEF HostInv, ReadsAreCovered
<1>2. Returning(s) \in {0, 1} /\ (Completes(s) => Returning(s) = 1)
  BY DEF Returning, Completes
<1> QED
  BY <1>1, <1>2, RecordedFinite

(* What the table is asked on an edge, and whether it accepts: a completion *)
(* always, a command of the queue when its descriptor resolves and the      *)
(* event's own bounds allow it (page_state_lut.sv:67-134).                  *)
LEMMA PortFacts ==
  ASSUME HostConstants, HostInv
  PROVE  /\ LutCmd \in LcCmd /\ LutReuse \in ReuseReq
         /\ ram \in [Slots -> Entry]
         /\ LutCmd.valid => LutCmd.use_desc
         /\ CmdOk(LutCmd, LutMode) =>
              /\ Resolves(LutCmd.desc)
              /\ EventError(LutCmd.ev, ram[LutCmd.desc.lifecycle_slot]) = "NONE"
         /\ ~Resolves(LutCmd.desc) => ~CmdOk(LutCmd, LutMode)
         /\ lookup.valid =>
              /\ LutCmd.valid /\ LutCmd.ev = "COMPLETE"
              /\ LutCmd.desc = lookup.desc /\ CmdOk(LutCmd, LutMode)
         /\ ~lookup.valid /\ LutCmd.valid =>
              /\ HeadIsLc /\ ReqPop /\ LutCmd.ev = Head(fifo).ev
              /\ LutCmd.desc = Head(fifo).desc
              /\ IsAdmit(Head(fifo)) \/ IsIssue(Head(fifo))
         /\ ~lookup.valid /\ HeadIsLc => LutCmd.valid /\ ReqPop
<1> USE DEF HostInv
<1>1. LutCmd \in LcCmd /\ LutReuse \in ReuseReq /\ ram \in [Slots -> Entry]
  BY PortTypes DEF TopInv, TopTypeOK, LutTypeOK
<1>2. HeadIsLc => IsAdmit(Head(fifo)) \/ IsIssue(Head(fifo))
  <2> SUFFICES ASSUME HeadIsLc
               PROVE  IsAdmit(Head(fifo)) \/ IsIssue(Head(fifo))
    OBVIOUS
  <2>1. fifo # <<>> /\ ~Head(fifo).is_read
    BY DEF HeadIsLc
  <2>2. 1 \in 1 .. Len(Pipe) /\ Pipe[1] = Head(fifo)
    BY <2>1, HeadAt
  <2> QED
    BY <2>1, <2>2, PipeAt
<1>3. ~LutMode.no_generation_check
  BY DEF LutMode, Tame
<1>4. LutCmd.valid => LutCmd.use_desc
  BY <1>2 DEF LutCmd, IsAdmit, IsIssue
<1>5. CmdOk(LutCmd, LutMode) <=>
        /\ LutCmd.valid /\ Resolves(LutCmd.desc)
        /\ EventError(LutCmd.ev, ram[LutCmd.desc.lifecycle_slot]) = "NONE"
  BY <1>1, <1>3, <1>4 DEF CmdOk, CmdError, DescOk, Resolves, LcCmd
<1>6. lookup.valid =>
        /\ LutCmd.valid /\ LutCmd.ev = "COMPLETE"
        /\ LutCmd.desc = lookup.desc
  BY DEF LutCmd
<1>7. lookup.valid => CmdOk(LutCmd, LutMode)
  <2> SUFFICES ASSUME lookup.valid PROVE CmdOk(LutCmd, LutMode)
    OBVIOUS
  <2> DEFINE s == lookup.desc.lifecycle_slot
  <2>1. s \in Slots
    BY DEF TopInv, TopTypeOK, TrackerTypeOK, Descriptor
  <2>2. ram[s].inflight > 0 /\ ram[s].inflight \in Nat
    BY <1>1, <2>1, CoveredFacts DEF Completes, Entry
  <2>3. EventError("COMPLETE", ram[s]) = "NONE"
    BY <2>2 DEF EventError
  <2> QED
    BY <1>5, <1>6, <2>3 DEF Held
<1>8. ~lookup.valid /\ HeadIsLc => ReqPop
  BY DEF ReqPop
<1> QED
  BY <1>1, <1>2, <1>4, <1>5, <1>6, <1>7, <1>8 DEF LutCmd

(* Every slot is left alone, reused when nothing used it, or moved by one   *)
(* accepted event; a grant never meets a use that this host relies on.      *)
LEMMA SlotStep ==
  ASSUME HostConstants, HostInv, LutClock(LutCmd, LutReuse, LutMode),
         NEW s \in Slots
  PROVE  SlotMoves(s)
<1> DEFINE hit == CmdOk(LutCmd, LutMode) /\ LutCmd.desc.lifecycle_slot = s
           n == AfterCmd(LutCmd, LutMode)[s]
           e == ram[s]
<1>1. e \in Entry /\ LutCmd \in LcCmd /\ LutReuse \in ReuseReq
  BY PortFacts
<1>2. n = IF hit THEN EventEffect(LutCmd.ev, e) ELSE e
  BY PortFacts DEF AfterCmd, LcCmd, Descriptor
<1>3. IF Granted(s) THEN ram'[s] = Installed(LutReuse, n) ELSE ram'[s] = n
  <2>1. ~Bypassed(LutReuse, LutMode)
    BY DEF Bypassed, LutMode, HostInv, Tame
  <2>2. LutTypeOK
    BY DEF HostInv, TopInv, TopTypeOK
  <2>3. s = LutReuse.slot /\ Grantable(LutReuse) <=> Granted(s)
    BY <1>1 DEF Granted, Grantable, ReuseReq
  <2> QED
    BY <1>1, <2>1, <2>2, <2>3, ReusePort
<1>4. Taken(s, "ISSUE") => hit /\ LutCmd.ev = "ISSUE" /\ e.reservation # 0
  <2> SUFFICES ASSUME Taken(s, "ISSUE")
               PROVE  hit /\ LutCmd.ev = "ISSUE" /\ e.reservation # 0
    OBVIOUS
  <2>1. hit /\ LutCmd.ev = "ISSUE" /\ EventError("ISSUE", e) = "NONE"
    BY PortFacts DEF Taken
  <2> QED
    BY <2>1 DEF EventError
<1>5. CASE Granted(s)
  <2>1. Evictable(e)
    BY <1>5 DEF Granted
  <2>2. ~Completes(s) /\ ~Taken(s, "ISSUE")
    BY <1>4, <2>1, CoveredFacts DEF Evictable
  <2>3. Grantable(LutReuse)
    BY <1>5 DEF Granted, Grantable
  <2>4. Evictable(ram'[s])
    BY <1>3, <1>5, <2>3 DEF Installed, Evictable
  <2> QED
    BY <1>5, <2>2, <2>4 DEF SlotMoves, Reused
<1>6. CASE ~Granted(s) /\ ~hit
  <2>1. ram'[s] = ram[s]
    BY <1>2, <1>3, <1>6
  <2>2. ~Completes(s)
    BY <1>6, PortFacts DEF Completes
  <2> QED
    BY <1>4, <1>6, <2>1, <2>2 DEF SlotMoves, Untouched
<1>7. CASE ~Granted(s) /\ hit
  <2>1. /\ ram'[s] = EventEffect(LutCmd.ev, e)
        /\ Resolves(LutCmd.desc) /\ EventError(LutCmd.ev, e) = "NONE"
    BY <1>2, <1>3, <1>7, PortFacts
  <2>2. /\ e.reservation \in 0..RsvMax /\ e.inflight \in 0..InfMax
        /\ DOMAIN e = {"valid", "phys_idx", "generation", "refcount",
                       "reservation", "inflight", "fill_pending", "tenant"}
    BY <1>1 DEF Entry
  <2>3. LutCmd.valid
    BY <1>7 DEF CmdOk
  <2>4. CASE lookup.valid
    <3>1. LutCmd.ev = "COMPLETE" /\ Completes(s) /\ ~Taken(s, "ISSUE")
      BY <1>7, <2>4, PortFacts DEF Completes, Taken
    <3>2. ram'[s] = [e EXCEPT !.inflight = Pred(@, InfMax)]
      BY <2>1, <3>1 DEF EventEffect
    <3>3. Pred(e.inflight, InfMax) = e.inflight + (-1)
      BY <2>1, <2>2, <3>1 DEF EventError, Pred
    <3>4. SameBut(s, 0, -1)
      BY <1>1, <2>2, <3>2, <3>3 DEF SameBut, Owner, Entry
    <3> QED
      BY <3>1, <3>4 DEF SlotMoves, Completed
  <2>5. CASE ~lookup.valid /\ IsAdmit(Head(fifo))
    <3>1. /\ LutCmd.ev = "ADMIT" /\ Taken(s, "ADMIT") /\ ~Taken(s, "ISSUE")
          /\ LutCmd.desc = Head(fifo).desc /\ ~Completes(s)
      BY <1>7, <2>3, <2>5, PortFacts DEF Completes, Taken, IsAdmit
    <3>2. ram'[s] = [e EXCEPT !.reservation = Succ(@, RsvMax)]
      BY <2>1, <3>1 DEF EventEffect
    <3>3. Succ(e.reservation, RsvMax) = e.reservation + 1
      BY <2>1, <2>2, <3>1 DEF EventError, Succ
    <3>4. SameBut(s, 1, 0)
      BY <1>1, <2>2, <3>2, <3>3 DEF SameBut, Owner, Entry
    <3> QED
      BY <2>1, <2>5, <3>1, <3>4 DEF SlotMoves, Admitted
  <2>6. CASE ~lookup.valid /\ IsIssue(Head(fifo))
    <3>1. /\ LutCmd.ev = "ISSUE" /\ Taken(s, "ISSUE") /\ ~Completes(s)
          /\ LutCmd.desc = Head(fifo).desc
      BY <1>7, <2>3, <2>6, PortFacts DEF Completes, Taken, IsIssue
    <3>2. ram'[s] = [e EXCEPT !.reservation = Pred(@, RsvMax),
                              !.inflight = Succ(@, InfMax)]
      BY <2>1, <3>1 DEF EventEffect
    <3>3. /\ Pred(e.reservation, RsvMax) = e.reservation + (-1)
          /\ Succ(e.inflight, InfMax) = e.inflight + 1
      BY <2>1, <2>2, <3>1 DEF EventError, Succ, Pred
    <3>4. SameBut(s, -1, 1)
      BY <1>1, <2>2, <3>2, <3>3 DEF SameBut, Owner, Entry
    <3> QED
      BY <2>1, <2>6, <3>1, <3>4 DEF SlotMoves, IssuedOn
  <2> QED
    BY <2>3, <2>4, <2>5, <2>6, PortFacts
<1> QED
  BY <1>5, <1>6, <1>7
---------------------------------------------------------------------------
StillResolves(d) == /\ DescValid(ram'[d.lifecycle_slot], d)
                    /\ ram'[d.lifecycle_slot].tenant = d.tenant

(* A descriptor that resolves keeps resolving unless its slot is reused.    *)
LEMMA ResolveKept ==
  ASSUME NEW s, SlotMoves(s), ~Reused(s), NEW d, d.lifecycle_slot = s,
         Resolves(d)
  PROVE  StillResolves(d)
<1>1. Owner(ram'[s]) = Owner(ram[s])
  BY DEF SlotMoves, Completed, Admitted, IssuedOn, Untouched, SameBut
<1>2. /\ ram'[s].valid = ram[s].valid /\ ram'[s].phys_idx = ram[s].phys_idx
      /\ ram'[s].generation = ram[s].generation
      /\ ram'[s].tenant = ram[s].tenant
  BY <1>1 DEF Owner
<1> QED
  BY <1>2 DEF Resolves, StillResolves, DescValid, DescValidNoGen

(* An answered ISSUE is the head of the queue, taken while no completion    *)
(* needs the port.                                                          *)
LEMMA AnsweredFacts ==
  ASSUME NEW t
  PROVE  /\ Answered(t) => /\ ~lookup.valid /\ fifo # <<>> /\ HeadIsLc
                           /\ Popped = 1 /\ Head(fifo).ev = "ISSUE"
                           /\ Head(fifo).desc.transaction_tag = t
         /\ \A s : Taken(s, "ISSUE") /\ Head(fifo).desc.transaction_tag = t
                     => Answered(t)
BY DEF Answered, HeadIsLc, HeadIsRead, ReqPop, RdValid, Popped, Taken

(* What the tracker looks up on a last beat is what the host planned.       *)
LEMMA LookupPlan ==
  ASSUME HostInv, NEW arready \in BOOLEAN, NEW r \in Beats,
         BlocksEdge(RdValid, RdReq, win, arready, r)
  PROVE  /\ lookup'.valid <=> RLast(r)
         /\ RLast(r) => /\ r.id \in Tags /\ phase[r.id] = "reading"
                        /\ lookup'.desc = plan[r.id]
<1> DEFINE ok == CompleteOk(RLast(r), r.id)
<1>1. (ok <=> RLast(r)) /\ (RLast(r) => tag_busy[r.id]) /\ r.id \in Tags
  BY BothGoThrough, BeatFacts DEF HostInv, TopInv
<1> HIDE DEF ok
<1>2. lookup' = [valid |-> ok,
                 desc |-> IF ok THEN tag_desc[r.id] ELSE lookup.desc]
  BY DEF BlocksEdge, ReadClock, TrackerClock, ok
<1>3. lookup'.valid = ok /\ (ok => lookup'.desc = tag_desc[r.id])
  BY <1>2
<1> QED
  BY <1>1, <1>3 DEF HostInv, UnderWay, Live

(* No recorded read loses the generation it was planned under.              *)
LEMMA ResolvesStep ==
  ASSUME HostConstants, HostInv, NEW arready \in BOOLEAN, NEW r \in Beats,
         BlocksEdge(RdValid, RdReq, win, arready, r),
         \A t \in Tags : Moves(t, r), \A s \in Slots : SlotMoves(s)
  PROVE  Held'
<1> USE DEF HostInv
<1>1. ASSUME NEW t \in Tags, phase[t] \in {"issued", "reading"}
      PROVE  StillResolves(plan[t])
  <2> DEFINE s == plan[t].lifecycle_slot
  <2>1. s \in Slots /\ t \in Recorded(s)
    BY <1>1 DEF HostTypes, Descriptor, Recorded
  <2>2. ram[s].inflight > 0
    BY <2>1, CoveredFacts
  <2>3. ~Reused(s)
    BY <2>2 DEF Reused, Granted, Evictable
  <2> QED
    BY <1>1, <2>1, <2>3, ResolveKept DEF Held
<1>2. ASSUME NEW t \in Tags, phase'[t] \in {"issued", "reading"}
      PROVE  StillResolves(plan'[t])
  <2>1. Moves(t, r)
    OBVIOUS
  <2>2. CASE IssueAnswered(t)
    <3> DEFINE s == plan[t].lifecycle_slot
    <3>1. Taken(s, "ISSUE") /\ plan'[t] = plan[t] /\ s \in Slots
          /\ Head(fifo).desc = plan[t]
      BY <1>2, <2>2, AnsweredFacts
         DEF IssueAnswered, Answered, Taken, HostTypes, Descriptor
    <3>2. SlotMoves(s) /\ ~Reused(s) /\ Resolves(plan[t])
      BY <3>1 DEF SlotMoves, Reused, Completed, Admitted, IssuedOn, Untouched
    <3> QED
      BY <3>1, <3>2, ResolveKept
  <2>3. CASE ReadQueued(t)
    BY <1>1, <2>3 DEF ReadQueued
  <2>4. CASE Rests(t, r)
    BY <1>1, <1>2, <2>4 DEF Rests
  <2> QED
    BY <1>2, <2>1, <2>2, <2>3, <2>4
       DEF Moves, ReadEnded, AdmitQueued, IssueQueued
<1>3. lookup'.valid => StillResolves(lookup'.desc)
  BY <1>1, LookupPlan
<1>4. /\ \A t \in Tags :
           phase'[t] \in {"issued", "reading"} => Resolves(plan[t])'
      /\ lookup'.valid => Resolves(lookup.desc)'
  BY <1>2, <1>3
     DEF Resolves, StillResolves, DescValid, DescValidNoGen
<1> QED
  BY <1>4 DEF Held
---------------------------------------------------------------------------
(* The recorded reads after an edge: those that did not end, and the one    *)
(* whose ISSUE was accepted.                                                *)
RecordedNext(s) ==
  {t \in Tags : phase'[t] \in {"issued", "reading"}
                  /\ plan'[t].lifecycle_slot = s}

LEMMA RecordedStep ==
  ASSUME HostInv, NEW r \in Beats, NEW s \in Slots,
         \A t \in Tags : Moves(t, r)
  PROVE  /\ RecordedNext(s) =
              (Recorded(s) \ (IF RLast(r) THEN {r.id} ELSE {}))
                \cup (IF Taken(s, "ISSUE")
                      THEN {Head(fifo).desc.transaction_tag} ELSE {})
         /\ Taken(s, "ISSUE") =>
              /\ Head(fifo).desc.transaction_tag \in Tags
              /\ Head(fifo).desc.transaction_tag \notin Recorded(s)
<1> DEFINE h == Head(fifo).desc.transaction_tag
<1>1. Taken(s, "ISSUE") => h \in Tags
  <2> SUFFICES ASSUME Taken(s, "ISSUE") PROVE h \in Tags
    OBVIOUS
  <2>1. fifo # <<>> /\ TopTypeOK
    BY DEF Taken, HeadIsLc, HostInv, TopInv
  <2> QED
    BY <2>1, HeadType DEF Request, Descriptor
<1>2. ASSUME NEW t \in Tags
      PROVE  /\ t \in RecordedNext(s) <=>
                  \/ t \in Recorded(s) /\ ~ReadEnds(t, r)
                  \/ Taken(s, "ISSUE") /\ t = h
             /\ Taken(s, "ISSUE") /\ t = h => t \notin Recorded(s)
  <2>1. Taken(s, "ISSUE") /\ t = h => Answered(t)
    BY AnsweredFacts
  <2>2. Moves(t, r)
    OBVIOUS
  <2>3. CASE IssueAnswered(t)
    <3>1. /\ Answered(t) /\ phase[t] = "issuing" /\ plan'[t] = plan[t]
          /\ Head(fifo).desc = plan[t]
          /\ phase'[t] = IF CmdOk(LutCmd, LutMode) THEN "issued" ELSE "idle"
      BY <2>3 DEF IssueAnswered
    <3>2. h = t /\ (Taken(s, "ISSUE") <=>
                      CmdOk(LutCmd, LutMode) /\ plan[t].lifecycle_slot = s)
      BY <3>1, AnsweredFacts DEF Answered, Taken
    <3> QED
      BY <3>1, <3>2 DEF RecordedNext, Recorded
  <2>4. CASE ReadEnded(t, r)
    BY <2>1, <2>4 DEF ReadEnded, RecordedNext, Recorded
  <2>5. CASE AdmitQueued(t) /\ ~Answered(t) /\ ~ReadEnds(t, r)
    BY <2>1, <2>5 DEF AdmitQueued, RecordedNext, Recorded
  <2>6. CASE IssueQueued(t) /\ ~Answered(t) /\ ~ReadEnds(t, r)
    BY <2>1, <2>6 DEF IssueQueued, RecordedNext, Recorded
  <2>7. CASE ReadQueued(t) /\ ~Answered(t) /\ ~ReadEnds(t, r)
    BY <2>1, <2>7 DEF ReadQueued, RecordedNext, Recorded
  <2>8. CASE Rests(t, r)
    BY <2>1, <2>8 DEF Rests, RecordedNext, Recorded
  <2> QED
    BY <2>2, <2>3, <2>4, <2>5, <2>6, <2>7, <2>8 DEF Moves
<1>3. RecordedNext(s) \subseteq Tags /\ Recorded(s) \subseteq Tags
  BY DEF RecordedNext, Recorded
<1> QED
  BY <1>1, <1>2, <1>3 DEF ReadEnds

(* A read that ends is handed from the recorded reads to the completion on  *)
(* its way, and an accepted ISSUE adds one.                                 *)
ReturningNext(s) ==
  IF lookup'.valid /\ lookup'.desc.lifecycle_slot = s THEN 1 ELSE 0

LEMMA CountedStep ==
  ASSUME HostConstants, HostInv, NEW arready \in BOOLEAN, NEW r \in Beats,
         BlocksEdge(RdValid, RdReq, win, arready, r),
         \A t \in Tags : Moves(t, r), NEW s \in Slots
  PROVE  Cardinality(RecordedNext(s)) + ReturningNext(s)
           = Cardinality(Recorded(s)) + (IF Taken(s, "ISSUE") THEN 1 ELSE 0)
<1> DEFINE h == Head(fifo).desc.transaction_tag
           taken == Taken(s, "ISSUE")
           rest == Recorded(s) \ (IF RLast(r) THEN {r.id} ELSE {})
<1>1. IsFiniteSet(Recorded(s)) /\ Cardinality(Recorded(s)) \in Nat
  BY RecordedFinite
<1>2. ReturningNext(s) = IF RLast(r) /\ r.id \in Recorded(s) THEN 1 ELSE 0
  BY LookupPlan DEF ReturningNext, Recorded
<1>3. /\ IsFiniteSet(rest)
      /\ Cardinality(rest) = Cardinality(Recorded(s)) - ReturningNext(s)
  <2>1. CASE RLast(r) /\ r.id \in Recorded(s)
    <3>1. rest = Recorded(s) \ {r.id}
      BY <2>1
    <3> QED
      BY <1>1, <1>2, <2>1, <3>1, FS_RemoveElement
  <2>2. CASE ~(RLast(r) /\ r.id \in Recorded(s))
    <3>1. rest = Recorded(s)
      BY <2>2
    <3>2. ReturningNext(s) = 0
      BY <1>2, <2>2
    <3> HIDE DEF rest
    <3> QED
      BY <1>1, <3>1, <3>2
  <2> QED
    BY <2>1, <2>2
<1>4. ReturningNext(s) \in {0, 1}
  BY DEF ReturningNext
<1>5. /\ RecordedNext(s) = rest \cup (IF taken THEN {h} ELSE {})
      /\ taken => h \notin rest
  BY RecordedStep
<1> HIDE DEF rest, taken, h
<1>6. Cardinality(RecordedNext(s))
        = Cardinality(rest) + (IF taken THEN 1 ELSE 0)
  <2>1. CASE taken
    <3>1. RecordedNext(s) = rest \cup {h} /\ h \notin rest
      BY <1>5, <2>1
    <3> QED
      BY <1>3, <2>1, <3>1, FS_AddElement
  <2>2. CASE ~taken
    <3>1. RecordedNext(s) = rest
      BY <1>5, <2>2
    <3> QED
      BY <1>1, <1>3, <1>4, <2>2, <3>1
  <2> QED
    BY <2>1, <2>2
<1> QED
  BY <1>1, <1>3, <1>4, <1>6 DEF taken

LEMMA CoveredStep ==
  ASSUME HostConstants, HostInv, NEW arready \in BOOLEAN, NEW r \in Beats,
         BlocksEdge(RdValid, RdReq, win, arready, r),
         \A t \in Tags : Moves(t, r), \A s \in Slots : SlotMoves(s)
  PROVE  ReadsAreCovered'
<1> SUFFICES ASSUME NEW s \in Slots
             PROVE  ram'[s].inflight
                      = Cardinality(RecordedNext(s)) + ReturningNext(s)
  BY DEF ReadsAreCovered, Recorded, RecordedNext, Returning, ReturningNext
<1> DEFINE taken == Taken(s, "ISSUE")
<1>1. Cardinality(RecordedNext(s)) + ReturningNext(s)
        = Cardinality(Recorded(s)) + (IF taken THEN 1 ELSE 0)
  BY CountedStep
<1>2. /\ ram[s].inflight = Cardinality(Recorded(s)) + Returning(s)
      /\ Returning(s) = IF Completes(s) THEN 1 ELSE 0
      /\ Cardinality(Recorded(s)) \in Nat
  BY RecordedFinite DEF HostInv, ReadsAreCovered, Returning, Completes
<1>3. SlotMoves(s)
  OBVIOUS
<1>4. CASE Reused(s)
  <2>1. ram[s].inflight = 0 /\ ram'[s].inflight = 0 /\ ~taken
    BY <1>4 DEF Reused, Granted, Evictable
  <2> QED
    BY <1>1, <1>2, <2>1
<1>5. CASE Completed(s)
  <2>1. ram'[s].inflight = ram[s].inflight + (-1) /\ ~taken /\ Completes(s)
    BY <1>5 DEF Completed, SameBut
  <2> QED
    BY <1>1, <1>2, <2>1
<1>6. CASE IssuedOn(s)
  <2>1. ram'[s].inflight = ram[s].inflight + 1 /\ taken /\ ~Completes(s)
    BY <1>6 DEF IssuedOn, SameBut
  <2> QED
    BY <1>1, <1>2, <2>1
<1>7. CASE Admitted(s)
  <2>1. ram'[s].inflight = ram[s].inflight + 0 /\ ~taken /\ ~Completes(s)
    BY <1>7 DEF Admitted, SameBut
  <2> QED
    BY <1>1, <1>2, <2>1
<1>8. CASE Untouched(s)
  <2>1. ram'[s].inflight = ram[s].inflight /\ ~taken /\ ~Completes(s)
    BY <1>8 DEF Untouched
  <2> QED
    BY <1>1, <1>2, <2>1
<1> QED
  BY <1>3, <1>4, <1>5, <1>6, <1>7, <1>8 DEF SlotMoves
---------------------------------------------------------------------------
(* The reads that may hold a reservation after an edge.                     *)
AdmitQueuedNext(t) ==
  \E i \in 1 .. Len(Pipe') : /\ Pipe'[i].desc.transaction_tag = t
                             /\ IsAdmit(Pipe'[i])
HoldersNext(s) ==
  {t \in Tags : /\ phase'[t] \in {"admitting", "issuing"}
                /\ plan'[t].lifecycle_slot = s /\ StillResolves(plan'[t])
                /\ ~AdmitQueuedNext(t)}

LEMMA HoldersFinite ==
  ASSUME HostConstants, NEW s
  PROVE  /\ IsFiniteSet(Holders(s)) /\ Cardinality(Holders(s)) \in Nat
         /\ IsFiniteSet(HoldersNext(s)) /\ Cardinality(HoldersNext(s)) \in Nat
<1>1. Holders(s) \subseteq Tags /\ HoldersNext(s) \subseteq Tags
  BY DEF Holders, HoldersNext
<1>2. IsFiniteSet(Holders(s)) /\ IsFiniteSet(HoldersNext(s))
  BY <1>1, FS_Subset DEF HostConstants
<1> QED
  BY <1>2, FS_CardinalityType

(* A read between its ADMIT's answer and its ISSUE's stays one that may     *)
(* hold a reservation, whatever else happens on its slot short of a reuse.  *)
LEMMA HolderStays ==
  ASSUME HostInv, NEW r \in Beats, NEW s \in Slots, PipeMoves,
         NEW t \in Tags, Moves(t, r), SlotMoves(s), ~Reused(s),
         phase[t] \in {"admitting", "issuing"}, plan[t].lifecycle_slot = s,
         Resolves(plan[t]), ~Answered(t),
         \A i \in 1 .. Len(Pipe) : TagAt(i) = t /\ IsAdmit(Pipe[i])
                                     => i <= Popped
  PROVE  t \in HoldersNext(s)
<1>1. /\ plan'[t] = plan[t] /\ phase'[t] \in {"admitting", "issuing"}
      /\ Goes(t) => IsIssue(cmd_r)
  BY DEF Moves, IssueAnswered, ReadEnded, AdmitQueued, IssueQueued,
         ReadQueued, Rests
<1>2. StillResolves(plan[t])
  BY ResolveKept
<1>3. ASSUME NEW i \in 1 .. Len(Pipe'), Pipe'[i].desc.transaction_tag = t,
             IsAdmit(Pipe'[i])
      PROVE  FALSE
  <2>1. CASE i + Popped \in 1 .. Len(Pipe) /\ Pipe'[i] = Pipe[i + Popped]
    <3>1. i + Popped > Popped
      BY DEF Popped
    <3>2. TagAt(i + Popped) = t
      BY <1>3, <2>1 DEF TagAt
    <3> QED
      BY <1>3, <2>1, <3>1, <3>2 DEF Popped
  <2>2. CASE req_valid' /\ Pipe'[i] = cmd_r
    BY <1>1, <1>3, <2>2 DEF Goes, IsAdmit, IsIssue
  <2> QED
    BY <2>1, <2>2 DEF PipeMoves
<1> QED
  BY <1>1, <1>2, <1>3 DEF HoldersNext, AdmitQueuedNext

(* The host's tags leave room in inflight for every read of a slot, so no   *)
(* ISSUE is refused for an overflow (page_state_lut.sv:110-114).            *)
LEMMA InflightRoom ==
  ASSUME HostConstants, HostInv, NEW t \in Tags, phase[t] = "issuing",
         ~lookup.valid, NEW s \in Slots
  PROVE  ram[s].inflight < InfMax
<1>1. Recorded(s) \subseteq Tags \ {t}
  BY DEF Recorded
<1>2. /\ IsFiniteSet(Tags \ {t})
      /\ Cardinality(Tags \ {t}) = Cardinality(Tags) - 1
      /\ Cardinality(Tags) \in Nat
  BY FS_RemoveElement, FS_CardinalityType DEF HostConstants
<1>3. Cardinality(Recorded(s)) <= Cardinality(Tags \ {t})
  BY <1>1, <1>2, FS_Subset
<1>4. ram[s].inflight = Cardinality(Recorded(s))
  BY RecordedFinite DEF HostInv, ReadsAreCovered, Returning
<1>5. Cardinality(Recorded(s)) \in Nat
  BY RecordedFinite
<1>6. InfMax \in Nat /\ Cardinality(Tags) <= InfMax
  BY PkgAssumption DEF HostConstants
<1> QED
  BY <1>2, <1>3, <1>4, <1>5, <1>6

(* An ISSUE of a read that may hold a reservation is refused only if its    *)
(* slot has none.                                                           *)
LEMMA RefusedIssue ==
  ASSUME HostConstants, HostInv, NEW s \in Slots, NEW t \in Holders(s),
         NEW r, Moves(t, r), Answered(t), ~Taken(s, "ISSUE")
  PROVE  ram[s].reservation = 0
<1>1. IssueAnswered(t)
  BY DEF Moves, ReadEnded, Rests
<1>2. /\ ~lookup.valid /\ HeadIsLc /\ ReqPop
      /\ phase[t] = "issuing" /\ IsIssue(Head(fifo))
      /\ Head(fifo).desc = plan[t]
      /\ plan[t].lifecycle_slot = s /\ Resolves(plan[t]) /\ t \in Tags
  BY <1>1, AnsweredFacts DEF IssueAnswered, Answered, Holders
<1>3. LutCmd.valid /\ LutCmd.ev = "ISSUE" /\ LutCmd.desc = plan[t]
  BY <1>2, PortFacts DEF IsIssue
<1>4. ~CmdOk(LutCmd, LutMode)
  BY <1>2 DEF Taken, IsIssue
<1>5. EventError("ISSUE", ram[s]) # "NONE"
  <2>1. DescOk(ram[s], plan[t], LutMode) /\ ram[s].tenant = plan[t].tenant
    BY <1>2 DEF Resolves, DescOk, LutMode, HostInv, Tame
  <2> QED
    BY <1>2, <1>3, <1>4, <2>1 DEF CmdOk, CmdError
<1>6. ram[s].inflight # InfMax
  <2>1. ram[s].inflight \in Nat /\ ram[s].inflight < InfMax
    BY <1>2, InflightRoom, PortFacts DEF Entry
  <2> QED
    BY <2>1
<1> QED
  BY <1>5, <1>6 DEF EventError

LEMMA OnlyReadsStep ==
  ASSUME HostConstants, HostInv, NEW r \in Beats, PipeMoves,
         \A t \in Tags : Moves(t, r), \A s \in Slots : SlotMoves(s)
  PROVE  OnlyReads'
<1> USE DEF HostInv
<1> SUFFICES ASSUME NEW s \in Slots
             PROVE  /\ ram'[s].refcount = 0 /\ ram'[s].fill_pending = 0
                    /\ ram'[s].reservation <= Cardinality(HoldersNext(s))
  BY DEF OnlyReads, Holders, HoldersNext, AdmitQueuedNext, TagAt, Resolves,
         StillResolves, DescValid, DescValidNoGen
<1>1. /\ ram[s].refcount = 0 /\ ram[s].fill_pending = 0
      /\ ram[s].reservation <= Cardinality(Holders(s))
      /\ ram[s].reservation \in Nat
  BY PortFacts DEF OnlyReads, Entry
<1>2. /\ IsFiniteSet(Holders(s)) /\ Cardinality(Holders(s)) \in Nat
      /\ IsFiniteSet(HoldersNext(s)) /\ Cardinality(HoldersNext(s)) \in Nat
  BY HoldersFinite
<1>3. ~Reused(s) =>
        \A t \in Holders(s) : ~Answered(t) => t \in HoldersNext(s)
  <2> SUFFICES ASSUME ~Reused(s), NEW t \in Holders(s), ~Answered(t)
               PROVE  t \in HoldersNext(s)
    OBVIOUS
  <2>1. /\ t \in Tags /\ phase[t] \in {"admitting", "issuing"}
        /\ plan[t].lifecycle_slot = s /\ Resolves(plan[t])
        /\ \A i \in 1 .. Len(Pipe) : ~(TagAt(i) = t /\ IsAdmit(Pipe[i]))
    BY DEF Holders
  <2> QED
    BY <2>1, HolderStays
<1>4. (\A t \in Holders(s) : ~Answered(t)) /\ ~Reused(s) =>
        Cardinality(Holders(s)) <= Cardinality(HoldersNext(s))
  BY <1>2, <1>3, FS_Subset
<1>5. CASE Reused(s)
  BY <1>2, <1>5 DEF Reused, Evictable
<1>6. CASE Completed(s)
  <2>1. /\ \A t \in Holders(s) : ~Answered(t)
        /\ ~Reused(s)
    BY <1>6, AnsweredFacts DEF Completed, Completes, Reused
  <2>2. /\ ram'[s].refcount = 0 /\ ram'[s].fill_pending = 0
        /\ ram'[s].reservation = ram[s].reservation + 0
    BY <1>1, <1>6 DEF Completed, SameBut
  <2> QED
    BY <1>1, <1>2, <1>4, <2>1, <2>2
<1>7. CASE Untouched(s) /\ ~Reused(s)
  <2>1. (\E t \in Holders(s) : Answered(t)) => ram[s].reservation = 0
    BY <1>7, RefusedIssue DEF Untouched, Holders
  <2>2. ram'[s] = ram[s]
    BY <1>7 DEF Untouched
  <2> QED
    BY <1>1, <1>2, <1>4, <1>7, <2>1, <2>2
<1>8. CASE Admitted(s) /\ ~Reused(s)
  <2> DEFINE h == Head(fifo).desc.transaction_tag
  <2>1. /\ HeadIsLc /\ ReqPop /\ fifo # <<>> /\ Popped = 1
        /\ IsAdmit(Head(fifo)) /\ Head(fifo).desc.lifecycle_slot = s
        /\ Resolves(Head(fifo).desc)
        /\ \A t : ~Answered(t)
    BY <1>8 DEF Admitted, Taken, HeadIsLc, Popped, Answered, IsAdmit
  <2>2. 1 \in 1 .. Len(Pipe) /\ Pipe[1] = Head(fifo) /\ TagAt(1) = h
    BY <2>1, HeadAt
  <2>3. /\ h \in Tags /\ Head(fifo).desc = plan[h]
        /\ phase[h] \in {"admitting", "issuing"}
    BY <2>1, <2>2, PipeAt DEF IsAdmit, IsIssue
  <2>4. h \notin Holders(s)
    BY <2>1, <2>2 DEF Holders
  <2>5. \A i \in 1 .. Len(Pipe) : TagAt(i) = h /\ IsAdmit(Pipe[i])
                                    => i <= Popped
    BY <2>1, <2>2 DEF InOrder, IsAdmit, IsIssue
  <2>6. h \in HoldersNext(s)
    BY <1>8, <2>1, <2>3, <2>5, HolderStays
  <2>7. Holders(s) \cup {h} \subseteq HoldersNext(s)
    BY <1>3, <1>8, <2>1, <2>6
  <2> HIDE DEF h
  <2>8. /\ IsFiniteSet(Holders(s) \cup {h})
        /\ Cardinality(Holders(s) \cup {h}) = Cardinality(Holders(s)) + 1
    BY <1>2, <2>4, FS_AddElement
  <2>9. Cardinality(Holders(s) \cup {h}) <= Cardinality(HoldersNext(s))
    BY <1>2, <2>7, FS_Subset
  <2>10. /\ ram'[s].refcount = 0 /\ ram'[s].fill_pending = 0
         /\ ram'[s].reservation = ram[s].reservation + 1
    BY <1>1, <1>8 DEF Admitted, SameBut
  <2> QED
    BY <1>1, <1>2, <2>8, <2>9, <2>10
<1>9. CASE IssuedOn(s) /\ ~Reused(s)
  <2> DEFINE h == Head(fifo).desc.transaction_tag
  <2>1. /\ fifo # <<>> /\ IsIssue(Head(fifo))
        /\ Head(fifo).desc.lifecycle_slot = s /\ Resolves(Head(fifo).desc)
        /\ \A t : Answered(t) => t = h
    BY <1>9 DEF IssuedOn, Taken, HeadIsLc, Answered
  <2>2. 1 \in 1 .. Len(Pipe) /\ Pipe[1] = Head(fifo) /\ TagAt(1) = h
    BY <2>1, HeadAt
  <2>3. ~IsAdmit(Pipe[1])
    BY <2>1, <2>2 DEF IsAdmit, IsIssue
  <2>4. h \in Tags /\ Head(fifo).desc = plan[h] /\ phase[h] = "issuing"
    BY <2>1, <2>2, <2>3, PipeAt DEF IsIssue
  <2>5. \A i \in 1 .. Len(Pipe) : ~(TagAt(i) = h /\ IsAdmit(Pipe[i]))
    BY <2>2, <2>3 DEF InOrder
  <2>6. h \in Holders(s)
    BY <2>1, <2>4, <2>5 DEF Holders
  <2>7. Holders(s) \ {h} \subseteq HoldersNext(s)
    BY <1>3, <1>9, <2>1
  <2> HIDE DEF h
  <2>8. /\ IsFiniteSet(Holders(s) \ {h})
        /\ Cardinality(Holders(s) \ {h}) = Cardinality(Holders(s)) - 1
    BY <1>2, <2>6, FS_RemoveElement
  <2>9. Cardinality(Holders(s) \ {h}) <= Cardinality(HoldersNext(s))
    BY <1>2, <2>7, FS_Subset
  <2>10. /\ ram'[s].refcount = 0 /\ ram'[s].fill_pending = 0
         /\ ram'[s].reservation = ram[s].reservation + (-1)
    BY <1>1, <1>9 DEF IssuedOn, SameBut
  <2> QED
    BY <1>1, <1>2, <2>8, <2>9, <2>10
<1> QED
  BY <1>5, <1>6, <1>7, <1>8, <1>9 DEF SlotMoves
---------------------------------------------------------------------------
LEMMA HostInvInit == HostConstants /\ HostInit => HostInv
<1> SUFFICES ASSUME HostConstants, HostInit PROVE HostInv
  OBVIOUS
<1>1. TopInit
  BY DEF HostInit
<1>2. TopInv
  BY <1>1, TopInvInit
<1>3. Tame
  BY <1>1 DEF TopInit, RegsInit, Tame
<1>4. /\ phase = [t \in Tags |-> "idle"] /\ plan = [t \in Tags |-> ZeroDesc]
      /\ \A t \in Tags : phase[t] = "idle"
  BY DEF HostInit
<1>5. HostTypes
  BY <1>4, ZeroDescType DEF HostTypes, Phases
<1>6. Len(Pipe) = 0
  <2>1. fifo = <<>> /\ ~req_valid
    BY <1>1 DEF TopInit, RegsInit
  <2> QED
    BY <1>2, <2>1, PipeNow, EmptySeq DEF PipeShape
<1>7. PipeInv /\ InOrder
  BY <1>6 DEF PipeInv, InOrder
<1>8. state = "IDLE" /\ Live = {} /\ ~lookup.valid
  BY <1>1 DEF TopInit, RdmInit, RdmCleared, TrackerInit, TrackerCleared, Live
<1>9. UnderWay /\ Held
  BY <1>4, <1>8 DEF UnderWay, Held
<1>10. ASSUME NEW s \in Slots
       PROVE  /\ ram[s].inflight = 0 /\ ram[s].reservation = 0
              /\ ram[s].refcount = 0 /\ ram[s].fill_pending = 0
  BY <1>1 DEF TopInit, LutInit, LutCleared, ClearEntry
<1>11. ReadsAreCovered
  <2> SUFFICES ASSUME NEW s \in Slots
               PROVE  ram[s].inflight = Cardinality(Recorded(s)) + Returning(s)
    BY DEF ReadsAreCovered
  <2>1. Recorded(s) = {} /\ Returning(s) = 0
    BY <1>4, <1>8 DEF Recorded, Returning
  <2> QED
    BY <1>10, <2>1, FS_EmptySet
<1>12. OnlyReads
  <2> SUFFICES ASSUME NEW s \in Slots
               PROVE  /\ ram[s].refcount = 0 /\ ram[s].fill_pending = 0
                      /\ ram[s].reservation <= Cardinality(Holders(s))
    BY DEF OnlyReads
  <2> QED
    BY <1>10, HoldersFinite
<1> QED
  BY <1>2, <1>3, <1>5, <1>7, <1>9, <1>11, <1>12 DEF HostInv

LEMMA HostInvStep ==
  ASSUME HostConstants, HostInv, NEW arready \in BOOLEAN,
         NEW r \in CleanBeats, HostEdge(arready, r)
  PROVE  /\ HostInv' /\ r \in Beats
         /\ \A s \in Slots : SlotMoves(s)
<1> USE DEF HostInv
<1>1. /\ r \in Beats /\ TopInv' /\ Tame' /\ PipeMoves
      /\ BlocksEdge(RdValid, RdReq, win, arready, r)
      /\ LutClock(LutCmd, LutReuse, LutMode)
      /\ Follow(r) /\ \A t \in Tags : Goes(t) => MayGo(t)
  BY EdgeFacts
<1>2. \A t \in Tags : Moves(t, r)
  BY <1>1, MovesStep
<1>3. \A s \in Slots : SlotMoves(s)
  BY <1>1, SlotStep
<1>4. HostTypes'
  BY <1>1, <1>2, HostTypesStep
<1>5. PipeInv' /\ InOrder'
  BY <1>1, <1>2, PipeInvStep, InOrderStep
<1>6. UnderWay'
  BY <1>1, <1>2, UnderWayStep
<1>7. Held' /\ ReadsAreCovered'
  BY <1>1, <1>2, <1>3, ResolvesStep, CoveredStep
<1>8. OnlyReads'
  BY <1>1, <1>2, <1>3, OnlyReadsStep
<1> QED
  BY <1>1, <1>3, <1>4, <1>5, <1>6, <1>7, <1>8

LEMMA HostStutter == HostInv /\ UNCHANGED hostvars => HostInv'
<1> SUFFICES ASSUME HostInv, UNCHANGED hostvars PROVE HostInv'
  OBVIOUS
<1> USE DEF HostInv, hostvars
<1>1. UNCHANGED topvars /\ phase' = phase /\ plan' = plan
  OBVIOUS
<1>2. TopInv'
  BY <1>1, TopStutter
<1>3. /\ ram' = ram /\ lookup' = lookup /\ fifo' = fifo /\ cmd_r' = cmd_r
      /\ req_valid' = req_valid /\ ctrl' = ctrl /\ srst_pend' = srst_pend
      /\ srst_cnt' = srst_cnt /\ state' = state /\ issue' = issue
      /\ tag_busy' = tag_busy /\ tag_desc' = tag_desc
  BY <1>1 DEF topvars, lutvars, rdmvars, ttvars, regvars
<1>4. Tame' /\ HostTypes' /\ PipeInv' /\ InOrder'
  BY <1>1, <1>3 DEF Tame, HostTypes, PipeInv, InOrder, TagAt, Pipe
<1>5. UnderWay' /\ Held'
  BY <1>1, <1>3
     DEF UnderWay, Live, InPipe, TagAt, Pipe, Held, Resolves, DescValid,
         DescValidNoGen
<1>6. ReadsAreCovered' /\ OnlyReads'
  BY <1>1, <1>3
     DEF ReadsAreCovered, Recorded, Returning, OnlyReads, Holders, TagAt,
         Pipe, Resolves, DescValid, DescValidNoGen
<1> QED
  BY <1>2, <1>4, <1>5, <1>6

LEMMA HostInvHolds ==
  ASSUME HostConstants PROVE HostSpec => []HostInv
<1>1. HostInit => HostInv
  BY HostInvInit
<1>2. HostInv /\ [HostNext]_hostvars => HostInv'
  BY HostInvStep, HostStutter DEF HostNext
<1> QED
  BY <1>1, <1>2, PTL DEF HostSpec
---------------------------------------------------------------------------
(* Every read that the host may still send or that is under way is counted  *)
(* in its slot's inflight, and nothing else is, for any number of tags,     *)
(* slots and queue places (page_state_lut.sv:90-134,                        *)
(* lifecycle_guard_top.sv:415-456).                                         *)
THEOREM ReadsCoveredCorrect ==
  ASSUME HostConstants PROVE HostSpec => []ReadsAreCovered
<1>1. HostInv => ReadsAreCovered
  BY DEF HostInv
<1> QED
  BY <1>1, HostInvHolds, PTL

(* The table accepts every completion (page_state_lut.sv:67-104).           *)
THEOREM CompletionCorrect ==
  ASSUME HostConstants PROVE HostSpec => []CompletionResolves
<1>1. HostInv => CompletionResolves
  BY PortFacts DEF CompletionResolves
<1> QED
  BY <1>1, HostInvHolds, PTL

(* With no read under way every page is free again                          *)
(* (page_state_lut.sv:90-213).                                              *)
THEOREM NothingLeaksCorrect ==
  ASSUME HostConstants PROVE HostSpec => []NothingLeaks
<1>1. HostInv => NothingLeaks
  <2> SUFFICES ASSUME HostInv, \A t \in Tags : phase[t] = "idle",
                      ~lookup.valid, NEW s \in Slots
               PROVE  Evictable(ram[s])
    BY DEF NothingLeaks
  <2>1. Recorded(s) = {} /\ Holders(s) = {} /\ Returning(s) = 0
    BY DEF Recorded, Holders, Returning
  <2>2. ram[s].inflight = 0
    BY <2>1, FS_EmptySet DEF HostInv, ReadsAreCovered
  <2>3. ram[s].reservation \in Nat
    BY PortFacts DEF Entry
  <2>4. /\ ram[s].refcount = 0 /\ ram[s].fill_pending = 0
        /\ ram[s].reservation <= 0
    BY <2>1, FS_EmptySet DEF HostInv, OnlyReads
  <2> QED
    BY <2>2, <2>3, <2>4 DEF Evictable
<1> QED
  BY <1>1, HostInvHolds, PTL

(* What the guard is for: no slot changes hands while a burst that was      *)
(* issued through it is live on the bus (README.md:3-4).                    *)
SafeReuse ==
  \A s \in Slots : NewOwner(s) =>
    \A t \in Tags : bus[t] > 0 => tag_desc[t].lifecycle_slot # s

THEOREM NoReuseCorrect ==
  ASSUME HostConstants PROVE HostSpec => NoReuseUnderRead
<1>1. HostInv /\ [HostNext]_hostvars => [SafeReuse]_topvars
  <2> SUFFICES ASSUME HostInv, [HostNext]_hostvars, ~UNCHANGED topvars,
                      NEW s \in Slots, NewOwner(s),
                      NEW t \in Tags, bus[t] > 0,
                      tag_desc[t].lifecycle_slot = s
               PROVE  FALSE
    BY DEF SafeReuse
  <2>1. HostNext
    BY DEF hostvars
  <2>2. SlotMoves(s)
    BY <2>1, HostInvStep DEF HostNext
  <2>3. Reused(s)
    BY <2>2 DEF SlotMoves, Completed, Admitted, IssuedOn, Untouched, SameBut,
                NewOwner
  <2>4. t \in Live
    BY DEF Live, HostInv, TopInv, BlocksInv, LiveSetsAgree
  <2>5. t \in Recorded(s)
    BY <2>4 DEF HostInv, UnderWay, Recorded
  <2>6. ram[s].inflight > 0
    BY <2>5, CoveredFacts
  <2> QED
    BY <2>3, <2>6 DEF Reused, Granted, Evictable
<1> QED
  BY <1>1, HostInvHolds, PTL DEF HostSpec, NoReuseUnderRead, SafeReuse

(* Behind this host too the guard implements SlotLifecycle: the host is one *)
(* of the hosts of GuardTop (lifecycle_guard_top.sv:215-235, 415-456).      *)
LEMMA HostIsATop == HostSpec => TopSpec
<1>1. HostInit => TopInit
  BY DEF HostInit
<1>2. [HostNext]_hostvars => [TopNext]_topvars
  BY DEF HostNext, HostEdge, TopNext, CleanBeats, hostvars
<1> QED
  BY <1>1, <1>2, PTL DEF HostSpec, TopSpec

THEOREM HostImplementsLifecycle ==
  ASSUME HostConstants PROVE HostSpec => LifeSpec
<1>1. TopSpec => LifeSpec
  BY GuardImplementsLifecycle DEF HostConstants
<1> QED
  BY <1>1, HostIsATop
=============================================================================
