---------------------------- MODULE AxiLiteRegs ----------------------------
(***************************************************************************)
(* The write side of the AXI4-Lite register block                          *)
(* (rtl/v1/axi_lite_regs.sv): the write handshake, the control, window,    *)
(* command and reuse registers, the one-shot pulses a write raises, and the*)
(* sticky status bits.  One step is one rising clock edge.                 *)
(*                                                                         *)
(* Which write was captured is chosen when it commits: until then nothing  *)
(* reads it.  A command takes five registers (descriptor, configuration,   *)
(* address, signature); they are one register here, and a write to any of  *)
(* them leaves some request in it.                                         *)
(***************************************************************************)
EXTENDS AxiReadManager

CONSTANTS
  HostWrites,  \* the registers the host writes
  Requests,    \* values of the command registers
  ReuseCfgs,   \* values of REUSE_CFG
  CtrlValues,  \* values of CTRL
  WindowValues,\* values of the scratch window registers
  StickyKept   \* the sticky status bits this instance keeps

VARIABLES
  wr_pend,     \* aw_pend and w_pend both hold
  b_pend,      \* the B response is on offer
  ctrl,        \* CTRL: start, srst (one-shot), unsafe, nogen
  win,         \* SCRATCH_BASE and SCRATCH_LIMIT
  win_locked,
  cmd_r,       \* the command registers
  reuse_r,     \* REUSE_CFG
  req_valid,   \* o_req_valid
  reuse_req,   \* o_reuse_req
  sticky,      \* the sticky half of STATUS
  reg_cnt      \* cnt_req_drop, cnt_illegal

regvars == <<wr_pend, b_pend, ctrl, win, win_locked, cmd_r, reuse_r,
             req_valid, reuse_req, sticky, reg_cnt>>

WritableRegs == {"CTRL", "STATUS_CLR", "SCRATCH", "WINDOW_LOCK", "CMD",
                 "CMD_GO", "REUSE_CFG", "REUSE_GO", "READ_ONLY"}
StickyBits == {"REQ_DROP", "EVT_DROP", "WIN_REF", "BND_REF", "ALN_REF",
               "TAG_CONF", "AXI_ERR", "PAY_MM", "STALE", "UNSAFE",
               "REUSE_REF", "LC_ERR"}

Ctrl == [start : BOOLEAN, srst : BOOLEAN, unsafe : BOOLEAN, nogen : BOOLEAN]
Request == [is_read : BOOLEAN, ev : LcEvents, use_desc : BOOLEAN,
            desc : Descriptor, addr : Addrs, len : BurstLens,
            sigchk : BOOLEAN]
ReuseCfg == [slot : Slots, phys : Frames, tenant : Tenants]

(* What the cleared registers spell: a raw ACQUIRE of slot 0. *)
ZeroRequest == [is_read |-> FALSE, ev |-> "ACQUIRE", use_desc |-> FALSE,
                desc |-> ZeroDesc, addr |-> 0, len |-> 0, sigchk |-> FALSE]
ZeroReuseCfg == [slot |-> ZeroDesc.lifecycle_slot, phys |-> FrameZero,
                 tenant |-> TenantZero]

ASSUME RegsAssumption ==
  /\ HostWrites \subseteq WritableRegs
  /\ Requests \subseteq Request /\ Requests # {}
  /\ ReuseCfgs \subseteq ReuseCfg /\ ReuseCfgs # {}
  /\ CtrlValues \subseteq Ctrl
  /\ WindowValues \subseteq Window /\ WindowValues # {}
  /\ StickyKept \subseteq StickyBits
---------------------------------------------------------------------------
(* Address and data are captured while no response is on offer, the write   *)
(* commits one edge later, and the next capture waits for B to be taken.    *)
WrCommit == wr_pend /\ ~b_pend

HandshakePosted ==   \* mutant: writes follow each other, unanswered
  wr_pend' \in BOOLEAN /\ b_pend' = FALSE

Handshake ==
  \/ /\ WrCommit
     /\ wr_pend' = FALSE /\ b_pend' = TRUE
  \/ /\ ~wr_pend /\ ~b_pend
     /\ wr_pend' \in BOOLEAN /\ UNCHANGED b_pend
  \/ /\ b_pend
     /\ b_pend' \in BOOLEAN /\ UNCHANGED wr_pend

(* What a committed write to register w does to each register. *)
Written(w) ==
  /\ IF w = "CTRL" THEN ctrl' \in CtrlValues
                   ELSE ctrl' = [ctrl EXCEPT !.srst = FALSE]
  /\ IF w = "SCRATCH" /\ ~win_locked THEN win' \in WindowValues
                                     ELSE UNCHANGED win
  /\ win_locked' = (win_locked \/ w = "WINDOW_LOCK")
  /\ IF w = "CMD" THEN cmd_r' \in Requests ELSE UNCHANGED cmd_r
  /\ IF w = "REUSE_CFG" THEN reuse_r' \in ReuseCfgs ELSE UNCHANGED reuse_r

(* A full request FIFO drops the command and says so. *)
Dropped(w, req_ready) == w = "CMD_GO" /\ ~req_ready

(* The pulses last one edge. The sticky bits the core raises are assigned   *)
(* after the clear, so an event coinciding with its own clear stays set.    *)
Pulses(w, req_ready, raised, cleared) ==
  /\ req_valid' = (w = "CMD_GO" /\ req_ready)
  /\ reuse_req' = (w = "REUSE_GO")
  /\ sticky' = StickyKept \cap
       ((IF w = "STATUS_CLR" THEN sticky \ cleared ELSE sticky)
          \cup (IF Dropped(w, req_ready) THEN {"REQ_DROP"} ELSE {})
          \cup raised)
  /\ reg_cnt' = [req_drop |-> Tick(reg_cnt.req_drop, Dropped(w, req_ready)),
                 illegal  |-> Tick(reg_cnt.illegal, w = "READ_ONLY")]

RegsClock(req_ready, raised) ==
  /\ Handshake
  /\ \E w \in IF WrCommit THEN HostWrites ELSE {"NONE"} :
       /\ Written(w)
       /\ \E cleared \in IF w = "STATUS_CLR" THEN SUBSET StickyKept ELSE {{}} :
            Pulses(w, req_ready, raised, cleared)

RegsInit ==
  /\ wr_pend = FALSE /\ b_pend = FALSE
  /\ ctrl = [start |-> FALSE, srst |-> FALSE, unsafe |-> FALSE,
             nogen |-> FALSE]
  /\ win = [base |-> 0, limit |-> 0]
  /\ win_locked = FALSE
  /\ cmd_r = ZeroRequest
  /\ reuse_r = ZeroReuseCfg
  /\ req_valid = FALSE /\ reuse_req = FALSE
  /\ sticky = {}
  /\ reg_cnt = [req_drop |-> 0, illegal |-> 0]

RegsTypeOK ==
  /\ wr_pend \in BOOLEAN /\ b_pend \in BOOLEAN
  /\ ctrl \in Ctrl
  /\ win \in WindowValues \cup {[base |-> 0, limit |-> 0]}
  /\ win_locked \in BOOLEAN
  /\ cmd_r \in Requests \cup {ZeroRequest}
  /\ reuse_r \in ReuseCfgs \cup {ZeroReuseCfg}
  /\ req_valid \in BOOLEAN /\ reuse_req \in BOOLEAN
  /\ sticky \subseteq StickyKept
  /\ reg_cnt \in [req_drop : Count, illegal : Count]
===========================================================================
