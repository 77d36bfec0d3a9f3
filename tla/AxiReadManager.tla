-------------------------- MODULE AxiReadManager --------------------------
(***************************************************************************)
(* The read-only AXI4 manager (rtl/v1/axi_read_manager.sv): four gates in  *)
(* front of a three-state issue machine, a shadow of the tag tracker's busy*)
(* vector, and the observable events.  One step is one rising clock edge.  *)
(*                                                                         *)
(* Addresses keep their arithmetic at a reduced scale (BeatBytes bytes per *)
(* beat, PageBytes per 4 KiB page, MaxWindow for the synthesis-time window *)
(* cap).  A payload is only what its comparison with the expected          *)
(* signature tells: a beat matches or it does not.  Copies that exist only *)
(* to be read back (last_rresp, last_araddr) are left out.                 *)
(***************************************************************************)
EXTENDS LifecyclePkg

CONSTANTS BeatBytes, PageBytes, MaxWindow,
          Addrs,    \* request addresses
          BurstLens \* ARLEN, beats - 1

VARIABLES
  state,     \* "IDLE", "DISP", "AR"
  arvalid,   \* arvalid_q
  issue,     \* issue_desc, issue_addr, issue_len, issue_sigchk
  busy_sh,   \* tag_busy_sh, the shadow of the tracker's busy vector
  seen_sh,   \* tag_seen_sh, a beat has arrived for the tag
  desc_sh,   \* tag_desc_sh
  chk_sh,    \* tag_sigchk
  pulse,     \* the o_p_* pulse raised for the R channel and for a refusal
  evt_a,     \* o_evt_a_*: DISPATCH and AXI_ACCEPT
  evt_r,     \* o_evt_r_*: AXI_FIRST_DATA and AXI_COMPLETE
  rdm_cnt    \* the transaction counters

rdmvars == <<state, arvalid, issue, busy_sh, seen_sh, desc_sh, chk_sh,
             pulse, evt_a, evt_r, rdm_cnt>>

ASSUME RdmAssumption ==
  /\ BeatBytes \in Nat \ {0} /\ PageBytes \in Nat \ {0} /\ MaxWindow \in Nat
  /\ Addrs \subseteq Nat /\ 0 \in Addrs
  /\ BurstLens \subseteq Nat /\ 0 \in BurstLens

ReadReq == [desc : Descriptor, addr : Addrs, len : BurstLens, sigchk : BOOLEAN]
Refusals == {"window", "boundary", "align", "tag"}
Window == [base : Nat, limit : Nat]

\* One R beat: its tag, RLAST, RRESP # OKAY, and whether its data match.
RBeat == [valid : BOOLEAN, id : Tags, last : BOOLEAN, err : BOOLEAN,
          match : BOOLEAN]
---------------------------------------------------------------------------
BurstBytes(len) == (len + 1) * BeatBytes

(* Gate 1, the scratch window. base = limit = 0 out of reset denies all. *)
WindowProgrammed(win) ==
  win.limit > win.base /\ win.limit - win.base < MaxWindow
InWindowByStart(win, req) ==   \* mutant: only the first byte is checked
  WindowProgrammed(win) /\ req.addr >= win.base /\ req.addr < win.limit
InWindow(win, req) ==
  /\ WindowProgrammed(win)
  /\ req.addr >= win.base
  /\ req.addr + BurstBytes(req.len) <= win.limit

(* Gates 2 and 3, the 4 KiB boundary and the natural alignment. *)
InPage(req) == (req.addr % PageBytes) + BurstBytes(req.len) <= PageBytes
Aligned(req) == req.addr % BeatBytes = 0

(* Gate 4, the tag is not outstanding: judged on the shadow. *)
TagFree(req) == ~busy_sh[req.desc.transaction_tag]

(* The first failing gate names the refusal, so one request counts once. *)
Refusal(win, req) ==
  IF ~InWindow(win, req) THEN {"window"}
  ELSE IF ~InPage(req) THEN {"boundary"}
  ELSE IF ~Aligned(req) THEN {"align"}
  ELSE IF ~TagFree(req) THEN {"tag"}
  ELSE {}

(* A bad request is consumed at once; a good one waits for the tracker. *)
ReqReady(win, req, accept_ready) ==
  state = "IDLE" /\ (Refusal(win, req) # {} \/ accept_ready)

ArHs(arready) == arvalid /\ arready
RFirstEveryBeat(r) == r.valid   \* mutant
RFirst(r) == r.valid /\ ~seen_sh[r.id]
RLastAnyBeat(r) == r.valid   \* mutant
RLast(r) == r.valid /\ r.last
Mismatch(r) == RFirst(r) /\ chk_sh[r.id] /\ ~r.match

RdmIdleIgnoresAr == \A t \in Tags : ~busy_sh[t]   \* mutant
RdmIdle == state = "IDLE" /\ \A t \in Tags : ~busy_sh[t]
---------------------------------------------------------------------------
(* Mutant: the address is withdrawn after one cycle, accepted or not. *)
IssueMachineDropsAr(valid, req, win, accept_ready, arready) ==
  LET fire == valid /\ ReqReady(win, req, accept_ready)
                    /\ Refusal(win, req) = {}
  IN  \/ /\ state = "IDLE"
         /\ state' = IF fire THEN "DISP" ELSE "IDLE"
         /\ issue' = IF fire THEN req ELSE issue
         /\ UNCHANGED arvalid
      \/ state = "DISP" /\ state' = "AR" /\ arvalid' = TRUE /\ UNCHANGED issue
      \/ state = "AR" /\ state' = "IDLE" /\ arvalid' = FALSE /\ UNCHANGED issue

(* The issue machine: one disjunct per state. DISPATCH is emitted one cycle *)
(* before ARVALID rises, and AR is held until it is accepted.               *)
IssueMachine(valid, req, win, accept_ready, arready) ==
  LET fire == valid /\ ReqReady(win, req, accept_ready)
  IN  \/ /\ state = "IDLE"
         /\ IF fire /\ Refusal(win, req) = {}
            THEN state' = "DISP" /\ issue' = req
            ELSE UNCHANGED <<state, issue>>
         /\ UNCHANGED arvalid
      \/ /\ state = "DISP"
         /\ state' = "AR" /\ arvalid' = TRUE
         /\ UNCHANGED issue
      \/ /\ state = "AR"
         /\ IF arready THEN state' = "IDLE" /\ arvalid' = FALSE
                       ELSE UNCHANGED <<state, arvalid>>
         /\ UNCHANGED issue

(* Mutants: a tag that is free from its first beat on, and one that is     *)
(* never armed again for the first beat of its next burst.                  *)
ShadowFreesEarly(arready, r) ==
  LET tag == issue.desc.transaction_tag
      set(t) == ArHs(arready) /\ t = tag
  IN  /\ busy_sh' = [t \in Tags |-> set(t) \/ (busy_sh[t] /\ ~(r.valid /\ t = r.id))]
      /\ seen_sh' = [t \in Tags |-> ~set(t) /\
                                    (seen_sh[t] \/ (r.valid /\ t = r.id))]
      /\ desc_sh' = [t \in Tags |-> IF set(t) THEN issue.desc ELSE desc_sh[t]]
      /\ chk_sh' = [t \in Tags |-> IF set(t) THEN issue.sigchk ELSE chk_sh[t]]

ShadowStaysSeen(arready, r) ==
  LET tag == issue.desc.transaction_tag
      set(t) == ArHs(arready) /\ t = tag
  IN  /\ busy_sh' = [t \in Tags |-> \/ set(t)
                                    \/ busy_sh[t] /\ ~(RLast(r) /\ t = r.id)]
      /\ seen_sh' = [t \in Tags |-> seen_sh[t] \/ (r.valid /\ t = r.id)]
      /\ desc_sh' = [t \in Tags |-> IF set(t) THEN issue.desc ELSE desc_sh[t]]
      /\ chk_sh' = [t \in Tags |-> IF set(t) THEN issue.sigchk ELSE chk_sh[t]]

(* Per-tag shadow: the completion's clear is written first, so the accept   *)
(* of the same tag would win.                                               *)
Shadow(arready, r) ==
  LET tag == issue.desc.transaction_tag
      set(t) == ArHs(arready) /\ t = tag
  IN  /\ busy_sh' = [t \in Tags |-> \/ set(t)
                                    \/ busy_sh[t] /\ ~(RLast(r) /\ t = r.id)]
      /\ seen_sh' = [t \in Tags |-> ~set(t) /\
                                    (seen_sh[t] \/ (r.valid /\ t = r.id))]
      /\ IF ArHs(arready)
         THEN /\ desc_sh' = [desc_sh EXCEPT ![tag] = issue.desc]
              /\ chk_sh' = [chk_sh EXCEPT ![tag] = issue.sigchk]
         ELSE UNCHANGED <<desc_sh, chk_sh>>

(* The registered event slots: DISPATCH or ACCEPT on one, the first and the *)
(* last beat of a burst on the other. A slot that is not valid keeps its    *)
(* payload (the code overwrites it, and nothing reads it).                  *)
Events(arready, r) ==
  LET isA == state = "DISP" \/ ArHs(arready)
      isR == RFirst(r) \/ RLast(r)
  IN  /\ evt_a' = IF isA
                  THEN [valid |-> TRUE,
                        code |-> IF state = "DISP" THEN "DISPATCH"
                                                   ELSE "AXI_ACCEPT",
                        desc |-> issue.desc]
                  ELSE [evt_a EXCEPT !.valid = FALSE]
      /\ evt_r' = IF isR
                  THEN [valid |-> TRUE, first |-> RFirst(r),
                        last |-> RLast(r), desc |-> desc_sh[r.id]]
                  ELSE [evt_r EXCEPT !.valid = FALSE]

Observe(valid, req, win, accept_ready, arready, r) ==
  LET refused == IF valid /\ ReqReady(win, req, accept_ready)
                 THEN Refusal(win, req) ELSE {}
  IN  /\ pulse' = refused \cup (IF r.valid /\ r.err THEN {"axi_err"} ELSE {})
                          \cup (IF Mismatch(r) THEN {"payload"} ELSE {})
      /\ rdm_cnt' = [dispatch   |-> Tick(rdm_cnt.dispatch, state = "DISP"),
                     accept     |-> Tick(rdm_cnt.accept, state = "AR" /\ arready),
                     first_data |-> Tick(rdm_cnt.first_data, RFirst(r)),
                     complete   |-> Tick(rdm_cnt.complete, RLast(r))]

RdmClock(valid, req, win, accept_ready, arready, r) ==
  /\ IssueMachine(valid, req, win, accept_ready, arready)
  /\ Shadow(arready, r)
  /\ Events(arready, r)
  /\ Observe(valid, req, win, accept_ready, arready, r)

RdmCleared(st, av, is, bs, ss, ds, cs, pu, ea, er, ct) ==
  /\ st = "IDLE" /\ av = FALSE
  /\ is = [desc |-> ZeroDesc, addr |-> 0, len |-> 0, sigchk |-> FALSE]
  /\ bs = [t \in Tags |-> FALSE] /\ ss = [t \in Tags |-> FALSE]
  /\ ds = [t \in Tags |-> ZeroDesc] /\ cs = [t \in Tags |-> FALSE]
  /\ pu = {}
  /\ ea = [valid |-> FALSE, code |-> "DISPATCH", desc |-> ZeroDesc]
  /\ er = [valid |-> FALSE, first |-> FALSE, last |-> FALSE,
           desc |-> ZeroDesc]
  /\ ct = [dispatch |-> 0, accept |-> 0, first_data |-> 0, complete |-> 0]

RdmInit == RdmCleared(state, arvalid, issue, busy_sh, seen_sh, desc_sh,
                      chk_sh, pulse, evt_a, evt_r, rdm_cnt)
RdmReset == RdmCleared(state', arvalid', issue', busy_sh', seen_sh', desc_sh',
                       chk_sh', pulse', evt_a', evt_r', rdm_cnt')

RdmTypeOK ==
  /\ state \in {"IDLE", "DISP", "AR"}
  /\ arvalid \in BOOLEAN
  /\ issue \in ReadReq
  /\ busy_sh \in [Tags -> BOOLEAN] /\ seen_sh \in [Tags -> BOOLEAN]
  /\ desc_sh \in [Tags -> Descriptor] /\ chk_sh \in [Tags -> BOOLEAN]
  /\ pulse \subseteq (Refusals \cup {"axi_err", "payload"})
  /\ evt_a \in [valid : BOOLEAN, code : {"DISPATCH", "AXI_ACCEPT"},
                desc : Descriptor]
  /\ evt_r \in [valid : BOOLEAN, first : BOOLEAN, last : BOOLEAN,
                desc : Descriptor]
  /\ rdm_cnt \in [dispatch : Count, accept : Count, first_data : Count,
                  complete : Count]
===========================================================================
