-------------------------- MODULE DisciplinedHost --------------------------
(***************************************************************************)
(* The guard driven by software that reads a page only under a recorded    *)
(* use.  For every read the host queues ADMIT, then ISSUE, both resolved   *)
(* through the read's descriptor, and queues the READ only once the table  *)
(* has accepted the ISSUE; the guard itself queues the COMPLETE.  Reads of *)
(* different tags interleave freely, a descriptor may be out of date when  *)
(* it is formed, and an evictor asks for the frame at any time.            *)
(*                                                                         *)
(* Host software is not part of the repository's RTL: this is the weakest  *)
(* discipline found under which the guard keeps its promise                *)
(* (vivado/stages/06f_hil_verify.tcl drives the same registers without it).*)
(***************************************************************************)
EXTENDS GuardTop

VARIABLES
  phase,     \* where the host is with its read of each tag: "idle",
             \* "admitting", "issuing", "issued" or "reading"
  plan       \* the descriptor of that read

hostvars == <<topvars, phase, plan>>

Bookkeep(ev, d) == ~cmd_r.is_read /\ cmd_r.ev = ev /\ cmd_r.use_desc
                     /\ cmd_r.desc = d

(* The next phase of a read, once its next request is queued. *)
Queued == [idle |-> "admitting", admitting |-> "issuing", issued |-> "reading"]

(* The GO that may come next for tag t. *)
MayGo(t) ==
  LET d == cmd_r.desc
  IN  \/ phase[t] = "idle" /\ Bookkeep("ADMIT", d)
      \/ phase[t] = "admitting" /\ Bookkeep("ISSUE", plan[t])
      \/ phase[t] = "issued" /\ cmd_r.is_read /\ d = plan[t]
           /\ WindowProgrammed(win)

(* The host queues a request for tag t on this edge. *)
Goes(t) == req_valid' /\ cmd_r.desc.transaction_tag = t

(* The table answers the ISSUE at the head of the queue. *)
Answered(t) == /\ HeadIsLc /\ ReqPop
               /\ Head(fifo).ev = "ISSUE"
               /\ Head(fifo).desc.transaction_tag = t

(* What the host knows after an edge: its accepted GO, the answer to an     *)
(* ISSUE, the last beat of a read.                                          *)
Follow(r) ==
  /\ phase' = [t \in Tags |->
       IF Answered(t)
       THEN IF CmdOk(LutCmd, LutMode) THEN "issued" ELSE "idle"
       ELSE IF RLast(r) /\ r.id = t THEN "idle"
       ELSE IF Goes(t) THEN Queued[phase[t]]
       ELSE phase[t]]
  /\ plan' = [t \in Tags |-> IF Goes(t) /\ phase[t] = "idle"
                             THEN cmd_r.desc ELSE plan[t]]

HostEdge(arready, r) ==
  /\ TopEdge(arready, r)
  /\ \A t \in Tags : Goes(t) => MayGo(t)
  /\ Follow(r)

HostInit ==
  /\ TopInit
  /\ phase = [t \in Tags |-> "idle"]
  /\ plan = [t \in Tags |-> ZeroDesc]

(* The beats' data and response codes play no part here.                    *)
CleanBeats == {b \in Beats : b.valid => b.match /\ ~b.err}
HostNext == \E arready \in BOOLEAN, r \in CleanBeats : HostEdge(arready, r)

HostSpec == HostInit /\ [][HostNext]_hostvars
---------------------------------------------------------------------------
(* The slots that the reads recorded in the table belong to, the completion *)
(* on its way from the tracker to the table included.                       *)
Recorded(s) == {t \in Tags : phase[t] \in {"issued", "reading"}
                               /\ plan[t].lifecycle_slot = s}
Returning(s) == IF lookup.valid /\ lookup.desc.lifecycle_slot = s THEN 1 ELSE 0

(* Every read that the host may still send or that is under way is counted  *)
(* in its slot's inflight, and nothing else is: through queueing, the one-  *)
(* edge-late completion and commands coinciding with it, the count is exact *)
(* (page_state_lut.sv:90-134, lifecycle_guard_top.sv:415-456).              *)
ReadsAreCovered ==
  \A s \in Slots : ram[s].inflight = Cardinality(Recorded(s)) + Returning(s)

(* So the table accepts every completion: the generation it was read under  *)
(* is still there (page_state_lut.sv:67-104).                               *)
CompletionResolves == lookup.valid => CmdOk(LutCmd, LutMode)

(* When the host has no read under way the page is free again: no refused,  *)
(* lost or reordered command leaves a reservation or an inflight behind     *)
(* (page_state_lut.sv:90-213).                                              *)
NothingLeaks ==
  (\A t \in Tags : phase[t] = "idle") /\ ~lookup.valid =>
     \A s \in Slots : Evictable(ram[s])
===========================================================================
