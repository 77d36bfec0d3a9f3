--------------------------- MODULE PageStateLut ---------------------------
(***************************************************************************)
(* The lifecycle table and its reuse interlock (rtl/v1/page_state_lut.sv). *)
(*                                                                         *)
(* One step is one rising clock edge.  In one edge the block may be given a*)
(* lifecycle command, a reuse request, or both, for the same slot or for   *)
(* different ones; it decides both from the table as it was BEFORE the     *)
(* edge, and its outputs are registers that hold the outcome after it.     *)
(***************************************************************************)
EXTENDS LifecyclePkg

CONSTANTS
  LutCommands,  \* the lifecycle commands presented (valid or not)
  LutReuses,    \* the reuse requests presented (valid or not)
  LutModes      \* the settings of the two bypass inputs presented

VARIABLES
  ram,      \* the table
  rsp,      \* o_rsp, the registered answer to the last command
  reuse,    \* o_reuse_grant, o_reuse_refused, o_unsafe_reuse_committed,
            \* o_reuse_new_gen
  stale,    \* o_stale_descriptor
  lut_cnt   \* o_cnt_refused, o_cnt_stale, o_cnt_unsafe_commit

lutvars == <<ram, rsp, reuse, stale, lut_cnt>>

ReuseReq == [valid : BOOLEAN, slot : Slots, phys : Frames, tenant : Tenants]
BypassMode == [unsafe_bypass : BOOLEAN, no_generation_check : BOOLEAN]

ASSUME LutAssumption ==
  /\ LutCommands \subseteq LcCmd
  /\ LutReuses \subseteq ReuseReq
  /\ LutModes \subseteq BypassMode

NoReuse == [grant |-> FALSE, refused |-> FALSE, committed |-> FALSE,
            new_gen |-> 0]
---------------------------------------------------------------------------
(* Mutant: a completion is never checked against an empty inflight. *)
EventErrorNoUnderflow(ev, e) ==
  IF ev = "ISSUE" /\ e.inflight = InfMax THEN "OVERFLOW" ELSE "NONE"

(* The eight events: each names the error that refuses it, "NONE" when it   *)
(* is accepted, and the entry it leaves.                                    *)
EventError(ev, e) ==
  CASE ev = "ACQUIRE"  -> IF e.refcount = RefMax THEN "OVERFLOW" ELSE "NONE"
    [] ev = "RELEASE"  -> IF e.refcount = 0 THEN "UNDERFLOW" ELSE "NONE"
    [] ev = "ADMIT"    -> IF e.reservation = RsvMax THEN "OVERFLOW" ELSE "NONE"
    [] ev = "CANCEL"   -> IF e.reservation = 0 THEN "UNDERFLOW" ELSE "NONE"
    [] ev = "ISSUE"    -> IF e.reservation = 0 THEN "UNDERFLOW"
                          ELSE IF e.inflight = InfMax THEN "OVERFLOW"
                          ELSE "NONE"
    [] ev = "COMPLETE" -> IF e.inflight = 0 THEN "UNDERFLOW" ELSE "NONE"
    [] ev = "FILL_ST"  -> IF e.fill_pending = FillMax THEN "OVERFLOW"
                          ELSE "NONE"
    [] OTHER           -> IF e.fill_pending = 0 THEN "UNDERFLOW" ELSE "NONE"

(* Mutant: ISSUE takes an inflight without giving the reservation back. *)
EventEffectKeepsRsv(ev, e) ==
  CASE ev = "ADMIT"    -> [e EXCEPT !.reservation = Succ(@, RsvMax)]
    [] ev = "ISSUE"    -> [e EXCEPT !.inflight = Succ(@, InfMax)]
    [] ev = "COMPLETE" -> [e EXCEPT !.inflight = Pred(@, InfMax)]
    [] OTHER           -> e

EventEffect(ev, e) ==
  CASE ev = "ACQUIRE"  -> [e EXCEPT !.refcount = Succ(@, RefMax)]
    [] ev = "RELEASE"  -> [e EXCEPT !.refcount = Pred(@, RefMax)]
    [] ev = "ADMIT"    -> [e EXCEPT !.reservation = Succ(@, RsvMax)]
    [] ev = "CANCEL"   -> [e EXCEPT !.reservation = Pred(@, RsvMax)]
    [] ev = "ISSUE"    -> [e EXCEPT !.reservation = Pred(@, RsvMax),
                                    !.inflight = Succ(@, InfMax)]
    [] ev = "COMPLETE" -> [e EXCEPT !.inflight = Pred(@, InfMax)]
    [] ev = "FILL_ST"  -> [e EXCEPT !.fill_pending = Succ(@, FillMax)]
    [] OTHER           -> [e EXCEPT !.fill_pending = Pred(@, FillMax)]

(* A descriptor is validated before anything changes: identity first, then  *)
(* tenant, then the event's own bounds. A raw command skips the first two.  *)
DescOk(e, d, mode) == IF mode.no_generation_check THEN DescValidNoGen(e, d)
                                                  ELSE DescValid(e, d)

CmdError(cmd, mode) ==
  LET e == ram[cmd.desc.lifecycle_slot]
  IN  IF cmd.use_desc /\ ~DescOk(e, cmd.desc, mode) THEN "STALE_DESC"
      ELSE IF cmd.use_desc /\ e.tenant # cmd.desc.tenant THEN "CROSS_TENANT"
      ELSE EventError(cmd.ev, e)

CmdOk(cmd, mode) == cmd.valid /\ CmdError(cmd, mode) = "NONE"

(* What the command port writes: e_next when accepted, else nothing. *)
AfterCmd(cmd, mode) ==
  IF CmdOk(cmd, mode)
  THEN [ram EXCEPT ![cmd.desc.lifecycle_slot] = EventEffect(cmd.ev, @)]
  ELSE ram

(* THE INTERLOCK, decided on the entry as it was before this edge. *)
Grantable(req) == req.valid /\ Evictable(ram[req.slot])
BypassedAlways(req, mode) ==   \* mutant: the bypass pin is tied high
  req.valid /\ ~Evictable(ram[req.slot])
Bypassed(req, mode) ==
  req.valid /\ ~Evictable(ram[req.slot]) /\ mode.unsafe_bypass

NextGenSaturates(s) ==   \* mutant: the generation stops at its maximum
  IF ram[s].generation = GenMax THEN GenMax ELSE ram[s].generation + 1
NextGen(s) == Succ(ram[s].generation, GenMax)

(* Mutant: the counts of the old owner are not cleared. *)
InstalledUncleared(req, e) ==
  [e EXCEPT !.valid = TRUE, !.phys_idx = req.phys, !.tenant = req.tenant,
            !.generation = NextGen(req.slot)]

(* The replacement. A bypassed reuse leaves inflight and fill_pending as    *)
(* the command port left them: the old transfer is still outstanding.       *)
Installed(req, e) ==
  [valid |-> TRUE, phys_idx |-> req.phys, generation |-> NextGen(req.slot),
   refcount |-> 0, reservation |-> 0,
   inflight     |-> IF Grantable(req) THEN 0 ELSE e.inflight,
   fill_pending |-> IF Grantable(req) THEN 0 ELSE e.fill_pending,
   tenant |-> req.tenant]

(* The reuse port's assignments come last, so where both ports write a      *)
(* field of one slot in one edge the reuse wins.                            *)
AfterReuse(table, req, mode) ==
  IF Grantable(req) \/ Bypassed(req, mode)
  THEN [table EXCEPT ![req.slot] = Installed(req, @)]
  ELSE table

Answer(cmd, mode) ==
  LET e == ram[cmd.desc.lifecycle_slot]
      seen == IF CmdOk(cmd, mode) THEN EventEffect(cmd.ev, e) ELSE e
  IN  IF cmd.valid
      THEN [valid |-> TRUE, ok |-> CmdOk(cmd, mode),
            err |-> CmdError(cmd, mode),
            evictable |-> Evictable(seen), entry |-> seen]
      ELSE [rsp EXCEPT !.valid = FALSE]
---------------------------------------------------------------------------
LutClock(cmd, req, mode) ==
  LET granted == Grantable(req) \/ Bypassed(req, mode)
      refused == req.valid /\ ~granted
      isStale == cmd.valid /\ CmdError(cmd, mode) = "STALE_DESC"
  IN  /\ ram' = AfterReuse(AfterCmd(cmd, mode), req, mode)
      /\ rsp' = Answer(cmd, mode)
      /\ reuse' = [grant |-> granted, refused |-> refused,
                   committed |-> Bypassed(req, mode),
                   new_gen |-> IF granted THEN NextGen(req.slot)
                                          ELSE reuse.new_gen]
      /\ stale' = isStale
      /\ lut_cnt' = [refused |-> Tick(lut_cnt.refused, refused),
                     stale   |-> Tick(lut_cnt.stale, isStale),
                     unsafe  |-> Tick(lut_cnt.unsafe, Bypassed(req, mode))]

LutCleared(t, r, u, s, c) ==
  /\ t = [x \in Slots |-> ClearEntry]
  /\ r = ClearRsp
  /\ u = NoReuse
  /\ s = FALSE
  /\ c = [refused |-> 0, stale |-> 0, unsafe |-> 0]

LutInit == LutCleared(ram, rsp, reuse, stale, lut_cnt)
LutReset == LutCleared(ram', rsp', reuse', stale', lut_cnt')

LutNext ==
  \/ LutReset
  \/ \E cmd \in LutCommands, req \in LutReuses, mode \in LutModes :
        LutClock(cmd, req, mode)

LutSpec == LutInit /\ [][LutNext]_lutvars
---------------------------------------------------------------------------
LutTypeOK ==
  /\ ram \in [Slots -> Entry]
  /\ rsp \in LcRsp
  /\ reuse \in [grant : BOOLEAN, refused : BOOLEAN, committed : BOOLEAN,
                new_gen : 0..GenMax]
  /\ stale \in BOOLEAN
  /\ lut_cnt \in [refused : Count, stale : Count, unsafe : Count]

(* The slot's owner: everything a reuse replaces that is not a use count. *)
Owner(e) == <<e.valid, e.phys_idx, e.generation, e.tenant>>

NewOwner(s) == ram'[s].valid /\ Owner(ram'[s]) # Owner(ram[s])

(* A slot changes hands only by a grant that advances its generation by one *)
(* and reports it, the newcomer inherits no reference and no reservation,   *)
(* and unless the edge is flagged as a committed bypass the frame was unused*)
(* before and is unused after, whatever command hit it in the same cycle    *)
(* (the interlock, page_state_lut.sv:146-213 and its assertion at 219).     *)
HandOverIsClean ==
  [][\A s \in Slots : NewOwner(s) =>
       /\ reuse'.grant
       /\ ram'[s].generation = Succ(ram[s].generation, GenMax)
       /\ reuse'.new_gen = ram'[s].generation
       /\ ram'[s].refcount = 0 /\ ram'[s].reservation = 0
       /\ reuse'.committed \/ (Evictable(ram[s]) /\ Evictable(ram'[s]))
    ]_lutvars

(* While a slot keeps its owner no edge moves any of its four use counts by *)
(* more than one: an event at a counter's limit is refused, never wrapped   *)
(* (the overflow and underflow checks, page_state_lut.sv:90-133).           *)
OneApart(x, y) == x = y \/ x = y + 1 \/ y = x + 1

UsesNeverWrap ==
  [][\A s \in Slots : Owner(ram'[s]) = Owner(ram[s]) /\ ram'[s] # ClearEntry =>
       /\ OneApart(ram[s].refcount, ram'[s].refcount)
       /\ OneApart(ram[s].reservation, ram'[s].reservation)
       /\ OneApart(ram[s].inflight, ram'[s].inflight)
       /\ OneApart(ram[s].fill_pending, ram'[s].fill_pending)
    ]_lutvars

(* What the interlock promises of a table no edge of which is bypassed: the *)
(* lives and uses of SlotLifecycle, a use being any of the four counts      *)
(* (is_evictable, lifecycle_pkg.sv:114-117).                                *)
Uses(e) == e.refcount + e.reservation + e.inflight + e.fill_pending

Life == INSTANCE SlotLifecycle WITH
          Slot    <- Slots,
          LifeMax <- GenMax,
          life    <- [s \in Slots |-> ram[s].generation],
          uses    <- [s \in Slots |-> Uses(ram[s])]

LifeSpec == Life!SLSpec

(* What the header of page_state_lut.sv says of every command: the entry is *)
(* read, checked and written in the same cycle. A command answered ok would *)
(* then be found in the table with its answer.                              *)
AckedUpdateIsInTable ==
  rsp.valid /\ rsp.ok => \E s \in Slots : ram[s] = rsp.entry
===========================================================================
