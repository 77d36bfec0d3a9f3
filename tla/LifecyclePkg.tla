--------------------------- MODULE LifecyclePkg ---------------------------
(***************************************************************************)
(* The types and predicates every block of the guard shares                *)
(* (rtl/v1/lifecycle_pkg.sv).                                              *)
(*                                                                         *)
(* A lifecycle slot records which physical frame it owns, at which         *)
(* generation and for which tenant, and four counters of the uses that     *)
(* keep the frame from being reused.  Every field has the width of its     *)
(* register: a counter of w bits is a number in 0..Max with Max = 2^w - 1, *)
(* and Succ and Pred wrap at that width.                                   *)
(***************************************************************************)
EXTENDS Naturals

CONSTANTS
  Slots,      \* lifecycle slots (64 in the shipped build)
  Frames,     \* physical frames (64)
  Tags,       \* AXI transaction tags (16)
  Tenants,    \* tenant numbers (16)
  GenMax,     \* 2^GEN_W - 1
  RefMax,     \* 2^REF_W - 1
  RsvMax,     \* 2^RSV_W - 1
  InfMax,     \* 2^INF_W - 1
  FillMax,    \* 2^FILL_W - 1
  FrameZero,  \* the frame number a cleared entry holds
  TenantZero, \* the tenant number a cleared entry holds
  CntMax      \* 2^32 - 1: where the free-running observability counters wrap

(* Widths are positive, and a cleared register holds a legal value. *)
ASSUME PkgAssumption ==
  /\ GenMax \in Nat \ {0}
  /\ RefMax \in Nat \ {0}
  /\ RsvMax \in Nat \ {0}
  /\ InfMax \in Nat \ {0}
  /\ FillMax \in Nat \ {0}
  /\ FrameZero \in Frames
  /\ TenantZero \in Tenants
  /\ CntMax \in Nat
  /\ Slots # {} /\ Tags # {}

(* Register arithmetic: + 1'b1 and - 1'b1 on a field of maximum max. *)
SuccTooWide(x, max) == x + 1    \* mutant: a register one bit too wide
Succ(x, max) == IF x = max THEN 0 ELSE x + 1
Pred(x, max) == IF x = 0 THEN max ELSE x - 1

Count == 0..CntMax
Tick(c, pulse) == IF pulse THEN Succ(c, CntMax) ELSE c
---------------------------------------------------------------------------
LcEvents == {"ACQUIRE", "ADMIT", "ISSUE", "COMPLETE",
             "RELEASE", "CANCEL", "FILL_ST", "FILL_DN"}

Errors == {"NONE", "UNDERFLOW", "OVERFLOW", "STALE_DESC",
           "CROSS_TENANT", "TAG_REUSE", "TAG_UNKNOWN", "CANCEL_AFTER_ACC"}

Entry == [valid        : BOOLEAN,
          phys_idx     : Frames,
          generation   : 0..GenMax,
          refcount     : 0..RefMax,
          reservation  : 0..RsvMax,
          inflight     : 0..InfMax,
          fill_pending : 0..FillMax,
          tenant       : Tenants]

ClearEntry == [valid        |-> FALSE,
               phys_idx     |-> FrameZero,
               generation   |-> 0,
               refcount     |-> 0,
               reservation  |-> 0,
               inflight     |-> 0,
               fill_pending |-> 0,
               tenant       |-> TenantZero]

(* A descriptor never carries a pointer: it names a slot and says which     *)
(* frame and generation it expects to find there.                           *)
Descriptor == [lifecycle_slot      : Slots,
               phys_idx            : Frames,
               expected_generation : 0..GenMax,
               transaction_tag     : Tags,
               tenant              : Tenants]

(* A cleared descriptor register ('0). *)
ZeroDesc == [lifecycle_slot |-> CHOOSE s \in Slots : TRUE,
             phys_idx |-> FrameZero, expected_generation |-> 0,
             transaction_tag |-> CHOOSE t \in Tags : TRUE,
             tenant |-> TenantZero]

LcCmd == [valid : BOOLEAN, ev : LcEvents, desc : Descriptor,
          use_desc : BOOLEAN]

LcRsp == [valid : BOOLEAN, ok : BOOLEAN, err : Errors,
          evictable : BOOLEAN, entry : Entry]

ClearRsp == [valid |-> FALSE, ok |-> FALSE, err |-> "NONE",
             evictable |-> FALSE, entry |-> ClearEntry]
---------------------------------------------------------------------------
(* Mutant: a predicate that forgets the transfers still under way. *)
EvictableNoInflight(e) == /\ e.refcount = 0
                          /\ e.reservation = 0
                          /\ e.fill_pending = 0

(* The safe-reuse predicate. Generation is not part of it: generation       *)
(* validates a descriptor, this decides whether the frame is free.          *)
Evictable(e) == /\ e.refcount = 0
                /\ e.reservation = 0
                /\ e.inflight = 0
                /\ e.fill_pending = 0

Draining(e) == e.refcount = 0 /\ e.inflight # 0

DescValidNoGen(e, d) == e.valid /\ e.phys_idx = d.phys_idx

DescValid(e, d) ==
  DescValidNoGen(e, d) /\ e.generation = d.expected_generation
===========================================================================
