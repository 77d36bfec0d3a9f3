------------------------------ MODULE GmTypes ------------------------------
(***************************************************************************)
(* The golden model's parameters, objects and descriptors, and the declared*)
(* downstream envelope (model/gm/types.py).  Time is the simulator's cycle *)
(* number; a size is a number of bytes and becomes beats on the bus.       *)
(***************************************************************************)
EXTENDS Integers, Sequences, FiniteSets

CONSTANTS
  Pages,             \* (tenant, object type, key): what a frame can hold
  Tenants,
  NFrames, NDesc, NReserved, NMeta, GenMod,
  QueueDepth,        \* dispatch_queue_depth
  MaxOutstanding,    \* max_axi_outstanding
  BytesPerCycle, AcceptOverhead, FixedOverhead,
  Quantum, ReplenishPeriod, MaxDeficit,
  SpecBurst, SpecRefill, SpecMaxWait,
  CMax, BFixed, Refresh, Window, Bypass,   \* the envelope
  MaxBytes           \* the largest transfer of a trace

Frames  == 0 .. NFrames - 1
DescIds == 0 .. NDesc - 1
Slots   == 0 .. NMeta - 1
Classes == {"MANDATORY", "SPECULATIVE"}
ObjStates == {"ALLOCATED_EMPTY", "FILL_IN_FLIGHT", "RESIDENT", "EVICTING"}
---------------------------------------------------------------------------
(* -(-n // d) of the source. *)
CeilDiv(n, d) == (n + d - 1) \div d

Beats(n) == CeilDiv(n, BytesPerCycle)

(* Worst-case AXI_ACCEPT -> COMPLETE latency of a transfer of c beats when n*)
(* transactions may be outstanding.                                         *)
LDownWork(n, c) == n * BFixed + (n - 1) * CMax + c + Bypass * CMax

(* Mutant: the transfers ahead, and the refresh, are not charged. *)
LDownMaxAlone(n, c) == LDownWork(1, c)

LDownMax(n, c) ==
  LDownWork(n, c) + Refresh * CeilDiv(LDownWork(n, c), Window - Refresh)

(* Sizes are what Params and the generator give; l_down_max refuses an      *)
(* envelope whose refresh fills the window or that a transfer exceeds.      *)
ASSUME GmAssumption ==
  /\ NFrames \in Nat \ {0} /\ NDesc \in Nat \ {0} /\ NReserved \in Nat
  /\ NMeta \in Nat /\ NMeta >= 2 * NFrames /\ GenMod \in Nat \ {0}
  /\ QueueDepth \in Nat \ {0} /\ MaxOutstanding \in Nat \ {0}
  /\ BytesPerCycle \in Nat \ {0} /\ MaxBytes \in Nat \ {0}
  /\ AcceptOverhead \in Nat /\ FixedOverhead \in Nat
  /\ Quantum \in Nat /\ ReplenishPeriod \in Nat \ {0} /\ MaxDeficit \in Nat
  /\ SpecBurst \in Nat /\ SpecRefill \in Nat /\ SpecMaxWait \in Nat
  /\ CMax \in Nat \ {0} /\ BFixed \in Nat /\ Bypass \in Nat
  /\ Window \in Nat /\ Refresh \in Nat /\ Refresh < Window
  /\ FixedOverhead <= BFixed
  /\ \A b \in 1 .. MaxBytes : Beats(b) \in 1 .. CMax
---------------------------------------------------------------------------
(* A managed object.  "birth" stands for the Python object's identity.      *)
Object == [page : Pages, phys : Frames, generation : 0 .. GenMod - 1,
           logical_refcount : Nat, reservation : Nat, inflight : Nat,
           fill_pending : Nat, state : ObjStates, birth : Nat]

Draining(o) == o.logical_refcount = 0 /\ o.inflight > 0

Evictable(o) ==
  /\ o.logical_refcount = 0 /\ o.inflight = 0
  /\ o.reservation = 0 /\ o.fill_pending = 0

(* A descriptor: a bounded handle (slot, phys, generation), never a pointer;*)
(* "owner" is its debug-only obj_ref.                                       *)
Descriptor ==
  [id : DescIds, tenant : Tenants, tclass : Classes, bytes : 1 .. MaxBytes,
   phys : Frames, slot : Slots, generation : 0 .. GenMod - 1, owner : Nat,
   slo : Int, issue : Int, arrival : Nat, earliest : Nat, dispatch : Int]
=============================================================================
