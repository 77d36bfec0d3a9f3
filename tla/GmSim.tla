------------------------------- MODULE GmSim -------------------------------
(***************************************************************************)
(* The golden model's simulation loop (model/gm/sim.py) under one of its   *)
(* admission policies (model/gm/policies.py).  A cycle is: completions,    *)
(* cancellation of stale speculation, replenishment (phase "settle");      *)
(* arrivals and one dispatch ("arrive"); acceptances ("accept").           *)
(***************************************************************************)
EXTENDS GmControlPlane

CONSTANTS Policies, LastArrival

VARIABLES
  phase,     \* where in its cycle the loop stands
  policy,    \* the run's policy
  to_come,   \* the fetches of the trace that have not arrived
  holds,     \* held fetches whose release is to come, with their cycle
  latest     \* the latest deadline or release of the trace so far

vars == <<cycle, dpvars, cpvars, phase, policy, to_come, holds, latest>>

PolicyNames ==
  {"fifo", "edf_only", "credit_only", "tuned_axi_qos", "lifecycle_edf",
   "independent_dual_guard", "independent_memory_safe_guard",
   "separable_conservative_guard", "integrated"}

ASSUME SimAssumption ==
  /\ Policies \subseteq PolicyNames
  /\ Requests \subseteq Request
  /\ LastArrival \in Nat

Init ==
  /\ DpInit /\ CpInit
  /\ phase = "settle"
  /\ policy \in Policies
  /\ to_come = Requests
  /\ holds = {}
  /\ latest = 0
---------------------------------------------------------------------------
(* measurement_horizon: one declared worst case after the latest deadline.  *)
WorstTail ==
  Max({LDownMax(MaxOutstanding, Beats(q.bytes)) : q \in Requests})

LastCycle == latest + WorstTail

Svc(d) == Beats(d.bytes) + FixedOverhead

(* The service ahead of a request: what is due no later, and what is        *)
(* dispatched.                                                              *)
Ahead(q) ==
  MapThenSumSet(Svc, {d \in ready_m : d.slo <= Deadline(q)})
    + MapThenSumSet(Svc, ToSet(dispatch_q))

(* Cycles until some frame is legally reusable; none when nothing drains.   *)
Drains == free_frames # <<>> \/ ReclaimIndices # {} \/ DrainIndices # {}
Drain ==
  IF free_frames # <<>> \/ ReclaimIndices # {} THEN 0
  ELSE IndexReady(DrainCandidate) - cycle

Hit(q) == Lookup(q.page) # NoSlot

MeetsDeadline(q, extra) == cycle + extra + Ahead(q) <= IssueDeadline(q)

Feasible(q) ==
  LET mandatory == q.tclass = "MANDATORY" IN
  CASE policy \in {"fifo", "tuned_axi_qos"} -> TRUE
    [] policy = "edf_only" -> mandatory => MeetsDeadline(q, 0)
    [] policy = "credit_only" -> deficit[q.tenant] >= q.bytes
    [] policy \in {"lifecycle_edf", "independent_memory_safe_guard"} ->
         mandatory => MeetsDeadline(q, 0) /\ (Hit(q) \/ Drains)
    [] policy = "independent_dual_guard" ->
         mandatory =>
           /\ MeetsDeadline(q, 0)
           /\ \/ Hit(q) \/ free_frames # <<>>
              \/ \E s \in ToSet(by_phys) :
                   lifecycle_ram[s].logical_refcount = 0
    [] policy = "separable_conservative_guard" ->
         mandatory => MeetsDeadline(q, CMax) /\ (Hit(q) \/ Drains)
    [] OTHER ->
         IF mandatory
         THEN /\ Hit(q) \/ Drains
              /\ MeetsDeadline(q, IF Hit(q) THEN 0 ELSE Drain)
         ELSE Len(free_desc) > NReserved /\ spec_tokens >= q.bytes
---------------------------------------------------------------------------
SimComplete ==
  /\ phase = "settle"
  /\ Complete
  /\ OnComplete(pending[1].desc)
  /\ UNCHANGED <<phase, policy, to_come, holds, latest>>

SimCancel ==
  /\ phase = "settle" /\ ~Due
  /\ \E d \in NextStale : Cancel(d) /\ OnCancelPreIssue(d)
  /\ UNCHANGED <<phase, policy, to_come, holds, latest>>

SimReplenish ==
  /\ phase = "settle" /\ ~Due /\ NextStale = {}
  /\ Replenish
  /\ phase' = "arrive"
  /\ UNCHANGED <<cpvars, policy, to_come, holds, latest>>

(* A fetch arrives.  A held one is paired with a release in a later cycle,  *)
(* whether it is admitted or not.                                           *)
Arrive(q) ==
  /\ phase = "arrive" /\ cycle <= LastArrival /\ q \in to_come
  /\ to_come' = to_come \ {q}
  /\ holds' = IF q.held THEN holds \cup {<<q, cycle>>} ELSE holds
  /\ latest' = Max({latest, Deadline(q)})
  /\ UNCHANGED <<phase, policy>>

SimAdmit(q) == Arrive(q) /\ Feasible(q) /\ Admit(q)

SimReject(q) ==
  /\ Arrive(q)
  /\ ~Feasible(q) \/ Refused(q)
  /\ UNCHANGED <<cycle, dpvars, cpvars>>

SimRelease ==
  /\ phase = "arrive"
  /\ \E h \in holds : /\ h[2] < cycle
                      /\ ReleaseRef(h[1].page)
                      /\ holds' = holds \ {h}
  /\ latest' = Max({latest, cycle})
  /\ UNCHANGED <<cycle, dpvars, phase, policy, to_come>>

SimDispatch ==
  /\ phase = "arrive"
  /\ phase' = "accept"
  /\ \/ \E d \in Dispatchable : Dispatch(d)
     \/ Dispatchable = {} /\ UNCHANGED <<cycle, dpvars>>
  /\ UNCHANGED <<cpvars, policy, to_come, holds, latest>>

SimAccept ==
  /\ phase = "accept"
  /\ Accept
  /\ OnAxiAccept(dispatch_q[1])
  /\ UNCHANGED <<phase, policy, to_come, holds, latest>>

EndCycle ==
  /\ phase = "accept" /\ ~Acceptable
  /\ cycle < LastCycle \/ cycle < LastArrival
  /\ Tick
  /\ phase' = "settle"
  /\ UNCHANGED <<cpvars, policy, to_come, holds, latest>>

(* The run has covered its horizon. *)
Finished ==
  /\ phase = "accept" /\ ~Acceptable
  /\ cycle >= LastCycle /\ cycle >= LastArrival
  /\ UNCHANGED vars

Next ==
  \/ SimComplete \/ SimCancel \/ SimReplenish \/ SimRelease \/ SimDispatch
  \/ \E q \in Requests : SimAdmit(q) \/ SimReject(q)
  \/ SimAccept \/ EndCycle \/ Finished

Spec == Init /\ [][Next]_vars
---------------------------------------------------------------------------
Live == ready_m \cup ToSet(ready_s) \cup ToSet(dispatch_q)
          \cup {pending[i].desc : i \in DOMAIN pending}
Unissued == ready_m \cup ToSet(ready_s) \cup ToSet(dispatch_q)
Promised == {pending_swap[f] : f \in Frames} \ {NoSlot}

(* Types, and the widths the code gives its structures.                     *)
SimTypeOK ==
  /\ cycle \in 0 .. Max({LastCycle, LastArrival})
  /\ phase \in {"settle", "arrive", "accept"}
  /\ policy \in Policies
  /\ ready_m \subseteq Descriptor
  /\ ready_s \in Seq(Descriptor) /\ dispatch_q \in Seq(Descriptor)
  /\ pending \in Seq(Outstanding)
  /\ Len(pending) <= MaxOutstanding /\ Len(dispatch_q) <= QueueDepth
  /\ lifecycle_ram \in [Slots -> Object \cup {NoObject}]
  /\ ToSet(free_desc) = DescIds \ {d.id : d \in Live}
  /\ escaped = "none"

(* Every object is published or promised, each once, and every other slot   *)
(* is free; a frame has one published object, and one that is promised to a *)
(* successor is on its way out.  An object that is neither is out of        *)
(* event_accounting's sight and its frame has two users                     *)
(* (model/gm/control_plane.py:107-125, 129-143).                            *)
FrameBooks ==
  LET used == {s \in Slots : lifecycle_ram[s] # NoObject} IN
  /\ used = ToSet(by_phys) \cup Promised
  /\ ToSet(by_phys) \cap Promised = {}
  /\ Len(by_phys) = Cardinality(ToSet(by_phys))
  /\ \A f \in Frames :
       /\ Cardinality(Published(f)) = IF f \in ToSet(free_frames) THEN 0 ELSE 1
       /\ pending_swap[f] # NoSlot =>
            /\ lifecycle_ram[pending_swap[f]].phys = f
            /\ \A s \in Published(f) : lifecycle_ram[s].state = "EVICTING"
  /\ ToSet(free_slots) = Slots \ used
  /\ Len(free_slots) = Cardinality(ToSet(free_slots))

(* A descriptor's slot holds the object it was admitted against, from       *)
(* admission to completion, and its handle resolves there; and the counters *)
(* of an object are the descriptors that use it: reservation those not yet  *)
(* accepted, inflight those on the bus (the six-event contract,             *)
(* model/gm/control_plane.py:3-14, 282-309).                                *)
DescriptorsAreCounted ==
  /\ \A d \in Live : Resolves(d) /\ lifecycle_ram[d.slot].birth = d.owner
  /\ \A s \in Slots : lifecycle_ram[s] # NoObject =>
       /\ lifecycle_ram[s].reservation =
            Cardinality({d \in Unissued : d.slot = s})
       /\ lifecycle_ram[s].inflight =
            Cardinality({i \in DOMAIN pending : pending[i].desc.slot = s})

(* event_accounting, the check the loop makes every cycle: the reservations *)
(* and transfers the published and the promised objects count are the ones  *)
(* the events have opened and not closed                                    *)
(* (model/gm/control_plane.py:107-125).                                     *)
EventAccounting ==
  LET seen == ToSet(by_phys) \cup Promised IN
  /\ MapThenSumSet(LAMBDA s : lifecycle_ram[s].reservation, seen)
       = Cardinality(Unissued)
  /\ MapThenSumSet(LAMBDA s : lifecycle_ram[s].inflight, seen) = Len(pending)

(* Credit is checked at dispatch and charged at acceptance, with the rest   *)
(* of the queue in between: a tenant's debt stays below what the queue can  *)
(* hold besides one transfer, and so does the bucket's                      *)
(* (model/gm/data_plane.py:132-138, 146-163).                               *)
DebtIsBounded ==
  LET floor == -(QueueDepth - 1) * MaxBytes IN
  /\ \A t \in Tenants : deficit[t] >= floor
  /\ spec_tokens >= floor

(* By the end of the horizon every admitted transfer has completed or been  *)
(* cancelled, and every promised frame has changed hands                    *)
(* (model/gm/traces_b.py:303-314: "so a transfer accepted at the last       *)
(* deadline can still be observed to completion").                          *)
HorizonDrains ==
  cycle >= LastCycle /\ phase = "accept" /\ ~Acceptable
    => Live = {} /\ Promised = {}
=============================================================================
