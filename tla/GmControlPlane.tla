--------------------------- MODULE GmControlPlane ---------------------------
(***************************************************************************)
(* The golden model's control plane (model/gm/control_plane.py): the only  *)
(* mutator of pages, frames and descriptors.  A frame whose page is unused *)
(* is reclaimed; one whose page has transfers in flight and no reference is*)
(* promised to a successor and changes hands when the last transfer ends.  *)
(* An object is named by the lifecycle slot that holds it.                 *)
(***************************************************************************)
EXTENDS GmDataPlane

CONSTANTS NoObject, Requests

VARIABLES
  lifecycle_ram,  \* slot -> object
  free_slots, free_frames, free_desc,
  objects,        \* page -> slot: the page table
  by_phys,        \* published objects, in the dictionary's order
  pending_swap,   \* frame -> slot of the successor it is promised to
  births,         \* objects created so far
  escaped         \* a SafetyViolation the event raised out of the run

cpvars == <<lifecycle_ram, free_slots, free_frames, free_desc, objects,
            by_phys, pending_swap, births, escaped>>

NoSlot == -1

(* A fetch of a trace: its deadline is its arrival, the declared downstream *)
(* worst case and some headroom.                                            *)
Request == [page : Pages, tenant : Tenants, tclass : Classes,
            bytes : 1 .. MaxBytes, headroom : Nat, held : BOOLEAN]

(* An empty entry holds no object. *)
ASSUME NoObjectAssumption == NoObject \notin Object

CpInit ==
  /\ lifecycle_ram = [s \in Slots |-> NoObject]
  /\ free_slots = [i \in 1 .. NMeta |-> i - 1]
  /\ free_frames = [i \in 1 .. NFrames |-> i - 1]
  /\ free_desc = [i \in 1 .. NDesc |-> i - 1]
  /\ objects = [p \in Pages |-> NoSlot]
  /\ by_phys = <<>>
  /\ pending_swap = [f \in Frames |-> NoSlot]
  /\ births = 0
  /\ escaped = "none"
---------------------------------------------------------------------------
Lookup(p) == objects[p]

Published(f) == {s \in ToSet(by_phys) : lifecycle_ram[s].phys = f}

(* Mutant: only the references are asked about. *)
ReclaimUnreferenced ==
  {i \in DOMAIN by_phys : lifecycle_ram[by_phys[i]].logical_refcount = 0}

ReclaimIndices ==
  {i \in DOMAIN by_phys : Evictable(lifecycle_ram[by_phys[i]])}

(* Mutant: a frame already promised is promised again. *)
DrainPromisedToo ==
  {i \in DOMAIN by_phys : Draining(lifecycle_ram[by_phys[i]])}

DrainIndices ==
  {i \in DOMAIN by_phys :
     /\ lifecycle_ram[by_phys[i]].state # "EVICTING"
     /\ Draining(lifecycle_ram[by_phys[i]])}

IndexReady(i) == DrainReady(lifecycle_ram[by_phys[i]].phys)

(* The first frame that will be quiet soonest. *)
DrainCandidate ==
  CHOOSE i \in DrainIndices :
    \A j \in DrainIndices :
      IndexReady(i) < IndexReady(j) \/ (IndexReady(i) = IndexReady(j) /\ i <= j)

DescAvailable(q) ==
  IF q.tclass = "SPECULATIVE" THEN Len(free_desc) > NReserved
  ELSE free_desc # <<>>

FrameAvailable == free_frames # <<>> \/ ReclaimIndices # {} \/ DrainIndices # {}
---------------------------------------------------------------------------
(* The six events: each moves one counter of an object, ISSUE two.          *)
EvAdmit(o) == [o EXCEPT !.reservation = @ + 1]
EvAcquire(o) == [o EXCEPT !.logical_refcount = @ + 1]
EvIssue(o) == [o EXCEPT !.reservation = @ - 1, !.inflight = @ + 1]
EvCancel(o) == [o EXCEPT !.reservation = @ - 1]
EvRelease(o) == [o EXCEPT !.logical_refcount = @ - 1]

(* COMPLETE also retires a fill. *)
EvComplete(o) ==
  [o EXCEPT !.inflight = @ - 1,
            !.fill_pending = IF @ > 0 THEN @ - 1 ELSE @,
            !.state = IF @ = "FILL_IN_FLIGHT" /\ o.fill_pending = 1
                      THEN "RESIDENT" ELSE @]
---------------------------------------------------------------------------
(* ADMIT takes a reservation, never a reference: ACQUIRE is an event of its *)
(* own.                                                                     *)
Admitted(q, o) == IF q.held THEN EvAcquire(EvAdmit(o)) ELSE EvAdmit(o)

NewObject(q, f, gen) ==
  Admitted(q, [page |-> q.page, phys |-> f, generation |-> gen,
               logical_refcount |-> 0, reservation |-> 0, inflight |-> 0,
               fill_pending |-> 1, state |-> "ALLOCATED_EMPTY",
               birth |-> births])

Deadline(q) == cycle + LDownMax(MaxOutstanding, Beats(q.bytes)) + q.headroom

IssueDeadline(q) == Deadline(q) - LDownMax(MaxOutstanding, Beats(q.bytes))

NewDescriptor(q, s, o, earliest) ==
  [id |-> free_desc[1], tenant |-> q.tenant, tclass |-> q.tclass,
   bytes |-> q.bytes, phys |-> o.phys, slot |-> s,
   generation |-> o.generation, owner |-> o.birth, slo |-> Deadline(q),
   issue |-> IssueDeadline(q), arrival |-> cycle, earliest |-> earliest,
   dispatch |-> -1]

(* A page that has an object: ADMIT, and ACQUIRE when it is held. *)
AdmitHit(q) ==
  LET s == Lookup(q.page) IN
  /\ s # NoSlot
  /\ LET o == Admitted(q, lifecycle_ram[s]) IN
     /\ lifecycle_ram' = [lifecycle_ram EXCEPT ![s] = o]
     /\ Enqueue(NewDescriptor(q, s, o, cycle))
  /\ free_desc' = Tail(free_desc)
  /\ UNCHANGED <<free_slots, free_frames, objects, by_phys, pending_swap,
                 births, escaped>>

AdmitFree(q) ==
  LET s == free_slots[1]
      o == NewObject(q, free_frames[1], 0) IN
  /\ Lookup(q.page) = NoSlot /\ free_frames # <<>>
  /\ lifecycle_ram' = [lifecycle_ram EXCEPT ![s] = o]
  /\ objects' = [objects EXCEPT ![q.page] = s]
  /\ by_phys' = Append(by_phys, s)
  /\ Enqueue(NewDescriptor(q, s, o, cycle))
  /\ free_frames' = Tail(free_frames) /\ free_slots' = Tail(free_slots)
  /\ free_desc' = Tail(free_desc) /\ births' = births + 1
  /\ UNCHANGED <<pending_swap, escaped>>

(* The first unused object gives its frame up.  A successor the frame was   *)
(* promised to is published, and then overwritten by the new object.        *)
AdmitReclaim(q) ==
  /\ Lookup(q.page) = NoSlot /\ free_frames = <<>> /\ ReclaimIndices # {}
  /\ LET i == Min(ReclaimIndices)
         old == by_phys[i]
         slots == Append(free_slots, old)
         s == slots[1]
         f == lifecycle_ram[old].phys
         o == NewObject(q, f, 0) IN
     /\ lifecycle_ram' =
          [lifecycle_ram EXCEPT ![old] = NoObject, ![s] = o]
     /\ objects' = [p \in Pages |-> IF p = q.page THEN s
                                    ELSE IF objects[p] = old THEN NoSlot
                                    ELSE objects[p]]
     /\ by_phys' = Append(RemoveAt(by_phys, i), s)
     /\ pending_swap' = [pending_swap EXCEPT ![f] = NoSlot]
     /\ free_slots' = Tail(slots)
     /\ Enqueue(NewDescriptor(q, s, o, cycle))
  /\ free_desc' = Tail(free_desc) /\ births' = births + 1
  /\ UNCHANGED <<free_frames, escaped>>

(* Nothing is free or unused: a draining frame is promised to the newcomer  *)
(* and its page unpublished.                                                *)
AdmitDrain(q) ==
  /\ Lookup(q.page) = NoSlot /\ free_frames = <<>>
  /\ ReclaimIndices = {} /\ DrainIndices # {}
  /\ LET inc == by_phys[DrainCandidate]
         f == lifecycle_ram[inc].phys
         s == free_slots[1]
         o == NewObject(q, f, (lifecycle_ram[inc].generation + 1) % GenMod) IN
     /\ lifecycle_ram' =
          [lifecycle_ram EXCEPT ![inc].state = "EVICTING", ![s] = o]
     /\ objects' = [p \in Pages |-> IF p = q.page THEN s
                                    ELSE IF objects[p] = inc THEN NoSlot
                                    ELSE objects[p]]
     /\ pending_swap' = [pending_swap EXCEPT ![f] = s]
     /\ Enqueue(NewDescriptor(q, s, o, IndexReady(DrainCandidate)))
  /\ free_slots' = Tail(free_slots) /\ free_desc' = Tail(free_desc)
  /\ births' = births + 1
  /\ UNCHANGED <<free_frames, by_phys, escaped>>

Refused(q) ==
  \/ ~DescAvailable(q)
  \/ Lookup(q.page) = NoSlot /\ ~FrameAvailable

Admit(q) ==
  /\ ~Refused(q)
  /\ AdmitHit(q) \/ AdmitFree(q) \/ AdmitReclaim(q) \/ AdmitDrain(q)

(* A page that is gone or has no reference makes the release a stale one.   *)
ReleaseRef(p) ==
  LET s == Lookup(p) IN
  /\ lifecycle_ram' =
       IF s # NoSlot /\ lifecycle_ram[s].logical_refcount > 0
       THEN [lifecycle_ram EXCEPT ![s] = EvRelease(@)]
       ELSE lifecycle_ram
  /\ UNCHANGED <<free_slots, free_frames, free_desc, objects, by_phys,
                 pending_swap, births, escaped>>
---------------------------------------------------------------------------
(* obj_for: the entry of the descriptor's slot, if its frame and generation *)
(* are still the descriptor's.                                              *)
Resolves(d) ==
  /\ lifecycle_ram[d.slot] # NoObject
  /\ lifecycle_ram[d.slot].phys = d.phys
  /\ lifecycle_ram[d.slot].generation = d.generation

Raise(condition, kind) == IF condition THEN kind ELSE escaped

OnAxiAccept(d) ==
  LET o == lifecycle_ram[d.slot] IN
  /\ IF Resolves(d)
     THEN /\ escaped' = Raise(o.reservation = 0, "underflow")
          /\ lifecycle_ram' =
               [lifecycle_ram EXCEPT
                  ![d.slot] = EvIssue(@),
                  ![d.slot].state = IF @ = "ALLOCATED_EMPTY"
                                    THEN "FILL_IN_FLIGHT" ELSE @]
     ELSE UNCHANGED <<lifecycle_ram, escaped>>
  /\ UNCHANGED <<free_slots, free_frames, free_desc, objects, by_phys,
                 pending_swap, births>>

(* Mutant: the object that holds the frame is never looked at again. *)
SwapDueNever(ram, f) == {}

(* The published object of frame f that _finish_swap replaces. *)
SwapDue(ram, f) ==
  {s \in ToSet(by_phys) :
     /\ ram[s].phys = f /\ pending_swap[f] # NoSlot
     /\ ram[s].state = "EVICTING" /\ Evictable(ram[s])}

OnComplete(d) ==
  LET ram == IF Resolves(d)
             THEN [lifecycle_ram EXCEPT ![d.slot] = EvComplete(@)]
             ELSE lifecycle_ram
      gone == SwapDue(ram, d.phys) IN
  /\ escaped' = Raise(Resolves(d) /\ lifecycle_ram[d.slot].inflight = 0,
                      "underflow")
  /\ lifecycle_ram' = [s \in Slots |-> IF s \in gone THEN NoObject ELSE ram[s]]
  /\ free_slots' = free_slots \o SetToSeq(gone)
  /\ objects' = [p \in Pages |-> IF objects[p] \in gone THEN NoSlot
                                 ELSE objects[p]]
  /\ by_phys' = [i \in DOMAIN by_phys |->
                   IF by_phys[i] \in gone THEN pending_swap[d.phys]
                   ELSE by_phys[i]]
  /\ pending_swap' = IF gone = {} THEN pending_swap
                     ELSE [pending_swap EXCEPT ![d.phys] = NoSlot]
  /\ free_desc' = Append(free_desc, d.id)
  /\ UNCHANGED <<free_frames, births>>

OnCancelPreIssue(d) ==
  LET o == lifecycle_ram[d.slot] IN
  /\ IF Resolves(d)
     THEN /\ escaped' = Raise(o.reservation = 0, "underflow")
          /\ lifecycle_ram' =
               [lifecycle_ram EXCEPT
                  ![d.slot] = EvCancel(@),
                  ![d.slot].fill_pending = IF @ > 0 THEN @ - 1 ELSE @]
     ELSE UNCHANGED <<lifecycle_ram, escaped>>
  /\ free_desc' = Append(free_desc, d.id)
  /\ UNCHANGED <<free_slots, free_frames, objects, by_phys, pending_swap,
                 births>>
=============================================================================
