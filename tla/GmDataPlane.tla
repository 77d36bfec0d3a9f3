---------------------------- MODULE GmDataPlane ----------------------------
(***************************************************************************)
(* The golden model's data plane (model/gm/data_plane.py): admitted        *)
(* descriptors wait in ready_m or ready_s, are dispatched one a cycle to   *)
(* dispatch_q, accepted from its head while fewer than MaxOutstanding are  *)
(* pending, and complete when their burst is over.  One port serves the    *)
(* bursts in the order of acceptance.                                      *)
(***************************************************************************)
EXTENDS GmTypes, FiniteSetsExt, SequencesExt

VARIABLES
  cycle,        \* the cycle every method is called with
  ready_m,      \* mandatory, admitted and not dispatched (sorted when read)
  ready_s,      \* speculative, admitted and not dispatched
  dispatch_q,   \* dispatched, not accepted
  pending,      \* accepted, not complete: [desc, accept, done]
  deficit,      \* credit of each tenant, in bytes
  spec_tokens,  \* the speculative bucket, in bytes
  port_free     \* first cycle the port is free

dpvars ==
  <<ready_m, ready_s, dispatch_q, pending, deficit, spec_tokens, port_free>>

Outstanding == [desc : Descriptor, accept : Nat, done : Nat]

DpInit ==
  /\ cycle = 0
  /\ ready_m = {} /\ ready_s = <<>> /\ dispatch_q = <<>> /\ pending = <<>>
  /\ deficit = [t \in Tenants |-> 0]
  /\ spec_tokens = SpecBurst
  /\ port_free = 0
---------------------------------------------------------------------------
(* When the transfers that hold frame f, accepted or dispatched, are over.  *)
DrainReady(f) ==
  Max({cycle}
      \cup {pending[i].done :
              i \in {j \in DOMAIN pending : pending[j].desc.phys = f}}
      \cup {cycle + AcceptOverhead + FixedOverhead
              + Beats(dispatch_q[i].bytes) :
              i \in {j \in DOMAIN dispatch_q : dispatch_q[j].phys = f}})

Replenish ==
  /\ deficit' = IF cycle % ReplenishPeriod = 0
                THEN [t \in Tenants |->
                        Min({deficit[t] + Quantum, MaxDeficit})]
                ELSE deficit
  /\ spec_tokens' = Min({SpecBurst, spec_tokens + SpecRefill})
  /\ UNCHANGED <<cycle, ready_m, ready_s, dispatch_q, pending, port_free>>

Enqueue(d) ==
  /\ IF d.tclass = "MANDATORY"
     THEN ready_m' = ready_m \cup {d} /\ UNCHANGED ready_s
     ELSE ready_s' = Append(ready_s, d) /\ UNCHANGED ready_m
  /\ UNCHANGED <<cycle, dispatch_q, pending, deficit, spec_tokens, port_free>>
---------------------------------------------------------------------------
Due == pending # <<>> /\ pending[1].done <= cycle

(* tick_complete, one of its descriptors: the port serves in order, so the  *)
(* due ones stand at the front.                                             *)
Complete ==
  /\ Due
  /\ pending' = Tail(pending)
  /\ UNCHANGED <<cycle, ready_m, ready_s, dispatch_q, deficit, spec_tokens,
                 port_free>>

(* Mutant: the outstanding limit is one too high. *)
AcceptableOneMore ==
  /\ dispatch_q # <<>>
  /\ Len(pending) <= MaxOutstanding
  /\ cycle >= dispatch_q[1].dispatch + AcceptOverhead
  /\ dispatch_q[1].earliest <= cycle

Acceptable ==
  /\ dispatch_q # <<>>
  /\ Len(pending) < MaxOutstanding
  /\ cycle >= dispatch_q[1].dispatch + AcceptOverhead
  /\ dispatch_q[1].earliest <= cycle

ServiceStart == Max({cycle + FixedOverhead, port_free})

(* tick_accept, one of its descriptors: credit and tokens are charged HERE. *)
Accept ==
  /\ Acceptable
  /\ LET d == dispatch_q[1]
         done == ServiceStart + Beats(d.bytes) IN
     /\ pending' = Append(pending,
                          [desc |-> d, accept |-> cycle, done |-> done])
     /\ port_free' = done
     /\ spec_tokens' = IF d.tclass = "SPECULATIVE"
                       THEN spec_tokens - d.bytes ELSE spec_tokens
     /\ deficit' = [deficit EXCEPT ![d.tenant] = @ - d.bytes]
  /\ dispatch_q' = Tail(dispatch_q)
  /\ UNCHANGED <<cycle, ready_m, ready_s>>
---------------------------------------------------------------------------
(* Mutant: no credit is asked for. *)
AffordableAlways(d) == TRUE

Affordable(d) == deficit[d.tenant] >= d.bytes

MandatoryBefore(a, b) ==
  \/ a.issue < b.issue
  \/ a.issue = b.issue /\ a.arrival < b.arrival
  \/ a.issue = b.issue /\ a.arrival = b.arrival /\ a.id <= b.id

SpeculativeBefore(a, b) ==
  a.arrival < b.arrival \/ (a.arrival = b.arrival /\ a.id <= b.id)

(* q.remove(d): a descriptor stands in a queue once. *)
Without(q, d) ==
  IF d \in ToSet(q) THEN RemoveAt(q, CHOOSE i \in DOMAIN q : q[i] = d) ELSE q

(* The descriptor picked, at most one. *)
PickMandatory ==
  LET can == {d \in ready_m : Affordable(d)} IN
  {d \in can : \A e \in can : MandatoryBefore(d, e)}

PickSpeculative ==
  LET can == {d \in ToSet(ready_s) :
                d.bytes <= spec_tokens /\ Affordable(d)} IN
  IF ready_m # {} THEN {}
  ELSE {d \in can : \A e \in can : SpeculativeBefore(d, e)}

Dispatchable ==
  IF Len(dispatch_q) >= QueueDepth THEN {}
  ELSE IF PickMandatory # {} THEN PickMandatory ELSE PickSpeculative

Dispatch(d) ==
  /\ d \in Dispatchable
  /\ ready_m' = ready_m \ {d}
  /\ ready_s' = Without(ready_s, d)
  /\ dispatch_q' = Append(dispatch_q, [d EXCEPT !.dispatch = cycle])
  /\ UNCHANGED <<cycle, pending, deficit, spec_tokens, port_free>>
---------------------------------------------------------------------------
Stale(d) == d.tclass = "SPECULATIVE" /\ cycle - d.arrival > SpecMaxWait

(* The stale speculation cancelled next, at most one: ready_s, then         *)
(* dispatch_q, each in its order.                                           *)
FirstStale(q) ==
  {q[i] : i \in {j \in DOMAIN q :
                   Stale(q[j]) /\ \A k \in 1 .. j - 1 : ~Stale(q[k])}}
NextStale ==
  IF FirstStale(ready_s) # {} THEN FirstStale(ready_s)
  ELSE FirstStale(dispatch_q)

(* cancel_stale_speculation, one of its descriptors. *)
Cancel(d) ==
  /\ d \in NextStale
  /\ ready_s' = Without(ready_s, d)
  /\ dispatch_q' = Without(dispatch_q, d)
  /\ UNCHANGED <<cycle, ready_m, pending, deficit, spec_tokens, port_free>>

Tick == cycle' = cycle + 1 /\ UNCHANGED dpvars
---------------------------------------------------------------------------
(* A transfer accepted by its issue deadline completes by its SLO deadline: *)
(* the declared worst case l_down_max covers everything ahead of it on the  *)
(* bus (model/gm/types.py:221-222, model/gm/data_plane.py:114-142).         *)
IssueDeadlineSuffices ==
  \A i \in DOMAIN pending :
    pending[i].accept <= pending[i].desc.issue
      => pending[i].done <= pending[i].desc.slo
=============================================================================
