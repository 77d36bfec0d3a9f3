--------------------------- MODULE GmSim_proofs ---------------------------
(***************************************************************************)
(* A transfer accepted by its issue deadline completes by its SLO deadline,*)
(* for every size of the golden model, every envelope, every trace and     *)
(* every policy.  Completion times are bounded by the port's schedule: the *)
(* i-th pending transfer is over FixedOverhead plus i longest transfers    *)
(* from now, and the outstanding limit bounds i.  And a tenant's debt is   *)
(* bounded: a dispatched transfer's place in the queue says how much may   *)
(* still be charged to its account before it.                              *)
(*                                                                         *)
(* And the control plane's books are right: every object is published or   *)
(* promised, once; every handle resolves; the counters are the descriptors.*)
(* The argument is BooksInv: the queues hold every descriptor once, a      *)
(* frame has one published object, which is on its way out exactly if the  *)
(* frame is promised, and something that ends with a completion holds it   *)
(* back until then (Leaving).                                              *)
(***************************************************************************)
EXTENDS GmSim, SequenceTheorems, FiniteSetTheorems, WellFoundedInduction,
        TLAPS

USE GmAssumption
---------------------------------------------------------------------------
(* Quotients of the source's ceiling division are natural numbers.          *)
LEMMA CeilDivType ==
  ASSUME NEW n \in Nat, NEW d \in Nat \ {0}
  PROVE  CeilDiv(n, d) \in Nat
BY SMT DEF CeilDiv

(* More transfers take longer. *)
LEMMA MoreTransfers ==
  ASSUME NEW m \in Nat, NEW n \in Nat, m <= n
  PROVE  m * CMax <= n * CMax /\ m * CMax \in Nat
BY SMT

LEMMA ProductType ==
  ASSUME NEW m \in Nat, NEW n \in Nat
  PROVE  m * n \in Nat
BY SMT

(* The declared worst case covers the port's: overhead once, a longest      *)
(* transfer for each of the others, and the transfer itself.                *)
LEMMA LDownMaxCovers ==
  ASSUME NEW c \in Nat
  PROVE  /\ LDownMax(MaxOutstanding, c) \in Nat
         /\ FixedOverhead + (MaxOutstanding - 1) * CMax + c
              <= LDownMax(MaxOutstanding, c)
<1> DEFINE n == MaxOutstanding
           w == LDownWork(n, c)
           q == CeilDiv(w, Window - Refresh)
<1>1. /\ (n - 1) * CMax \in Nat /\ Bypass * CMax \in Nat
      /\ n * BFixed \in Nat /\ BFixed <= n * BFixed
  <2>1. n - 1 \in Nat /\ n \in Nat /\ n >= 1
    OBVIOUS
  <2>2. (n - 1) * CMax \in Nat /\ Bypass * CMax \in Nat
        /\ n * BFixed \in Nat /\ (n - 1) * BFixed \in Nat
    BY <2>1, ProductType
  <2>3. n * BFixed = (n - 1) * BFixed + BFixed
    BY <2>1, SMT
  <2> QED
    BY <2>2, <2>3
<1>2. w \in Nat /\ FixedOverhead + (n - 1) * CMax + c <= w
  BY <1>1 DEF LDownWork
<1>3. q \in Nat
  BY <1>2, CeilDivType
<1>4. Refresh * q \in Nat
  BY <1>3, ProductType
<1> QED
  BY <1>1, <1>2, <1>4 DEF LDownMax

(* The later of two times. *)
LEMMA MaxOfTwo ==
  ASSUME NEW a \in Int, NEW b \in Int
  PROVE  Max({a, b}) = IF a >= b THEN a ELSE b
BY DEF Max
---------------------------------------------------------------------------
(* What the port and the accounts need of a descriptor: its size is one of  *)
(* the trace's and the envelope allows it, its tenant has an account and    *)
(* its issue deadline is the one admission computes                         *)
(* (model/gm/control_plane.py:199-270).                                     *)
Timed(d) ==
  /\ {"bytes", "tenant", "tclass", "slo", "issue"} \subseteq DOMAIN d
  /\ d.bytes \in 1 .. MaxBytes
  /\ \E q \in Requests : d.bytes = q.bytes
  /\ d.tenant \in Tenants
  /\ d.slo \in Int
  /\ d.issue = d.slo - LDownMax(MaxOutstanding, Beats(d.bytes))

Jobs(S) == [desc : S, accept : Nat, done : Nat]

(* The queues hold descriptors of S only. *)
Queued(S) ==
  /\ \A d \in S : Timed(d)
  /\ ready_m \subseteq S
  /\ ready_s \in Seq(S) /\ dispatch_q \in Seq(S)
  /\ pending \in Seq(Jobs(S))

(* The port's schedule: how late the i-th pending transfer is, from now and *)
(* after the one before it.                                                 *)
Later(x) == IF x >= cycle + FixedOverhead THEN x ELSE cycle + FixedOverhead

Scheduled ==
  /\ cycle \in Nat /\ port_free \in Nat
  /\ Len(pending) <= MaxOutstanding
  /\ IF pending = <<>> THEN port_free <= cycle
     ELSE port_free = pending[Len(pending)].done
  /\ \A i \in 1 .. Len(pending) :
       pending[i].done <= cycle + FixedOverhead + i * CMax
  /\ \A i, j \in 1 .. Len(pending) : i < j =>
       pending[j].done <= Later(pending[i].done) + (j - i) * CMax

(* Each pending transfer keeps the declared worst case. *)
WithinEnvelope ==
  \A i \in 1 .. Len(pending) :
    pending[i].done <=
      pending[i].accept + LDownMax(MaxOutstanding, Beats(pending[i].desc.bytes))

PortInv == Scheduled /\ WithinEnvelope /\ \E S : Queued(S)

(* The schedule and the envelope are all that the property needs. *)
LEMMA EnvelopeSuffices == PortInv => IssueDeadlineSuffices
<1> SUFFICES ASSUME WithinEnvelope, NEW S, Queued(S), NEW i \in DOMAIN pending,
                    pending[i].accept <= pending[i].desc.issue
             PROVE  pending[i].done <= pending[i].desc.slo
  BY DEF PortInv, IssueDeadlineSuffices
<1> DEFINE d == pending[i].desc
           L == LDownMax(MaxOutstanding, Beats(d.bytes))
<1>1. i \in 1 .. Len(pending) /\ pending[i] \in Jobs(S)
  BY DEF Queued
<1>2. d \in S /\ pending[i].accept \in Nat /\ pending[i].done \in Nat
  BY <1>1 DEF Jobs
<1>3. d.slo \in Int /\ d.issue = d.slo - L /\ d.bytes \in 1 .. MaxBytes
  BY <1>2 DEF Queued, Timed
<1>4. L \in Nat
  BY <1>3, LDownMaxCovers
<1>5. pending[i].done <= pending[i].accept + L
  BY <1>1 DEF WithinEnvelope
<1> QED
  BY <1>2, <1>3, <1>4, <1>5

(* A descriptor more keeps what is queued queued. *)
LEMMA QueuedGrows ==
  ASSUME NEW S, Queued(S), NEW d, Timed(d)
  PROVE  Queued(S \cup {d})
<1>1. S \subseteq S \cup {d}
  OBVIOUS
<1>2. Jobs(S) \subseteq Jobs(S \cup {d})
  BY DEF Jobs
<1>3. ready_s \in Seq(S \cup {d}) /\ dispatch_q \in Seq(S \cup {d})
  BY <1>1, SeqMonotonic DEF Queued
<1>4. pending \in Seq(Jobs(S \cup {d}))
  BY <1>2, SeqMonotonic DEF Queued
<1> QED
  BY <1>3, <1>4 DEF Queued

(* A place taken out of a sequence: those behind it move up.                *)
LEMMA RemoveAtIs ==
  ASSUME NEW S, NEW q \in Seq(S), NEW k \in 1 .. Len(q)
  PROVE  /\ RemoveAt(q, k) \in Seq(S)
         /\ Len(RemoveAt(q, k)) = Len(q) - 1
         /\ \A j \in 1 .. Len(q) - 1 :
              RemoveAt(q, k)[j] = IF j <= k - 1 THEN q[j] ELSE q[j + 1]
<1> DEFINE n == Len(q)
           a == SubSeq(q, 1, k - 1)
           b == SubSeq(q, k + 1, n)
           w == RemoveAt(q, k)
<1>1. /\ n \in Nat /\ k \in 1 .. n
      /\ \A i \in 1 .. k - 1 : q[i] \in S
      /\ \A i \in k + 1 .. n : q[i] \in S
  BY ElementOfSeq, LenProperties
<1>2. /\ a \in Seq(S) /\ Len(a) = k - 1
      /\ \A i \in 1 .. k - 1 : a[i] = q[i]
  <2>1. /\ a \in Seq(S)
        /\ Len(a) = IF 1 <= k - 1 THEN (k - 1) - 1 + 1 ELSE 0
        /\ \A i \in 1 .. (k - 1) - 1 + 1 : a[i] = q[1 + i - 1]
    BY <1>1, SubSeqProperties
  <2> HIDE DEF a
  <2> QED
    BY <2>1, <1>1
<1>3. /\ b \in Seq(S) /\ Len(b) = n - k
      /\ \A i \in 1 .. n - k : b[i] = q[k + i]
  <2>1. /\ b \in Seq(S)
        /\ Len(b) = IF k + 1 <= n THEN n - (k + 1) + 1 ELSE 0
        /\ \A i \in 1 .. n - (k + 1) + 1 : b[i] = q[(k + 1) + i - 1]
    BY <1>1, SubSeqProperties
  <2>2. \A i \in 1 .. n - k : (k + 1) + i - 1 = k + i
    BY <1>1
  <2>3. n - (k + 1) + 1 = n - k
    BY <1>1
  <2> HIDE DEF b, n
  <2>4. Len(b) = n - k
    <3>1. CASE k + 1 <= n
      BY <3>1, <2>1, <2>3
    <3>2. CASE ~(k + 1 <= n)
      <4>1. Len(b) = 0 /\ n - k = 0
        BY <3>2, <2>1, <1>1
      <4> QED
        BY <4>1
    <3> QED
      BY <3>1, <3>2
  <2>5. ASSUME NEW i \in 1 .. n - k PROVE b[i] = q[k + i]
    BY <2>1, <2>2, <2>3
  <2> QED
    BY <2>1, <2>4, <2>5
<1>4. w = a \o b
  BY DEF RemoveAt
<1> HIDE DEF w, a, b, n
<1>5. /\ w \in Seq(S) /\ Len(w) = Len(a) + Len(b)
      /\ \A j \in 1 .. Len(a) + Len(b) :
           w[j] = IF j <= Len(a) THEN a[j] ELSE b[j - Len(a)]
  BY <1>2, <1>3, <1>4, ConcatProperties
<1>6. Len(w) = n - 1
  BY <1>1, <1>2, <1>3, <1>5
<1>7. ASSUME NEW j \in 1 .. n - 1
      PROVE  w[j] = IF j <= k - 1 THEN q[j] ELSE q[j + 1]
  <2>1. w[j] = IF j <= k - 1 THEN a[j] ELSE b[j - (k - 1)]
    BY <1>1, <1>2, <1>3, <1>5
  <2>2. CASE j <= k - 1
    BY <2>1, <2>2, <1>2
  <2>3. CASE ~(j <= k - 1)
    <3>1. j - (k - 1) \in 1 .. n - k /\ k + (j - (k - 1)) = j + 1
      BY <2>3, <1>1
    <3>2. b[j - (k - 1)] = q[j + 1]
      BY <3>1, <1>3
    <3> QED
      BY <3>2, <2>1, <2>3
  <2> QED
    BY <2>2, <2>3
<1> QED
  BY <1>5, <1>6, <1>7 DEF w, n

(* The queues' remove takes one place out, or nothing. *)
LEMMA WithoutIs ==
  ASSUME NEW S, NEW q \in Seq(S), NEW d
  PROVE  \/ d \notin ToSet(q) /\ Without(q, d) = q
         \/ \E k \in 1 .. Len(q) :
              q[k] = d /\ Without(q, d) = RemoveAt(q, k)
<1>1. CASE d \notin ToSet(q)
  BY <1>1 DEF Without
<1>2. CASE d \in ToSet(q)
  <2> DEFINE i == CHOOSE k \in DOMAIN q : q[k] = d
  <2>1. i \in 1 .. Len(q) /\ q[i] = d
    BY <1>2 DEF ToSet
  <2>2. Without(q, d) = RemoveAt(q, i)
    BY <1>2 DEF Without
  <2> HIDE DEF i
  <2> QED
    BY <2>1, <2>2
<1> QED
  BY <1>1, <1>2

(* A queue keeps its kind when a descriptor leaves it. *)
LEMMA WithoutType ==
  ASSUME NEW S, NEW q \in Seq(S), NEW d
  PROVE  Without(q, d) \in Seq(S)
BY WithoutIs, RemoveAtIs
---------------------------------------------------------------------------
(* A step that leaves the port, the pending transfers and the time alone    *)
(* keeps the schedule.                                                      *)
LEMMA QuietStep ==
  ASSUME PortInv, UNCHANGED <<cycle, pending, port_free>>,
         NEW S, Queued(S)'
  PROVE  PortInv'
<1>1. Scheduled'
  BY DEF PortInv, Scheduled, Later
<1>2. WithinEnvelope'
  BY DEF PortInv, WithinEnvelope
<1> QED
  BY <1>1, <1>2 DEF PortInv

(* enqueue (model/gm/data_plane.py:93-95). *)
LEMMA EnqueueStep ==
  ASSUME PortInv, NEW d, Timed(d), Enqueue(d)
  PROVE  PortInv'
<1> PICK S : Queued(S)
  BY DEF PortInv
<1>1. Queued(S \cup {d})
  BY QueuedGrows
<1>2. Append(ready_s, d) \in Seq(S \cup {d})
  BY <1>1 DEF Queued
<1>3. Queued(S \cup {d})'
  BY <1>1, <1>2 DEF Enqueue, Queued, Timed
<1> QED
  BY <1>3, QuietStep DEF Enqueue

(* tick_dispatch (model/gm/data_plane.py:165-179). *)
LEMMA DispatchStep ==
  ASSUME PortInv, NEW d, Dispatch(d)
  PROVE  PortInv'
<1> PICK S : Queued(S)
  BY DEF PortInv
<1> DEFINE e == [d EXCEPT !.dispatch = cycle]
<1>1. d \in S
  BY DEF Dispatch, Dispatchable, PickMandatory, PickSpeculative, Queued, ToSet
<1>2. Timed(e)
  BY <1>1 DEF Queued, Timed
<1>3. Queued(S \cup {e})
  BY <1>2, QueuedGrows
<1> HIDE DEF e
<1>4. /\ Without(ready_s, d) \in Seq(S \cup {e})
      /\ Append(dispatch_q, e) \in Seq(S \cup {e})
  BY <1>3, WithoutType DEF Queued
<1>5. Queued(S \cup {e})'
  BY <1>3, <1>4 DEF Dispatch, Queued, Timed, e
<1> QED
  BY <1>5, QuietStep DEF Dispatch

(* cancel_stale_speculation (model/gm/data_plane.py:183-201). *)
LEMMA CancelStep ==
  ASSUME PortInv, NEW d, Cancel(d)
  PROVE  PortInv'
<1> PICK S : Queued(S)
  BY DEF PortInv
<1>1. Without(ready_s, d) \in Seq(S) /\ Without(dispatch_q, d) \in Seq(S)
  BY WithoutType DEF Queued
<1>2. Queued(S)'
  BY <1>1 DEF Cancel, Queued, Timed
<1> QED
  BY <1>2, QuietStep DEF Cancel

(* replenish (model/gm/data_plane.py:81-91). *)
LEMMA ReplenishStep ==
  ASSUME PortInv, Replenish
  PROVE  PortInv'
<1> PICK S : Queued(S)
  BY DEF PortInv
<1>1. Queued(S)'
  BY DEF Replenish, Queued, Timed
<1> QED
  BY <1>1, QuietStep DEF Replenish

(* Every pending transfer is over at some time. *)
LEMMA DoneType ==
  ASSUME NEW S, Queued(S), NEW i \in 1 .. Len(pending)
  PROVE  pending[i] \in Jobs(S) /\ pending[i].done \in Nat
<1>1. pending[i] \in Jobs(S)
  BY ElementOfSeq DEF Queued
<1> QED
  BY <1>1 DEF Jobs

(* Time passes: nothing is later than it was. *)
LEMMA TickStep ==
  ASSUME PortInv, Tick
  PROVE  PortInv'
<1> PICK S : Queued(S)
  BY DEF PortInv
<1>1. pending \in Seq(Jobs(S))
  BY DEF Queued
<1>2. \A i \in 1 .. Len(pending) : pending[i].done \in Nat
  BY DoneType
<1>3. \A i, j \in 1 .. Len(pending) :
        i * CMax \in Int /\ (j - i) * CMax \in Int
  BY <1>1, SMT
<1>4. Scheduled /\ cycle' = cycle + 1 /\ UNCHANGED dpvars
  BY DEF PortInv, Tick
<1>5. Scheduled'
  <2>1. /\ cycle' \in Nat /\ cycle + FixedOverhead <= cycle' + FixedOverhead
        /\ cycle \in Nat /\ port_free \in Nat /\ cycle <= cycle'
        /\ pending' = pending /\ port_free' = port_free
    BY <1>4 DEF Scheduled, dpvars
  <2>2. ASSUME NEW i \in 1 .. Len(pending)
        PROVE  pending[i].done <= cycle' + FixedOverhead + i * CMax
    BY <2>1, <1>2, <1>3, <1>4 DEF Scheduled
  <2>3. ASSUME NEW i \in 1 .. Len(pending), NEW j \in 1 .. Len(pending), i < j
        PROVE  pending[j].done <= Later(pending[i].done)' + (j - i) * CMax
    <3> DEFINE m == (j - i) * CMax
               before == Later(pending[i].done)
               after == Later(pending[i].done)'
    <3>1. /\ pending[j].done <= before + m
          /\ pending[i].done \in Nat /\ pending[j].done \in Nat
          /\ m \in Int
      BY <2>3, <1>2, <1>3, <1>4 DEF Scheduled
    <3>2. before <= after /\ before \in Int /\ after \in Int
      BY <2>1, <3>1 DEF Later
    <3> HIDE DEF m, before, after
    <3>3. pending[j].done <= after + m
      BY <3>1, <3>2
    <3> QED
      BY <3>3 DEF m, after
  <2> QED
    BY <2>1, <2>2, <2>3, <1>4 DEF Scheduled, Later
<1>6. WithinEnvelope'
  BY <1>4 DEF PortInv, WithinEnvelope, dpvars
<1>7. Queued(S)'
  BY <1>4 DEF Queued, Timed, dpvars
<1> QED
  BY <1>5, <1>6, <1>7 DEF PortInv

(* tick_complete (model/gm/data_plane.py:99-110): the first transfer is due,*)
(* so the ones behind it move up one place.                                 *)
LEMMA CompleteStep ==
  ASSUME PortInv, Complete
  PROVE  PortInv'
<1> PICK S : Queued(S)
  BY DEF PortInv
<1> DEFINE n == Len(pending)
<1>1. /\ pending \in Seq(Jobs(S)) /\ pending # <<>> /\ n \in Nat \ {0}
      /\ pending[1].done <= cycle /\ pending' = Tail(pending)
      /\ UNCHANGED <<cycle, ready_m, ready_s, dispatch_q, port_free>>
  BY DEF Complete, Due, Queued
<1>2. /\ Tail(pending) \in Seq(Jobs(S)) /\ Len(Tail(pending)) = n - 1
      /\ \A i \in 1 .. n - 1 : Tail(pending)[i] = pending[i + 1]
  BY <1>1
<1>3. \A i \in 1 .. n : pending[i].done \in Nat
  BY DoneType
<1>4. Scheduled
  BY DEF PortInv
<1>5. Scheduled'
  <2>1. Later(pending[1].done) = cycle + FixedOverhead
    <3>1. pending[1].done \in Nat /\ pending[1].done <= cycle /\ cycle \in Nat
      BY <1>1, <1>3, <1>4 DEF Scheduled
    <3> QED
      BY <3>1 DEF Later
  <2>2. ASSUME NEW i \in 1 .. n - 1
        PROVE  pending'[i].done <= cycle + FixedOverhead + i * CMax
    <3>1. 1 \in 1 .. n /\ i + 1 \in 1 .. n /\ 1 < i + 1 /\ (i + 1) - 1 = i
      BY <1>1
    <3>2. pending[i + 1].done <= Later(pending[1].done) + ((i + 1) - 1) * CMax
      BY <3>1, <1>4 DEF Scheduled
    <3> QED
      BY <3>1, <3>2, <2>1, <1>1, <1>2
  <2>3. ASSUME NEW i \in 1 .. n - 1, NEW j \in 1 .. n - 1, i < j
        PROVE  pending'[j].done <= Later(pending'[i].done) + (j - i) * CMax
    <3>1. /\ i + 1 \in 1 .. n /\ j + 1 \in 1 .. n /\ i + 1 < j + 1
          /\ (j + 1) - (i + 1) = j - i
      <4>1. n \in Nat /\ i \in Int /\ j \in Int /\ i < j
        BY <1>1, <2>3
      <4> HIDE DEF n
      <4> QED
        BY <4>1
    <3>2. pending[j + 1].done
            <= Later(pending[i + 1].done) + ((j + 1) - (i + 1)) * CMax
      BY <3>1, <1>4 DEF Scheduled
    <3> QED
      BY <3>1, <3>2, <1>1, <1>2
  <2>4. IF pending' = <<>> THEN port_free <= cycle
        ELSE port_free = pending'[Len(pending')].done
    <3>1. port_free = pending[n].done
      BY <1>1, <1>4 DEF Scheduled
    <3>2. CASE n = 1
      <4>1. pending' \in Seq(Jobs(S)) /\ Len(pending') = 0
        BY <3>2, <1>1, <1>2
      <4>2. pending' = <<>>
        BY <4>1, EmptySeq
      <4> QED
        BY <4>2, <3>1, <3>2, <1>1
    <3>3. CASE n > 1
      <4>1. n - 1 \in 1 .. n - 1 /\ (n - 1) + 1 = n
        BY <3>3, <1>1
      <4>2. Len(pending') = n - 1 /\ pending'[n - 1] = pending[(n - 1) + 1]
        BY <4>1, <1>1, <1>2
      <4>3. Len(<<>>) = 0 /\ Len(pending') # 0
        BY <4>2, <3>3, <1>1
      <4>4. pending' # <<>>
        BY <4>3
      <4> QED
        BY <4>1, <4>2, <4>4, <3>1
    <3>4. n = 1 \/ n > 1
      <4>1. n \in Nat \ {0}
        BY <1>1
      <4> HIDE DEF n
      <4> QED
        BY <4>1
    <3> QED
      BY <3>2, <3>3, <3>4
  <2>5. /\ cycle' \in Nat /\ port_free' \in Nat /\ cycle' = cycle
        /\ Len(pending') = n - 1 /\ Len(pending') <= MaxOutstanding
    BY <1>1, <1>2, <1>4 DEF Scheduled
  <2> QED
    BY <2>2, <2>3, <2>4, <2>5, <1>1 DEF Scheduled, Later
<1>6. WithinEnvelope'
  <2>1. \A i \in 1 .. n - 1 : i + 1 \in 1 .. n
    BY <1>1
  <2> QED
    BY <2>1, <1>1, <1>2 DEF PortInv, WithinEnvelope
<1>7. Queued(S)'
  BY <1>1, <1>2 DEF Queued, Timed
<1> QED
  BY <1>5, <1>6, <1>7 DEF PortInv

(* tick_accept (model/gm/data_plane.py:114-142): the new transfer starts    *)
(* when the port is free, behind at most MaxOutstanding - 1 others.         *)
LEMMA AcceptStep ==
  ASSUME PortInv, Accept
  PROVE  PortInv'
<1> PICK S : Queued(S)
  BY DEF PortInv
<1> DEFINE n == Len(pending)
           d == dispatch_q[1]
           b == Beats(d.bytes)
           done == ServiceStart + b
           job == [desc |-> d, accept |-> cycle, done |-> done]
<1>1. /\ pending \in Seq(Jobs(S)) /\ n \in Nat /\ n < MaxOutstanding
      /\ pending' = Append(pending, job) /\ port_free' = done
      /\ dispatch_q' = Tail(dispatch_q) /\ dispatch_q # <<>>
      /\ dispatch_q \in Seq(S) /\ UNCHANGED <<cycle, ready_m, ready_s>>
  BY DEF Accept, Acceptable, Queued
<1>2. d \in S /\ Tail(dispatch_q) \in Seq(S)
  BY <1>1
<1>3. d.bytes \in 1 .. MaxBytes /\ b \in 1 .. CMax
  BY <1>2 DEF Queued, Timed
<1>4. Scheduled /\ cycle \in Nat /\ port_free \in Nat
  BY DEF PortInv, Scheduled
<1>5. /\ ServiceStart = IF cycle + FixedOverhead >= port_free
                        THEN cycle + FixedOverhead ELSE port_free
      /\ ServiceStart \in Nat /\ done \in Nat
  BY <1>3, <1>4, MaxOfTwo DEF ServiceStart
<1>6. \A i \in 1 .. n : pending[i].done \in Nat
  BY DoneType
<1>7. job \in Jobs(S)
  BY <1>2, <1>4, <1>5 DEF Jobs
<1> HIDE DEF job
<1>8. /\ pending' \in Seq(Jobs(S)) /\ Len(pending') = n + 1
      /\ \A i \in 1 .. n : pending'[i] = pending[i]
      /\ pending'[n + 1] = job
  BY <1>1, <1>7
<1>9. job.done = done /\ job.accept = cycle /\ job.desc = d
  BY DEF job
<1> HIDE DEF n, b, done
(* What the port does to the transfers ahead. *)
<1>0. n \in Nat /\ \A i \in 1 .. n + 1 : i = n + 1 \/ i \in 1 .. n
  <2>1. n \in Nat
    BY <1>1
  <2> QED
    BY <2>1
<1>10. ASSUME NEW k \in Nat, n = k + 1
       PROVE  port_free = pending[n].done /\ n \in 1 .. n
  <2>1. n \in 1 .. n
    BY <1>10
  <2>2. pending # <<>>
    BY <1>10 DEF n
  <2> QED
    BY <2>1, <2>2, <1>4 DEF Scheduled, n
<1>11. ServiceStart <= cycle + FixedOverhead + n * CMax
  <2>1. n * CMax \in Nat
    BY <1>1, ProductType
  <2>2. CASE n = 0
    <3>1. pending = <<>>
      BY <2>2, <1>1, EmptySeq DEF n
    <3> QED
      BY <3>1, <2>1, <1>4, <1>5 DEF Scheduled
  <2>3. CASE n # 0
    <3>1. n - 1 \in Nat /\ n = (n - 1) + 1
      BY <2>3, <1>1
    <3>2. port_free = pending[n].done /\ n \in 1 .. n
      BY <3>1, <1>10
    <3>3. port_free <= cycle + FixedOverhead + n * CMax
      BY <3>2, <1>4 DEF Scheduled, n
    <3> QED
      BY <3>3, <2>1, <1>4, <1>5
  <2> QED
    BY <2>2, <2>3
<1>12. done <= cycle + FixedOverhead + n * CMax + b
  <2>1. n * CMax \in Nat
    BY <1>1, ProductType
  <2> QED
    BY <2>1, <1>3, <1>4, <1>5, <1>11 DEF done
<1>13. done <= cycle + FixedOverhead + (n + 1) * CMax
  <2>1. (n + 1) * CMax = n * CMax + CMax /\ n * CMax \in Nat
    BY <1>1, ProductType, SMT
  <2> QED
    BY <2>1, <1>3, <1>4, <1>5, <1>12
<1>14. ASSUME NEW i \in 1 .. n
       PROVE  done <= Later(pending[i].done) + (n + 1 - i) * CMax
  <2> DEFINE x == Later(pending[i].done)
             m == (n - i) * CMax
  <2>1. /\ n - 1 \in Nat /\ n = (n - 1) + 1 /\ n - i \in Nat
        /\ (n + 1 - i) * CMax = m + CMax /\ m \in Nat
    <3>1. n - i \in Nat /\ n - 1 \in Nat /\ n = (n - 1) + 1 /\ i \in Nat
      BY <1>1
    <3>2. (n - i) * CMax \in Nat
      BY <3>1, ProductType
    <3>3. n + 1 - i = (n - i) + 1
      BY <3>1, <1>1
    <3>4. ((n - i) + 1) * CMax = (n - i) * CMax + CMax
      BY <3>1, SMT
    <3> QED
      BY <3>1, <3>2, <3>3, <3>4
  <2>2. /\ x \in Nat /\ cycle + FixedOverhead <= x
        /\ pending[i].done <= x /\ pending[i].done \in Nat
    BY <1>4, <1>6 DEF Later
  <2>3. port_free = pending[n].done /\ n \in 1 .. n
    BY <2>1, <1>10
  <2>4. port_free <= x + m
    <3>1. CASE i = n
      BY <3>1, <2>1, <2>2, <2>3
    <3>2. CASE i < n
      BY <3>2, <2>3, <1>4 DEF Scheduled, n
    <3> QED
      BY <3>1, <3>2, <1>1
  <2> HIDE DEF x, m
  <2>5. ServiceStart <= x + m
    BY <2>1, <2>2, <2>4, <1>4, <1>5
  <2>6. done <= x + m + CMax
    BY <2>1, <2>2, <2>5, <1>3, <1>5 DEF done
  <2> QED
    BY <2>1, <2>2, <2>6, <1>5 DEF x
<1>15. Scheduled'
  <2>1. /\ cycle' = cycle /\ cycle \in Nat /\ port_free' = done /\ done \in Nat
        /\ Len(pending') = n + 1 /\ n + 1 <= MaxOutstanding
    BY <1>1, <1>4, <1>5, <1>8
  <2>2. pending' # <<>> /\ port_free' = pending'[Len(pending')].done
    <3>1. Len(<<>>) = 0 /\ Len(pending') # 0
      BY <1>1, <1>8
    <3> QED
      BY <3>1, <2>1, <1>8, <1>9
  <2>3. ASSUME NEW i \in 1 .. n + 1
        PROVE  pending'[i].done <= cycle + FixedOverhead + i * CMax
    <3>1. CASE i = n + 1
      BY <3>1, <1>8, <1>9, <1>13
    <3>2. CASE i \in 1 .. n
      BY <3>2, <1>4, <1>8 DEF Scheduled, n
    <3> QED
      BY <3>1, <3>2, <1>0
  <2>4. ASSUME NEW i \in 1 .. n + 1, NEW j \in 1 .. n + 1, i < j
        PROVE  pending'[j].done <= Later(pending'[i].done) + (j - i) * CMax
    <3>1. i \in 1 .. n
      BY <2>4, <1>1
    <3>2. CASE j = n + 1
      <4>1. pending'[j].done = done /\ pending'[i] = pending[i]
        BY <3>1, <3>2, <1>8, <1>9
      <4>2. done <= Later(pending[i].done) + (n + 1 - i) * CMax
        BY <3>1, <1>14
      <4> QED
        BY <4>1, <4>2, <3>2, <1>0
    <3>3. CASE j \in 1 .. n
      BY <2>4, <3>1, <3>3, <1>4, <1>8 DEF Scheduled, n
    <3> QED
      BY <3>2, <3>3, <1>0
  <2> QED
    BY <2>1, <2>2, <2>3, <2>4 DEF Scheduled, Later
<1>16. WithinEnvelope'
  <2> DEFINE L == LDownMax(MaxOutstanding, b)
  <2>1. L \in Nat /\ FixedOverhead + (MaxOutstanding - 1) * CMax + b <= L
    BY <1>3, LDownMaxCovers
  <2>2. /\ n * CMax <= (MaxOutstanding - 1) * CMax
        /\ n * CMax \in Nat /\ (MaxOutstanding - 1) * CMax \in Nat
    <3>1. MaxOutstanding - 1 \in Nat /\ n <= MaxOutstanding - 1
      BY <1>1
    <3> QED
      BY <3>1, <1>1, MoreTransfers
  <2>3. done <= cycle + L
    <3> DEFINE p == n * CMax
               r == (MaxOutstanding - 1) * CMax
    <3>1. /\ FixedOverhead + r + b <= L /\ p <= r /\ p \in Nat /\ r \in Nat
          /\ done <= cycle + FixedOverhead + p + b
      BY <2>1, <2>2, <1>12
    <3> HIDE DEF p, r, L
    <3> QED
      BY <3>1, <2>1, <1>3, <1>4, <1>5
  <2>4. ASSUME NEW i \in 1 .. n + 1
        PROVE  pending'[i].done <= pending'[i].accept
                 + LDownMax(MaxOutstanding, Beats(pending'[i].desc.bytes))
    <3>1. CASE i = n + 1
      BY <3>1, <2>3, <1>8, <1>9 DEF b
    <3>2. CASE i \in 1 .. n
      BY <3>2, <1>8 DEF PortInv, WithinEnvelope, n
    <3> QED
      BY <3>1, <3>2, <1>0
  <2> QED
    BY <2>4, <1>8 DEF WithinEnvelope
<1>17. Queued(S)'
  BY <1>1, <1>2, <1>8 DEF Queued, Timed
<1> QED
  BY <1>15, <1>16, <1>17 DEF PortInv
---------------------------------------------------------------------------
(* Admission hands the data plane descriptors with the issue deadline it    *)
(* computed, in each of the four ways a page gets its frame                 *)
(* (model/gm/control_plane.py:199-270).                                     *)
LEMMA NewDescriptorTimed ==
  ASSUME cycle \in Nat, NEW q \in Requests, NEW s, NEW o, NEW earliest
  PROVE  Timed(NewDescriptor(q, s, o, earliest))
<1> DEFINE d == NewDescriptor(q, s, o, earliest)
           L == LDownMax(MaxOutstanding, Beats(q.bytes))
<1>1. q \in Request
  BY SimAssumption
<1>2. q.bytes \in 1 .. MaxBytes /\ q.tenant \in Tenants /\ q.headroom \in Nat
  BY <1>1 DEF Request
<1>3. L \in Nat
  BY <1>2, LDownMaxCovers
<1>4. /\ {"bytes", "tenant", "tclass", "slo", "issue"} \subseteq DOMAIN d
      /\ d.bytes = q.bytes /\ d.tenant = q.tenant
      /\ d.slo = Deadline(q) /\ d.issue = IssueDeadline(q)
  BY DEF NewDescriptor
<1>5. Deadline(q) = cycle + L + q.headroom /\ IssueDeadline(q) = Deadline(q) - L
  BY DEF Deadline, IssueDeadline
<1> HIDE DEF L
<1>6. Deadline(q) \in Int
  BY <1>2, <1>3, <1>5
<1> QED
  BY <1>2, <1>4, <1>5, <1>6 DEF Timed, L

LEMMA AdmitStep ==
  ASSUME PortInv, NEW q \in Requests, Admit(q)
  PROVE  PortInv'
<1>1. PICK s, o, earliest : Enqueue(NewDescriptor(q, s, o, earliest))
  BY DEF Admit, AdmitHit, AdmitFree, AdmitReclaim, AdmitDrain
<1>2. Timed(NewDescriptor(q, s, o, earliest))
  BY NewDescriptorTimed DEF PortInv, Scheduled
<1> QED
  BY <1>1, <1>2, EnqueueStep

(* Steps of the loop in which the data plane stands still. *)
LEMMA StillStep ==
  ASSUME PortInv, UNCHANGED <<cycle, dpvars>>
  PROVE  PortInv'
<1> PICK S : Queued(S)
  BY DEF PortInv
<1>1. Queued(S)'
  BY DEF Queued, Timed, dpvars
<1> QED
  BY <1>1, QuietStep DEF dpvars

LEMMA PortInvHolds == Spec => []PortInv
<1>1. Init => PortInv
  <2> SUFFICES ASSUME Init PROVE PortInv
    OBVIOUS
  <2>1. /\ cycle = 0 /\ port_free = 0 /\ ready_m = {} /\ ready_s = <<>>
        /\ dispatch_q = <<>> /\ pending = <<>>
    BY DEF Init, DpInit
  <2>2. Queued({})
    BY <2>1, EmptySeq DEF Queued
  <2>3. Len(pending) = 0
    BY <2>1
  <2> QED
    BY <2>1, <2>2, <2>3 DEF PortInv, Scheduled, WithinEnvelope
<1>2. PortInv /\ [Next]_vars => PortInv'
  <2> SUFFICES ASSUME PortInv, [Next]_vars PROVE PortInv'
    OBVIOUS
  <2>1. CASE SimComplete
    BY <2>1, CompleteStep DEF SimComplete
  <2>2. CASE SimCancel
    BY <2>2, CancelStep DEF SimCancel
  <2>3. CASE SimReplenish
    BY <2>3, ReplenishStep DEF SimReplenish
  <2>4. CASE SimRelease
    BY <2>4, StillStep DEF SimRelease
  <2>5. CASE SimDispatch
    BY <2>5, DispatchStep, StillStep DEF SimDispatch
  <2>6. ASSUME NEW q \in Requests, SimAdmit(q) PROVE PortInv'
    BY <2>6, AdmitStep DEF SimAdmit
  <2>7. ASSUME NEW q \in Requests, SimReject(q) PROVE PortInv'
    BY <2>7, StillStep DEF SimReject
  <2>8. CASE SimAccept
    BY <2>8, AcceptStep DEF SimAccept
  <2>9. CASE EndCycle
    BY <2>9, TickStep DEF EndCycle
  <2>10. CASE Finished
    BY <2>10, StillStep DEF Finished, vars
  <2>11. CASE UNCHANGED vars
    BY <2>11, StillStep DEF vars
  <2> QED
    BY <2>1, <2>2, <2>3, <2>4, <2>5, <2>6, <2>7, <2>8, <2>9, <2>10, <2>11
       DEF Next
<1> QED
  BY <1>1, <1>2, PTL DEF Spec

(* Under every policy, trace and envelope a transfer that is accepted by its*)
(* issue deadline completes by its SLO deadline                             *)
(* (model/gm/types.py:89-132, 221-222).                                     *)
THEOREM IssueDeadlineCorrect == Spec => []IssueDeadlineSuffices
BY PortInvHolds, EnvelopeSuffices, PTL
---------------------------------------------------------------------------
(* Credit is asked for at dispatch and charged at acceptance.  What a       *)
(* transfer at place j of the queue can still count on: its own bytes, less *)
(* a longest transfer for each place between j and the end of a full queue, *)
(* for as many may be charged to the same account before it.                *)
Room(j) == (QueueDepth - j) * MaxBytes

Covers(credit, d, j) == credit + Room(j) >= d.bytes

Covered ==
  \A j \in 1 .. Len(dispatch_q) :
    /\ Covers(deficit[dispatch_q[j].tenant], dispatch_q[j], j)
    /\ dispatch_q[j].tclass = "SPECULATIVE" =>
         Covers(spec_tokens, dispatch_q[j], j)

Accounts ==
  /\ deficit \in [Tenants -> Int] /\ spec_tokens \in Int
  /\ \A t \in Tenants : deficit[t] <= MaxDeficit /\ deficit[t] + Room(1) >= 0
  /\ spec_tokens <= SpecBurst /\ spec_tokens + Room(1) >= 0

CreditInv ==
  /\ Accounts /\ Covered
  /\ Len(dispatch_q) <= QueueDepth
  /\ \A d \in ready_m : d.tclass # "SPECULATIVE"

(* One place further to the front is worth one longest transfer. *)
LEMMA RoomGrows ==
  ASSUME NEW j \in Nat
  PROVE  /\ Room(j) \in Int /\ Room(j) = Room(j + 1) + MaxBytes
         /\ j <= QueueDepth => Room(j) >= 0
<1>1. QueueDepth - j \in Int /\ QueueDepth - j = (QueueDepth - (j + 1)) + 1
  OBVIOUS
<1>2. Room(j) \in Int
  BY <1>1, SMT DEF Room
<1>3. Room(j) = Room(j + 1) + MaxBytes
  <2>1. ASSUME NEW m \in Int PROVE (m + 1) * MaxBytes = m * MaxBytes + MaxBytes
    BY SMT
  <2> QED
    BY <1>1, <2>1 DEF Room
<1>4. j <= QueueDepth => Room(j) >= 0
  <2>1. j <= QueueDepth => QueueDepth - j \in Nat
    OBVIOUS
  <2> QED
    BY <2>1, ProductType DEF Room
<1> QED
  BY <1>2, <1>3, <1>4

(* The floor of the accounts is the room ahead of the queue's first place.  *)
LEMMA CreditSuffices == CreditInv => DebtIsBounded
<1> DEFINE floor == -(QueueDepth - 1) * MaxBytes
<1>1. floor = -Room(1) /\ Room(1) \in Int
  <2>1. QueueDepth - 1 \in Int /\ MaxBytes \in Int
    OBVIOUS
  <2>2. ASSUME NEW m \in Int PROVE (-m) * MaxBytes = -(m * MaxBytes)
    BY SMT
  <2> QED
    BY <2>1, <2>2, RoomGrows DEF Room
<1> HIDE DEF floor
<1>2. ASSUME CreditInv
      PROVE  (\A t \in Tenants : deficit[t] >= floor) /\ spec_tokens >= floor
  BY <1>1, <1>2 DEF CreditInv, Accounts
<1> QED
  BY <1>2 DEF DebtIsBounded, floor

(* A transfer leaves a queue: each of the others stays or moves up.         *)
LEMMA WithoutMovesUp ==
  ASSUME NEW S, NEW q \in Seq(S), NEW d
  PROVE  /\ Len(Without(q, d)) <= Len(q)
         /\ \A j \in 1 .. Len(Without(q, d)) :
              \/ j \in 1 .. Len(q) /\ Without(q, d)[j] = q[j]
              \/ j + 1 \in 1 .. Len(q) /\ Without(q, d)[j] = q[j + 1]
<1>1. CASE Without(q, d) = q
  BY <1>1
<1>2. ASSUME NEW k \in 1 .. Len(q), Without(q, d) = RemoveAt(q, k)
      PROVE  /\ Len(Without(q, d)) = Len(q) - 1
             /\ \A j \in 1 .. Len(q) - 1 :
                  \/ j \in 1 .. Len(q) /\ Without(q, d)[j] = q[j]
                  \/ j + 1 \in 1 .. Len(q) /\ Without(q, d)[j] = q[j + 1]
  <2>1. /\ Len(Without(q, d)) = Len(q) - 1
        /\ \A j \in 1 .. Len(q) - 1 :
             Without(q, d)[j] = IF j <= k - 1 THEN q[j] ELSE q[j + 1]
    BY <1>2, RemoveAtIs
  <2>2. ASSUME NEW j \in 1 .. Len(q) - 1
        PROVE  j \in 1 .. Len(q) /\ j + 1 \in 1 .. Len(q)
    OBVIOUS
  <2> QED
    BY <2>1, <2>2
<1> QED
  BY <1>1, <1>2, WithoutIs

(* A place nearer the front outweighs one charge. *)
LEMMA ChargedOnce ==
  ASSUME NEW credit \in Int, NEW d, d.bytes \in Nat, NEW j \in Nat,
         NEW charge \in 0 .. MaxBytes, Covers(credit, d, j + 1)
  PROVE  Covers(credit - charge, d, j)
BY RoomGrows DEF Covers

(* What the accounts need of a queued transfer. *)
LEMMA QueuedEntry ==
  ASSUME NEW S, Queued(S), NEW j \in 1 .. Len(dispatch_q)
  PROVE  /\ dispatch_q[j] \in S /\ Timed(dispatch_q[j])
         /\ dispatch_q[j].bytes \in Nat /\ dispatch_q[j].tenant \in Tenants
<1>1. dispatch_q[j] \in S
  BY ElementOfSeq DEF Queued
<1>2. Timed(dispatch_q[j])
  BY <1>1 DEF Queued
<1> QED
  BY <1>1, <1>2 DEF Timed

(* Steps that leave the accounts and the dispatch queue alone. *)
LEMMA CreditQuiet ==
  ASSUME CreditInv, UNCHANGED <<dispatch_q, deficit, spec_tokens>>,
         \A d \in ready_m' : d.tclass # "SPECULATIVE"
  PROVE  CreditInv'
BY DEF CreditInv, Accounts, Covered, Covers

LEMMA CreditEnqueue ==
  ASSUME CreditInv, NEW d, Enqueue(d)
  PROVE  CreditInv'
<1>1. \A e \in ready_m' : e.tclass # "SPECULATIVE"
  BY DEF Enqueue, CreditInv
<1> QED
  BY <1>1, CreditQuiet DEF Enqueue

(* replenish (model/gm/data_plane.py:81-91): an account below its cap only  *)
(* grows.                                                                   *)
LEMMA CreditReplenish ==
  ASSUME PortInv, CreditInv, Replenish
  PROVE  CreditInv'
<1> PICK S : Queued(S)
  BY DEF PortInv
<1>0. ASSUME NEW a \in Int, NEW b \in Int
      PROVE  Min({a, b}) = IF a <= b THEN a ELSE b
  BY <1>0 DEF Min
<1>1. Accounts /\ Room(1) \in Int
  BY RoomGrows DEF CreditInv
<1>2. /\ deficit' \in [Tenants -> Int]
      /\ \A t \in Tenants :
           deficit'[t] >= deficit[t] /\ deficit'[t] <= MaxDeficit
  <2>1. CASE cycle % ReplenishPeriod = 0
    <3>1. ASSUME NEW t \in Tenants
          PROVE  /\ Min({deficit[t] + Quantum, MaxDeficit}) \in Int
                 /\ Min({deficit[t] + Quantum, MaxDeficit}) >= deficit[t]
                 /\ Min({deficit[t] + Quantum, MaxDeficit}) <= MaxDeficit
      <4>1. deficit[t] \in Int /\ deficit[t] <= MaxDeficit
        BY <1>1 DEF Accounts
      <4> QED
        BY <4>1, <1>0
    <3>2. deficit' = [t \in Tenants |->
                        Min({deficit[t] + Quantum, MaxDeficit})]
      BY <2>1 DEF Replenish
    <3> QED
      BY <3>1, <3>2
  <2>2. CASE ~(cycle % ReplenishPeriod = 0)
    BY <2>2, <1>1 DEF Replenish, Accounts
  <2> QED
    BY <2>1, <2>2
<1>3. /\ spec_tokens' \in Int
      /\ spec_tokens' >= spec_tokens /\ spec_tokens' <= SpecBurst
  <2>1. spec_tokens \in Int /\ spec_tokens <= SpecBurst
    BY <1>1 DEF Accounts
  <2>2. spec_tokens' = Min({SpecBurst, spec_tokens + SpecRefill})
    BY DEF Replenish
  <2> QED
    BY <2>1, <2>2, <1>0
<1>4. UNCHANGED <<dispatch_q, ready_m>>
  BY DEF Replenish
<1>5. Accounts'
  <2>1. UNCHANGED Room(1)
    BY DEF Room
  <2>2. ASSUME NEW t \in Tenants PROVE deficit'[t] + Room(1) >= 0
    BY <1>1, <1>2 DEF Accounts
  <2>3. spec_tokens' + Room(1) >= 0
    BY <1>1, <1>3 DEF Accounts
  <2>4. \A t \in Tenants :
          deficit'[t] <= MaxDeficit /\ deficit'[t] + Room(1)' >= 0
    BY <1>2, <2>1, <2>2
  <2> QED
    BY <1>2, <1>3, <2>1, <2>3, <2>4 DEF Accounts
<1>6. ASSUME NEW j \in 1 .. Len(dispatch_q)
      PROVE  /\ Covers(deficit'[dispatch_q[j].tenant], dispatch_q[j], j)
             /\ dispatch_q[j].tclass = "SPECULATIVE" =>
                  Covers(spec_tokens', dispatch_q[j], j)
  <2>1. dispatch_q[j].bytes \in Nat /\ dispatch_q[j].tenant \in Tenants
    BY QueuedEntry
  <2>2. j \in Nat /\ Room(j) \in Int
    BY RoomGrows
  <2>3. /\ Covers(deficit[dispatch_q[j].tenant], dispatch_q[j], j)
        /\ dispatch_q[j].tclass = "SPECULATIVE" =>
             Covers(spec_tokens, dispatch_q[j], j)
    BY DEF CreditInv, Covered
  <2>4. /\ deficit[dispatch_q[j].tenant] \in Int
        /\ deficit'[dispatch_q[j].tenant] \in Int
        /\ deficit'[dispatch_q[j].tenant] >= deficit[dispatch_q[j].tenant]
        /\ spec_tokens \in Int
    BY <1>1, <1>2, <2>1 DEF Accounts
  <2>5. Covers(deficit'[dispatch_q[j].tenant], dispatch_q[j], j)
    BY <2>1, <2>2, <2>3, <2>4 DEF Covers
  <2>6. ASSUME dispatch_q[j].tclass = "SPECULATIVE"
        PROVE  Covers(spec_tokens', dispatch_q[j], j)
    BY <1>3, <2>1, <2>2, <2>3, <2>4, <2>6 DEF Covers
  <2> QED
    BY <2>5, <2>6
<1>7. Covered'
  BY <1>4, <1>6 DEF Covered, Covers, Room
<1> QED
  BY <1>4, <1>5, <1>7 DEF CreditInv

(* tick_dispatch (model/gm/data_plane.py:165-179): the newcomer takes the   *)
(* last place and its account holds its bytes.                              *)
LEMMA CreditDispatch ==
  ASSUME PortInv, CreditInv, NEW d, Dispatch(d)
  PROVE  CreditInv'
<1> PICK S : Queued(S)
  BY DEF PortInv
<1> DEFINE e == [d EXCEPT !.dispatch = cycle]
           n == Len(dispatch_q)
<1>1. d \in S /\ Timed(d)
  BY DEF Dispatch, Dispatchable, PickMandatory, PickSpeculative, Queued, ToSet
<1>2. n < QueueDepth /\ n \in Nat
  BY DEF Dispatch, Dispatchable, Queued
<1>3. /\ deficit[d.tenant] >= d.bytes
      /\ d.tclass = "SPECULATIVE" => spec_tokens >= d.bytes
  <2>1. CASE d \in PickMandatory
    BY <2>1 DEF PickMandatory, Affordable, CreditInv
  <2>2. CASE d \in PickSpeculative
    <3>1. d.bytes <= spec_tokens /\ deficit[d.tenant] >= d.bytes
      BY <2>2 DEF PickSpeculative, Affordable
    <3>2. d.bytes \in Int /\ spec_tokens \in Int
      BY <1>1 DEF Timed, CreditInv, Accounts
    <3> QED
      BY <3>1, <3>2
  <2> QED
    BY <2>1, <2>2 DEF Dispatch, Dispatchable
<1>4. e.bytes = d.bytes /\ e.tenant = d.tenant /\ e.tclass = d.tclass
  BY <1>1 DEF Timed
<1> HIDE DEF e
<1>5. /\ Len(dispatch_q') = n + 1 /\ dispatch_q'[n + 1] = e
      /\ \A j \in 1 .. n : dispatch_q'[j] = dispatch_q[j]
  <2>1. dispatch_q \in Seq(S \cup {e})
    BY SeqMonotonic DEF Queued
  <2>2. dispatch_q' = Append(dispatch_q, e)
    BY DEF Dispatch, e
  <2> QED
    BY <2>1, <2>2, AppendProperties
<1>6. UNCHANGED <<deficit, spec_tokens>> /\ ready_m' \subseteq ready_m
  BY DEF Dispatch
<1>7. Accounts'
  BY <1>6 DEF CreditInv, Accounts, Room
<1>8. ASSUME NEW j \in 1 .. n + 1
      PROVE  /\ Covers(deficit[dispatch_q'[j].tenant], dispatch_q'[j], j)
             /\ dispatch_q'[j].tclass = "SPECULATIVE" =>
                  Covers(spec_tokens, dispatch_q'[j], j)
  <2>1. CASE j \in 1 .. n
    BY <2>1, <1>5 DEF CreditInv, Covered
  <2>2. CASE j = n + 1
    <3>1. Room(j) \in Int /\ Room(j) >= 0
      BY <2>2, <1>2, RoomGrows
    <3>2. d.bytes \in Int /\ d.tenant \in Tenants
      BY <1>1 DEF Timed
    <3>3. deficit[d.tenant] \in Int /\ spec_tokens \in Int
      BY <3>2 DEF CreditInv, Accounts
    <3> QED
      BY <2>2, <3>1, <3>2, <3>3, <1>3, <1>4, <1>5 DEF Covers
  <2> QED
    BY <2>1, <2>2, <1>2
<1>9. Covered'
  BY <1>5, <1>6, <1>8 DEF Covered, Covers, Room
<1> QED
  BY <1>2, <1>5, <1>6, <1>7, <1>9 DEF CreditInv

(* cancel_stale_speculation (model/gm/data_plane.py:183-201): what is left  *)
(* moves up and nothing is charged.                                         *)
LEMMA CreditCancel ==
  ASSUME PortInv, CreditInv, NEW d, Cancel(d)
  PROVE  CreditInv'
<1> PICK S : Queued(S)
  BY DEF PortInv
<1> DEFINE n == Len(dispatch_q)
           w == Without(dispatch_q, d)
<1>1. /\ dispatch_q \in Seq(S) /\ dispatch_q' = w
      /\ UNCHANGED <<deficit, spec_tokens, ready_m>>
  BY DEF Cancel, Queued
<1>2. /\ Len(w) <= n
      /\ \A j \in 1 .. Len(w) : \/ j \in 1 .. n /\ w[j] = dispatch_q[j]
                                \/ j + 1 \in 1 .. n /\ w[j] = dispatch_q[j + 1]
  BY <1>1, WithoutMovesUp
<1>3. w \in Seq(S)
  BY <1>1, WithoutType
<1>4. Accounts'
  BY <1>1 DEF CreditInv, Accounts, Room
<1> HIDE DEF w
<1>5. ASSUME NEW j \in 1 .. Len(w)
      PROVE  /\ Covers(deficit[w[j].tenant], w[j], j)
             /\ w[j].tclass = "SPECULATIVE" => Covers(spec_tokens, w[j], j)
  <2>1. CASE j \in 1 .. n /\ w[j] = dispatch_q[j]
    BY <2>1 DEF CreditInv, Covered
  <2>2. CASE j + 1 \in 1 .. n /\ w[j] = dispatch_q[j + 1]
    <3>1. /\ Covers(deficit[w[j].tenant], w[j], j + 1)
          /\ w[j].tclass = "SPECULATIVE" => Covers(spec_tokens, w[j], j + 1)
      BY <2>2 DEF CreditInv, Covered
    <3>2. w[j].bytes \in Nat /\ w[j].tenant \in Tenants
      BY <2>2, QueuedEntry
    <3>3. /\ deficit[w[j].tenant] \in Int /\ spec_tokens \in Int
          /\ deficit[w[j].tenant] - 0 = deficit[w[j].tenant]
          /\ spec_tokens - 0 = spec_tokens
      BY <3>2 DEF CreditInv, Accounts
    <3>4. j \in Nat /\ 0 \in 0 .. MaxBytes
      OBVIOUS
    <3> QED
      BY <3>1, <3>2, <3>3, <3>4, ChargedOnce
  <2> QED
    BY <2>1, <2>2, <1>2
<1>6. Covered'
  BY <1>1, <1>5 DEF Covered, Covers, Room
<1>7. Len(w) \in Nat /\ n \in Nat
  BY <1>1, <1>3
<1> QED
  BY <1>1, <1>2, <1>4, <1>6, <1>7 DEF CreditInv

(* tick_accept (model/gm/data_plane.py:114-142): the head of the queue is   *)
(* charged and every other transfer moves up one place, which outweighs it. *)
LEMMA CreditAccept ==
  ASSUME PortInv, CreditInv, Accept
  PROVE  CreditInv'
<1> PICK S : Queued(S)
  BY DEF PortInv
<1> DEFINE n == Len(dispatch_q)
           d == dispatch_q[1]
<1>1. /\ dispatch_q \in Seq(S) /\ dispatch_q # <<>>
      /\ dispatch_q' = Tail(dispatch_q) /\ UNCHANGED ready_m
      /\ deficit' = [deficit EXCEPT ![d.tenant] = @ - d.bytes]
      /\ spec_tokens' = IF d.tclass = "SPECULATIVE"
                        THEN spec_tokens - d.bytes ELSE spec_tokens
  BY DEF Accept, Acceptable, Queued
<1>2. /\ n \in Nat \ {0} /\ Len(dispatch_q') = n - 1
      /\ \A j \in 1 .. n - 1 : dispatch_q'[j] = dispatch_q[j + 1]
  BY <1>1
<1>3. 1 \in 1 .. n
  BY <1>2
<1>4. /\ d.bytes \in 1 .. MaxBytes /\ d.tenant \in Tenants
      /\ d.bytes \in 0 .. MaxBytes /\ d.bytes \in Nat
  BY <1>3, QueuedEntry DEF Timed
<1>5. /\ Covers(deficit[d.tenant], d, 1)
      /\ d.tclass = "SPECULATIVE" => Covers(spec_tokens, d, 1)
  BY <1>3 DEF CreditInv, Covered
<1>6. /\ deficit \in [Tenants -> Int] /\ spec_tokens \in Int
      /\ Room(1) \in Int /\ MaxDeficit \in Int /\ SpecBurst \in Int
  BY RoomGrows DEF CreditInv, Accounts
<1> HIDE DEF d, n
<1>7. /\ deficit' \in [Tenants -> Int]
      /\ \A t \in Tenants :
           deficit'[t] = IF t = d.tenant THEN deficit[t] - d.bytes
                         ELSE deficit[t]
  BY <1>1, <1>4, <1>6
<1>8. Accounts'
  <2>1. ASSUME NEW t \in Tenants
        PROVE  deficit'[t] <= MaxDeficit /\ deficit'[t] + Room(1) >= 0
    <3>1. /\ deficit[t] <= MaxDeficit /\ deficit[t] + Room(1) >= 0
          /\ deficit[t] \in Int
      BY <1>6 DEF CreditInv, Accounts
    <3>2. t = d.tenant => deficit[t] + Room(1) >= d.bytes
      BY <1>5 DEF Covers
    <3> QED
      BY <3>1, <3>2, <1>4, <1>6, <1>7
  <2>2. /\ spec_tokens' \in Int /\ spec_tokens' <= SpecBurst
        /\ spec_tokens' + Room(1) >= 0
    <3>1. spec_tokens <= SpecBurst /\ spec_tokens + Room(1) >= 0
      BY DEF CreditInv, Accounts
    <3>2. CASE d.tclass = "SPECULATIVE"
      <4>1. /\ spec_tokens' = spec_tokens - d.bytes
            /\ spec_tokens + Room(1) >= d.bytes
        BY <3>2, <1>1, <1>5 DEF Covers
      <4> QED
        BY <4>1, <3>1, <1>4, <1>6
    <3>3. CASE d.tclass # "SPECULATIVE"
      BY <3>1, <3>3, <1>1, <1>6
    <3> QED
      BY <3>2, <3>3
  <2>3. Room(1)' = Room(1)
    BY DEF Room
  <2> QED
    BY <1>7, <2>1, <2>2, <2>3 DEF Accounts
<1>9. ASSUME NEW j \in 1 .. n - 1
      PROVE  /\ Covers(deficit'[dispatch_q'[j].tenant], dispatch_q'[j], j)
             /\ dispatch_q'[j].tclass = "SPECULATIVE" =>
                  Covers(spec_tokens', dispatch_q'[j], j)
  <2> DEFINE e == dispatch_q[j + 1]
  <2>1. j \in Nat /\ j + 1 \in 1 .. n /\ dispatch_q'[j] = e
    BY <1>2
  <2>2. e.bytes \in Nat /\ e.tenant \in Tenants
    BY <2>1, QueuedEntry DEF n
  <2>3. /\ Covers(deficit[e.tenant], e, j + 1)
        /\ e.tclass = "SPECULATIVE" => Covers(spec_tokens, e, j + 1)
    BY <2>1 DEF CreditInv, Covered, n
  <2>4. deficit[e.tenant] \in Int
    BY <2>2, <1>6
  <2> HIDE DEF e
  <2>5. /\ 0 \in 0 .. MaxBytes /\ deficit[e.tenant] - 0 = deficit[e.tenant]
        /\ spec_tokens - 0 = spec_tokens
    BY <2>4, <1>6
  <2>6. Covers(deficit'[e.tenant], e, j)
    <3>1. CASE e.tenant = d.tenant
      <4>1. Covers(deficit[e.tenant] - d.bytes, e, j)
        BY <2>1, <2>2, <2>3, <2>4, <1>4, ChargedOnce
      <4>2. deficit'[e.tenant] = deficit[e.tenant] - d.bytes
        BY <3>1, <2>2, <1>7
      <4> QED
        BY <4>1, <4>2
    <3>2. CASE e.tenant # d.tenant
      <4>1. Covers(deficit[e.tenant] - 0, e, j)
        BY <2>1, <2>2, <2>3, <2>4, <2>5, ChargedOnce
      <4>2. deficit'[e.tenant] = deficit[e.tenant]
        BY <3>2, <2>2, <1>7
      <4> QED
        BY <4>1, <4>2, <2>5
    <3> QED
      BY <3>1, <3>2
  <2>7. ASSUME e.tclass = "SPECULATIVE"
        PROVE  Covers(spec_tokens', e, j)
    <3>1. Covers(spec_tokens, e, j + 1)
      BY <2>3, <2>7
    <3>2. Covers(spec_tokens - d.bytes, e, j)
      BY <3>1, <2>1, <2>2, <1>4, <1>6, ChargedOnce
    <3>3. Covers(spec_tokens - 0, e, j)
      BY <3>1, <2>1, <2>2, <2>5, <1>6, ChargedOnce
    <3>4. CASE d.tclass = "SPECULATIVE"
      BY <3>2, <3>4, <1>1
    <3>5. CASE d.tclass # "SPECULATIVE"
      BY <3>3, <3>5, <2>5, <1>1
    <3> QED
      BY <3>4, <3>5
  <2> QED
    BY <2>1, <2>6, <2>7
<1>10. Covered'
  BY <1>2, <1>9 DEF Covered, Covers, Room
<1>11. Len(dispatch_q') <= QueueDepth
  BY <1>2 DEF CreditInv, n
<1> QED
  BY <1>1, <1>8, <1>10, <1>11 DEF CreditInv

LEMMA CreditInvHolds == Spec => []CreditInv
<1>1. Init => CreditInv
  <2> SUFFICES ASSUME Init PROVE CreditInv
    OBVIOUS
  <2>1. /\ deficit = [t \in Tenants |-> 0] /\ spec_tokens = SpecBurst
        /\ ready_m = {} /\ dispatch_q = <<>> /\ Len(dispatch_q) = 0
    BY DEF Init, DpInit
  <2>2. Room(1) \in Int /\ Room(1) >= 0
    BY RoomGrows
  <2> QED
    BY <2>1, <2>2 DEF CreditInv, Accounts, Covered
<1>2. PortInv /\ CreditInv /\ [Next]_vars => CreditInv'
  <2> SUFFICES ASSUME PortInv, CreditInv, [Next]_vars PROVE CreditInv'
    OBVIOUS
  <2>0. ASSUME UNCHANGED <<dispatch_q, deficit, spec_tokens, ready_m>>
        PROVE  CreditInv'
    BY <2>0, CreditQuiet DEF CreditInv
  <2>1. CASE SimComplete
    BY <2>1, <2>0 DEF SimComplete, Complete
  <2>2. CASE SimCancel
    BY <2>2, CreditCancel DEF SimCancel
  <2>3. CASE SimReplenish
    BY <2>3, CreditReplenish DEF SimReplenish
  <2>4. CASE SimRelease
    BY <2>4, <2>0 DEF SimRelease, dpvars
  <2>5. CASE SimDispatch
    BY <2>5, <2>0, CreditDispatch DEF SimDispatch, dpvars
  <2>6. ASSUME NEW q \in Requests, SimAdmit(q) PROVE CreditInv'
    <3>1. PICK d : Enqueue(d)
      BY <2>6 DEF SimAdmit, Admit, AdmitHit, AdmitFree, AdmitReclaim, AdmitDrain
    <3> QED
      BY <3>1, CreditEnqueue
  <2>7. ASSUME NEW q \in Requests, SimReject(q) PROVE CreditInv'
    BY <2>7, <2>0 DEF SimReject, dpvars
  <2>8. CASE SimAccept
    BY <2>8, CreditAccept DEF SimAccept
  <2>9. CASE EndCycle
    BY <2>9, <2>0 DEF EndCycle, Tick, dpvars
  <2>10. CASE Finished
    BY <2>10, <2>0 DEF Finished, vars, dpvars
  <2>11. CASE UNCHANGED vars
    BY <2>11, <2>0 DEF vars, dpvars
  <2> QED
    BY <2>1, <2>2, <2>3, <2>4, <2>5, <2>6, <2>7, <2>8, <2>9, <2>10, <2>11
       DEF Next
<1> QED
  BY <1>1, <1>2, PortInvHolds, PTL DEF Spec

(* A tenant's debt, and the speculative bucket's, stays below what the      *)
(* dispatch queue can hold besides one transfer, for every queue depth,     *)
(* transfer size and replenishment (model/gm/data_plane.py:132-138,         *)
(* 146-163).                                                                *)
THEOREM DebtCorrect == Spec => []DebtIsBounded
BY CreditInvHolds, CreditSuffices, PTL
---------------------------------------------------------------------------
(* The books.  The sizes are only used where they matter.                   *)
HIDE GmAssumption

(* Sets of numbers have a least element, and a greatest if bounded.         *)
LEMMA LeastNumber ==
  ASSUME NEW S, S \subseteq Nat, S # {}
  PROVE  Min(S) \in S /\ \A x \in S : Min(S) <= x
<1> DEFINE R == OpToRel(<, Nat)
<1>1. IsWellFoundedOn(R, Nat)
  BY NatLessThanWellFounded
<1>2. \E x \in S : \A y \in S : ~(<<y, x>> \in R)
  <2> HIDE DEF R
  <2> QED
    BY <1>1, WFMin
<1>3. PICK x \in S : \A y \in S : ~(<<y, x>> \in R)
  BY <1>2
<1>4. ASSUME NEW y \in S PROVE x <= y
  <2>1. <<y, x>> \in Nat \X Nat
    OBVIOUS
  <2>2. ~(y < x)
    BY <2>1, <1>3 DEF OpToRel
  <2> QED
    BY <2>2
<1> QED
  BY <1>4 DEF Min

(* A bounded set of numbers has a greatest element.                        *)
LEMMA GreatestNumber ==
  ASSUME NEW S, S \subseteq Nat, S # {}, NEW b \in Nat, \A x \in S : x <= b
  PROVE  Max(S) \in S /\ \A x \in S : x <= Max(S)
<1> DEFINE T == {n \in Nat : \A x \in S : x <= n}
           m == Min(T)
<1>1. T \subseteq Nat /\ b \in T
  OBVIOUS
<1>2. m \in T /\ \A n \in T : m <= n
  <2> HIDE DEF T
  <2> QED
    BY <1>1, LeastNumber
<1> HIDE DEF m
<1>3. m \in S
  <2> SUFFICES ASSUME m \notin S PROVE FALSE
    OBVIOUS
  <2>1. PICK x \in S : TRUE
    OBVIOUS
  <2>2. \A y \in S : y < m
    BY <1>2
  <2>3. m - 1 \in Nat
    BY <1>2, <2>1, <2>2
  <2>4. \A y \in S : y <= m - 1
    BY <1>2, <2>2
  <2>5. m - 1 \in T
    BY <2>3, <2>4
  <2> QED
    BY <1>2, <2>5
<1>4. \A x \in S : x <= m
  BY <1>2
<1> QED
  BY <1>3, <1>4 DEF Max
---------------------------------------------------------------------------
(* Sequences that hold nothing twice. *)
Distinct(q) == \A i, j \in 1 .. Len(q) : q[i] = q[j] => i = j

(* What a queue holds, as a set.                                           *)
LEMMA MembersOf ==
  ASSUME NEW S, NEW q \in Seq(S)
  PROVE  /\ ToSet(q) = {q[i] : i \in 1 .. Len(q)} /\ ToSet(q) \subseteq S
         /\ Len(q) \in Nat /\ (q = <<>> <=> Len(q) = 0)
         /\ (q = <<>> <=> ToSet(q) = {})
<1>1. DOMAIN q = 1 .. Len(q) /\ Len(q) \in Nat
  BY LenProperties
<1>2. \A i \in 1 .. Len(q) : q[i] \in S
  BY ElementOfSeq
<1>3. q = <<>> <=> Len(q) = 0
  BY EmptySeq
<1>4. ToSet(q) = {q[i] : i \in 1 .. Len(q)}
  BY <1>1 DEF ToSet
<1>5. ASSUME q # <<>> PROVE q[1] \in ToSet(q)
  <2>1. 1 \in 1 .. Len(q)
    BY <1>1, <1>3, <1>5
  <2> QED
    BY <1>4, <2>1
<1>6. ASSUME q = <<>> PROVE ToSet(q) = {}
  <2>1. 1 .. Len(q) = {}
    BY <1>3, <1>6
  <2> QED
    BY <1>4, <2>1
<1> QED
  BY <1>1, <1>2, <1>3, <1>4, <1>5, <1>6

(* A newcomer joins the back of a queue.                                   *)
LEMMA AppendDistinct ==
  ASSUME NEW S, NEW q \in Seq(S), NEW x \in S
  PROVE  /\ Append(q, x) \in Seq(S)
         /\ ToSet(Append(q, x)) = ToSet(q) \cup {x}
         /\ Distinct(q) /\ x \notin ToSet(q) => Distinct(Append(q, x))
<1> DEFINE a == Append(q, x)
           n == Len(q)
<1>1. /\ a \in Seq(S) /\ Len(a) = n + 1 /\ n \in Nat
      /\ \A i \in 1 .. n : a[i] = q[i]
      /\ a[n + 1] = x
  BY AppendProperties, LenProperties
<1> HIDE DEF a
<1>2. /\ ToSet(q) = {q[i] : i \in 1 .. n}
      /\ ToSet(a) = {a[i] : i \in 1 .. n + 1}
  <2>1. ToSet(q) = {q[i] : i \in 1 .. n}
    BY MembersOf
  <2>2. ToSet(a) = {a[i] : i \in 1 .. Len(a)}
    BY <1>1, MembersOf
  <2> QED
    BY <1>1, <2>1, <2>2
<1> HIDE DEF n
<1>3. \A i \in 1 .. n + 1 : i \in 1 .. n \/ i = n + 1
  BY <1>1
<1>4. 1 .. n \subseteq 1 .. n + 1 /\ n + 1 \in 1 .. n + 1
  BY <1>1
<1>5. ToSet(a) = ToSet(q) \cup {x}
  <2>1. \A y \in ToSet(a) : y \in ToSet(q) \cup {x}
    BY <1>1, <1>2, <1>3
  <2>2. \A y \in ToSet(q) : y \in ToSet(a)
    BY <1>1, <1>2, <1>4
  <2>3. x \in ToSet(a)
    BY <1>1, <1>2, <1>4
  <2> QED
    BY <2>1, <2>2, <2>3
<1>6. ASSUME Distinct(q), x \notin ToSet(q) PROVE Distinct(a)
  BY <1>1, <1>2, <1>3, <1>6 DEF Distinct, n, a
<1> QED
  BY <1>1, <1>5, <1>6 DEF a

(* The head of a queue leaves it.                                          *)
LEMMA TailDistinct ==
  ASSUME NEW S, NEW q \in Seq(S), q # <<>>
  PROVE  /\ Tail(q) \in Seq(S) /\ q[1] \in ToSet(q)
         /\ Distinct(q) => /\ Distinct(Tail(q))
                           /\ ToSet(Tail(q)) = ToSet(q) \ {q[1]}
<1> DEFINE t == Tail(q)
           n == Len(q)
<1>1. /\ t \in Seq(S) /\ n \in Nat \ {0} /\ Len(t) = n - 1
      /\ \A i \in 1 .. n - 1 : t[i] = q[i + 1]
  BY HeadTailProperties, EmptySeq
<1>2. /\ ToSet(q) = {q[i] : i \in 1 .. n}
      /\ ToSet(t) = {t[i] : i \in 1 .. n - 1}
  BY <1>1, MembersOf
<1> HIDE DEF t, n
<1>3. /\ \A i \in 1 .. n : i = 1 \/ i - 1 \in 1 .. n - 1
      /\ \A i \in 1 .. n - 1 : i + 1 \in 1 .. n /\ i + 1 # 1
      /\ 1 \in 1 .. n
  BY <1>1
<1>4. q[1] \in ToSet(q)
  BY <1>2, <1>3
<1>5. ASSUME Distinct(q) PROVE Distinct(t) /\ ToSet(t) = ToSet(q) \ {q[1]}
  <2>1. \A i, j \in 1 .. n : q[i] = q[j] => i = j
    BY <1>5 DEF Distinct, n
  <2>2. Distinct(t)
    <3> SUFFICES ASSUME NEW i \in 1 .. n - 1, NEW j \in 1 .. n - 1, t[i] = t[j]
                 PROVE  i = j
      BY <1>1 DEF Distinct
    <3>1. i + 1 = j + 1
      BY <1>1, <1>3, <2>1
    <3> QED
      BY <3>1, <1>1
  <2>3. ASSUME NEW y \in ToSet(t) PROVE y \in ToSet(q) /\ y # q[1]
    <3>1. PICK i \in 1 .. n - 1 : y = q[i + 1]
      BY <1>1, <1>2
    <3>2. i + 1 \in 1 .. n /\ i + 1 # 1
      BY <1>3
    <3> QED
      BY <3>1, <3>2, <1>2, <1>3, <2>1
  <2>4. ASSUME NEW y \in ToSet(q), y # q[1] PROVE y \in ToSet(t)
    <3>1. PICK i \in 1 .. n : y = q[i]
      BY <1>2
    <3>2. i - 1 \in 1 .. n - 1 /\ (i - 1) + 1 = i
      BY <3>1, <2>4, <1>3
    <3>3. t[i - 1] = y
      BY <3>1, <3>2, <1>1
    <3> QED
      BY <3>2, <3>3, <1>2
  <2> QED
    BY <2>2, <2>3, <2>4
<1> QED
  BY <1>1, <1>4, <1>5 DEF t

(* RemoveAt, and the queues' remove. *)
LEMMA RemoveAtDistinct ==
  ASSUME NEW S, NEW q \in Seq(S), NEW k \in 1 .. Len(q), Distinct(q)
  PROVE  /\ Distinct(RemoveAt(q, k))
         /\ ToSet(RemoveAt(q, k)) = ToSet(q) \ {q[k]}
<1> DEFINE n == Len(q)
           w == RemoveAt(q, k)
           Src(j) == IF j <= k - 1 THEN j ELSE j + 1
<1>1. n \in Nat /\ k \in 1 .. n
  BY LenProperties
<1>2. /\ w \in Seq(S) /\ Len(w) = n - 1
      /\ \A j \in 1 .. n - 1 : w[j] = IF j <= k - 1 THEN q[j] ELSE q[j + 1]
  BY RemoveAtIs
<1> HIDE DEF w, n
<1>3. ASSUME NEW j \in 1 .. n - 1
      PROVE  w[j] = q[Src(j)] /\ Src(j) \in 1 .. n /\ Src(j) # k
  BY <1>1, <1>2
<1>4. ASSUME NEW i \in 1 .. n, i # k
      PROVE  \E j \in 1 .. n - 1 : Src(j) = i
  <2>1. CASE i < k
    <3>1. i \in 1 .. n - 1 /\ Src(i) = i
      BY <2>1, <1>1
    <3> QED
      BY <3>1
  <2>2. CASE i > k
    <3>1. i - 1 \in 1 .. n - 1 /\ Src(i - 1) = i
      BY <2>2, <1>1
    <3> QED
      BY <3>1
  <2> QED
    BY <2>1, <2>2, <1>4, <1>1
<1>5. ASSUME NEW i \in 1 .. n - 1, NEW j \in 1 .. n - 1, Src(i) = Src(j)
      PROVE  i = j
  BY <1>5, <1>1
<1>6. ToSet(q) = {q[i] : i \in 1 .. n}
  BY MembersOf DEF n
<1>7. ToSet(w) = {w[i] : i \in 1 .. n - 1}
  BY <1>2, MembersOf
<1>8. \A i, j \in 1 .. n : q[i] = q[j] => i = j
  BY DEF Distinct, n
<1> HIDE DEF Src
<1>9. Distinct(w)
  <2> SUFFICES ASSUME NEW i \in 1 .. n - 1, NEW j \in 1 .. n - 1, w[i] = w[j]
               PROVE  i = j
    BY <1>2 DEF Distinct
  <2>1. q[Src(i)] = q[Src(j)] /\ Src(i) \in 1 .. n /\ Src(j) \in 1 .. n
    BY <1>3
  <2>2. Src(i) = Src(j)
    BY <2>1, <1>8
  <2> QED
    BY <2>2, <1>5
<1>10. ASSUME NEW y \in ToSet(w) PROVE y \in ToSet(q) \ {q[k]}
  <2>1. PICK j \in 1 .. n - 1 : y = w[j]
    BY <1>7
  <2> QED
    BY <2>1, <1>1, <1>3, <1>6, <1>8
<1>11. ASSUME NEW y \in ToSet(q) \ {q[k]} PROVE y \in ToSet(w)
  <2>1. PICK i \in 1 .. n : y = q[i] /\ i # k
    BY <1>6
  <2>2. PICK j \in 1 .. n - 1 : Src(j) = i
    BY <2>1, <1>4
  <2> QED
    BY <2>1, <2>2, <1>3, <1>7
<1> QED
  BY <1>9, <1>10, <1>11 DEF w

(* A cancelled descriptor leaves a queue (model/gm/data_plane.py:183-201). *)
LEMMA WithoutDistinct ==
  ASSUME NEW S, NEW q \in Seq(S), NEW d, Distinct(q)
  PROVE  /\ Without(q, d) \in Seq(S) /\ Distinct(Without(q, d))
         /\ ToSet(Without(q, d)) = ToSet(q) \ {d}
<1>1. CASE d \notin ToSet(q) /\ Without(q, d) = q
  BY <1>1
<1>2. CASE \E k \in 1 .. Len(q) : q[k] = d /\ Without(q, d) = RemoveAt(q, k)
  BY <1>2, RemoveAtDistinct, RemoveAtIs
<1> QED
  BY <1>1, <1>2, WithoutIs

(* A sequence without repetitions is as long as its set is large. *)
LEMMA DistinctLength ==
  ASSUME NEW S, NEW q \in Seq(S), Distinct(q)
  PROVE  IsFiniteSet(ToSet(q)) /\ Len(q) = Cardinality(ToSet(q))
<1>1. /\ ToSet(q) = {q[i] : i \in 1 .. Len(q)} /\ Len(q) \in Nat
      /\ DOMAIN q = 1 .. Len(q) /\ q \in [1 .. Len(q) -> S]
  BY MembersOf, LenProperties
<1>2. q \in Bijection(1 .. Len(q), ToSet(q))
  BY <1>1
     DEF Bijection, Injection, Surjection, IsInjective, Distinct
<1>3. ExistsBijection(1 .. Len(q), ToSet(q))
  BY <1>2 DEF ExistsBijection
<1>4. /\ IsFiniteSet(1 .. Len(q))
      /\ Cardinality(1 .. Len(q)) = Len(q)
  BY <1>1, FS_Interval
<1> QED
  BY <1>3, <1>4, FS_Bijection
---------------------------------------------------------------------------
(* How many descriptors of a set use slot s. *)
Uses(U, s) == Cardinality({d \in U : d.slot = s})

(* The number of descriptors that use a slot.                              *)
LEMMA UsesOfSet ==
  ASSUME NEW U, IsFiniteSet(U), NEW s
  PROVE  /\ IsFiniteSet({d \in U : d.slot = s}) /\ Uses(U, s) \in Nat
         /\ (Uses(U, s) = 0 <=> \A d \in U : d.slot # s)
<1> DEFINE V == {d \in U : d.slot = s}
<1>1. IsFiniteSet(V)
  <2>1. V \subseteq U
    OBVIOUS
  <2> QED
    BY <2>1, FS_Subset
<1>2. Cardinality(V) \in Nat /\ (Cardinality(V) = 0 <=> V = {})
  BY <1>1, FS_CardinalityType, FS_EmptySet
<1> QED
  BY <1>1, <1>2 DEF Uses

(* One descriptor more is one use more of its slot, and of no other.       *)
LEMMA UsesMore ==
  ASSUME NEW U, IsFiniteSet(U), NEW d, d \notin U, NEW s
  PROVE  /\ IsFiniteSet(U \cup {d})
         /\ Uses(U \cup {d}, s) = Uses(U, s) + (IF d.slot = s THEN 1 ELSE 0)
<1> DEFINE V == {e \in U : e.slot = s}
           W == {e \in U \cup {d} : e.slot = s}
<1>1. IsFiniteSet(U \cup {d})
  BY FS_AddElement
<1>2. IsFiniteSet(V) /\ Cardinality(V) \in Nat
  BY UsesOfSet DEF Uses
<1>0. Uses(U, s) = Cardinality(V) /\ Uses(U \cup {d}, s) = Cardinality(W)
  BY DEF Uses
<1>3. CASE d.slot = s
  <2>1. W = V \cup {d} /\ d \notin V
    BY <1>3
  <2>2. Cardinality(V \cup {d}) = Cardinality(V) + 1
    <3> HIDE DEF V
    <3> QED
      BY <1>2, <2>1, FS_AddElement
  <2> HIDE DEF V, W
  <2> QED
    BY <1>0, <1>1, <1>3, <2>1, <2>2
<1>4. CASE d.slot # s
  <2>1. W = V
    BY <1>4
  <2> HIDE DEF V, W
  <2> QED
    BY <1>0, <1>1, <1>2, <1>4, <2>1
<1> QED
  BY <1>3, <1>4

(* One descriptor less is one use less of its slot, and of no other.       *)
LEMMA UsesFewer ==
  ASSUME NEW U, IsFiniteSet(U), NEW d \in U, NEW s
  PROVE  /\ IsFiniteSet(U \ {d})
         /\ Uses(U \ {d}, s) = Uses(U, s) - (IF d.slot = s THEN 1 ELSE 0)
<1> DEFINE T == U \ {d}
<1>1. IsFiniteSet(T)
  BY FS_Subset
<1>2. T \cup {d} = U /\ d \notin T
  OBVIOUS
<1> HIDE DEF T
<1>3. Uses(T \cup {d}, s) = Uses(T, s) + (IF d.slot = s THEN 1 ELSE 0)
  BY <1>1, <1>2, UsesMore
<1>4. Uses(T, s) \in Nat
  BY <1>1, UsesOfSet
<1>5. Uses(U, s) = Uses(T, s) + (IF d.slot = s THEN 1 ELSE 0)
  BY <1>2, <1>3
<1>6. Uses(T, s) = Uses(U, s) - (IF d.slot = s THEN 1 ELSE 0)
  BY <1>4, <1>5
<1> QED
  BY <1>1, <1>6 DEF T
---------------------------------------------------------------------------
(* The descriptors of the pending transfers, in their order. *)
Descs(q) == [i \in 1 .. Len(q) |-> q[i].desc]

(* The descriptors of the transfers on the bus.                            *)
LEMMA DescsOf ==
  ASSUME NEW q \in Seq(Outstanding)
  PROVE  /\ Descs(q) \in Seq(Descriptor) /\ Len(Descs(q)) = Len(q)
         /\ \A i \in 1 .. Len(q) : Descs(q)[i] = q[i].desc
         /\ ToSet(Descs(q)) = {q[i].desc : i \in DOMAIN q}
<1>1. ASSUME NEW i \in 1 .. Len(q) PROVE q[i].desc \in Descriptor
  <2>1. q[i] \in Outstanding
    BY ElementOfSeq
  <2> QED
    BY <2>1 DEF Outstanding
<1>2. Len(q) \in Nat /\ DOMAIN q = 1 .. Len(q)
  BY LenProperties
<1>3. Descs(q) \in [1 .. Len(q) -> Descriptor]
  BY <1>1 DEF Descs
<1>4. Descs(q) \in Seq(Descriptor) /\ Len(Descs(q)) = Len(q)
  BY <1>2, <1>3
<1>5. \A i \in 1 .. Len(q) : Descs(q)[i] = q[i].desc
  BY DEF Descs
<1>6. ToSet(Descs(q)) = {q[i].desc : i \in DOMAIN q}
  <2>1. ToSet(Descs(q)) = {Descs(q)[i] : i \in 1 .. Len(q)}
    BY <1>4, MembersOf
  <2> QED
    BY <2>1, <1>2, <1>5
<1> QED
  BY <1>4, <1>5, <1>6

(* An accepted transfer goes last (model/gm/data_plane.py:146-163).        *)
LEMMA DescsAppend ==
  ASSUME NEW q \in Seq(Outstanding), NEW e \in Outstanding
  PROVE  Descs(Append(q, e)) = Append(Descs(q), e.desc)
<1> DEFINE a == Append(q, e)
           n == Len(q)
           b == Append(Descs(q), e.desc)
<1>1. /\ a \in Seq(Outstanding) /\ Len(a) = n + 1 /\ n \in Nat
      /\ \A i \in 1 .. n : a[i] = q[i]
      /\ a[n + 1] = e
  BY AppendProperties, LenProperties
<1>2. e.desc \in Descriptor
  BY DEF Outstanding
<1>3. /\ b \in Seq(Descriptor) /\ Len(b) = n + 1
      /\ \A i \in 1 .. n : b[i] = q[i].desc
      /\ b[n + 1] = e.desc
  BY <1>2, DescsOf, AppendProperties
<1> HIDE DEF a, n, b
<1>4. /\ Descs(a) \in Seq(Descriptor) /\ Len(Descs(a)) = n + 1
      /\ \A i \in 1 .. n + 1 : Descs(a)[i] = a[i].desc
  BY <1>1, DescsOf
<1>5. \A i \in 1 .. n + 1 : Descs(a)[i] = b[i]
  <2>1. \A i \in 1 .. n + 1 : i \in 1 .. n \/ i = n + 1
    BY <1>1
  <2> QED
    BY <2>1, <1>1, <1>3, <1>4
<1>6. Descs(a) = b
  BY <1>3, <1>4, <1>5, SeqEqual
<1> QED
  BY <1>6 DEF a, b

(* The first transfer to complete is the first that was accepted.          *)
LEMMA DescsTail ==
  ASSUME NEW q \in Seq(Outstanding), q # <<>>
  PROVE  /\ Descs(Tail(q)) = Tail(Descs(q)) /\ Descs(q) # <<>>
         /\ Descs(q)[1] = q[1].desc
<1> DEFINE t == Tail(q)
           n == Len(q)
           d == Descs(q)
<1>1. /\ t \in Seq(Outstanding) /\ n \in Nat \ {0} /\ Len(t) = n - 1
      /\ \A i \in 1 .. n - 1 : t[i] = q[i + 1]
  BY HeadTailProperties, EmptySeq
<1>2. /\ d \in Seq(Descriptor) /\ Len(d) = n
      /\ \A i \in 1 .. n : d[i] = q[i].desc
  BY DescsOf
<1> HIDE DEF t, n, d
<1>3. d # <<>> /\ 1 \in 1 .. n
  BY <1>1, <1>2, MembersOf
<1>4. /\ Tail(d) \in Seq(Descriptor) /\ Len(Tail(d)) = n - 1
      /\ \A i \in 1 .. n - 1 : Tail(d)[i] = d[i + 1]
  BY <1>2, <1>3, HeadTailProperties
<1>5. /\ Descs(t) \in Seq(Descriptor) /\ Len(Descs(t)) = n - 1
      /\ \A i \in 1 .. n - 1 : Descs(t)[i] = t[i].desc
  BY <1>1, DescsOf
<1>6. \A i \in 1 .. n - 1 : Descs(t)[i] = Tail(d)[i]
  <2>1. \A i \in 1 .. n - 1 : i + 1 \in 1 .. n
    BY <1>1
  <2> QED
    BY <2>1, <1>1, <1>2, <1>4, <1>5
<1>7. Descs(t) = Tail(d)
  BY <1>4, <1>5, <1>6, SeqEqual
<1>8. d[1] = q[1].desc
  BY <1>2, <1>3
<1> QED
  BY <1>3, <1>7, <1>8 DEF t, d

(* Transfers without repetitions count like the set of their descriptors. *)
LEMMA DescsCount ==
  ASSUME NEW q \in Seq(Outstanding), Distinct(Descs(q)), NEW s
  PROVE  Cardinality({i \in DOMAIN q : q[i].desc.slot = s})
           = Uses(ToSet(Descs(q)), s)
<1> DEFINE A == {i \in DOMAIN q : q[i].desc.slot = s}
           B == {d \in ToSet(Descs(q)) : d.slot = s}
           f == [i \in A |-> q[i].desc]
<1>1. /\ DOMAIN q = 1 .. Len(q) /\ Len(q) \in Nat
      /\ ToSet(Descs(q)) = {q[i].desc : i \in DOMAIN q}
      /\ \A i, j \in 1 .. Len(q) : q[i].desc = q[j].desc => i = j
  BY DescsOf, LenProperties DEF Distinct
<1>2. IsFiniteSet(A)
  <2>1. IsFiniteSet(1 .. Len(q))
    BY <1>1, FS_Interval
  <2>2. A \in SUBSET (1 .. Len(q))
    BY <1>1
  <2> HIDE DEF A
  <2> QED
    BY <2>1, <2>2, FS_Subset
<1>3. f \in [A -> B] /\ \A i, j \in A : f[i] = f[j] => i = j
  BY <1>1
<1>4. \A d \in B : \E i \in A : f[i] = d
  BY <1>1
<1> HIDE DEF A, B, f
<1>5. f \in Bijection(A, B)
  BY <1>3, <1>4 DEF Bijection, Injection, Surjection, IsInjective
<1>6. Cardinality(A) = Cardinality(B)
  BY <1>2, <1>5, FS_Bijection DEF ExistsBijection
<1> QED
  BY <1>6 DEF Uses, A, B
---------------------------------------------------------------------------
(* The data plane's queues hold each descriptor once, in one of them, and   *)
(* no two of one id; the free ids are the others                            *)
(* (model/gm/data_plane.py:55-110, model/gm/control_plane.py:199-270).      *)
OnBus == ToSet(Descs(pending))

QueueTypes ==
  /\ ready_m \subseteq Descriptor /\ IsFiniteSet(ready_m)
  /\ ready_s \in Seq(Descriptor) /\ dispatch_q \in Seq(Descriptor)
  /\ pending \in Seq(Outstanding) /\ free_desc \in Seq(DescIds)
  /\ \A d \in ready_m : d.tclass = "MANDATORY"

QueuesDisjoint ==
  /\ Distinct(ready_s) /\ Distinct(dispatch_q) /\ Distinct(Descs(pending))
  /\ ready_m \cap ToSet(ready_s) = {} /\ ready_m \cap ToSet(dispatch_q) = {}
  /\ ToSet(ready_s) \cap ToSet(dispatch_q) = {}
  /\ Unissued \cap OnBus = {}

(* The ids of a set of descriptors, and the free ones.                      *)
IdsOf(L, q) ==
  /\ Distinct(q)
  /\ \A d, e \in L : d.id = e.id => d = e
  /\ ToSet(q) = DescIds \ {d.id : d \in L}

QueueInv ==
  QueueTypes /\ QueuesDisjoint /\ IdsOf(Unissued \cup OnBus, free_desc)

(* A descriptor is not accepted yet, or on the bus.                        *)
LEMMA QueueFacts ==
  QueueInv => /\ Live = Unissued \cup OnBus /\ Live \subseteq Descriptor
              /\ IsFiniteSet(Unissued) /\ IsFiniteSet(OnBus)
              /\ Unissued \cap OnBus = {}
<1> SUFFICES ASSUME QueueInv
             PROVE  /\ Live = Unissued \cup OnBus /\ Live \subseteq Descriptor
                    /\ IsFiniteSet(Unissued) /\ IsFiniteSet(OnBus)
                    /\ Unissued \cap OnBus = {}
  OBVIOUS
<1>1. /\ ready_m \subseteq Descriptor /\ IsFiniteSet(ready_m)
      /\ ready_s \in Seq(Descriptor) /\ dispatch_q \in Seq(Descriptor)
      /\ pending \in Seq(Outstanding)
      /\ Distinct(ready_s) /\ Distinct(dispatch_q) /\ Distinct(Descs(pending))
      /\ Unissued \cap OnBus = {}
  BY DEF QueueInv, QueueTypes, QueuesDisjoint
<1>2. /\ Descs(pending) \in Seq(Descriptor)
      /\ OnBus = {pending[i].desc : i \in DOMAIN pending}
  BY <1>1, DescsOf DEF OnBus
<1>3. /\ ToSet(ready_s) \subseteq Descriptor /\ IsFiniteSet(ToSet(ready_s))
      /\ ToSet(dispatch_q) \subseteq Descriptor
      /\ IsFiniteSet(ToSet(dispatch_q))
      /\ OnBus \subseteq Descriptor /\ IsFiniteSet(OnBus)
  BY <1>1, <1>2, MembersOf, DistinctLength DEF OnBus
<1>4. IsFiniteSet(Unissued)
  BY <1>1, <1>3, FS_Union DEF Unissued
<1>5. Live = Unissued \cup OnBus
  BY <1>2 DEF Live, Unissued
<1> QED
  BY <1>1, <1>3, <1>4, <1>5 DEF Unissued

(* A descriptor takes the first free id, gives its own back, or is replaced *)
(* by a copy.                                                               *)
LEMMA IdTaken ==
  ASSUME NEW L, NEW q \in Seq(DescIds), IdsOf(L, q), q # <<>>,
         NEW d, d.id = q[1]
  PROVE  d \notin L /\ IdsOf(L \cup {d}, Tail(q)) /\ Tail(q) \in Seq(DescIds)
<1>1. /\ Distinct(Tail(q)) /\ ToSet(Tail(q)) = ToSet(q) \ {q[1]}
      /\ q[1] \in ToSet(q) /\ Tail(q) \in Seq(DescIds)
  BY TailDistinct DEF IdsOf
<1>2. \A e \in L : e.id # d.id
  BY <1>1 DEF IdsOf
<1>3. ToSet(Tail(q)) = DescIds \ {e.id : e \in L \cup {d}}
  BY <1>1 DEF IdsOf
<1>4. \A c, e \in L \cup {d} : c.id = e.id => c = e
  BY <1>2 DEF IdsOf
<1> QED
  BY <1>1, <1>2, <1>3, <1>4 DEF IdsOf

(* The id of a descriptor that ends is free again.                         *)
LEMMA IdReturned ==
  ASSUME NEW L, NEW q \in Seq(DescIds), IdsOf(L, q), NEW d \in L,
         d.id \in DescIds
  PROVE  /\ IdsOf(L \ {d}, Append(q, d.id))
         /\ Append(q, d.id) \in Seq(DescIds)
<1>1. d.id \notin ToSet(q)
  BY DEF IdsOf
<1>2. /\ Append(q, d.id) \in Seq(DescIds) /\ Distinct(Append(q, d.id))
      /\ ToSet(Append(q, d.id)) = ToSet(q) \cup {d.id}
  BY <1>1, AppendDistinct DEF IdsOf
<1>3. ToSet(Append(q, d.id)) = DescIds \ {e.id : e \in L \ {d}}
  <2>1. ASSUME NEW x \in DescIds \ {e.id : e \in L \ {d}}
        PROVE  x \in ToSet(Append(q, d.id))
    BY <1>2 DEF IdsOf
  <2>2. ASSUME NEW x \in ToSet(q) \cup {d.id}
        PROVE  x \in DescIds \ {e.id : e \in L \ {d}}
    BY DEF IdsOf
  <2> QED
    BY <1>2, <2>1, <2>2
<1> QED
  BY <1>2, <1>3 DEF IdsOf

(* A descriptor that is written anew keeps its id.                         *)
LEMMA IdKept ==
  ASSUME NEW L, NEW q \in Seq(DescIds), IdsOf(L, q), NEW d \in L,
         NEW e, e.id = d.id
  PROVE  e \notin L \ {d} /\ IdsOf((L \ {d}) \cup {e}, q)
<1>1. \A c \in L \ {d} : c.id # e.id
  BY DEF IdsOf
<1>2. {c.id : c \in (L \ {d}) \cup {e}} = {c.id : c \in L}
  OBVIOUS
<1>3. \A b, c \in (L \ {d}) \cup {e} : b.id = c.id => b = c
  BY <1>1 DEF IdsOf
<1> QED
  BY <1>1, <1>2, <1>3 DEF IdsOf
---------------------------------------------------------------------------
(* What a step does to the queues: as sets, a descriptor joins those not    *)
(* accepted, moves on the bus, or leaves.                                   *)
Joins(d) ==
  /\ QueueInv' /\ d \notin Unissued \cup OnBus
  /\ Unissued' = Unissued \cup {d} /\ OnBus' = OnBus

Renewed(d, e) ==
  /\ QueueInv' /\ d \in Unissued /\ e \notin Unissued \ {d}
  /\ Unissued' = (Unissued \ {d}) \cup {e} /\ OnBus' = OnBus

Dropped(d) ==
  /\ QueueInv' /\ d \in Unissued
  /\ Unissued' = Unissued \ {d} /\ OnBus' = OnBus

Boards(d) ==
  /\ QueueInv' /\ d \in Unissued
  /\ Unissued' = Unissued \ {d} /\ OnBus' = OnBus \cup {d}

Arrives(d) ==
  /\ QueueInv' /\ d \in OnBus
  /\ Unissued' = Unissued /\ OnBus' = OnBus \ {d}

Settled ==
  /\ QueueInv' /\ Unissued' = Unissued /\ OnBus' = OnBus

(* A step that touches no queue. *)
LEMMA SettledStep ==
  ASSUME QueueInv,
         UNCHANGED <<ready_m, ready_s, dispatch_q, pending, free_desc>>
  PROVE  Settled
<1>1. Unissued' = Unissued /\ OnBus' = OnBus
  BY DEF Unissued, OnBus
<1> QED
  BY <1>1 DEF Settled, QueueInv, QueueTypes, QueuesDisjoint

(* enqueue of a new descriptor (model/gm/data_plane.py:93-95,               *)
(* model/gm/control_plane.py:199-270).                                      *)
LEMMA JoinsStep ==
  ASSUME QueueInv, free_desc # <<>>, NEW d \in Descriptor,
         d.id = free_desc[1], Enqueue(d), free_desc' = Tail(free_desc)
  PROVE  Joins(d)
<1>1. /\ QueueTypes /\ QueuesDisjoint
      /\ IdsOf(Unissued \cup OnBus, free_desc)
  BY DEF QueueInv
<1>2. /\ d \notin Unissued \cup OnBus
      /\ IdsOf((Unissued \cup OnBus) \cup {d}, Tail(free_desc))
      /\ Tail(free_desc) \in Seq(DescIds)
  BY <1>1, IdTaken DEF QueueTypes
<1>3. UNCHANGED <<dispatch_q, pending>> /\ OnBus' = OnBus
  BY DEF Enqueue, OnBus
<1>4. /\ QueueTypes' /\ QueuesDisjoint'
      /\ Unissued' = Unissued \cup {d}
  <2>1. CASE d.tclass = "MANDATORY"
    <3>1. ready_m' = ready_m \cup {d} /\ ready_s' = ready_s
      BY <2>1 DEF Enqueue
    <3>2. IsFiniteSet(ready_m \cup {d})
      BY <1>1, FS_AddElement DEF QueueTypes
    <3>3. QueueTypes'
      BY <1>1, <1>2, <1>3, <2>1, <3>1, <3>2 DEF QueueTypes
    <3>4. Unissued' = Unissued \cup {d}
      BY <1>3, <3>1 DEF Unissued
    <3>5. QueuesDisjoint'
      BY <1>1, <1>2, <1>3, <3>1, <3>4 DEF QueuesDisjoint, Unissued
    <3> QED
      BY <3>3, <3>4, <3>5
  <2>2. CASE d.tclass # "MANDATORY"
    <3>1. ready_m' = ready_m /\ ready_s' = Append(ready_s, d)
      BY <2>2 DEF Enqueue
    <3>2. /\ ready_s' \in Seq(Descriptor) /\ Distinct(ready_s')
          /\ ToSet(ready_s') = ToSet(ready_s) \cup {d}
      BY <1>1, <1>2, <3>1, AppendDistinct
         DEF QueueTypes, QueuesDisjoint, Unissued
    <3>3. QueueTypes'
      BY <1>1, <1>2, <1>3, <3>1, <3>2 DEF QueueTypes
    <3>4. Unissued' = Unissued \cup {d}
      BY <1>3, <3>1, <3>2 DEF Unissued
    <3>5. QueuesDisjoint'
      BY <1>1, <1>2, <1>3, <3>1, <3>2, <3>4 DEF QueuesDisjoint, Unissued
    <3> QED
      BY <3>3, <3>4, <3>5
  <2> QED
    BY <2>1, <2>2
<1>5. Unissued' \cup OnBus' = (Unissued \cup OnBus) \cup {d}
  BY <1>3, <1>4
<1> QED
  BY <1>2, <1>3, <1>4, <1>5 DEF Joins, QueueInv

(* tick_dispatch (model/gm/data_plane.py:165-179). *)
LEMMA RenewedStep ==
  ASSUME QueueInv, cycle \in Nat, NEW d, Dispatch(d), UNCHANGED free_desc
  PROVE  Renewed(d, [d EXCEPT !.dispatch = cycle])
<1> DEFINE e == [d EXCEPT !.dispatch = cycle]
<1>1. /\ QueueTypes /\ QueuesDisjoint
      /\ IdsOf(Unissued \cup OnBus, free_desc)
  BY DEF QueueInv
<1>2. d \in ready_m \cup ToSet(ready_s)
  BY DEF Dispatch, Dispatchable, PickMandatory, PickSpeculative
<1>3. /\ d \in Descriptor /\ d \in Unissued /\ d \notin ToSet(dispatch_q)
  <2>1. ToSet(ready_s) \subseteq Descriptor
    BY <1>1, MembersOf DEF QueueTypes
  <2> QED
    BY <1>1, <1>2, <2>1 DEF QueueTypes, QueuesDisjoint, Unissued
<1>4. e \in Descriptor /\ e.id = d.id
  BY <1>3 DEF Descriptor
<1> HIDE DEF e
<1>5. /\ e \notin (Unissued \cup OnBus) \ {d}
      /\ IdsOf(((Unissued \cup OnBus) \ {d}) \cup {e}, free_desc)
  BY <1>1, <1>3, <1>4, IdKept DEF QueueTypes
<1>6. /\ ready_m' = ready_m \ {d} /\ ready_s' = Without(ready_s, d)
      /\ dispatch_q' = Append(dispatch_q, e)
      /\ UNCHANGED <<pending, free_desc>> /\ OnBus' = OnBus
  BY DEF Dispatch, OnBus, e
<1>7. /\ ready_s' \in Seq(Descriptor) /\ Distinct(ready_s')
      /\ ToSet(ready_s') = ToSet(ready_s) \ {d}
  BY <1>1, <1>6, WithoutDistinct DEF QueueTypes, QueuesDisjoint
<1>8. e \notin ToSet(dispatch_q)
  BY <1>3, <1>5 DEF Unissued
<1>9. /\ dispatch_q' \in Seq(Descriptor) /\ Distinct(dispatch_q')
      /\ ToSet(dispatch_q') = ToSet(dispatch_q) \cup {e}
  BY <1>1, <1>4, <1>6, <1>8, AppendDistinct DEF QueueTypes, QueuesDisjoint
<1>10. IsFiniteSet(ready_m \ {d})
  BY <1>1, FS_RemoveElement DEF QueueTypes
<1>11. QueueTypes'
  BY <1>1, <1>6, <1>7, <1>9, <1>10 DEF QueueTypes
<1>12. Unissued' = (Unissued \ {d}) \cup {e}
  BY <1>3, <1>6, <1>7, <1>9 DEF Unissued
<1>13. d \notin OnBus
  BY <1>1, <1>3 DEF QueuesDisjoint
<1>14. QueuesDisjoint'
  <2>1. e \notin OnBus
    BY <1>5, <1>13
  <2>2. e \notin ready_m \ {d} /\ e \notin ToSet(ready_s) \ {d}
    BY <1>5 DEF Unissued
  <2>3. /\ ready_m' \cap ToSet(ready_s') = {}
        /\ ready_m' \cap ToSet(dispatch_q') = {}
        /\ ToSet(ready_s') \cap ToSet(dispatch_q') = {}
    BY <1>1, <1>6, <1>7, <1>9, <2>2 DEF QueuesDisjoint
  <2>4. Unissued' \cap OnBus' = {}
    BY <1>1, <1>6, <1>12, <2>1 DEF QueuesDisjoint
  <2> QED
    BY <1>1, <1>6, <1>7, <1>9, <2>3, <2>4 DEF QueuesDisjoint
<1>15. Unissued' \cup OnBus' = ((Unissued \cup OnBus) \ {d}) \cup {e}
  BY <1>6, <1>12, <1>13
<1>16. Renewed(d, e)
  BY <1>3, <1>5, <1>6, <1>11, <1>12, <1>14, <1>15 DEF Renewed, QueueInv
<1> QED
  BY <1>16 DEF e

(* cancel_stale_speculation (model/gm/data_plane.py:183-201,                *)
(* model/gm/control_plane.py:332-347).                                      *)
LEMMA DroppedStep ==
  ASSUME QueueInv, NEW d, Cancel(d), free_desc' = Append(free_desc, d.id)
  PROVE  Dropped(d) /\ d.tclass = "SPECULATIVE"
<1>1. /\ QueueTypes /\ QueuesDisjoint
      /\ IdsOf(Unissued \cup OnBus, free_desc)
  BY DEF QueueInv
<1>2. d \in ToSet(ready_s) \cup ToSet(dispatch_q) /\ d.tclass = "SPECULATIVE"
  BY DEF Cancel, NextStale, FirstStale, Stale, ToSet
<1>3. d \in Descriptor /\ d \in Unissued /\ d \notin ready_m
  <2>1. ToSet(ready_s) \subseteq Descriptor
    BY <1>1, MembersOf DEF QueueTypes
  <2>2. ToSet(dispatch_q) \subseteq Descriptor
    BY <1>1, MembersOf DEF QueueTypes
  <2> QED
    BY <1>1, <1>2, <2>1, <2>2 DEF QueueTypes, Unissued
<1>4. d.id \in DescIds
  BY <1>3 DEF Descriptor
<1>5. /\ IdsOf((Unissued \cup OnBus) \ {d}, free_desc')
      /\ free_desc' \in Seq(DescIds)
  BY <1>1, <1>3, <1>4, IdReturned DEF QueueTypes
<1>6. /\ ready_s' = Without(ready_s, d) /\ dispatch_q' = Without(dispatch_q, d)
      /\ UNCHANGED <<ready_m, pending>> /\ OnBus' = OnBus
  BY DEF Cancel, OnBus
<1>7. /\ ready_s' \in Seq(Descriptor) /\ Distinct(ready_s')
      /\ ToSet(ready_s') = ToSet(ready_s) \ {d}
  BY <1>1, <1>6, WithoutDistinct DEF QueueTypes, QueuesDisjoint
<1>8. /\ dispatch_q' \in Seq(Descriptor) /\ Distinct(dispatch_q')
      /\ ToSet(dispatch_q') = ToSet(dispatch_q) \ {d}
  BY <1>1, <1>6, WithoutDistinct DEF QueueTypes, QueuesDisjoint
<1>9. QueueTypes'
  BY <1>1, <1>5, <1>6, <1>7, <1>8 DEF QueueTypes
<1>10. Unissued' = Unissued \ {d}
  BY <1>3, <1>6, <1>7, <1>8 DEF Unissued
<1>11. QueuesDisjoint'
  BY <1>1, <1>6, <1>7, <1>8, <1>10 DEF QueuesDisjoint
<1>12. Unissued' \cup OnBus' = (Unissued \cup OnBus) \ {d}
  BY <1>1, <1>3, <1>6, <1>10 DEF QueuesDisjoint
<1> QED
  BY <1>2, <1>3, <1>5, <1>6, <1>9, <1>10, <1>11, <1>12 DEF Dropped, QueueInv

(* tick_accept: the head of the dispatch queue goes on the bus              *)
(* (model/gm/data_plane.py:114-142).                                        *)
LEMMA BoardsStep ==
  ASSUME QueueInv, cycle \in Nat, port_free \in Nat, Accept,
         UNCHANGED free_desc
  PROVE  Boards(dispatch_q[1])
<1> DEFINE d == dispatch_q[1]
           done == ServiceStart + Beats(d.bytes)
           job == [desc |-> d, accept |-> cycle, done |-> done]
<1>1. /\ QueueTypes /\ QueuesDisjoint
      /\ IdsOf(Unissued \cup OnBus, free_desc)
  BY DEF QueueInv
<1>2. /\ dispatch_q # <<>> /\ dispatch_q' = Tail(dispatch_q)
      /\ pending' = Append(pending, job)
      /\ UNCHANGED <<ready_m, ready_s>>
  BY DEF Accept, Acceptable
<1>3. /\ dispatch_q' \in Seq(Descriptor) /\ Distinct(dispatch_q')
      /\ ToSet(dispatch_q') = ToSet(dispatch_q) \ {d}
      /\ d \in ToSet(dispatch_q)
  BY <1>1, <1>2, TailDistinct DEF QueueTypes, QueuesDisjoint
<1>4. d \in Descriptor /\ d \in Unissued /\ d \notin OnBus
      /\ d \notin ready_m /\ d \notin ToSet(ready_s)
  <2>1. ToSet(dispatch_q) \subseteq Descriptor
    BY <1>1, MembersOf DEF QueueTypes
  <2> QED
    BY <1>1, <1>3, <2>1 DEF QueuesDisjoint, Unissued
<1>5. done \in Nat
  <2>1. d.bytes \in 1 .. MaxBytes
    BY <1>4 DEF Descriptor
  <2>2. Beats(d.bytes) \in Nat
    BY <2>1, GmAssumption
  <2>3. ServiceStart \in Nat
    <3>1. cycle + FixedOverhead \in Nat
      BY GmAssumption
    <3> QED
      BY <3>1, MaxOfTwo DEF ServiceStart
  <2> QED
    BY <2>2, <2>3
<1> HIDE DEF done
<1>6. job \in Outstanding /\ job.desc = d
  BY <1>4, <1>5 DEF Outstanding
<1> HIDE DEF job
<1>7. /\ pending' \in Seq(Outstanding)
      /\ Descs(pending') = Append(Descs(pending), d)
  BY <1>1, <1>2, <1>6, DescsAppend, AppendProperties DEF QueueTypes
<1>8. Descs(pending) \in Seq(Descriptor)
  BY <1>1, DescsOf DEF QueueTypes
<1>9. Distinct(Descs(pending')) /\ ToSet(Descs(pending')) = OnBus \cup {d}
  BY <1>1, <1>4, <1>7, <1>8, AppendDistinct DEF QueuesDisjoint, OnBus
<1>10. OnBus' = OnBus \cup {d}
  BY <1>9 DEF OnBus, Descs
<1>11. Unissued' = Unissued \ {d}
  BY <1>2, <1>3, <1>4 DEF Unissued
<1>12. QueueTypes'
  BY <1>1, <1>2, <1>3, <1>7 DEF QueueTypes
<1>13. QueuesDisjoint'
  <2>1. Distinct(Descs(pending))'
    BY <1>9 DEF Descs
  <2> QED
    BY <1>1, <1>2, <1>3, <1>4, <1>10, <1>11, <2>1 DEF QueuesDisjoint
<1>14. Unissued' \cup OnBus' = Unissued \cup OnBus
  BY <1>4, <1>10, <1>11
<1> QED
  BY <1>1, <1>4, <1>10, <1>11, <1>12, <1>13, <1>14 DEF Boards, QueueInv

(* tick_complete: the transfer whose turn it is leaves the bus              *)
(* (model/gm/data_plane.py:99-110, model/gm/control_plane.py:311-330).      *)
LEMMA ArrivesStep ==
  ASSUME QueueInv, Complete,
         free_desc' = Append(free_desc, pending[1].desc.id)
  PROVE  Arrives(pending[1].desc)
<1> DEFINE d == pending[1].desc
<1>1. /\ QueueTypes /\ QueuesDisjoint
      /\ IdsOf(Unissued \cup OnBus, free_desc)
  BY DEF QueueInv
<1>2. /\ pending # <<>> /\ pending' = Tail(pending)
      /\ UNCHANGED <<ready_m, ready_s, dispatch_q>>
  BY DEF Complete, Due
<1>3. /\ Descs(pending) \in Seq(Descriptor) /\ Descs(pending) # <<>>
      /\ Descs(pending)[1] = d /\ Descs(pending') = Tail(Descs(pending))
      /\ pending' \in Seq(Outstanding)
  BY <1>1, <1>2, DescsOf, DescsTail, HeadTailProperties DEF QueueTypes
<1>4. /\ Distinct(Descs(pending')) /\ d \in OnBus
      /\ ToSet(Descs(pending')) = OnBus \ {d}
  BY <1>1, <1>3, TailDistinct DEF QueuesDisjoint, OnBus
<1>5. OnBus' = OnBus \ {d}
  BY <1>4 DEF OnBus, Descs
<1>6. d \in Descriptor
  BY <1>3, <1>4, MembersOf DEF OnBus
<1>7. d.id \in DescIds
  BY <1>6 DEF Descriptor
<1>8. /\ IdsOf((Unissued \cup OnBus) \ {d}, free_desc')
      /\ free_desc' \in Seq(DescIds)
  BY <1>1, <1>4, <1>7, IdReturned DEF QueueTypes
<1>9. Unissued' = Unissued
  BY <1>2 DEF Unissued
<1>10. QueueTypes'
  BY <1>1, <1>2, <1>3, <1>8 DEF QueueTypes
<1>11. QueuesDisjoint'
  <2>1. Distinct(Descs(pending))'
    BY <1>4 DEF Descs
  <2> QED
    BY <1>1, <1>2, <1>5, <1>9, <2>1 DEF QueuesDisjoint
<1>12. Unissued' \cup OnBus' = (Unissued \cup OnBus) \ {d}
  BY <1>1, <1>4, <1>5, <1>9 DEF QueuesDisjoint
<1> QED
  BY <1>4, <1>5, <1>8, <1>9, <1>10, <1>11, <1>12 DEF Arrives, QueueInv
---------------------------------------------------------------------------
(* The control plane's tables.                                              *)
Used == {s \in Slots : lifecycle_ram[s] # NoObject}
Table == ToSet(by_phys)

(* Some request fetches page p speculatively. *)
SpecPage(p) == \E q \in Requests : q.tclass = "SPECULATIVE" /\ q.page = p

FrameTypes ==
  /\ lifecycle_ram \in [Slots -> Object \cup {NoObject}]
  /\ \A s \in Used : lifecycle_ram[s].fill_pending <= 1
  /\ free_slots \in Seq(Slots) /\ free_frames \in Seq(Frames)
  /\ by_phys \in Seq(Slots)
  /\ objects \in [Pages -> Slots \cup {NoSlot}]
  /\ pending_swap \in [Frames -> Slots \cup {NoSlot}]
  /\ births \in Nat
  /\ Distinct(by_phys) /\ Distinct(free_slots) /\ Distinct(free_frames)

(* Every object is published or promised, and the other slots are free      *)
(* (model/gm/control_plane.py:107-125).                                     *)
SlotBooks ==
  /\ ToSet(free_slots) = Slots \ Used
  /\ Used = Table \cup Promised /\ Table \cap Promised = {}

(* A frame is free or has one published object                              *)
(* (model/gm/control_plane.py:129-143).                                     *)
FrameBooked ==
  /\ \A s, r \in Table :
       lifecycle_ram[s].phys = lifecycle_ram[r].phys => s = r
  /\ \A f \in Frames : f \in ToSet(free_frames)
                         <=> \A s \in Table : lifecycle_ram[s].phys # f

PromiseKept ==
  \A f \in Frames : pending_swap[f] # NoSlot =>
    /\ lifecycle_ram[pending_swap[f]].phys = f
    /\ lifecycle_ram[pending_swap[f]].state # "EVICTING"
    /\ f \notin ToSet(free_frames)

(* A published object is on its way out exactly if its frame is promised.   *)
(* Something that ends with a completion then still holds the frame: it is  *)
(* the last completion that hands the frame over                            *)
(* (model/gm/control_plane.py:352-364).                                     *)
HeldBack(o) ==
  /\ o.logical_refcount = 0
  /\ o.inflight > 0 \/ (o.reservation > 0 /\ ~SpecPage(o.page))

Leaving ==
  \A s \in Table :
    /\ lifecycle_ram[s].state = "EVICTING"
         <=> pending_swap[lifecycle_ram[s].phys] # NoSlot
    /\ lifecycle_ram[s].state = "EVICTING" => HeldBack(lifecycle_ram[s])

PagesKnown ==
  \A p \in Pages : objects[p] # NoSlot =>
    /\ objects[p] \in Used /\ lifecycle_ram[objects[p]].page = p
    /\ lifecycle_ram[objects[p]].state # "EVICTING"

FrameInv ==
  /\ FrameTypes /\ SlotBooks /\ FrameBooked /\ PromiseKept
  /\ Leaving /\ PagesKnown

(* The handles resolve and the counts are the descriptors                   *)
(* (model/gm/control_plane.py:3-14, 282-309).                               *)
Handled(d) ==
  /\ d.slot \in Used /\ lifecycle_ram[d.slot].phys = d.phys
  /\ lifecycle_ram[d.slot].generation = d.generation
  /\ lifecycle_ram[d.slot].birth = d.owner

Handles == \A d \in Unissued \cup OnBus : Handled(d)

Counted ==
  \A s \in Used :
    /\ lifecycle_ram[s].reservation = Uses(Unissued, s)
    /\ lifecycle_ram[s].inflight = Uses(OnBus, s)

(* A speculative fetch has its page to itself. *)
Alone(o) ==
  SpecPage(o.page) =>
    /\ o.reservation + o.inflight <= 1
    /\ \A q \in to_come : q.page # o.page

Speculation ==
  /\ to_come \subseteq Requests
  /\ \A d \in Unissued :
       d.tclass = "SPECULATIVE" => SpecPage(lifecycle_ram[d.slot].page)
  /\ \A s \in Used : Alone(lifecycle_ram[s])

DescInv == Handles /\ Counted /\ Speculation

BooksInv ==
  /\ QueueInv /\ FrameInv /\ DescInv /\ escaped = "none"
  /\ \A h \in holds : h[1] \in Requests
---------------------------------------------------------------------------
(* The object of a used slot. *)
LEMMA ObjectOf ==
  ASSUME FrameTypes, NEW s \in Used
  PROVE  /\ s \in Slots /\ lifecycle_ram[s] \in Object
         /\ lifecycle_ram[s].page \in Pages
         /\ lifecycle_ram[s].phys \in Frames
         /\ lifecycle_ram[s].generation \in 0 .. GenMod - 1
         /\ lifecycle_ram[s].logical_refcount \in Nat
         /\ lifecycle_ram[s].reservation \in Nat
         /\ lifecycle_ram[s].inflight \in Nat
         /\ lifecycle_ram[s].fill_pending \in {0, 1}
         /\ lifecycle_ram[s].state \in ObjStates
         /\ lifecycle_ram[s].birth \in Nat
<1>1. s \in Slots /\ lifecycle_ram[s] \in Object
  BY DEF FrameTypes, Used
<1>2. lifecycle_ram[s].fill_pending \in Nat
  BY <1>1 DEF Object
<1>3. lifecycle_ram[s].fill_pending <= 1
  BY DEF FrameTypes
<1> QED
  BY <1>1, <1>2, <1>3 DEF Object

(* A new object, and its descriptor (model/gm/control_plane.py:199-270).    *)
LEMMA NewObjectIs ==
  ASSUME NEW q \in Requests, NEW f \in Frames, NEW g \in 0 .. GenMod - 1,
         births \in Nat
  PROVE  LET o == NewObject(q, f, g) IN
         /\ o \in Object /\ o.page = q.page /\ o.phys = f /\ o.generation = g
         /\ o.reservation = 1 /\ o.inflight = 0 /\ o.fill_pending = 1
         /\ o.state = "ALLOCATED_EMPTY" /\ o.birth = births
         /\ o # NoObject
<1> DEFINE o == NewObject(q, f, g)
<1>1. q.page \in Pages
  BY SimAssumption DEF Request
<1> DEFINE New(refs, rsv) ==
             [page |-> q.page, phys |-> f, generation |-> g,
              logical_refcount |-> refs, reservation |-> rsv, inflight |-> 0,
              fill_pending |-> 1, state |-> "ALLOCATED_EMPTY",
              birth |-> births]
<1>2. EvAdmit(New(0, 0)) = New(0, 1)
  BY DEF EvAdmit
<1>3. EvAcquire(New(0, 1)) = New(1, 1)
  BY DEF EvAcquire
<1>4. o = IF q.held THEN New(1, 1) ELSE New(0, 1)
  <2>1. o = Admitted(q, New(0, 0))
    BY DEF NewObject
  <2> HIDE DEF New, o
  <2> QED
    BY <1>2, <1>3, <2>1 DEF Admitted
<1> HIDE DEF o
<1>5. ASSUME NEW r \in Nat
      PROVE  New(r, 1) \in Object /\ New(r, 1) # NoObject
  <2>1. New(r, 1) \in Object
    BY <1>1 DEF Object, ObjStates
  <2> HIDE DEF New
  <2> QED
    BY <2>1, NoObjectAssumption
<1>6. o \in Object /\ o # NoObject
  BY <1>4, <1>5
<1>7. /\ o.page = q.page /\ o.phys = f /\ o.generation = g
      /\ o.reservation = 1 /\ o.inflight = 0 /\ o.fill_pending = 1
      /\ o.state = "ALLOCATED_EMPTY" /\ o.birth = births
  BY <1>4
<1> QED
  BY <1>6, <1>7 DEF o

(* What admission writes into a descriptor                                 *)
(* (model/gm/control_plane.py:253-270).                                    *)
LEMMA NewDescriptorIs ==
  ASSUME NEW q \in Requests, NEW s \in Slots, NEW o, o.phys \in Frames,
         o.generation \in 0 .. GenMod - 1, o.birth \in Nat,
         cycle \in Nat, NEW w \in Nat,
         free_desc \in Seq(DescIds), free_desc # <<>>
  PROVE  LET d == NewDescriptor(q, s, o, w) IN
         /\ d \in Descriptor /\ d.id = free_desc[1] /\ d.slot = s
         /\ d.phys = o.phys /\ d.generation = o.generation
         /\ d.owner = o.birth /\ d.tclass = q.tclass
<1> DEFINE d == NewDescriptor(q, s, o, w)
<1>1. /\ q.tenant \in Tenants /\ q.tclass \in Classes
      /\ q.bytes \in 1 .. MaxBytes /\ q.headroom \in Nat
  BY SimAssumption DEF Request
<1>2. free_desc[1] \in DescIds
  BY TailDistinct, MembersOf
<1>3. LDownMax(MaxOutstanding, Beats(q.bytes)) \in Nat
  <2>1. Beats(q.bytes) \in 1 .. CMax /\ CMax \in Nat
    BY <1>1, GmAssumption
  <2>2. Beats(q.bytes) \in Nat
    BY <2>1
  <2> QED
    BY <2>2, LDownMaxCovers
<1>4. Deadline(q) \in Int /\ IssueDeadline(q) \in Int
  BY <1>1, <1>3 DEF Deadline, IssueDeadline
<1>5. d \in Descriptor
  BY <1>1, <1>2, <1>4 DEF NewDescriptor, Descriptor
<1>6. /\ d.id = free_desc[1] /\ d.slot = s
      /\ d.phys = o.phys /\ d.generation = o.generation
      /\ d.owner = o.birth /\ d.tclass = q.tclass
  BY DEF NewDescriptor
<1> QED
  BY <1>5, <1>6
---------------------------------------------------------------------------
(* One object changes, in its counts and in a state that is not EVICTING.   *)
Becomes(s, o) ==
  lifecycle_ram' = [r \in Slots |-> IF r = s THEN o ELSE lifecycle_ram[r]]

StillFramed(old, o) ==
  /\ o \in Object /\ o.page = old.page /\ o.phys = old.phys
  /\ o.generation = old.generation /\ o.birth = old.birth
  /\ o.fill_pending <= 1
  /\ o.state = "EVICTING" <=> old.state = "EVICTING"
  /\ o.state = "EVICTING" => HeldBack(o)

FrameTables ==
  <<free_slots, free_frames, objects, by_phys, pending_swap, births>>

(* A step that changes one object and no table keeps the books.            *)
LEMMA ObjectMoves ==
  ASSUME FrameInv, NEW s \in Used, NEW o, StillFramed(lifecycle_ram[s], o),
         Becomes(s, o), UNCHANGED FrameTables
  PROVE  FrameInv' /\ Used' = Used
<1>1. /\ FrameTypes /\ SlotBooks /\ FrameBooked /\ PromiseKept
      /\ Leaving /\ PagesKnown
  BY DEF FrameInv
<1>2. /\ s \in Slots /\ lifecycle_ram[s] # NoObject /\ o # NoObject
      /\ o \in Object
  BY NoObjectAssumption DEF Used, StillFramed
<1>3. /\ \A r \in Slots :
           lifecycle_ram'[r] = IF r = s THEN o ELSE lifecycle_ram[r]
      /\ UNCHANGED <<free_slots, free_frames, objects, by_phys, pending_swap,
                     births>>
      /\ Table' = Table /\ Promised' = Promised
  BY DEF Becomes, FrameTables, Table, Promised
<1>4. Used' = Used
  BY <1>2, <1>3 DEF Used
<1>5. \A r \in Used : r \in Slots /\ lifecycle_ram[r] \in Object
  BY <1>1, ObjectOf
<1>6. \A r \in Used :
        /\ lifecycle_ram'[r].page = lifecycle_ram[r].page
        /\ lifecycle_ram'[r].phys = lifecycle_ram[r].phys
        /\ lifecycle_ram'[r].state = "EVICTING"
             <=> lifecycle_ram[r].state = "EVICTING"
  BY <1>3, <1>5 DEF StillFramed
<1>7. /\ Table \subseteq Used
      /\ \A f \in Frames : pending_swap[f] # NoSlot => pending_swap[f] \in Used
  BY <1>1 DEF SlotBooks, Promised
<1>8. FrameTypes'
  <2>1. lifecycle_ram' \in [Slots -> Object \cup {NoObject}]
    BY <1>1, <1>2 DEF FrameTypes, Becomes
  <2>2. \A r \in Used : lifecycle_ram'[r].fill_pending <= 1
    BY <1>1, <1>3, <1>5 DEF FrameTypes, StillFramed
  <2> QED
    BY <1>1, <1>3, <1>4, <2>1, <2>2 DEF FrameTypes
<1>9. SlotBooks'
  BY <1>1, <1>3, <1>4 DEF SlotBooks
<1>10. FrameBooked'
  BY <1>1, <1>3, <1>6, <1>7 DEF FrameBooked
<1>11. PromiseKept'
  BY <1>1, <1>3, <1>6, <1>7 DEF PromiseKept
<1>12. Leaving'
  <2> SUFFICES ASSUME NEW r \in Table
               PROVE  /\ lifecycle_ram'[r].state = "EVICTING"
                           <=> pending_swap[lifecycle_ram'[r].phys] # NoSlot
                      /\ lifecycle_ram'[r].state = "EVICTING"
                           => HeldBack(lifecycle_ram'[r])
    BY <1>3 DEF Leaving, HeldBack, SpecPage
  <2>1. r \in Used
    BY <1>7
  <2>2. lifecycle_ram[r].state = "EVICTING" => HeldBack(lifecycle_ram[r])
    BY <1>1 DEF Leaving
  <2>3. lifecycle_ram'[r].state = "EVICTING" => HeldBack(lifecycle_ram'[r])
    BY <1>3, <1>5, <2>1, <2>2 DEF StillFramed
  <2> QED
    BY <1>1, <1>6, <2>1, <2>3 DEF Leaving
<1>13. PagesKnown'
  BY <1>1, <1>3, <1>4, <1>6 DEF PagesKnown
<1> QED
  BY <1>4, <1>8, <1>9, <1>10, <1>11, <1>12, <1>13 DEF FrameInv

(* A step that touches no table. *)
LEMMA FramesStill ==
  ASSUME FrameInv, UNCHANGED <<lifecycle_ram, FrameTables>>
  PROVE  FrameInv' /\ Used' = Used
<1>1. /\ Used' = Used /\ Table' = Table /\ Promised' = Promised
  BY DEF Used, Table, Promised, FrameTables
<1>2. UNCHANGED <<free_slots, free_frames, objects, by_phys, pending_swap,
                  births, lifecycle_ram>>
  BY DEF FrameTables
<1>3. FrameTypes' /\ SlotBooks'
  BY <1>1, <1>2 DEF FrameInv, FrameTypes, SlotBooks
<1>4. FrameBooked' /\ PromiseKept' /\ PagesKnown'
  BY <1>1, <1>2 DEF FrameInv, FrameBooked, PromiseKept, PagesKnown
<1>5. Leaving'
  BY <1>1, <1>2 DEF FrameInv, Leaving, HeldBack, SpecPage
<1> QED
  BY <1>1, <1>3, <1>4, <1>5 DEF FrameInv
---------------------------------------------------------------------------
(* The object of slot s and the descriptors on it change together; nothing  *)
(* joins the queues.                                                        *)
LEMMA DescMoves ==
  ASSUME FrameTypes, DescInv, NEW s \in Used, NEW o,
         StillFramed(lifecycle_ram[s], o), Becomes(s, o), Used' = Used,
         Unissued' \subseteq Unissued,
         OnBus' \subseteq Unissued \cup OnBus,
         \A r \in Used : r # s => /\ Uses(Unissued', r) = Uses(Unissued, r)
                                  /\ Uses(OnBus', r) = Uses(OnBus, r),
         o.reservation = Uses(Unissued', s), o.inflight = Uses(OnBus', s),
         o.reservation + o.inflight
           <= lifecycle_ram[s].reservation + lifecycle_ram[s].inflight,
         to_come' = to_come
  PROVE  DescInv'
<1>1. Handles /\ Counted /\ Speculation
  BY DEF DescInv
<1>2. \A r \in Slots :
        lifecycle_ram'[r] = IF r = s THEN o ELSE lifecycle_ram[r]
  BY DEF Becomes
<1>3. \A r \in Used :
        /\ r \in Slots
        /\ lifecycle_ram'[r].page = lifecycle_ram[r].page
        /\ lifecycle_ram'[r].phys = lifecycle_ram[r].phys
        /\ lifecycle_ram'[r].generation = lifecycle_ram[r].generation
        /\ lifecycle_ram'[r].birth = lifecycle_ram[r].birth
  BY <1>2 DEF StillFramed, Used
<1>4. Handles'
  BY <1>1, <1>3 DEF Handles, Handled
<1>5. Counted'
  BY <1>1, <1>2, <1>3 DEF Counted
<1>6. Speculation'
  <2>1. to_come' \subseteq Requests
    BY <1>1 DEF Speculation
  <2>2. ASSUME NEW d \in Unissued', d.tclass = "SPECULATIVE"
        PROVE  SpecPage(lifecycle_ram'[d.slot].page)
    <3>1. d \in Unissued /\ d.slot \in Used
      BY <1>1 DEF Handles, Handled
    <3> QED
      BY <1>1, <1>3, <2>2, <3>1 DEF Speculation
  <2>3. ASSUME NEW r \in Used PROVE Alone(lifecycle_ram[r])'
    <3>1. Alone(lifecycle_ram[r])
      BY <1>1 DEF Speculation
    <3>2. CASE r = s
      <4>1. lifecycle_ram'[s] = o /\ o.page = lifecycle_ram[s].page
        BY <1>2, <1>3 DEF StillFramed
      <4>2. /\ lifecycle_ram[s].reservation \in Nat
            /\ lifecycle_ram[s].inflight \in Nat
            /\ o.reservation \in Nat /\ o.inflight \in Nat
        BY ObjectOf DEF StillFramed, Object
      <4> QED
        BY <3>1, <3>2, <4>1, <4>2 DEF Alone, SpecPage
    <3>3. CASE r # s
      <4>1. lifecycle_ram'[r] = lifecycle_ram[r]
        BY <1>2, <1>3, <3>3
      <4> QED
        BY <3>1, <4>1 DEF Alone, SpecPage
    <3> QED
      BY <3>2, <3>3
  <2> QED
    BY <2>1, <2>2, <2>3 DEF Speculation, SpecPage
<1> QED
  BY <1>4, <1>5, <1>6 DEF DescInv

(* A descriptor in the queues counts on its slot. *)
LEMMA UsedByDesc ==
  ASSUME BooksInv, NEW d
  PROVE  /\ d \in Unissued => /\ Handled(d) /\ Resolves(d)
                              /\ lifecycle_ram[d.slot].reservation >= 1
         /\ d \in OnBus => /\ Handled(d) /\ Resolves(d)
                           /\ lifecycle_ram[d.slot].inflight >= 1
<1>1. /\ Handles /\ Counted /\ IsFiniteSet(Unissued) /\ IsFiniteSet(OnBus)
  BY QueueFacts DEF BooksInv, DescInv
<1>2. ASSUME d \in Unissued \cup OnBus PROVE Handled(d) /\ Resolves(d)
  BY <1>1, <1>2 DEF Handles, Handled, Resolves, Used
<1>3. ASSUME d \in Unissued PROVE lifecycle_ram[d.slot].reservation >= 1
  <2>1. Uses(Unissued, d.slot) \in Nat /\ Uses(Unissued, d.slot) # 0
    BY <1>1, <1>3, UsesOfSet
  <2>2. d.slot \in Used
    BY <1>2, <1>3 DEF Handled
  <2> QED
    BY <1>1, <2>1, <2>2 DEF Counted
<1>4. ASSUME d \in OnBus PROVE lifecycle_ram[d.slot].inflight >= 1
  <2>1. Uses(OnBus, d.slot) \in Nat /\ Uses(OnBus, d.slot) # 0
    BY <1>1, <1>4, UsesOfSet
  <2>2. d.slot \in Used
    BY <1>2, <1>4 DEF Handled
  <2> QED
    BY <1>1, <2>1, <2>2 DEF Counted
<1> QED
  BY <1>2, <1>3, <1>4

(* An object on its way out is published and held back. *)
LEMMA EvictingHeld ==
  ASSUME FrameInv, NEW s \in Used, lifecycle_ram[s].state = "EVICTING"
  PROVE  s \in Table /\ HeldBack(lifecycle_ram[s])
<1>1. s \in Table
  BY DEF FrameInv, SlotBooks, PromiseKept, Promised
<1> QED
  BY <1>1 DEF FrameInv, Leaving

(* on_axi_accept (model/gm/control_plane.py:282-309). *)
LEMMA AcceptBooks ==
  ASSUME BooksInv, Scheduled, SimAccept
  PROVE  BooksInv'
<1> DEFINE d == dispatch_q[1]
           s == d.slot
           old == lifecycle_ram[s]
           o == [EvIssue(old) EXCEPT
                   !.state = IF @ = "ALLOCATED_EMPTY" THEN "FILL_IN_FLIGHT"
                             ELSE @]
<1>1. /\ QueueInv /\ FrameInv /\ DescInv /\ FrameTypes
      /\ Handles /\ Counted /\ Speculation
  BY DEF BooksInv, FrameInv, DescInv
<1>2. /\ OnAxiAccept(d) /\ UNCHANGED <<free_desc, to_come, holds>>
      /\ UNCHANGED FrameTables
  BY DEF SimAccept, OnAxiAccept, FrameTables
<1>3. Boards(d)
  BY <1>1, <1>2, BoardsStep DEF SimAccept, Scheduled
<1>4. /\ d \in Unissued /\ QueueInv' /\ Unissued' = Unissued \ {d}
      /\ OnBus' = OnBus \cup {d} /\ d \notin OnBus
      /\ IsFiniteSet(Unissued) /\ IsFiniteSet(OnBus)
  BY <1>1, <1>3, QueueFacts DEF Boards
<1>5. Handled(d) /\ Resolves(d) /\ old.reservation >= 1 /\ s \in Used
  BY <1>4, UsedByDesc DEF Handled
<1>6. /\ s \in Slots /\ old \in Object /\ old.reservation \in Nat
      /\ old.inflight \in Nat /\ old.fill_pending \in {0, 1}
  BY <1>1, <1>5, ObjectOf
<1>7. escaped' = "none"
  BY <1>2, <1>5, <1>6 DEF OnAxiAccept, Raise, BooksInv
<1>8. /\ o \in Object /\ o.page = old.page /\ o.phys = old.phys
      /\ o.generation = old.generation /\ o.birth = old.birth
      /\ o.fill_pending = old.fill_pending
      /\ o.logical_refcount = old.logical_refcount
      /\ o.reservation = old.reservation - 1
      /\ o.inflight = old.inflight + 1
      /\ o.state = "EVICTING" <=> old.state = "EVICTING"
  <2>1. EvIssue(old) =
          [old EXCEPT !.reservation = old.reservation - 1,
                      !.inflight = old.inflight + 1]
    BY DEF EvIssue
  <2>2. old.reservation - 1 \in Nat /\ old.inflight + 1 \in Nat
    BY <1>5, <1>6
  <2> QED
    BY <1>6, <2>1, <2>2 DEF Object, ObjStates
<1>9. Becomes(s, o)
  <2>1. lifecycle_ram' = [lifecycle_ram EXCEPT
               ![s] = EvIssue(@),
               ![s].state = IF @ = "ALLOCATED_EMPTY" THEN "FILL_IN_FLIGHT"
                            ELSE @]
    BY <1>2, <1>5 DEF OnAxiAccept
  <2>2. lifecycle_ram \in [Slots -> Object \cup {NoObject}]
    BY <1>1 DEF FrameTypes
  <2> HIDE DEF s, d
  <2>3. DOMAIN lifecycle_ram' = Slots
    BY <2>1, <2>2
  <2>4. \A r \in Slots : r # s => lifecycle_ram'[r] = lifecycle_ram[r]
    BY <2>1, <2>2
  <2>5. lifecycle_ram'[s] = o
    BY <1>6, <2>1, <2>2
  <2>6. lifecycle_ram' = [r \in Slots |-> lifecycle_ram'[r]]
    BY <2>1, <2>2, <2>3
  <2> HIDE DEF o
  <2> QED
    BY <2>4, <2>5, <2>6 DEF Becomes
<1> HIDE DEF o
<1>10. o.state = "EVICTING" => HeldBack(o)
  <2> SUFFICES ASSUME o.state = "EVICTING" PROVE HeldBack(o)
    OBVIOUS
  <2>1. old.state = "EVICTING"
    BY <1>8
  <2>2. old.logical_refcount = 0
    BY <1>1, <1>5, <2>1, EvictingHeld DEF HeldBack
  <2> QED
    BY <1>6, <1>8, <2>2 DEF HeldBack
<1>11. StillFramed(old, o)
  BY <1>6, <1>8, <1>10 DEF StillFramed
<1>12. FrameInv' /\ Used' = Used
  BY <1>1, <1>2, <1>5, <1>9, <1>11, ObjectMoves
<1>13. ASSUME NEW r
       PROVE  /\ Uses(Unissued', r) = Uses(Unissued, r) -
                                        (IF s = r THEN 1 ELSE 0)
              /\ Uses(OnBus', r) = Uses(OnBus, r) + (IF s = r THEN 1 ELSE 0)
              /\ Uses(Unissued, r) \in Nat /\ Uses(OnBus, r) \in Nat
  <2> HIDE DEF d
  <2>1. Uses(Unissued \ {d}, r) = Uses(Unissued, r) - (IF s = r THEN 1 ELSE 0)
    BY <1>4, UsesFewer
  <2>2. Uses(OnBus \cup {d}, r) = Uses(OnBus, r) + (IF s = r THEN 1 ELSE 0)
    BY <1>4, UsesMore
  <2> QED
    BY <1>4, <2>1, <2>2, UsesOfSet
<1>14. DescInv'
  <2>1. /\ o.reservation = Uses(Unissued', s) /\ o.inflight = Uses(OnBus', s)
        /\ o.reservation + o.inflight <= old.reservation + old.inflight
    BY <1>1, <1>5, <1>6, <1>8, <1>13 DEF Counted
  <2>2. \A r \in Used : r # s => /\ Uses(Unissued', r) = Uses(Unissued, r)
                                 /\ Uses(OnBus', r) = Uses(OnBus, r)
    BY <1>13
  <2>3. /\ Unissued' \subseteq Unissued
        /\ OnBus' \subseteq Unissued \cup OnBus /\ to_come' = to_come
    BY <1>2, <1>4
  <2> HIDE DEF s, old
  <2> QED
    BY <1>1, <1>5, <1>9, <1>11, <1>12, <2>1, <2>2, <2>3, DescMoves DEF old
<1> QED
  BY <1>2, <1>4, <1>7, <1>12, <1>14 DEF BooksInv

(* on_cancel_pre_issue (model/gm/control_plane.py:332-347). *)
LEMMA CancelBooks ==
  ASSUME BooksInv, SimCancel
  PROVE  BooksInv'
<1> PICK d \in NextStale : Cancel(d) /\ OnCancelPreIssue(d)
  BY DEF SimCancel
<1> DEFINE s == d.slot
           old == lifecycle_ram[s]
           o == [EvCancel(old) EXCEPT
                   !.fill_pending = IF @ > 0 THEN @ - 1 ELSE @]
<1>1. /\ QueueInv /\ FrameInv /\ DescInv /\ FrameTypes
      /\ Handles /\ Counted /\ Speculation
  BY DEF BooksInv, FrameInv, DescInv
<1>2. /\ free_desc' = Append(free_desc, d.id) /\ UNCHANGED <<to_come, holds>>
      /\ UNCHANGED FrameTables
  BY DEF SimCancel, OnCancelPreIssue, FrameTables
<1>3. Dropped(d) /\ d.tclass = "SPECULATIVE"
  BY <1>1, <1>2, DroppedStep
<1>4. /\ d \in Unissued /\ QueueInv' /\ Unissued' = Unissued \ {d}
      /\ OnBus' = OnBus
      /\ IsFiniteSet(Unissued) /\ IsFiniteSet(OnBus)
  BY <1>1, <1>3, QueueFacts DEF Dropped
<1>5. Handled(d) /\ Resolves(d) /\ old.reservation >= 1 /\ s \in Used
  BY <1>4, UsedByDesc DEF Handled
<1>6. /\ s \in Slots /\ old \in Object /\ old.reservation \in Nat
      /\ old.inflight \in Nat /\ old.fill_pending \in {0, 1}
  BY <1>1, <1>5, ObjectOf
<1>7. escaped' = "none"
  BY <1>5, <1>6 DEF OnCancelPreIssue, Raise, BooksInv
<1>8. /\ o \in Object /\ o.page = old.page /\ o.phys = old.phys
      /\ o.generation = old.generation /\ o.birth = old.birth
      /\ o.fill_pending <= 1
      /\ o.reservation = old.reservation - 1
      /\ o.inflight = old.inflight
      /\ o.state = old.state
  <2>1. EvCancel(old) = [old EXCEPT !.reservation = old.reservation - 1]
    BY DEF EvCancel
  <2>2. old.reservation - 1 \in Nat
    BY <1>5, <1>6
  <2>3. PICK n \in {0, 1} :
          n = IF old.fill_pending > 0 THEN old.fill_pending - 1
              ELSE old.fill_pending
    BY <1>6
  <2>4. o = [old EXCEPT !.reservation = old.reservation - 1,
                        !.fill_pending = n]
    BY <1>6, <2>1, <2>3 DEF Object
  <2> HIDE DEF o, old, s
  <2>5. n \in Nat /\ n <= 1
    OBVIOUS
  <2>6. o \in Object
    BY <1>6, <2>2, <2>4, <2>5 DEF Object
  <2>7. /\ o.page = old.page /\ o.phys = old.phys
        /\ o.generation = old.generation /\ o.birth = old.birth
        /\ o.fill_pending = n /\ o.inflight = old.inflight
        /\ o.reservation = old.reservation - 1 /\ o.state = old.state
    BY <1>6, <2>4 DEF Object
  <2> QED
    BY <2>5, <2>6, <2>7
<1>9. Becomes(s, o)
  <2>1. lifecycle_ram' = [lifecycle_ram EXCEPT
               ![s] = EvCancel(@),
               ![s].fill_pending = IF @ > 0 THEN @ - 1 ELSE @]
    BY <1>5 DEF OnCancelPreIssue
  <2>2. lifecycle_ram \in [Slots -> Object \cup {NoObject}]
    BY <1>1 DEF FrameTypes
  <2> HIDE DEF s
  <2>3. DOMAIN lifecycle_ram' = Slots
    BY <2>1, <2>2
  <2>4. \A r \in Slots : r # s => lifecycle_ram'[r] = lifecycle_ram[r]
    BY <2>1, <2>2
  <2>5. lifecycle_ram'[s] = o
    BY <1>6, <2>1, <2>2
  <2>6. lifecycle_ram' = [r \in Slots |-> lifecycle_ram'[r]]
    BY <2>1, <2>2, <2>3
  <2> HIDE DEF o
  <2> QED
    BY <2>4, <2>5, <2>6 DEF Becomes
<1> HIDE DEF o
(* A page fetched by speculation has this one use, and is not leaving. *)
<1>10. o.state # "EVICTING"
  <2>1. SpecPage(old.page) /\ old.reservation + old.inflight <= 1
    BY <1>1, <1>3, <1>4, <1>5 DEF Speculation, Alone
  <2>2. ~HeldBack(old)
    BY <1>5, <1>6, <2>1 DEF HeldBack
  <2> QED
    BY <1>1, <1>5, <1>8, <2>2, EvictingHeld
<1>11. StillFramed(old, o)
  BY <1>8, <1>10 DEF StillFramed
<1>12. FrameInv' /\ Used' = Used
  BY <1>1, <1>2, <1>5, <1>9, <1>11, ObjectMoves
<1>13. ASSUME NEW r
       PROVE  /\ Uses(Unissued', r) = Uses(Unissued, r) -
                                        (IF s = r THEN 1 ELSE 0)
              /\ Uses(OnBus', r) = Uses(OnBus, r)
  BY <1>4, UsesFewer
<1>14. DescInv'
  <2>1. /\ o.reservation = Uses(Unissued', s) /\ o.inflight = Uses(OnBus', s)
        /\ o.reservation + o.inflight <= old.reservation + old.inflight
    BY <1>1, <1>5, <1>6, <1>8, <1>13 DEF Counted
  <2>2. \A r \in Used : r # s => /\ Uses(Unissued', r) = Uses(Unissued, r)
                                 /\ Uses(OnBus', r) = Uses(OnBus, r)
    <3> TAKE r \in Used
    <3>1. Uses(Unissued, r) \in Nat
      BY <1>4, UsesOfSet
    <3> QED
      BY <1>13, <3>1
  <2>3. /\ Unissued' \subseteq Unissued
        /\ OnBus' \subseteq Unissued \cup OnBus /\ to_come' = to_come
    BY <1>2, <1>4
  <2> HIDE DEF s, old
  <2> QED
    BY <1>1, <1>5, <1>9, <1>11, <1>12, <2>1, <2>2, <2>3, DescMoves DEF old
<1> QED
  BY <1>2, <1>4, <1>7, <1>12, <1>14 DEF BooksInv

(* Nothing moves in the queues and the tables. *)
LEMMA QuietBooks ==
  ASSUME BooksInv, Settled, UNCHANGED <<lifecycle_ram, FrameTables, escaped>>,
         to_come' \subseteq to_come, \A h \in holds' : h[1] \in Requests
  PROVE  BooksInv'
<1>1. /\ QueueInv /\ FrameInv /\ DescInv
      /\ Handles /\ Counted /\ Speculation
  BY DEF BooksInv, FrameInv, DescInv
<1>2. QueueInv' /\ Unissued' = Unissued /\ OnBus' = OnBus
  BY DEF Settled
<1>3. FrameInv' /\ Used' = Used
  BY <1>1, FramesStill
<1>4. Handles' /\ Counted'
  BY <1>1, <1>2, <1>3 DEF Handles, Handled, Counted
<1>5. Speculation'
  BY <1>1, <1>2, <1>3 DEF Speculation, Alone, SpecPage
<1> QED
  BY <1>2, <1>3, <1>4, <1>5 DEF BooksInv, DescInv

(* tick_dispatch (model/gm/data_plane.py:165-179). *)
LEMMA DispatchBooks ==
  ASSUME BooksInv, Scheduled, SimDispatch
  PROVE  BooksInv'
<1>1. /\ QueueInv /\ FrameInv /\ DescInv
      /\ Handles /\ Counted /\ Speculation
      /\ \A h \in holds : h[1] \in Requests
  BY DEF BooksInv, FrameInv, DescInv
<1>2. /\ UNCHANGED <<lifecycle_ram, FrameTables, escaped, to_come, holds,
                     free_desc>>
  BY DEF SimDispatch, cpvars, FrameTables
<1>3. ASSUME NEW d, Dispatch(d) PROVE BooksInv'
  <2> DEFINE e == [d EXCEPT !.dispatch = cycle]
  <2>1. Renewed(d, e)
    BY <1>1, <1>2, <1>3, RenewedStep DEF Scheduled
  <2>2. d \in Descriptor /\ IsFiniteSet(Unissued) /\ d \in Unissued
    BY <1>1, <2>1, QueueFacts DEF Renewed
  <2>3. /\ e.slot = d.slot /\ e.phys = d.phys /\ e.owner = d.owner
        /\ e.generation = d.generation /\ e.tclass = d.tclass
    BY <2>2 DEF Descriptor
  <2> HIDE DEF e
  <2>4. /\ QueueInv' /\ OnBus' = OnBus /\ e \notin Unissued \ {d}
        /\ Unissued' = (Unissued \ {d}) \cup {e}
    BY <2>1 DEF Renewed
  <2>5. FrameInv' /\ Used' = Used
    BY <1>1, <1>2, FramesStill
  <2>6. Handles'
    BY <1>1, <1>2, <2>2, <2>3, <2>4, <2>5 DEF Handles, Handled
  <2>7. Counted'
    <3>1. ASSUME NEW s PROVE Uses(Unissued', s) = Uses(Unissued, s)
      <4>1. /\ IsFiniteSet(Unissued \ {d})
            /\ Uses(Unissued \ {d}, s)
                 = Uses(Unissued, s) - (IF d.slot = s THEN 1 ELSE 0)
        BY <2>2, UsesFewer
      <4>2. Uses((Unissued \ {d}) \cup {e}, s)
              = Uses(Unissued \ {d}, s) + (IF e.slot = s THEN 1 ELSE 0)
        BY <2>4, <4>1, UsesMore
      <4>3. Uses(Unissued, s) \in Nat
        BY <2>2, UsesOfSet
      <4> QED
        BY <2>3, <2>4, <4>1, <4>2, <4>3
    <3> QED
      BY <1>1, <1>2, <2>4, <2>5, <3>1 DEF Counted
  <2>8. Speculation'
    BY <1>1, <1>2, <2>2, <2>3, <2>4, <2>5 DEF Speculation, Alone, SpecPage
  <2> QED
    BY <1>1, <1>2, <2>4, <2>5, <2>6, <2>7, <2>8 DEF BooksInv, DescInv
<1>4. CASE UNCHANGED <<cycle, dpvars>>
  <2>1. Settled
    BY <1>1, <1>2, <1>4, SettledStep DEF dpvars
  <2> QED
    BY <1>1, <1>2, <2>1, QuietBooks
<1> QED
  BY <1>3, <1>4 DEF SimDispatch

(* release_ref: only a page that is looked up changes, and that one is not  *)
(* on its way out (model/gm/control_plane.py:272-280).                      *)
LEMMA ReleaseBooks ==
  ASSUME BooksInv, SimRelease
  PROVE  BooksInv'
<1> PICK h \in holds : ReleaseRef(h[1].page) /\ holds' = holds \ {h}
  BY DEF SimRelease
<1> DEFINE p == h[1].page
           s == objects[p]
           old == lifecycle_ram[s]
           o == EvRelease(old)
<1>1. /\ QueueInv /\ FrameInv /\ DescInv /\ FrameTypes /\ PagesKnown
      /\ Handles /\ Counted /\ Speculation
      /\ \A g \in holds : g[1] \in Requests
  BY DEF BooksInv, FrameInv, DescInv
<1>2. /\ UNCHANGED <<ready_m, ready_s, dispatch_q, pending, free_desc>>
      /\ UNCHANGED <<to_come, FrameTables, escaped>>
  BY DEF SimRelease, ReleaseRef, dpvars, FrameTables
<1>3. Settled
  BY <1>1, <1>2, SettledStep
<1>4. QueueInv' /\ Unissued' = Unissued /\ OnBus' = OnBus
  BY <1>3 DEF Settled
<1>5. \A g \in holds' : g[1] \in Requests
  BY <1>1
<1>6. CASE lifecycle_ram' = lifecycle_ram
  BY <1>1, <1>2, <1>3, <1>5, <1>6, QuietBooks
<1>7. CASE /\ s # NoSlot /\ old.logical_refcount > 0
           /\ lifecycle_ram' = [lifecycle_ram EXCEPT ![s] = EvRelease(@)]
  <2>1. p \in Pages
    BY <1>1, SimAssumption DEF Request
  <2>2. s \in Used /\ old.state # "EVICTING"
    BY <1>1, <1>7, <2>1 DEF PagesKnown
  <2>3. /\ s \in Slots /\ old \in Object /\ old.fill_pending \in {0, 1}
        /\ old.logical_refcount \in Nat /\ old.reservation \in Nat
        /\ old.inflight \in Nat
    BY <1>1, <2>2, ObjectOf
  <2>4. Becomes(s, o)
    BY <1>1, <1>7 DEF Becomes, FrameTypes
  <2>5. o = [old EXCEPT !.logical_refcount = old.logical_refcount - 1]
    BY DEF EvRelease
  <2>6. old.logical_refcount - 1 \in Nat
    BY <1>7, <2>3
  <2> HIDE DEF o, old, s, p
  <2>7. /\ o \in Object /\ o.page = old.page /\ o.phys = old.phys
        /\ o.generation = old.generation /\ o.birth = old.birth
        /\ o.fill_pending = old.fill_pending /\ o.state = old.state
        /\ o.reservation = old.reservation /\ o.inflight = old.inflight
    BY <2>3, <2>5, <2>6 DEF Object
  <2>8. StillFramed(old, o)
    BY <2>2, <2>3, <2>7 DEF StillFramed
  <2>9. FrameInv' /\ Used' = Used
    BY <1>1, <1>2, <2>2, <2>4, <2>8, ObjectMoves DEF old
  <2>10. /\ o.reservation = Uses(Unissued', s) /\ o.inflight = Uses(OnBus', s)
         /\ o.reservation + o.inflight <= old.reservation + old.inflight
    <3>1. /\ o.reservation = Uses(Unissued', s)
          /\ o.inflight = Uses(OnBus', s)
      BY <1>1, <1>4, <2>2, <2>7 DEF Counted, old
    <3> QED
      BY <2>3, <2>7, <3>1
  <2>11. /\ \A r \in Used : r # s => /\ Uses(Unissued', r) = Uses(Unissued, r)
                                     /\ Uses(OnBus', r) = Uses(OnBus, r)
         /\ Unissued' \subseteq Unissued
         /\ OnBus' \subseteq Unissued \cup OnBus /\ to_come' = to_come
    BY <1>2, <1>4
  <2>12. DescInv'
    BY <1>1, <2>2, <2>4, <2>8, <2>9, <2>10, <2>11, DescMoves DEF old
  <2> QED
    BY <1>2, <1>4, <1>5, <2>9, <2>12 DEF BooksInv
<1> QED
  BY <1>6, <1>7 DEF ReleaseRef, Lookup
---------------------------------------------------------------------------
(* COMPLETE retires the fill, and never sends an object out                 *)
(* (model/gm/control_plane.py:352-364).                                     *)
LEMMA CompletedObject ==
  ASSUME NEW old \in Object, old.inflight >= 1, old.fill_pending \in {0, 1}
  PROVE  LET o == EvComplete(old) IN
         /\ o \in Object /\ o.page = old.page /\ o.phys = old.phys
         /\ o.generation = old.generation /\ o.birth = old.birth
         /\ o.fill_pending = 0 /\ o.reservation = old.reservation
         /\ o.inflight = old.inflight - 1
         /\ o.logical_refcount = old.logical_refcount
         /\ o.state = "EVICTING" <=> old.state = "EVICTING"
<1> DEFINE o == EvComplete(old)
<1>1. old.inflight \in Nat /\ old.state \in ObjStates
  BY DEF Object
<1>2. PICK z \in ObjStates :
        z = IF old.state = "FILL_IN_FLIGHT" /\ old.fill_pending = 1
            THEN "RESIDENT" ELSE old.state
  BY <1>1 DEF ObjStates
<1>3. (IF old.fill_pending > 0 THEN old.fill_pending - 1
       ELSE old.fill_pending) = 0
  OBVIOUS
<1>4. o = [old EXCEPT !.inflight = old.inflight - 1, !.fill_pending = 0,
                      !.state = z]
  <2>1. o = [old EXCEPT
               !.inflight = old.inflight - 1,
               !.fill_pending = IF old.fill_pending > 0
                                THEN old.fill_pending - 1
                                ELSE old.fill_pending,
               !.state = IF old.state = "FILL_IN_FLIGHT"
                              /\ old.fill_pending = 1
                         THEN "RESIDENT" ELSE old.state]
    BY DEF EvComplete, Object
  <2> HIDE DEF o
  <2> QED
    BY <1>2, <1>3, <2>1
<1> HIDE DEF o
<1>5. old.inflight - 1 \in Nat
  BY <1>1
<1>6. z = "EVICTING" <=> old.state = "EVICTING"
  BY <1>2
<1>7. o \in Object
  BY <1>4, <1>5 DEF Object
<1>8. /\ o.page = old.page /\ o.phys = old.phys
      /\ o.generation = old.generation /\ o.birth = old.birth
      /\ o.fill_pending = 0 /\ o.reservation = old.reservation
      /\ o.inflight = old.inflight - 1
      /\ o.logical_refcount = old.logical_refcount /\ o.state = z
  BY <1>4 DEF Object
<1> QED
  BY <1>6, <1>7, <1>8 DEF o

(* One entry of the table is replaced by another. *)
Replaced(q, s, n) == [i \in DOMAIN q |-> IF q[i] = s THEN n ELSE q[i]]

(* The successor takes the place of the incumbent in the queue of the      *)
(* published.                                                              *)
LEMMA ReplaceDistinct ==
  ASSUME NEW S, NEW q \in Seq(S), Distinct(q), NEW s \in ToSet(q),
         NEW n \in S, n \notin ToSet(q)
  PROVE  /\ Replaced(q, s, n) \in Seq(S) /\ Distinct(Replaced(q, s, n))
         /\ ToSet(Replaced(q, s, n)) = (ToSet(q) \ {s}) \cup {n}
<1> DEFINE r == Replaced(q, s, n)
           m == Len(q)
<1>1. /\ DOMAIN q = 1 .. m /\ m \in Nat
      /\ ToSet(q) = {q[i] : i \in 1 .. m} /\ \A i \in 1 .. m : q[i] \in S
  BY LenProperties, MembersOf, ElementOfSeq
<1>2. /\ r \in [1 .. m -> S]
      /\ \A i \in 1 .. m : r[i] = IF q[i] = s THEN n ELSE q[i]
  BY <1>1 DEF Replaced
<1> HIDE DEF r
<1>3. r \in Seq(S) /\ Len(r) = m
  BY <1>1, <1>2
<1>4. ToSet(r) = {r[i] : i \in 1 .. m}
  BY <1>3, MembersOf
<1>5. \A i, j \in 1 .. m : q[i] = q[j] => i = j
  BY DEF Distinct
<1> HIDE DEF m
<1>6. Distinct(r)
  <2> SUFFICES ASSUME NEW i \in 1 .. m, NEW j \in 1 .. m, r[i] = r[j]
               PROVE  q[i] = q[j]
    BY <1>3, <1>5 DEF Distinct
  <2>1. q[i] # n /\ q[j] # n
    BY <1>1
  <2> QED
    BY <1>2, <2>1
<1>7. ToSet(r) = (ToSet(q) \ {s}) \cup {n}
  <2>1. ASSUME NEW y \in ToSet(r) PROVE y \in (ToSet(q) \ {s}) \cup {n}
    BY <1>1, <1>2, <1>4
  <2>2. ASSUME NEW y \in ToSet(q) \ {s} PROVE y \in ToSet(r)
    BY <1>1, <1>2, <1>4
  <2>3. n \in ToSet(r)
    <3>1. PICK i \in 1 .. m : q[i] = s
      BY <1>1
    <3> QED
      BY <1>2, <1>4, <3>1
  <2> QED
    BY <2>1, <2>2, <2>3
<1> QED
  BY <1>3, <1>6, <1>7 DEF r

(* The slots _finish_swap gives back: none, or one. *)
LEMMA FreedSlots ==
  ASSUME NEW S, NEW q \in Seq(S)
  PROVE  /\ q \o SetToSeq({}) = q
         /\ \A s \in S : q \o SetToSeq({s}) = Append(q, s)
<1>1. SetToSeq({}) = <<>>
  <2>1. Cardinality({}) = 0
    BY FS_EmptySet
  <2>2. \E f \in [1 .. 0 -> {}] : IsInjective(f)
    <3>1. [i \in 1 .. 0 |-> i] \in [1 .. 0 -> {}]
      OBVIOUS
    <3> QED
      BY <3>1 DEF IsInjective
  <2>3. SetToSeq({}) \in [1 .. 0 -> {}]
    BY <2>1, <2>2 DEF SetToSeq
  <2>4. SetToSeq({}) \in Seq({}) /\ Len(SetToSeq({})) = 0
    BY <2>3
  <2> QED
    BY <2>4, EmptySeq
<1>2. ASSUME NEW s \in S PROVE SetToSeq({s}) = <<s>>
  <2>1. Cardinality({s}) = 1
    BY FS_Singleton
  <2>2. \E f \in [1 .. 1 -> {s}] : IsInjective(f)
    <3>1. /\ [i \in 1 .. 1 |-> s] \in [1 .. 1 -> {s}]
          /\ IsInjective([i \in 1 .. 1 |-> s])
      BY DEF IsInjective
    <3> QED
      BY <3>1
  <2>3. SetToSeq({s}) \in [1 .. 1 -> {s}]
    BY <2>1, <2>2 DEF SetToSeq
  <2> QED
    BY <2>3
<1>3. q \o <<>> = q
  OBVIOUS
<1>4. \A s \in S : q \o <<s>> = Append(q, s)
  OBVIOUS
<1> QED
  BY <1>1, <1>2, <1>3, <1>4

(* _finish_swap: the object on its way out is replaced by the successor its *)
(* frame was promised to (model/gm/control_plane.py:129-143, 352-364).      *)
HandsOver(s, f, n) ==
  /\ lifecycle_ram' = [r \in Slots |-> IF r = s THEN NoObject
                                        ELSE lifecycle_ram[r]]
  /\ free_slots' = Append(free_slots, s)
  /\ objects' = objects
  /\ by_phys' = Replaced(by_phys, s, n)
  /\ pending_swap' = [pending_swap EXCEPT ![f] = NoSlot]
  /\ UNCHANGED <<free_frames, births>>

(* A frame changes hands (model/gm/control_plane.py:352-364).              *)
LEMMA SwapMoves ==
  ASSUME FrameInv, NEW s \in Table, lifecycle_ram[s].state = "EVICTING",
         NEW f, f = lifecycle_ram[s].phys, NEW n, n = pending_swap[f],
         HandsOver(s, f, n)
  PROVE  FrameInv' /\ Used' = Used \ {s}
<1>0. /\ lifecycle_ram' = [r \in Slots |-> IF r = s THEN NoObject
                                            ELSE lifecycle_ram[r]]
      /\ free_slots' = Append(free_slots, s) /\ objects' = objects
      /\ by_phys' = Replaced(by_phys, s, n)
      /\ pending_swap' = [pending_swap EXCEPT ![f] = NoSlot]
      /\ UNCHANGED <<free_frames, births>>
  BY DEF HandsOver
<1>1. /\ FrameTypes /\ SlotBooks /\ FrameBooked /\ PromiseKept
      /\ Leaving /\ PagesKnown
  BY DEF FrameInv
<1>2. /\ s \in Used /\ s \in Slots /\ s \notin Promised
      /\ f \in Frames /\ n # NoSlot /\ n \in Promised /\ n \in Used
      /\ n \in Slots /\ n \notin Table /\ n # s
  <2>1. s \in Used /\ s \in Slots /\ s \notin Promised
    BY <1>1 DEF SlotBooks, Used
  <2>2. f \in Frames
    BY <1>1, <2>1, ObjectOf
  <2>3. n # NoSlot
    BY <1>1 DEF Leaving
  <2>4. n \in Promised
    BY <2>2, <2>3 DEF Promised
  <2> QED
    BY <1>1, <2>1, <2>2, <2>3, <2>4 DEF SlotBooks, Used
<1>3. /\ \A r \in Slots : r # s => lifecycle_ram'[r] = lifecycle_ram[r]
      /\ lifecycle_ram'[s] = NoObject
  BY <1>0, <1>2
<1>4. Used' = Used \ {s}
  BY <1>3 DEF Used
<1>5. /\ by_phys' \in Seq(Slots) /\ Distinct(by_phys')
      /\ Table' = (Table \ {s}) \cup {n}
  <2>1. /\ by_phys \in Seq(Slots) /\ Distinct(by_phys)
        /\ s \in ToSet(by_phys) /\ n \in Slots /\ n \notin ToSet(by_phys)
    BY <1>1, <1>2 DEF FrameTypes, Table
  <2>2. by_phys' = Replaced(by_phys, s, n)
    BY <1>0
  <2> DEFINE b == Replaced(by_phys, s, n)
  <2>3. /\ b \in Seq(Slots) /\ Distinct(b)
        /\ ToSet(b) = (ToSet(by_phys) \ {s}) \cup {n}
    <3>1. ASSUME NEW q \in Seq(Slots), Distinct(q), s \in ToSet(q),
                 n \notin ToSet(q)
          PROVE  /\ Replaced(q, s, n) \in Seq(Slots)
                 /\ Distinct(Replaced(q, s, n))
                 /\ ToSet(Replaced(q, s, n)) = (ToSet(q) \ {s}) \cup {n}
      BY <2>1, <3>1, ReplaceDistinct
    <3> QED
      BY <2>1, <3>1
  <2> HIDE DEF b
  <2>4. by_phys' = b
    BY <2>2 DEF b
  <2> QED
    BY <2>3, <2>4 DEF Table
<1>6. /\ free_slots' \in Seq(Slots) /\ Distinct(free_slots')
      /\ ToSet(free_slots') = ToSet(free_slots) \cup {s}
  BY <1>0, <1>1, <1>2, AppendDistinct DEF FrameTypes, SlotBooks
<1>7. /\ \A g \in Frames :
           pending_swap'[g] = IF g = f THEN NoSlot ELSE pending_swap[g]
      /\ pending_swap' \in [Frames -> Slots \cup {NoSlot}]
  BY <1>0, <1>1 DEF FrameTypes
<1>8. Promised' = Promised \ {n}
  <2>1. \A g \in Frames : g # f => pending_swap[g] # n
    BY <1>1, <1>2 DEF PromiseKept
  <2>2. \A g \in Frames :
          pending_swap'[g] # NoSlot <=> g # f /\ pending_swap[g] # NoSlot
    BY <1>7
  <2> QED
    BY <1>2, <1>7, <2>1, <2>2 DEF Promised
<1>9. \A g \in Frames : g # f /\ pending_swap[g] # NoSlot =>
        /\ pending_swap[g] # s /\ pending_swap[g] \in Slots
        /\ lifecycle_ram'[pending_swap[g]] = lifecycle_ram[pending_swap[g]]
  <2> TAKE g \in Frames
  <2> HAVE g # f /\ pending_swap[g] # NoSlot
  <2>1. pending_swap[g] \in Promised
    BY DEF Promised
  <2> QED
    BY <1>1, <1>2, <1>3, <2>1 DEF SlotBooks, Used
<1>10. \A r \in Table \ {s} :
         /\ r \in Slots /\ r \in Used /\ lifecycle_ram'[r] = lifecycle_ram[r]
         /\ lifecycle_ram[r].phys # f /\ lifecycle_ram[r].phys \in Frames
  <2> TAKE r \in Table \ {s}
  <2>1. r \in Used
    BY <1>1 DEF SlotBooks
  <2> QED
    BY <1>1, <1>3, <2>1, ObjectOf DEF FrameBooked
<1>11. /\ lifecycle_ram'[n] = lifecycle_ram[n] /\ lifecycle_ram[n].phys = f
       /\ lifecycle_ram[n].state # "EVICTING"
  BY <1>1, <1>2, <1>3 DEF PromiseKept
<1>12. FrameTypes'
  <2>1. lifecycle_ram' \in [Slots -> Object \cup {NoObject}]
    BY <1>0, <1>1 DEF FrameTypes
  <2>2. \A r \in Used' : lifecycle_ram'[r].fill_pending <= 1
    BY <1>1, <1>3, <1>4 DEF FrameTypes, Used
  <2> QED
    BY <1>0, <1>1, <1>5, <1>6, <1>7, <2>1, <2>2 DEF FrameTypes
<1>13. SlotBooks'
  BY <1>0, <1>1, <1>2, <1>4, <1>5, <1>6, <1>8 DEF SlotBooks
<1>14. FrameBooked'
  <2>1. ASSUME NEW r \in Table', NEW t \in Table',
               lifecycle_ram'[r].phys = lifecycle_ram'[t].phys
        PROVE  r = t
    BY <1>1, <1>5, <1>10, <1>11, <2>1 DEF FrameBooked
  <2>2. ASSUME NEW g \in Frames
        PROVE  g \in ToSet(free_frames)
                 <=> \A r \in Table' : lifecycle_ram'[r].phys # g
    <3>1. CASE g = f
      <4>1. g \notin ToSet(free_frames)
        BY <1>1, <3>1 DEF FrameBooked
      <4> QED
        BY <1>5, <1>11, <3>1, <4>1
    <3>2. CASE g # f
      <4>1. (\A r \in Table' : lifecycle_ram'[r].phys # g)
              <=> (\A r \in Table \ {s} : lifecycle_ram[r].phys # g)
        BY <1>5, <1>10, <1>11, <3>2
      <4>2. (\A r \in Table \ {s} : lifecycle_ram[r].phys # g)
              <=> (\A r \in Table : lifecycle_ram[r].phys # g)
        BY <3>2
      <4> QED
        BY <1>1, <4>1, <4>2 DEF FrameBooked
    <3> QED
      BY <3>1, <3>2
  <2> QED
    BY <1>0, <2>1, <2>2 DEF FrameBooked
<1>15. PromiseKept'
  BY <1>0, <1>1, <1>7, <1>9 DEF PromiseKept
<1>16. Leaving'
  <2> SUFFICES ASSUME NEW r \in Table'
               PROVE  /\ lifecycle_ram'[r].state = "EVICTING"
                           <=> pending_swap'[lifecycle_ram'[r].phys] # NoSlot
                      /\ lifecycle_ram'[r].state = "EVICTING"
                           => HeldBack(lifecycle_ram'[r])
    BY DEF Leaving, HeldBack, SpecPage
  <2>1. CASE r = n
    BY <1>2, <1>7, <1>11, <2>1
  <2>2. CASE r \in Table \ {s}
    BY <1>1, <1>7, <1>10, <2>2 DEF Leaving
  <2> QED
    BY <1>5, <2>1, <2>2
<1>17. PagesKnown'
  <2> SUFFICES ASSUME NEW p \in Pages, objects[p] # NoSlot
               PROVE  /\ objects[p] \in Used'
                      /\ lifecycle_ram'[objects[p]].page = p
                      /\ lifecycle_ram'[objects[p]].state # "EVICTING"
    BY <1>0 DEF PagesKnown
  <2>1. /\ objects[p] \in Used /\ lifecycle_ram[objects[p]].page = p
        /\ lifecycle_ram[objects[p]].state # "EVICTING"
    BY <1>1 DEF PagesKnown
  <2>2. objects[p] # s /\ objects[p] \in Slots
    BY <2>1 DEF Used
  <2> QED
    BY <1>3, <1>4, <2>1, <2>2
<1> QED
  BY <1>4, <1>12, <1>13, <1>14, <1>15, <1>16, <1>17 DEF FrameInv

(* An object no descriptor uses any more goes. *)
LEMMA DescLeaves ==
  ASSUME DescInv, NEW s, Used' = Used \ {s},
         \A r \in Used' : lifecycle_ram'[r] = lifecycle_ram[r],
         Unissued' \subseteq Unissued, OnBus' \subseteq OnBus,
         \A d \in Unissued' \cup OnBus' : d.slot # s,
         \A r \in Used' : /\ Uses(Unissued', r) = Uses(Unissued, r)
                          /\ Uses(OnBus', r) = Uses(OnBus, r),
         to_come' = to_come
  PROVE  DescInv'
<1>1. Handles /\ Counted /\ Speculation
  BY DEF DescInv
<1>2. \A d \in Unissued' \cup OnBus' : d.slot \in Used' /\ d.slot \in Used
  BY <1>1 DEF Handles, Handled
<1>3. Handles'
  BY <1>1, <1>2 DEF Handles, Handled
<1>4. Counted'
  BY <1>1 DEF Counted
<1>5. Speculation'
  <2>1. \A d \in Unissued' : d.tclass = "SPECULATIVE"
                               => SpecPage(lifecycle_ram'[d.slot].page)
    BY <1>1, <1>2 DEF Speculation
  <2>2. \A r \in Used' : Alone(lifecycle_ram[r])
    BY <1>1 DEF Speculation
  <2> QED
    BY <1>1, <2>1, <2>2 DEF Speculation, Alone, SpecPage
<1> QED
  BY <1>3, <1>4, <1>5 DEF DescInv

(* on_complete: only the object of the transfer can become unused by it,    *)
(* because every other one on its way out is held back; if it is on its way *)
(* out and unused, its frame changes hands                                  *)
(* (model/gm/control_plane.py:129-143, 352-364).                            *)
LEMMA CompleteBooks ==
  ASSUME BooksInv, SimComplete
  PROVE  BooksInv'
<1> DEFINE d == pending[1].desc
           s == d.slot
           old == lifecycle_ram[s]
           o == EvComplete(old)
           f == d.phys
           ram == [lifecycle_ram EXCEPT ![s] = EvComplete(@)]
           gone == SwapDue(ram, f)
<1>1. /\ QueueInv /\ FrameInv /\ DescInv /\ FrameTypes /\ SlotBooks
      /\ Leaving /\ PagesKnown /\ Handles /\ Counted /\ Speculation
      /\ \A h \in holds : h[1] \in Requests
  BY DEF BooksInv, FrameInv, DescInv
<1>2. /\ Complete /\ OnComplete(d) /\ UNCHANGED <<to_come, holds>>
      /\ free_desc' = Append(free_desc, d.id)
  BY DEF SimComplete, OnComplete
<1>3. Arrives(d)
  BY <1>1, <1>2, ArrivesStep
<1>4. /\ d \in OnBus /\ QueueInv' /\ Unissued' = Unissued
      /\ OnBus' = OnBus \ {d}
      /\ IsFiniteSet(Unissued) /\ IsFiniteSet(OnBus)
  BY <1>1, <1>3, QueueFacts DEF Arrives
<1>5. Handled(d) /\ Resolves(d) /\ old.inflight >= 1 /\ s \in Used
      /\ f = old.phys
  BY <1>4, UsedByDesc DEF Handled
<1>6. /\ s \in Slots /\ old \in Object /\ old.reservation \in Nat
      /\ old.inflight \in Nat /\ old.fill_pending \in {0, 1}
      /\ old.logical_refcount \in Nat
  BY <1>1, <1>5, ObjectOf
<1>7. escaped' = "none"
  <2>1. escaped' = Raise(Resolves(d) /\ old.inflight = 0, "underflow")
    BY <1>2 DEF OnComplete
  <2>2. ~(Resolves(d) /\ old.inflight = 0) /\ escaped = "none"
    BY <1>5, <1>6 DEF BooksInv
  <2> QED
    BY <2>1, <2>2 DEF Raise
<1>8. /\ o \in Object /\ o.page = old.page /\ o.phys = old.phys
      /\ o.generation = old.generation /\ o.birth = old.birth
      /\ o.fill_pending = 0 /\ o.reservation = old.reservation
      /\ o.inflight = old.inflight - 1
      /\ o.logical_refcount = old.logical_refcount
      /\ o.state = "EVICTING" <=> old.state = "EVICTING"
  BY <1>5, <1>6, CompletedObject
<1>9. /\ lifecycle_ram' = [r \in Slots |-> IF r \in gone THEN NoObject
                                           ELSE ram[r]]
      /\ free_slots' = free_slots \o SetToSeq(gone)
      /\ objects' = [p \in Pages |-> IF objects[p] \in gone THEN NoSlot
                                     ELSE objects[p]]
      /\ by_phys' = [i \in DOMAIN by_phys |->
                       IF by_phys[i] \in gone THEN pending_swap[f]
                       ELSE by_phys[i]]
      /\ pending_swap' = IF gone = {} THEN pending_swap
                         ELSE [pending_swap EXCEPT ![f] = NoSlot]
      /\ UNCHANGED <<free_frames, births>>
  <2> DEFINE moved == IF Resolves(d) THEN ram ELSE lifecycle_ram
             left == SwapDue(moved, f)
  <2>1. /\ lifecycle_ram' = [r \in Slots |-> IF r \in left THEN NoObject
                                             ELSE moved[r]]
        /\ free_slots' = free_slots \o SetToSeq(left)
        /\ objects' = [p \in Pages |-> IF objects[p] \in left THEN NoSlot
                                       ELSE objects[p]]
        /\ by_phys' = [i \in DOMAIN by_phys |->
                         IF by_phys[i] \in left THEN pending_swap[f]
                         ELSE by_phys[i]]
        /\ pending_swap' = IF left = {} THEN pending_swap
                           ELSE [pending_swap EXCEPT ![f] = NoSlot]
        /\ UNCHANGED <<free_frames, births>>
    BY <1>2, Zenon DEF OnComplete
  <2> HIDE DEF ram
  <2>2. moved = ram
    BY <1>5
  <2> QED
    BY <2>1, <2>2
<1>10. \A r \in Slots : ram[r] = IF r = s THEN o ELSE lifecycle_ram[r]
  BY <1>1 DEF FrameTypes
<1>11. \A r : r \in gone <=> /\ r \in Table /\ ram[r].phys = f
                             /\ pending_swap[f] # NoSlot
                             /\ ram[r].state = "EVICTING"
                             /\ Evictable(ram[r])
  BY DEF SwapDue, Table
<1>12. /\ objects \in [Pages -> Slots \cup {NoSlot}]
       /\ by_phys \in Seq(Slots) /\ free_slots \in Seq(Slots)
  BY <1>1 DEF FrameTypes
<1> HIDE DEF ram, gone, o, f, s, d
<1>13. gone \subseteq {s}
  <2> SUFFICES ASSUME NEW r \in gone, r # s PROVE FALSE
    OBVIOUS
  <2>1. r \in Table /\ r \in Used /\ r \in Slots
    BY <1>1, <1>11 DEF SlotBooks, Used
  <2>2. HeldBack(lifecycle_ram[r]) /\ Evictable(lifecycle_ram[r])
    BY <1>1, <1>10, <1>11, <2>1 DEF Leaving
  <2>3. lifecycle_ram[r].inflight \in Nat
        /\ lifecycle_ram[r].reservation \in Nat
    BY <1>1, <2>1, ObjectOf
  <2> QED
    BY <2>2, <2>3 DEF HeldBack, Evictable
<1>14. \A r : /\ Uses(Unissued', r) = Uses(Unissued, r)
              /\ Uses(OnBus', r) = Uses(OnBus, r) -
                                     (IF s = r THEN 1 ELSE 0)
              /\ Uses(OnBus, r) \in Nat
  BY <1>4, UsesFewer, UsesOfSet DEF s
<1>15. /\ o.reservation = Uses(Unissued', s) /\ o.inflight = Uses(OnBus', s)
  BY <1>1, <1>5, <1>8, <1>14 DEF Counted
<1>16. \A r \in Used : r # s => /\ Uses(Unissued', r) = Uses(Unissued, r)
                                /\ Uses(OnBus', r) = Uses(OnBus, r)
  BY <1>14
<1>17. CASE gone = {}
  <2>1. Becomes(s, o)
    BY <1>9, <1>10, <1>17 DEF Becomes
  <2>2. UNCHANGED FrameTables
    <3>1. free_slots' = free_slots
      BY <1>9, <1>12, <1>17, FreedSlots
    <3>2. objects' = objects /\ pending_swap' = pending_swap
      BY <1>9, <1>12, <1>17
    <3>3. by_phys' = by_phys
      BY <1>9, <1>12, <1>17
    <3> QED
      BY <1>9, <3>1, <3>2, <3>3 DEF FrameTables
  <2>3. o.state = "EVICTING" => HeldBack(o)
    <3> SUFFICES ASSUME o.state = "EVICTING" PROVE HeldBack(o)
      OBVIOUS
    <3>1. s \in Table /\ old.logical_refcount = 0
      BY <1>1, <1>5, <1>8, EvictingHeld DEF HeldBack
    <3>2. pending_swap[f] # NoSlot
      BY <1>1, <1>5, <1>8, <3>1 DEF Leaving
    <3>3. ~Evictable(o)
      BY <1>5, <1>6, <1>8, <1>10, <1>11, <1>17, <3>1, <3>2
    <3>4. o.inflight > 0 \/ o.reservation > 0
      BY <1>5, <1>6, <1>8, <3>1, <3>3 DEF Evictable
    <3>5. SpecPage(old.page) => old.reservation + old.inflight <= 1
      BY <1>1, <1>5 DEF Speculation, Alone
    <3>6. SpecPage(o.page) => o.reservation = 0
      BY <1>5, <1>6, <1>8, <3>5
    <3> QED
      BY <1>8, <3>1, <3>4, <3>6 DEF HeldBack
  <2>4. StillFramed(old, o)
    BY <1>8, <2>3 DEF StillFramed
  <2>5. FrameInv' /\ Used' = Used
    BY <1>1, <1>5, <2>1, <2>2, <2>4, ObjectMoves
  <2>6. o.reservation + o.inflight <= old.reservation + old.inflight
    BY <1>5, <1>6, <1>8
  <2>7. /\ Unissued' \subseteq Unissued
        /\ OnBus' \subseteq Unissued \cup OnBus /\ to_come' = to_come
    BY <1>2, <1>4
  <2>8. DescInv'
    BY <1>1, <1>5, <1>15, <1>16, <2>1, <2>4, <2>5, <2>6, <2>7, DescMoves
  <2> QED
    BY <1>1, <1>2, <1>4, <1>7, <2>5, <2>8 DEF BooksInv
<1>18. CASE gone = {s}
  <2>1. /\ s \in Table /\ old.state = "EVICTING" /\ Evictable(o)
    BY <1>6, <1>8, <1>10, <1>11, <1>18
  <2>2. lifecycle_ram' = [r \in Slots |-> IF r = s THEN NoObject
                                          ELSE lifecycle_ram[r]]
    BY <1>9, <1>10, <1>18
  <2>3. free_slots' = Append(free_slots, s)
    BY <1>6, <1>9, <1>12, <1>18, FreedSlots
  <2>4. objects' = objects
    <3>1. \A p \in Pages : objects[p] # s
      <4> TAKE p \in Pages
      <4>1. s # NoSlot
        BY <1>6, GmAssumption DEF Slots, NoSlot
      <4> QED
        BY <1>1, <2>1, <4>1 DEF PagesKnown
    <3> QED
      BY <1>9, <1>12, <1>18, <3>1
  <2>5. by_phys' = [i \in DOMAIN by_phys |->
                      IF by_phys[i] = s THEN pending_swap[f] ELSE by_phys[i]]
    BY <1>9, <1>18
  <2>6. pending_swap' = [pending_swap EXCEPT ![f] = NoSlot]
    BY <1>9, <1>18
  <2>7. FrameInv' /\ Used' = Used \ {s}
    <3>1. HandsOver(s, f, pending_swap[f])
      BY <1>9, <2>2, <2>3, <2>4, <2>5, <2>6 DEF HandsOver, Replaced
    <3> QED
      BY <1>1, <1>5, <2>1, <3>1, SwapMoves
  <2>8. \A e \in Unissued' \cup OnBus' : e.slot # s
    <3>1. Uses(Unissued', s) = 0 /\ Uses(OnBus', s) = 0
      BY <1>15, <2>1 DEF Evictable
    <3>2. IsFiniteSet(Unissued') /\ IsFiniteSet(OnBus')
      BY <1>4, FS_RemoveElement
    <3> QED
      BY <3>1, <3>2, UsesOfSet
  <2>9. \A r \in Used' : /\ r \in Used /\ r # s
                         /\ lifecycle_ram'[r] = lifecycle_ram[r]
    BY <2>2, <2>7 DEF Used
  <2>10. /\ Unissued' \subseteq Unissued /\ OnBus' \subseteq OnBus
         /\ to_come' = to_come
    BY <1>2, <1>4
  <2>11. DescInv'
    BY <1>1, <1>16, <2>7, <2>8, <2>9, <2>10, DescLeaves
  <2> QED
    BY <1>1, <1>2, <1>4, <1>7, <2>7, <2>11 DEF BooksInv
<1> QED
  BY <1>13, <1>17, <1>18
---------------------------------------------------------------------------
(* A set that maps into T one to one is no larger than T. *)
LEMMA NoLarger ==
  ASSUME NEW S, NEW T, IsFiniteSet(T), NEW m \in [S -> T],
         \A a, b \in S : m[a] = m[b] => a = b
  PROVE  IsFiniteSet(S) /\ Cardinality(S) <= Cardinality(T)
<1>1. m \in Injection(S, T)
  BY DEF Injection, IsInjective
<1> QED
  BY <1>1, FS_Injection

(* NMeta slots suffice: while some frame is not promised, the published and *)
(* the promised objects leave a slot free                                   *)
(* (model/gm/control_plane.py:180-196).                                     *)
LEMMA SlotToSpare ==
  ASSUME FrameInv, NEW f \in Frames, pending_swap[f] = NoSlot
  PROVE  free_slots # <<>>
<1>1. FrameTypes /\ SlotBooks /\ FrameBooked /\ PromiseKept
  BY DEF FrameInv
<1>2. /\ NFrames \in Nat \ {0} /\ NMeta \in Nat /\ NMeta >= 2 * NFrames
  BY GmAssumption
<1>3. /\ IsFiniteSet(Frames) /\ Cardinality(Frames) = NFrames
      /\ IsFiniteSet(Slots) /\ Cardinality(Slots) = NMeta
  <2>1. /\ IsFiniteSet(Frames) /\ Cardinality(Frames) = NFrames
    <3>1. /\ 0 \in Int /\ NFrames - 1 \in Int /\ ~(0 > NFrames - 1)
          /\ NFrames - 1 - 0 + 1 = NFrames
      BY <1>2
    <3> QED
      BY <3>1, FS_Interval DEF Frames
  <2>2. /\ IsFiniteSet(Slots) /\ Cardinality(Slots) = NMeta
    <3>1. /\ 0 \in Int /\ NMeta - 1 \in Int /\ ~(0 > NMeta - 1)
          /\ NMeta - 1 - 0 + 1 = NMeta
      BY <1>2
    <3> QED
      BY <3>1, FS_Interval DEF Slots
  <2> QED
    BY <2>1, <2>2
<1>4. \A s \in Used : s \in Slots /\ lifecycle_ram[s].phys \in Frames
  BY <1>1, ObjectOf
<1>5. Table \subseteq Used /\ Promised \subseteq Used
  BY <1>1 DEF SlotBooks
<1>6. IsFiniteSet(Table) /\ Cardinality(Table) <= NFrames
  <2> DEFINE m == [s \in Table |-> lifecycle_ram[s].phys]
  <2>1. m \in [Table -> Frames]
    BY <1>4, <1>5
  <2>2. \A a, b \in Table : m[a] = m[b] => a = b
    BY <1>1 DEF FrameBooked
  <2> HIDE DEF m
  <2> QED
    BY <1>3, <2>1, <2>2, NoLarger
<1>7. IsFiniteSet(Promised) /\ Cardinality(Promised) <= NFrames - 1
  <2> DEFINE m == [s \in Promised |-> lifecycle_ram[s].phys]
             T == Frames \ {f}
  <2>1. \A s \in Promised : /\ lifecycle_ram[s].phys \in T
                            /\ pending_swap[lifecycle_ram[s].phys] = s
    <3> TAKE s \in Promised
    <3>1. PICK g \in Frames : s = pending_swap[g] /\ s # NoSlot
      BY DEF Promised
    <3>2. lifecycle_ram[s].phys = g
      BY <1>1, <3>1 DEF PromiseKept
    <3> QED
      BY <3>1, <3>2
  <2>2. m \in [Promised -> T]
    BY <2>1
  <2>3. \A a, b \in Promised : m[a] = m[b] => a = b
    BY <2>1
  <2>4. IsFiniteSet(T) /\ Cardinality(T) = NFrames - 1
    BY <1>3, FS_RemoveElement
  <2> HIDE DEF m, T
  <2> QED
    BY <2>2, <2>3, <2>4, NoLarger
<1>8. IsFiniteSet(Used) /\ Cardinality(Used) <= 2 * NFrames - 1
  <2>1. Used = Table \cup Promised /\ Table \cap Promised = {}
    BY <1>1 DEF SlotBooks
  <2>2. /\ IsFiniteSet(Table \cup Promised)
        /\ Cardinality(Table \cup Promised) =
             Cardinality(Table) + Cardinality(Promised)
               - Cardinality(Table \cap Promised)
    BY <1>6, <1>7, FS_Union
  <2>3. Cardinality(Table \cap Promised) = 0
    BY <2>1, FS_EmptySet
  <2>4. Cardinality(Table) \in Nat /\ Cardinality(Promised) \in Nat
    BY <1>6, <1>7, FS_CardinalityType
  <2> QED
    BY <1>2, <1>6, <1>7, <2>1, <2>2, <2>3, <2>4
<1>9. Used # Slots
  <2>1. Cardinality(Used) \in Nat
    BY <1>8, FS_CardinalityType
  <2> QED
    BY <1>2, <1>3, <1>8, <2>1
<1>10. ToSet(free_slots) # {}
  BY <1>1, <1>9 DEF SlotBooks, Used
<1> QED
  BY <1>1, <1>10, MembersOf DEF FrameTypes

(* A new object is published; the one that held its frame is gone           *)
(* (model/gm/control_plane.py:199-270).                                     *)
Publishes(X, s, o) ==
  /\ lifecycle_ram' =
       [r \in Slots |-> IF r = s THEN o ELSE IF r \in X THEN NoObject
                        ELSE lifecycle_ram[r]]
  /\ objects' =
       [p \in Pages |-> IF p = o.page THEN s
                        ELSE IF objects[p] \in X THEN NoSlot ELSE objects[p]]
  /\ by_phys' \in Seq(Slots) /\ Distinct(by_phys')
  /\ Table' = (Table \ X) \cup {s}
  /\ free_slots' \in Seq(Slots) /\ Distinct(free_slots')
  /\ ToSet(free_slots') = (ToSet(free_slots) \cup X) \ {s}
  /\ free_frames' \in Seq(Frames) /\ Distinct(free_frames')
  /\ ToSet(free_frames') = ToSet(free_frames) \ {o.phys}
  /\ pending_swap' = pending_swap /\ births' \in Nat

(* A new object is published in place of those of its frame                *)
(* (model/gm/control_plane.py:214-246).                                    *)
LEMMA PublishMoves ==
  ASSUME FrameInv, NEW X \in SUBSET Table, NEW s \in Slots, s \notin Used \ X,
         NEW o \in Object, o.fill_pending <= 1, o.state # "EVICTING",
         \A t \in Table : t \in X <=> lifecycle_ram[t].phys = o.phys,
         pending_swap[o.phys] = NoSlot, Publishes(X, s, o)
  PROVE  FrameInv' /\ Used' = (Used \ X) \cup {s}
<1>1. /\ FrameTypes /\ SlotBooks /\ FrameBooked /\ PromiseKept
      /\ Leaving /\ PagesKnown
  BY DEF FrameInv
<1>2. /\ o.phys \in Frames /\ o.page \in Pages /\ o # NoObject
      /\ NoSlot \notin Slots
  BY NoObjectAssumption, GmAssumption DEF Object, NoSlot, Slots
<1>3. /\ lifecycle_ram'[s] = o
      /\ \A r \in Slots : r # s /\ r \notin X
                            => lifecycle_ram'[r] = lifecycle_ram[r]
      /\ \A r \in Slots : r # s /\ r \in X => lifecycle_ram'[r] = NoObject
  BY DEF Publishes
<1>4. Used' = (Used \ X) \cup {s}
  BY <1>2, <1>3 DEF Used
<1>5. /\ by_phys' \in Seq(Slots) /\ Distinct(by_phys')
      /\ Table' = (Table \ X) \cup {s}
      /\ free_slots' \in Seq(Slots) /\ Distinct(free_slots')
      /\ ToSet(free_slots') = (ToSet(free_slots) \cup X) \ {s}
      /\ free_frames' \in Seq(Frames) /\ Distinct(free_frames')
      /\ ToSet(free_frames') = ToSet(free_frames) \ {o.phys}
      /\ pending_swap' = pending_swap /\ births' \in Nat
  BY DEF Publishes
<1>6. Promised' = Promised /\ s \notin Promised
  BY <1>1, <1>5 DEF Promised, SlotBooks
<1>7. \A r \in Used \ X : /\ r \in Slots /\ r # s
                          /\ lifecycle_ram'[r] = lifecycle_ram[r]
  BY <1>3 DEF Used
<1>8. Table \subseteq Used /\ Promised \subseteq Used \ X
  BY <1>1 DEF SlotBooks
<1>9. FrameTypes'
  <2>1. lifecycle_ram' \in [Slots -> Object \cup {NoObject}]
    BY <1>1 DEF FrameTypes, Publishes
  <2>2. objects' \in [Pages -> Slots \cup {NoSlot}]
    BY <1>1 DEF FrameTypes, Publishes
  <2>3. \A r \in Used' : lifecycle_ram'[r].fill_pending <= 1
    BY <1>1, <1>3, <1>4, <1>7 DEF FrameTypes
  <2> QED
    BY <1>1, <1>5, <2>1, <2>2, <2>3 DEF FrameTypes
<1>10. SlotBooks'
  <2>1. X \subseteq Used /\ Used \subseteq Slots
    BY <1>8 DEF Used
  <2>2. /\ ToSet(free_slots) = Slots \ Used
        /\ Used = Table \cup Promised /\ Table \cap Promised = {}
    BY <1>1 DEF SlotBooks
  <2>3. ToSet(free_slots') = Slots \ Used'
    BY <1>4, <1>5, <2>1, <2>2
  <2>4. Used' = Table' \cup Promised' /\ Table' \cap Promised' = {}
    BY <1>4, <1>5, <1>6, <2>2
  <2> QED
    BY <2>3, <2>4 DEF SlotBooks
<1>11. FrameBooked'
  <2>1. \A r \in Table \ X :
          /\ lifecycle_ram'[r] = lifecycle_ram[r]
          /\ lifecycle_ram[r].phys # o.phys
    BY <1>7, <1>8
  <2>2. \A r, t \in Table' :
          lifecycle_ram'[r].phys = lifecycle_ram'[t].phys => r = t
    BY <1>1, <1>3, <1>5, <2>1 DEF FrameBooked
  <2>3. ASSUME NEW g \in Frames
        PROVE  g \in ToSet(free_frames')
                 <=> \A r \in Table' : lifecycle_ram'[r].phys # g
    <3>1. CASE g = o.phys
      BY <1>3, <1>5, <3>1
    <3>2. CASE g # o.phys
      <4>1. (\A r \in Table' : lifecycle_ram'[r].phys # g)
              <=> (\A r \in Table \ X : lifecycle_ram[r].phys # g)
        BY <1>3, <1>5, <2>1, <3>2
      <4>2. (\A r \in Table \ X : lifecycle_ram[r].phys # g)
              <=> (\A r \in Table : lifecycle_ram[r].phys # g)
        BY <3>2
      <4> QED
        BY <1>1, <1>5, <3>2, <4>1, <4>2 DEF FrameBooked
    <3> QED
      BY <3>1, <3>2
  <2> QED
    BY <2>2, <2>3 DEF FrameBooked
<1>12. PromiseKept'
  <2> SUFFICES ASSUME NEW g \in Frames, pending_swap[g] # NoSlot
               PROVE  /\ lifecycle_ram'[pending_swap[g]].phys = g
                      /\ lifecycle_ram'[pending_swap[g]].state # "EVICTING"
                      /\ g \notin ToSet(free_frames')
    BY <1>5 DEF PromiseKept
  <2>1. pending_swap[g] \in Used \ X
    BY <1>8 DEF Promised
  <2> QED
    BY <1>1, <1>5, <1>7, <2>1 DEF PromiseKept
<1>13. Leaving'
  <2> SUFFICES ASSUME NEW r \in Table'
               PROVE  /\ lifecycle_ram'[r].state = "EVICTING"
                           <=> pending_swap[lifecycle_ram'[r].phys] # NoSlot
                      /\ lifecycle_ram'[r].state = "EVICTING"
                           => HeldBack(lifecycle_ram'[r])
    BY <1>5 DEF Leaving, HeldBack, SpecPage
  <2>1. CASE r = s
    BY <1>3, <2>1
  <2>2. CASE r \in Table \ X
    BY <1>1, <1>7, <1>8, <2>2 DEF Leaving
  <2> QED
    BY <1>5, <2>1, <2>2
<1>14. PagesKnown'
  <2> SUFFICES ASSUME NEW p \in Pages, objects'[p] # NoSlot
               PROVE  /\ objects'[p] \in Used'
                      /\ lifecycle_ram'[objects'[p]].page = p
                      /\ lifecycle_ram'[objects'[p]].state # "EVICTING"
    BY DEF PagesKnown
  <2>1. objects'[p] = IF p = o.page THEN s
                      ELSE IF objects[p] \in X THEN NoSlot ELSE objects[p]
    BY DEF Publishes
  <2>2. CASE p = o.page
    BY <1>3, <1>4, <2>1, <2>2
  <2>3. CASE p # o.page
    <3>1. objects'[p] = objects[p] /\ objects[p] \in Used \ X
      BY <1>1, <2>1, <2>3 DEF PagesKnown
    <3> QED
      BY <1>1, <1>4, <1>7, <3>1 DEF PagesKnown
  <2> QED
    BY <2>2, <2>3
<1> QED
  BY <1>4, <1>9, <1>10, <1>11, <1>12, <1>13, <1>14 DEF FrameInv

(* A new object is promised a frame whose object starts on its way out      *)
(* (model/gm/control_plane.py:199-270).                                     *)
Promises(t, s, o) ==
  /\ lifecycle_ram' =
       [r \in Slots |-> IF r = s THEN o
                        ELSE IF r = t THEN [lifecycle_ram[t] EXCEPT
                                              !.state = "EVICTING"]
                        ELSE lifecycle_ram[r]]
  /\ objects' =
       [p \in Pages |-> IF p = o.page THEN s
                        ELSE IF objects[p] = t THEN NoSlot ELSE objects[p]]
  /\ pending_swap' = [pending_swap EXCEPT ![o.phys] = s]
  /\ free_slots' = Tail(free_slots) /\ births' \in Nat
  /\ UNCHANGED <<free_frames, by_phys>>

(* A frame is promised to a new object                                     *)
(* (model/gm/control_plane.py:162-178, 214-246).                           *)
LEMMA PromiseMoves ==
  ASSUME FrameInv, NEW t \in Table, lifecycle_ram[t].state # "EVICTING",
         HeldBack(lifecycle_ram[t]), free_slots # <<>>,
         NEW s, s = free_slots[1],
         NEW o \in Object, o.fill_pending <= 1, o.state # "EVICTING",
         o.phys = lifecycle_ram[t].phys, Promises(t, s, o)
  PROVE  /\ FrameInv' /\ Used' = Used \cup {s} /\ s \in Slots /\ s \notin Used
         /\ lifecycle_ram'[s] = o
         /\ \A r \in Used : r # t => lifecycle_ram'[r] = lifecycle_ram[r]
         /\ lifecycle_ram'[t] = [lifecycle_ram[t] EXCEPT !.state = "EVICTING"]
<1> DEFINE f == o.phys
           old == lifecycle_ram[t]
           e == [old EXCEPT !.state = "EVICTING"]
<1>1. /\ FrameTypes /\ SlotBooks /\ FrameBooked /\ PromiseKept
      /\ Leaving /\ PagesKnown
  BY DEF FrameInv
<1>2. /\ f \in Frames /\ o.page \in Pages /\ o # NoObject
      /\ NoSlot \notin Slots
  BY NoObjectAssumption, GmAssumption DEF Object, NoSlot, Slots
<1>3. /\ free_slots' \in Seq(Slots) /\ Distinct(free_slots')
      /\ ToSet(free_slots') = ToSet(free_slots) \ {s}
      /\ s \in ToSet(free_slots)
  BY <1>1, TailDistinct DEF FrameTypes, Promises
<1>4. /\ s \in Slots /\ s \notin Used /\ t \in Used /\ t \in Slots
      /\ s # NoSlot /\ t # s
  BY <1>1, <1>2, <1>3 DEF SlotBooks, Used
<1>5. /\ lifecycle_ram'[s] = o /\ lifecycle_ram'[t] = e
      /\ \A r \in Slots : r # s /\ r # t
                            => lifecycle_ram'[r] = lifecycle_ram[r]
      /\ UNCHANGED <<free_frames, by_phys>> /\ births' \in Nat
  BY <1>4 DEF Promises
<1>6. /\ old \in Object /\ old.phys \in Frames /\ old.fill_pending <= 1
  BY <1>1, <1>4, ObjectOf DEF FrameTypes
<1>7. /\ e \in Object /\ e.phys = f /\ e.page = old.page
      /\ e.fill_pending = old.fill_pending /\ e.state = "EVICTING"
      /\ e.logical_refcount = old.logical_refcount
      /\ e.inflight = old.inflight /\ e.reservation = old.reservation
  BY <1>6 DEF Object, ObjStates
<1> HIDE DEF e
<1>8. Used' = Used \cup {s}
  BY <1>2, <1>4, <1>5, <1>7, NoObjectAssumption DEF Used
<1>9. pending_swap[f] = NoSlot /\ f \notin ToSet(free_frames)
  BY <1>1, <1>2 DEF Leaving, FrameBooked
<1>10. \A g \in Frames :
         pending_swap'[g] = IF g = f THEN s ELSE pending_swap[g]
  BY <1>1 DEF FrameTypes, Promises
<1>11. Table' = Table /\ Promised' = Promised \cup {s}
  <2>1. Table' = Table
    BY <1>5 DEF Table
  <2>2. Promised' = Promised \cup {s}
    BY <1>2, <1>4, <1>9, <1>10 DEF Promised
  <2> QED
    BY <2>1, <2>2
<1>12. /\ Table \subseteq Used /\ Promised \subseteq Used
       /\ t \notin Promised /\ Used \subseteq Slots
  BY <1>1 DEF SlotBooks, Used
<1>13. \A r \in Used : /\ lifecycle_ram'[r].phys = lifecycle_ram[r].phys
                       /\ lifecycle_ram'[r].page = lifecycle_ram[r].page
  BY <1>4, <1>5, <1>7, <1>12
<1>14. \A r \in Used : r # t => lifecycle_ram'[r] = lifecycle_ram[r]
  BY <1>4, <1>5, <1>12
<1>15. FrameTypes'
  <2>1. lifecycle_ram' \in [Slots -> Object \cup {NoObject}]
    BY <1>1, <1>7 DEF FrameTypes, Promises, e
  <2>2. objects' \in [Pages -> Slots \cup {NoSlot}]
    BY <1>1, <1>4 DEF FrameTypes, Promises
  <2>3. \A r \in Used' : lifecycle_ram'[r].fill_pending <= 1
    BY <1>1, <1>5, <1>6, <1>7, <1>8, <1>14 DEF FrameTypes
  <2>4. pending_swap' \in [Frames -> Slots \cup {NoSlot}]
    BY <1>1, <1>4 DEF FrameTypes, Promises
  <2> QED
    BY <1>1, <1>3, <1>5, <2>1, <2>2, <2>3, <2>4 DEF FrameTypes
<1>16. SlotBooks'
  BY <1>1, <1>3, <1>4, <1>8, <1>11, <1>12 DEF SlotBooks
<1>17. FrameBooked'
  BY <1>1, <1>5, <1>11, <1>12, <1>13 DEF FrameBooked
<1>18. PromiseKept'
  <2> SUFFICES ASSUME NEW g \in Frames, pending_swap'[g] # NoSlot
               PROVE  /\ lifecycle_ram'[pending_swap'[g]].phys = g
                      /\ lifecycle_ram'[pending_swap'[g]].state # "EVICTING"
                      /\ g \notin ToSet(free_frames')
    BY DEF PromiseKept
  <2>1. CASE g = f
    BY <1>5, <1>9, <1>10, <2>1
  <2>2. CASE g # f
    <3>1. pending_swap'[g] = pending_swap[g] /\ pending_swap[g] \in Promised
      BY <1>10, <2>2 DEF Promised
    <3> QED
      BY <1>1, <1>5, <1>12, <1>14, <3>1 DEF PromiseKept
  <2> QED
    BY <2>1, <2>2
<1>19. Leaving'
  <2> SUFFICES ASSUME NEW r \in Table
               PROVE  /\ lifecycle_ram'[r].state = "EVICTING"
                           <=> pending_swap'[lifecycle_ram'[r].phys] # NoSlot
                      /\ lifecycle_ram'[r].state = "EVICTING"
                           => HeldBack(lifecycle_ram'[r])
    BY <1>11 DEF Leaving, HeldBack, SpecPage
  <2>1. CASE r = t
    <3>1. HeldBack(e)
      BY <1>7 DEF HeldBack
    <3> QED
      BY <1>2, <1>4, <1>5, <1>7, <1>10, <2>1, <3>1
  <2>2. CASE r # t
    <3>1. lifecycle_ram'[r] = lifecycle_ram[r] /\ lifecycle_ram[r].phys # f
      BY <1>1, <1>12, <1>14, <2>2 DEF FrameBooked
    <3>2. lifecycle_ram[r].phys \in Frames
      BY <1>1, <1>12, ObjectOf
    <3> QED
      BY <1>1, <1>10, <3>1, <3>2 DEF Leaving
  <2> QED
    BY <2>1, <2>2
<1>20. PagesKnown'
  <2> SUFFICES ASSUME NEW p \in Pages, objects'[p] # NoSlot
               PROVE  /\ objects'[p] \in Used'
                      /\ lifecycle_ram'[objects'[p]].page = p
                      /\ lifecycle_ram'[objects'[p]].state # "EVICTING"
    BY DEF PagesKnown
  <2>1. objects'[p] = IF p = o.page THEN s
                      ELSE IF objects[p] = t THEN NoSlot ELSE objects[p]
    BY DEF Promises
  <2>2. CASE p = o.page
    BY <1>5, <1>8, <2>1, <2>2
  <2>3. CASE p # o.page
    <3>1. /\ objects'[p] = objects[p] /\ objects[p] \in Used
          /\ objects[p] # t
      BY <1>1, <2>1, <2>3 DEF PagesKnown
    <3> QED
      BY <1>1, <1>8, <1>14, <3>1 DEF PagesKnown
  <2> QED
    BY <2>2, <2>3
<1> QED
  BY <1>4, <1>5, <1>8, <1>14, <1>15, <1>16, <1>17, <1>18, <1>19, <1>20
     DEF FrameInv, e
---------------------------------------------------------------------------
(* A page that is fetched speculatively is fetched once: what a trace whose *)
(* speculative keys are its own gives, and what gm_orphan's trace does not. *)
OneSpeculation ==
  \A q, r \in Requests :
    q.tclass = "SPECULATIVE" /\ r.page = q.page => r = q

(* What the handles and the counts see of an object. *)
SameUse(a, b) ==
  /\ a.page = b.page /\ a.phys = b.phys /\ a.generation = b.generation
  /\ a.birth = b.birth /\ a.reservation = b.reservation
  /\ a.inflight = b.inflight

(* A new object and its descriptor come in; the slot it takes was in no use *)
(* (model/gm/control_plane.py:199-270).                                     *)
ComesIn(q, d, s, o) ==
  /\ Joins(d) /\ d.slot = s /\ d.tclass = q.tclass
  /\ lifecycle_ram'[s] = o
  /\ o.page = q.page /\ o.phys = d.phys /\ o.generation = d.generation
  /\ o.birth = d.owner /\ o.reservation = 1 /\ o.inflight = 0
  /\ \A e \in Unissued \cup OnBus : e.slot # s /\ e.slot \in Used'
  /\ \A r \in Used' : r # s =>
       r \in Used /\ SameUse(lifecycle_ram'[r], lifecycle_ram[r])

(* The handle of a newcomer resolves, and it is counted.                   *)
LEMMA Newcomer ==
  ASSUME OneSpeculation, DescInv, IsFiniteSet(Unissued), IsFiniteSet(OnBus),
         NEW q \in to_come, to_come' = to_come \ {q},
         NEW d, NEW s \in Used', NEW o, ComesIn(q, d, s, o)
  PROVE  DescInv'
<1>1. Handles /\ Counted /\ Speculation
  BY DEF DescInv
<1>2. /\ d \notin Unissued \cup OnBus
      /\ Unissued' = Unissued \cup {d} /\ OnBus' = OnBus
  BY DEF Joins, ComesIn
<1>3. /\ d.slot = s /\ d.tclass = q.tclass /\ lifecycle_ram'[s] = o
      /\ o.page = q.page /\ o.phys = d.phys /\ o.generation = d.generation
      /\ o.birth = d.owner /\ o.reservation = 1 /\ o.inflight = 0
  BY DEF ComesIn
<1>4. \A e \in Unissued \cup OnBus : e.slot # s /\ e.slot \in Used'
  BY DEF ComesIn
<1>5. \A r \in Used' : r # s =>
         r \in Used /\ SameUse(lifecycle_ram'[r], lifecycle_ram[r])
  BY DEF ComesIn
<1>6. Handles'
  <2> SUFFICES ASSUME NEW e \in Unissued' \cup OnBus' PROVE Handled(e)'
    BY DEF Handles
  <2>1. CASE e = d
    BY <1>3, <2>1 DEF Handled
  <2>2. CASE e # d
    <3>1. e \in Unissued \cup OnBus /\ Handled(e)
      BY <1>1, <1>2, <2>2 DEF Handles
    <3> QED
      BY <1>4, <1>5, <3>1 DEF Handled, SameUse
  <2> QED
    BY <2>1, <2>2
<1>7. ASSUME NEW r
      PROVE  /\ Uses(Unissued', r) = Uses(Unissued, r) +
                                       (IF s = r THEN 1 ELSE 0)
             /\ Uses(OnBus', r) = Uses(OnBus, r)
             /\ Uses(Unissued, r) \in Nat
  <2>1. d \notin Unissued
    BY <1>2
  <2>2. Uses(Unissued \cup {d}, r)
          = Uses(Unissued, r) + (IF d.slot = r THEN 1 ELSE 0)
    BY <2>1, UsesMore
  <2>3. Uses(Unissued, r) \in Nat
    BY UsesOfSet
  <2> QED
    BY <1>2, <1>3, <2>2, <2>3
<1>8. Uses(Unissued, s) = 0 /\ Uses(OnBus, s) = 0
  <2>1. \A e \in Unissued : e.slot # s
    BY <1>4
  <2>2. \A e \in OnBus : e.slot # s
    BY <1>4
  <2>3. Uses(Unissued, s) = 0
    BY <2>1, UsesOfSet
  <2>4. Uses(OnBus, s) = 0
    BY <2>2, UsesOfSet
  <2> QED
    BY <2>3, <2>4
<1>9. Counted'
  <2> SUFFICES ASSUME NEW r \in Used'
               PROVE  /\ lifecycle_ram'[r].reservation = Uses(Unissued', r)
                      /\ lifecycle_ram'[r].inflight = Uses(OnBus', r)
    BY DEF Counted
  <2>1. CASE r = s
    BY <1>7, <1>8, <1>3, <2>1
  <2>2. CASE r # s
    <3>1. /\ Uses(Unissued', r) = Uses(Unissued, r)
          /\ Uses(OnBus', r) = Uses(OnBus, r)
      BY <1>7, <2>2
    <3> QED
      BY <1>1, <1>5, <2>2, <3>1 DEF Counted, SameUse
  <2> QED
    BY <2>1, <2>2
<1>10. q \in Requests
  BY <1>1 DEF Speculation
<1>11. Speculation'
  <2>1. to_come' \subseteq Requests
    BY <1>1 DEF Speculation
  <2>2. ASSUME NEW e \in Unissued', e.tclass = "SPECULATIVE"
        PROVE  SpecPage(lifecycle_ram'[e.slot].page)
    <3>1. CASE e = d
      BY <1>10, <1>3, <2>2, <3>1 DEF SpecPage
    <3>2. CASE e # d
      <4>1. e \in Unissued
        BY <1>2, <3>2
      <4> QED
        BY <1>1, <1>4, <1>5, <2>2, <4>1 DEF Speculation, SameUse
    <3> QED
      BY <3>1, <3>2
  <2>3. ASSUME NEW r \in Used' PROVE Alone(lifecycle_ram[r])'
    <3>1. CASE r = s
      <4>1. SpecPage(q.page) => \A c \in to_come \ {q} : c.page # q.page
        BY <1>1, <1>10 DEF SpecPage, OneSpeculation, Speculation
      <4> QED
        BY <1>3, <3>1, <4>1 DEF Alone, SpecPage
    <3>2. CASE r # s
      <4>1. /\ Alone(lifecycle_ram[r])
            /\ SameUse(lifecycle_ram'[r], lifecycle_ram[r])
        BY <1>1, <1>5, <3>2 DEF Speculation
      <4> QED
        BY <4>1 DEF Alone, SpecPage, SameUse
    <3> QED
      BY <3>1, <3>2
  <2> QED
    BY <2>1, <2>2, <2>3 DEF Speculation, SpecPage
<1> QED
  BY <1>6, <1>9, <1>11 DEF DescInv

(* ADMIT, and ACQUIRE when it is held, on an object there is                *)
(* (model/gm/control_plane.py:180-196).                                     *)
LEMMA AdmittedObject ==
  ASSUME NEW old \in Object, NEW q
  PROVE  /\ Admitted(q, old) \in Object
         /\ Admitted(q, old).reservation = old.reservation + 1
         /\ Admitted(q, old).page = old.page
         /\ Admitted(q, old).phys = old.phys
         /\ Admitted(q, old).generation = old.generation
         /\ Admitted(q, old).birth = old.birth
         /\ Admitted(q, old).inflight = old.inflight
         /\ Admitted(q, old).fill_pending = old.fill_pending
         /\ Admitted(q, old).state = old.state
<1> DEFINE a == [old EXCEPT !.reservation = old.reservation + 1]
           b == [a EXCEPT !.logical_refcount = a.logical_refcount + 1]
<1>1. Admitted(q, old) = IF q.held THEN b ELSE a
  BY DEF Admitted, EvAdmit, EvAcquire
<1>2. old.reservation + 1 \in Nat /\ old.logical_refcount + 1 \in Nat
  BY DEF Object
<1>3. /\ a \in Object /\ a.reservation = old.reservation + 1
      /\ a.page = old.page /\ a.phys = old.phys
      /\ a.generation = old.generation /\ a.birth = old.birth
      /\ a.inflight = old.inflight /\ a.fill_pending = old.fill_pending
      /\ a.state = old.state /\ a.logical_refcount = old.logical_refcount
  BY <1>2 DEF Object
<1> HIDE DEF a
<1>4. /\ b \in Object /\ b.reservation = a.reservation
      /\ b.page = a.page /\ b.phys = a.phys
      /\ b.generation = a.generation /\ b.birth = a.birth
      /\ b.inflight = a.inflight /\ b.fill_pending = a.fill_pending
      /\ b.state = a.state
  BY <1>2, <1>3 DEF Object
<1> HIDE DEF b
<1> QED
  BY <1>1, <1>3, <1>4

(* What an arrival leaves to come, and holds. *)
LEMMA ArriveFacts ==
  ASSUME BooksInv, NEW q \in Requests, Arrive(q)
  PROVE  /\ q \in to_come /\ to_come' = to_come \ {q}
         /\ \A h \in holds' : h[1] \in Requests
<1>1. /\ q \in to_come /\ to_come' = to_come \ {q}
      /\ holds' = IF q.held THEN holds \cup {<<q, cycle>>} ELSE holds
  BY DEF Arrive
<1>2. <<q, cycle>>[1] = q
  OBVIOUS
<1>3. \A h \in holds : h[1] \in Requests
  BY DEF BooksInv
<1> QED
  BY <1>1, <1>2, <1>3

(* admit of a page that has an object: nobody fetches it speculatively      *)
(* (model/gm/control_plane.py:180-196).                                     *)
LEMMA HitBooks ==
  ASSUME OneSpeculation, BooksInv, cycle \in Nat, NEW q \in Requests,
         Arrive(q), free_desc # <<>>, AdmitHit(q)
  PROVE  BooksInv'
<1> DEFINE s == objects[q.page]
           old == lifecycle_ram[s]
           o == Admitted(q, old)
           d == NewDescriptor(q, s, o, cycle)
<1>1. /\ QueueInv /\ FrameInv /\ DescInv /\ FrameTypes /\ PagesKnown
      /\ Handles /\ Counted /\ Speculation /\ escaped = "none"
      /\ free_desc \in Seq(DescIds)
  BY DEF BooksInv, FrameInv, DescInv, QueueInv, QueueTypes
<1>2. /\ q \in to_come /\ to_come' = to_come \ {q} /\ q.page \in Pages
      /\ \A h \in holds' : h[1] \in Requests
  BY ArriveFacts, SimAssumption DEF Request
<1>3. /\ s # NoSlot /\ lifecycle_ram' = [lifecycle_ram EXCEPT ![s] = o]
      /\ Enqueue(d) /\ free_desc' = Tail(free_desc)
      /\ UNCHANGED FrameTables /\ escaped' = escaped
  BY DEF AdmitHit, Lookup, FrameTables
<1>4. s \in Used /\ old.page = q.page /\ old.state # "EVICTING"
  BY <1>1, <1>2, <1>3 DEF PagesKnown
<1>5. /\ s \in Slots /\ old \in Object /\ old.fill_pending \in {0, 1}
      /\ old.reservation \in Nat
  BY <1>1, <1>4, ObjectOf
<1> HIDE DEF s
<1>6. /\ o \in Object /\ o.reservation = old.reservation + 1
      /\ o.page = old.page /\ o.phys = old.phys
      /\ o.generation = old.generation /\ o.birth = old.birth
      /\ o.inflight = old.inflight /\ o.fill_pending = old.fill_pending
      /\ o.state = old.state
  BY <1>5, AdmittedObject
<1>7. /\ o.phys \in Frames /\ o.generation \in 0 .. GenMod - 1
      /\ o.birth \in Nat
  BY <1>6 DEF Object
<1> HIDE DEF o
<1>8. /\ d \in Descriptor /\ d.id = free_desc[1] /\ d.slot = s
      /\ d.phys = o.phys /\ d.generation = o.generation
      /\ d.owner = o.birth /\ d.tclass = q.tclass
  BY <1>1, <1>5, <1>7, NewDescriptorIs
<1> HIDE DEF d
<1>9. Joins(d)
  BY <1>1, <1>3, <1>8, JoinsStep
<1>10. /\ QueueInv' /\ d \notin Unissued
       /\ Unissued' = Unissued \cup {d} /\ OnBus' = OnBus
       /\ IsFiniteSet(Unissued) /\ IsFiniteSet(OnBus)
  BY <1>1, <1>9, QueueFacts DEF Joins
<1>11. Becomes(s, o)
  BY <1>1, <1>3 DEF Becomes, FrameTypes
<1>12. StillFramed(old, o)
  BY <1>4, <1>5, <1>6 DEF StillFramed
<1>13. FrameInv' /\ Used' = Used
  BY <1>1, <1>3, <1>4, <1>11, <1>12, ObjectMoves
<1>14. \A r \in Slots :
         lifecycle_ram'[r] = IF r = s THEN o ELSE lifecycle_ram[r]
  BY <1>11 DEF Becomes
<1>15. \A r \in Used :
         /\ r \in Slots
         /\ lifecycle_ram'[r].page = lifecycle_ram[r].page
         /\ lifecycle_ram'[r].phys = lifecycle_ram[r].phys
         /\ lifecycle_ram'[r].generation = lifecycle_ram[r].generation
         /\ lifecycle_ram'[r].birth = lifecycle_ram[r].birth
  BY <1>6, <1>14 DEF Used
<1>16. Handles'
  <2> SUFFICES ASSUME NEW e \in Unissued' \cup OnBus' PROVE Handled(e)'
    BY DEF Handles
  <2>1. CASE e = d
    BY <1>4, <1>5, <1>8, <1>13, <1>14, <2>1 DEF Handled
  <2>2. CASE e # d
    <3>1. e \in Unissued \cup OnBus /\ Handled(e)
      BY <1>1, <1>10, <2>2 DEF Handles
    <3> QED
      BY <1>13, <1>15, <3>1 DEF Handled
  <2> QED
    BY <2>1, <2>2
<1>17. ASSUME NEW r
       PROVE  /\ Uses(Unissued', r) = Uses(Unissued, r) +
                                        (IF s = r THEN 1 ELSE 0)
              /\ Uses(OnBus', r) = Uses(OnBus, r)
              /\ Uses(Unissued, r) \in Nat
  <2>1. Uses(Unissued \cup {d}, r)
          = Uses(Unissued, r) + (IF d.slot = r THEN 1 ELSE 0)
    BY <1>10, UsesMore
  <2>2. Uses(Unissued, r) \in Nat
    BY <1>10, UsesOfSet
  <2> QED
    BY <1>8, <1>10, <2>1, <2>2
<1>18. Counted'
  <2> SUFFICES ASSUME NEW r \in Used
               PROVE  /\ lifecycle_ram'[r].reservation = Uses(Unissued', r)
                      /\ lifecycle_ram'[r].inflight = Uses(OnBus', r)
    BY <1>13 DEF Counted
  <2>1. CASE r = s
    BY <1>1, <1>4, <1>5, <1>6, <1>14, <1>17, <2>1 DEF Counted
  <2>2. CASE r # s
    <3>1. /\ Uses(Unissued', r) = Uses(Unissued, r)
          /\ Uses(OnBus', r) = Uses(OnBus, r)
          /\ lifecycle_ram'[r] = lifecycle_ram[r]
      BY <1>14, <1>15, <1>17, <2>2
    <3> QED
      BY <1>1, <3>1 DEF Counted
  <2> QED
    BY <2>1, <2>2
<1>19. ~SpecPage(q.page)
  BY <1>1, <1>2, <1>4 DEF Speculation, Alone
<1>20. Speculation'
  <2>1. to_come' \subseteq Requests
    BY <1>1, <1>2 DEF Speculation
  <2>2. ASSUME NEW e \in Unissued', e.tclass = "SPECULATIVE"
        PROVE  SpecPage(lifecycle_ram'[e.slot].page)
    <3>1. e # d
      BY <1>8, <1>19, <2>2 DEF SpecPage
    <3>2. e \in Unissued /\ e.slot \in Used
      BY <1>1, <1>10, <3>1 DEF Handles, Handled
    <3> QED
      BY <1>1, <1>15, <2>2, <3>2 DEF Speculation
  <2>3. ASSUME NEW r \in Used PROVE Alone(lifecycle_ram[r])'
    <3>1. CASE r = s
      <4>1. lifecycle_ram'[r].page = q.page
        BY <1>4, <1>15, <3>1
      <4> QED
        BY <1>19, <4>1 DEF Alone, SpecPage
    <3>2. CASE r # s
      <4>1. Alone(lifecycle_ram[r]) /\ lifecycle_ram'[r] = lifecycle_ram[r]
        BY <1>1, <1>14, <1>15, <3>2 DEF Speculation
      <4> QED
        BY <1>2, <4>1 DEF Alone, SpecPage
    <3> QED
      BY <3>1, <3>2
  <2> QED
    BY <1>13, <2>1, <2>2, <2>3 DEF Speculation, SpecPage
<1> QED
  BY <1>1, <1>2, <1>3, <1>10, <1>13, <1>16, <1>18, <1>20
     DEF BooksInv, DescInv

(* admit on a free frame (model/gm/control_plane.py:199-227). *)
LEMMA FreeBooks ==
  ASSUME OneSpeculation, BooksInv, cycle \in Nat, NEW q \in Requests,
         Arrive(q), free_desc # <<>>, AdmitFree(q)
  PROVE  BooksInv'
<1> DEFINE s == free_slots[1]
           f == free_frames[1]
           o == NewObject(q, f, 0)
           d == NewDescriptor(q, s, o, cycle)
<1>1. /\ QueueInv /\ FrameInv /\ DescInv /\ FrameTypes /\ SlotBooks
      /\ FrameBooked /\ PromiseKept
      /\ Handles /\ Counted /\ Speculation /\ escaped = "none"
      /\ free_desc \in Seq(DescIds)
  BY DEF BooksInv, FrameInv, DescInv, QueueInv, QueueTypes
<1>2. /\ q \in to_come /\ to_come' = to_come \ {q}
      /\ \A h \in holds' : h[1] \in Requests
  BY ArriveFacts
<1>3. /\ free_frames # <<>>
      /\ lifecycle_ram' = [lifecycle_ram EXCEPT ![s] = o]
      /\ objects' = [objects EXCEPT ![q.page] = s]
      /\ by_phys' = Append(by_phys, s)
      /\ Enqueue(d) /\ free_desc' = Tail(free_desc)
      /\ free_frames' = Tail(free_frames) /\ free_slots' = Tail(free_slots)
      /\ births' = births + 1
      /\ UNCHANGED <<pending_swap, escaped>>
  BY DEF AdmitFree
<1>4. /\ f \in ToSet(free_frames) /\ f \in Frames
      /\ free_frames' \in Seq(Frames) /\ Distinct(free_frames')
      /\ ToSet(free_frames') = ToSet(free_frames) \ {f}
  BY <1>1, <1>3, TailDistinct, MembersOf DEF FrameTypes
<1>5. pending_swap[f] = NoSlot
  BY <1>1, <1>4 DEF PromiseKept
<1>6. free_slots # <<>>
  BY <1>1, <1>4, <1>5, SlotToSpare
<1>7. /\ s \in ToSet(free_slots) /\ s \in Slots /\ s \notin Used
      /\ free_slots' \in Seq(Slots) /\ Distinct(free_slots')
      /\ ToSet(free_slots') = ToSet(free_slots) \ {s}
  BY <1>1, <1>3, <1>6, TailDistinct, MembersOf DEF FrameTypes, SlotBooks
<1>8. /\ o \in Object /\ o.page = q.page /\ o.phys = f /\ o.generation = 0
      /\ o.reservation = 1 /\ o.inflight = 0 /\ o.fill_pending = 1
      /\ o.state = "ALLOCATED_EMPTY" /\ o.birth = births
  <2>1. 0 \in 0 .. GenMod - 1 /\ births \in Nat
    BY <1>1, GmAssumption DEF FrameTypes
  <2> QED
    BY <1>4, <2>1, NewObjectIs
<1> HIDE DEF o, s, f
<1>9. /\ by_phys' \in Seq(Slots) /\ Distinct(by_phys')
      /\ Table' = Table \cup {s}
  <2>1. by_phys \in Seq(Slots) /\ Distinct(by_phys) /\ s \notin ToSet(by_phys)
    BY <1>1, <1>7 DEF FrameTypes, SlotBooks, Table
  <2>2. /\ Append(by_phys, s) \in Seq(Slots) /\ Distinct(Append(by_phys, s))
        /\ ToSet(Append(by_phys, s)) = ToSet(by_phys) \cup {s}
    BY <1>7, <2>1, AppendDistinct
  <2> QED
    BY <1>3, <2>2 DEF Table
<1>10. Publishes({}, s, o)
  <2>1. lifecycle_ram' =
          [r \in Slots |-> IF r = s THEN o ELSE IF r \in {} THEN NoObject
                           ELSE lifecycle_ram[r]]
    BY <1>1, <1>3 DEF FrameTypes
  <2>2. objects' =
          [p \in Pages |-> IF p = o.page THEN s
                           ELSE IF objects[p] \in {} THEN NoSlot
                           ELSE objects[p]]
    BY <1>1, <1>3, <1>8 DEF FrameTypes
  <2>3. births' \in Nat
    BY <1>1, <1>3 DEF FrameTypes
  <2> QED
    BY <1>3, <1>4, <1>7, <1>8, <1>9, <2>1, <2>2, <2>3 DEF Publishes
<1>11. FrameInv' /\ Used' = Used \cup {s}
  <2>1. \A t \in Table : t \in {} <=> lifecycle_ram[t].phys = o.phys
    BY <1>1, <1>4, <1>8 DEF FrameBooked
  <2>2. /\ {} \in SUBSET Table /\ s \notin Used \ {} /\ o.fill_pending <= 1
        /\ o.state # "EVICTING" /\ pending_swap[o.phys] = NoSlot
    BY <1>5, <1>7, <1>8
  <2>3. FrameInv' /\ Used' = (Used \ {}) \cup {s}
    BY <1>1, <1>7, <1>8, <1>10, <2>1, <2>2, PublishMoves
  <2> QED
    BY <2>3
<1>12. /\ d \in Descriptor /\ d.id = free_desc[1] /\ d.slot = s
       /\ d.phys = o.phys /\ d.generation = o.generation
       /\ d.owner = o.birth /\ d.tclass = q.tclass
  <2>1. /\ o.phys \in Frames /\ o.generation \in 0 .. GenMod - 1
        /\ o.birth \in Nat
    BY <1>8 DEF Object
  <2> QED
    BY <1>1, <1>7, <2>1, NewDescriptorIs
<1> HIDE DEF d
<1>13. Joins(d)
  BY <1>1, <1>3, <1>12, JoinsStep
<1>14. ComesIn(q, d, s, o)
  <2>1. /\ lifecycle_ram'[s] = o
        /\ \A r \in Used : r \in Slots /\ r # s
                           /\ lifecycle_ram'[r] = lifecycle_ram[r]
    BY <1>1, <1>3, <1>7 DEF FrameTypes, Used
  <2>2. \A e \in Unissued \cup OnBus : e.slot # s /\ e.slot \in Used'
    BY <1>1, <1>7, <1>11 DEF Handles, Handled
  <2>3. \A r \in Used' : r # s =>
          r \in Used /\ SameUse(lifecycle_ram'[r], lifecycle_ram[r])
    BY <1>11, <2>1 DEF SameUse
  <2> QED
    BY <1>8, <1>12, <1>13, <2>1, <2>2, <2>3 DEF ComesIn
<1>15. DescInv'
  <2>1. IsFiniteSet(Unissued) /\ IsFiniteSet(OnBus) /\ s \in Used'
    BY <1>1, <1>11, QueueFacts
  <2> QED
    BY <1>1, <1>2, <1>14, <2>1, Newcomer
<1> QED
  BY <1>1, <1>2, <1>3, <1>11, <1>13, <1>15 DEF BooksInv, Joins

(* The first unused object is in the table, and on its way nowhere. *)
LEMMA FirstReclaim ==
  ASSUME FrameInv, ReclaimIndices # {}
  PROVE  LET i == Min(ReclaimIndices) IN
         /\ i \in 1 .. Len(by_phys) /\ by_phys[i] \in Table
         /\ Evictable(lifecycle_ram[by_phys[i]])
         /\ pending_swap[lifecycle_ram[by_phys[i]].phys] = NoSlot
<1> DEFINE i == Min(ReclaimIndices)
           s == by_phys[i]
<1>1. FrameTypes /\ Leaving /\ SlotBooks
  BY DEF FrameInv
<1>2. DOMAIN by_phys = 1 .. Len(by_phys) /\ Len(by_phys) \in Nat
  BY <1>1, LenProperties DEF FrameTypes
<1>3. i \in ReclaimIndices
  <2>1. ReclaimIndices \subseteq Nat
    BY <1>2 DEF ReclaimIndices
  <2> QED
    BY <2>1, LeastNumber
<1>4. i \in 1 .. Len(by_phys) /\ Evictable(lifecycle_ram[s])
  BY <1>2, <1>3 DEF ReclaimIndices
<1> HIDE DEF i
<1>5. s \in Table
  BY <1>1, <1>4, MembersOf DEF FrameTypes, Table
<1>6. ~HeldBack(lifecycle_ram[s])
  <2>1. s \in Used
    BY <1>1, <1>5 DEF SlotBooks
  <2> QED
    BY <1>4 DEF HeldBack, Evictable
<1>7. pending_swap[lifecycle_ram[s].phys] = NoSlot
  BY <1>1, <1>5, <1>6 DEF Leaving
<1> QED
  BY <1>4, <1>5, <1>7 DEF i

(* admit on the frame of an unused object                                   *)
(* (model/gm/control_plane.py:228-241).                                     *)
LEMMA ReclaimBooks ==
  ASSUME OneSpeculation, BooksInv, cycle \in Nat, NEW q \in Requests,
         Arrive(q), free_desc # <<>>, AdmitReclaim(q)
  PROVE  BooksInv'
<1> DEFINE i == Min(ReclaimIndices)
           old == by_phys[i]
           slots == Append(free_slots, old)
           s == slots[1]
           f == lifecycle_ram[old].phys
           o == NewObject(q, f, 0)
           d == NewDescriptor(q, s, o, cycle)
<1>1. /\ QueueInv /\ FrameInv /\ DescInv /\ FrameTypes /\ SlotBooks
      /\ FrameBooked /\ PromiseKept
      /\ Handles /\ Counted /\ Speculation /\ escaped = "none"
      /\ free_desc \in Seq(DescIds)
  BY DEF BooksInv, FrameInv, DescInv, QueueInv, QueueTypes
<1>2. /\ q \in to_come /\ to_come' = to_come \ {q}
      /\ \A h \in holds' : h[1] \in Requests
  BY ArriveFacts
<1>3. /\ free_frames = <<>> /\ ReclaimIndices # {}
      /\ lifecycle_ram' = [lifecycle_ram EXCEPT ![old] = NoObject, ![s] = o]
      /\ objects' = [p \in Pages |-> IF p = q.page THEN s
                                     ELSE IF objects[p] = old THEN NoSlot
                                     ELSE objects[p]]
      /\ by_phys' = Append(RemoveAt(by_phys, i), s)
      /\ pending_swap' = [pending_swap EXCEPT ![f] = NoSlot]
      /\ free_slots' = Tail(slots)
      /\ Enqueue(d) /\ free_desc' = Tail(free_desc)
      /\ births' = births + 1
      /\ UNCHANGED <<free_frames, escaped>>
  BY DEF AdmitReclaim
<1>4. /\ i \in 1 .. Len(by_phys) /\ old \in Table
      /\ Evictable(lifecycle_ram[old]) /\ pending_swap[f] = NoSlot
  BY <1>1, <1>3, FirstReclaim
<1> HIDE DEF i, old
<1>5. /\ old \in Used /\ old \in Slots /\ f \in Frames
      /\ old \notin ToSet(free_slots)
  <2>1. old \in Used
    BY <1>1, <1>4 DEF SlotBooks
  <2> QED
    BY <1>1, <2>1, ObjectOf DEF SlotBooks
<1>6. /\ slots \in Seq(Slots) /\ Distinct(slots)
      /\ ToSet(slots) = ToSet(free_slots) \cup {old} /\ slots # <<>>
  <2>1. free_slots \in Seq(Slots) /\ Distinct(free_slots)
    BY <1>1 DEF FrameTypes
  <2>2. /\ slots \in Seq(Slots) /\ Distinct(slots)
        /\ ToSet(slots) = ToSet(free_slots) \cup {old}
    BY <1>5, <2>1, AppendDistinct
  <2> QED
    BY <2>2, MembersOf
<1> HIDE DEF slots
<1>7. /\ s \in ToSet(slots) /\ s \in Slots
      /\ free_slots' \in Seq(Slots) /\ Distinct(free_slots')
      /\ ToSet(free_slots') = ToSet(slots) \ {s}
  BY <1>3, <1>6, TailDistinct, MembersOf
<1>8. s \notin Used \ {old}
  BY <1>1, <1>6, <1>7 DEF SlotBooks
<1>9. /\ o \in Object /\ o.page = q.page /\ o.phys = f /\ o.generation = 0
      /\ o.reservation = 1 /\ o.inflight = 0 /\ o.fill_pending = 1
      /\ o.state = "ALLOCATED_EMPTY" /\ o.birth = births
  <2>1. 0 \in 0 .. GenMod - 1 /\ births \in Nat
    BY <1>1, GmAssumption DEF FrameTypes
  <2> QED
    BY <1>5, <2>1, NewObjectIs
<1> HIDE DEF o, s
<1>10. /\ by_phys' \in Seq(Slots) /\ Distinct(by_phys')
       /\ Table' = (Table \ {old}) \cup {s}
  <2> DEFINE rest == RemoveAt(by_phys, i)
  <2>1. by_phys \in Seq(Slots) /\ Distinct(by_phys)
    BY <1>1 DEF FrameTypes
  <2>2. /\ rest \in Seq(Slots) /\ Distinct(rest)
        /\ ToSet(rest) = Table \ {old}
    BY <1>4, <2>1, RemoveAtIs, RemoveAtDistinct DEF Table, old
  <2>3. s \notin ToSet(rest)
    BY <1>1, <1>8, <2>2 DEF SlotBooks
  <2> HIDE DEF rest
  <2>4. /\ Append(rest, s) \in Seq(Slots) /\ Distinct(Append(rest, s))
        /\ ToSet(Append(rest, s)) = ToSet(rest) \cup {s}
    BY <1>7, <2>2, <2>3, AppendDistinct
  <2>5. by_phys' = Append(rest, s)
    BY <1>3 DEF rest
  <2> QED
    BY <2>2, <2>4, <2>5 DEF Table
<1>11. \A t \in Table : t \in {old} <=> lifecycle_ram[t].phys = o.phys
  BY <1>1, <1>4, <1>9 DEF FrameBooked
<1>12. Publishes({old}, s, o)
  <2>1. lifecycle_ram' =
          [r \in Slots |-> IF r = s THEN o ELSE IF r \in {old} THEN NoObject
                           ELSE lifecycle_ram[r]]
    BY <1>1, <1>3, <1>5, <1>7 DEF FrameTypes
  <2>2. objects' =
          [p \in Pages |-> IF p = o.page THEN s
                           ELSE IF objects[p] \in {old} THEN NoSlot
                           ELSE objects[p]]
    BY <1>3, <1>9
  <2>3. births' \in Nat
    BY <1>1, <1>3 DEF FrameTypes
  <2>4. pending_swap' = pending_swap
    BY <1>1, <1>3, <1>4 DEF FrameTypes
  <2>5. /\ free_frames' \in Seq(Frames) /\ Distinct(free_frames')
        /\ ToSet(free_frames') = ToSet(free_frames) \ {o.phys}
    <3>1. ToSet(free_frames) = {}
      BY <1>1, <1>3, MembersOf DEF FrameTypes
    <3> QED
      BY <1>1, <1>3, <3>1 DEF FrameTypes
  <2>6. ToSet(free_slots') = (ToSet(free_slots) \cup {old}) \ {s}
    BY <1>6, <1>7
  <2> QED
    BY <1>7, <1>10, <2>1, <2>2, <2>3, <2>4, <2>5, <2>6 DEF Publishes
<1>13. FrameInv' /\ Used' = (Used \ {old}) \cup {s}
  <2>1. /\ {old} \in SUBSET Table /\ o.fill_pending <= 1
        /\ o.state # "EVICTING" /\ pending_swap[o.phys] = NoSlot
    BY <1>4, <1>9
  <2> QED
    BY <1>1, <1>7, <1>8, <1>9, <1>11, <1>12, <2>1, PublishMoves
<1>14. /\ d \in Descriptor /\ d.id = free_desc[1] /\ d.slot = s
       /\ d.phys = o.phys /\ d.generation = o.generation
       /\ d.owner = o.birth /\ d.tclass = q.tclass
  <2>1. /\ o.phys \in Frames /\ o.generation \in 0 .. GenMod - 1
        /\ o.birth \in Nat
    BY <1>9 DEF Object
  <2> QED
    BY <1>1, <1>7, <2>1, NewDescriptorIs
<1> HIDE DEF d
<1>15. Joins(d)
  BY <1>1, <1>3, <1>14, JoinsStep
<1>16. \A e \in Unissued \cup OnBus : e.slot # old /\ e.slot \in Used
  <2>1. IsFiniteSet(Unissued) /\ IsFiniteSet(OnBus)
    BY <1>1, QueueFacts
  <2>2. Uses(Unissued, old) = 0 /\ Uses(OnBus, old) = 0
    BY <1>1, <1>4, <1>5 DEF Counted, Evictable
  <2>3. \A e \in Unissued : e.slot # old
    BY <2>1, <2>2, UsesOfSet
  <2>4. \A e \in OnBus : e.slot # old
    BY <2>1, <2>2, UsesOfSet
  <2> QED
    BY <1>1, <2>3, <2>4 DEF Handles, Handled
<1>17. ComesIn(q, d, s, o)
  <2>1. lifecycle_ram'[s] = o
    BY <1>1, <1>3, <1>7 DEF FrameTypes
  <2>2. \A r \in Used \ {old} : r \in Slots /\ r # s
                              /\ lifecycle_ram'[r] = lifecycle_ram[r]
    BY <1>1, <1>3, <1>8 DEF FrameTypes, Used
  <2>3. \A e \in Unissued \cup OnBus : e.slot # s /\ e.slot \in Used'
    BY <1>8, <1>13, <1>16
  <2>4. \A r \in Used' : r # s =>
          r \in Used /\ SameUse(lifecycle_ram'[r], lifecycle_ram[r])
    BY <1>13, <2>2 DEF SameUse
  <2> QED
    BY <1>9, <1>14, <1>15, <2>1, <2>3, <2>4 DEF ComesIn
<1>18. DescInv'
  <2>1. IsFiniteSet(Unissued) /\ IsFiniteSet(OnBus) /\ s \in Used'
    BY <1>1, <1>13, QueueFacts
  <2> QED
    BY <1>1, <1>2, <1>17, <2>1, Newcomer
<1> QED
  BY <1>1, <1>2, <1>3, <1>13, <1>15, <1>18 DEF BooksInv, Joins

(* A frame is quiet at some time (model/gm/data_plane.py:73-91). *)
LEMMA DrainReadyType ==
  ASSUME QueueTypes, Scheduled, NEW f
  PROVE  DrainReady(f) \in Nat
<1> DEFINE P == {pending[i].done :
                   i \in {j \in DOMAIN pending : pending[j].desc.phys = f}}
           D == {cycle + AcceptOverhead + FixedOverhead
                   + Beats(dispatch_q[i].bytes) :
                   i \in {j \in DOMAIN dispatch_q : dispatch_q[j].phys = f}}
           S == ({cycle} \cup P) \cup D
           b == cycle + AcceptOverhead + FixedOverhead + CMax
                  + MaxOutstanding * CMax
<1>1. /\ cycle \in Nat /\ AcceptOverhead \in Nat /\ FixedOverhead \in Nat
      /\ CMax \in Nat /\ MaxOutstanding \in Nat
      /\ Len(pending) <= MaxOutstanding
      /\ \A n \in 1 .. MaxBytes : Beats(n) \in Nat /\ Beats(n) <= CMax
  BY GmAssumption DEF Scheduled
<1>2. MaxOutstanding * CMax \in Nat
  BY <1>1, ProductType
<1>3. b \in Nat /\ cycle <= b
  BY <1>1, <1>2
<1>4. ASSUME NEW i \in DOMAIN pending
      PROVE  pending[i].done \in Nat /\ pending[i].done <= b
  <2>1. i \in 1 .. Len(pending) /\ Len(pending) \in Nat
        /\ pending[i] \in Outstanding
    BY LenProperties, ElementOfSeq DEF QueueTypes
  <2>2. pending[i].done \in Nat
    BY <2>1 DEF Outstanding
  <2>3. pending[i].done <= cycle + FixedOverhead + i * CMax
    BY <2>1 DEF Scheduled
  <2>4. i \in Nat /\ i <= MaxOutstanding
    BY <1>1, <2>1
  <2>5. i * CMax <= MaxOutstanding * CMax /\ i * CMax \in Nat
    BY <1>1, <2>4, MoreTransfers, GmAssumption
  <2> QED
    BY <1>1, <1>2, <2>2, <2>3, <2>5
<1>5. ASSUME NEW i \in DOMAIN dispatch_q
      PROVE  LET x == cycle + AcceptOverhead + FixedOverhead
                        + Beats(dispatch_q[i].bytes) IN
             x \in Nat /\ x <= b
  <2>1. dispatch_q[i] \in Descriptor
    BY LenProperties, ElementOfSeq DEF QueueTypes
  <2>2. dispatch_q[i].bytes \in 1 .. MaxBytes
    BY <2>1 DEF Descriptor
  <2> QED
    BY <1>1, <1>2, <2>2
<1> HIDE DEF b
<1>6. P \subseteq Nat /\ \A x \in P : x <= b
  BY <1>4
<1>7. D \subseteq Nat /\ \A x \in D : x <= b
  BY <1>5
<1> HIDE DEF P, D
<1>8. S \subseteq Nat /\ S # {} /\ \A x \in S : x <= b
  BY <1>1, <1>3, <1>6, <1>7
<1>9. Max(S) \in Nat
  <2> HIDE DEF S
  <2> QED
    BY <1>3, <1>8, GreatestNumber
<1> QED
  BY <1>9 DEF DrainReady, P, D

(* The frame a newcomer is promised: its object is published, stays until a *)
(* transfer ends, and is not on its way out yet                             *)
(* (model/gm/control_plane.py:146-166).                                     *)
LEMMA FirstDrain ==
  ASSUME FrameInv, QueueTypes, Scheduled, DrainIndices # {}
  PROVE  /\ by_phys[DrainCandidate] \in Table
         /\ lifecycle_ram[by_phys[DrainCandidate]].state # "EVICTING"
         /\ Draining(lifecycle_ram[by_phys[DrainCandidate]])
         /\ IndexReady(DrainCandidate) \in Nat
<1> DEFINE D == DrainIndices
           R == {IndexReady(i) : i \in D}
           First == {i \in D : IndexReady(i) = Min(R)}
           c == DrainCandidate
<1>1. FrameTypes
  BY DEF FrameInv
<1>2. DOMAIN by_phys = 1 .. Len(by_phys) /\ Len(by_phys) \in Nat
  BY <1>1, LenProperties DEF FrameTypes
<1>3. D \subseteq Nat /\ D # {}
  BY <1>2 DEF DrainIndices
<1>4. \A i \in D : IndexReady(i) \in Nat
  BY DrainReadyType DEF IndexReady
<1> HIDE DEF D
<1>5. Min(R) \in R /\ \A x \in R : Min(R) <= x
  <2>1. R \subseteq Nat /\ R # {}
    BY <1>3, <1>4
  <2> HIDE DEF R
  <2> QED
    BY <2>1, LeastNumber
<1>6. Min(First) \in First /\ \A x \in First : Min(First) <= x
  <2>1. First \subseteq Nat /\ First # {}
    BY <1>3, <1>5
  <2> HIDE DEF First
  <2> QED
    BY <2>1, LeastNumber
<1>7. \A j \in D : \/ IndexReady(Min(First)) < IndexReady(j)
                   \/ /\ IndexReady(Min(First)) = IndexReady(j)
                      /\ Min(First) <= j
  <2> TAKE j \in D
  <2>1. IndexReady(j) \in R /\ IndexReady(Min(First)) = Min(R)
    BY <1>6
  <2>2. Min(R) <= IndexReady(j)
    BY <1>5, <2>1
  <2>3. CASE IndexReady(j) = Min(R)
    BY <1>6, <2>1, <2>3
  <2>4. CASE IndexReady(j) # Min(R)
    <3>1. IndexReady(j) \in Nat /\ Min(R) \in Nat
      BY <1>4, <1>6, <2>1
    <3> QED
      BY <2>1, <2>2, <2>4, <3>1
  <2> QED
    BY <2>3, <2>4
<1>8. c \in D
  <2>1. \E i \in D : \A j \in D :
          \/ IndexReady(i) < IndexReady(j)
          \/ (IndexReady(i) = IndexReady(j) /\ i <= j)
    BY <1>6, <1>7
  <2> QED
    BY <2>1 DEF DrainCandidate, D
<1>9. /\ c \in 1 .. Len(by_phys)
      /\ lifecycle_ram[by_phys[c]].state # "EVICTING"
      /\ Draining(lifecycle_ram[by_phys[c]])
  BY <1>2, <1>8 DEF DrainIndices, D
<1>10. by_phys[c] \in Table
  BY <1>1, <1>9, MembersOf DEF FrameTypes, Table
<1> QED
  BY <1>4, <1>8, <1>9, <1>10

(* admit on a frame that is promised to the newcomer                        *)
(* (model/gm/control_plane.py:242-270).                                     *)
LEMMA DrainBooks ==
  ASSUME OneSpeculation, BooksInv, Scheduled, NEW q \in Requests,
         Arrive(q), free_desc # <<>>, AdmitDrain(q)
  PROVE  BooksInv'
<1> DEFINE t == by_phys[DrainCandidate]
           old == lifecycle_ram[t]
           f == old.phys
           s == free_slots[1]
           gen == (old.generation + 1) % GenMod
           o == NewObject(q, f, gen)
           w == IndexReady(DrainCandidate)
           d == NewDescriptor(q, s, o, w)
<1>1. /\ QueueInv /\ FrameInv /\ DescInv /\ FrameTypes /\ SlotBooks
      /\ Leaving /\ Handles /\ Counted /\ Speculation /\ escaped = "none"
      /\ free_desc \in Seq(DescIds) /\ QueueTypes
  BY DEF BooksInv, FrameInv, DescInv, QueueInv, QueueTypes
<1>2. /\ q \in to_come /\ to_come' = to_come \ {q}
      /\ \A h \in holds' : h[1] \in Requests
  BY ArriveFacts
<1>3. /\ DrainIndices # {}
      /\ lifecycle_ram' = [lifecycle_ram EXCEPT ![t].state = "EVICTING",
                                                ![s] = o]
      /\ objects' = [p \in Pages |-> IF p = q.page THEN s
                                     ELSE IF objects[p] = t THEN NoSlot
                                     ELSE objects[p]]
      /\ pending_swap' = [pending_swap EXCEPT ![f] = s]
      /\ Enqueue(d) /\ free_desc' = Tail(free_desc)
      /\ free_slots' = Tail(free_slots) /\ births' = births + 1
      /\ UNCHANGED <<free_frames, by_phys, escaped>>
  BY DEF AdmitDrain
<1>4. /\ t \in Table /\ old.state # "EVICTING" /\ Draining(old) /\ w \in Nat
  BY <1>1, <1>3, FirstDrain
<1> HIDE DEF t, w
<1>5. /\ t \in Used /\ t \in Slots /\ old \in Object /\ f \in Frames
      /\ old.generation \in 0 .. GenMod - 1
  <2>1. t \in Used
    BY <1>1, <1>4 DEF SlotBooks
  <2> QED
    BY <1>1, <2>1, ObjectOf
<1>6. HeldBack(old) /\ pending_swap[f] = NoSlot
  BY <1>1, <1>4 DEF Leaving, Draining, HeldBack
<1>7. free_slots # <<>>
  BY <1>1, <1>5, <1>6, SlotToSpare
<1>8. s \in Slots /\ s \notin Used
  BY <1>1, <1>7, TailDistinct, MembersOf DEF FrameTypes, SlotBooks
<1>9. /\ o \in Object /\ o.page = q.page /\ o.phys = f
      /\ o.reservation = 1 /\ o.inflight = 0 /\ o.fill_pending = 1
      /\ o.state = "ALLOCATED_EMPTY" /\ o.birth = births
  <2>1. gen \in 0 .. GenMod - 1 /\ births \in Nat
    <3>1. GenMod \in Nat \ {0} /\ old.generation + 1 \in Nat
      BY <1>5, GmAssumption
    <3> QED
      BY <1>1, <3>1 DEF FrameTypes
  <2> QED
    BY <1>5, <2>1, NewObjectIs
<1> HIDE DEF o, s, gen
<1>10. Promises(t, s, o)
  <2>1. lifecycle_ram' =
          [r \in Slots |-> IF r = s THEN o
                           ELSE IF r = t THEN [lifecycle_ram[t] EXCEPT
                                                 !.state = "EVICTING"]
                           ELSE lifecycle_ram[r]]
    BY <1>1, <1>3, <1>5, <1>8 DEF FrameTypes
  <2>2. births' \in Nat
    BY <1>1, <1>3 DEF FrameTypes
  <2>3. free_slots' = Tail(free_slots) /\ UNCHANGED <<free_frames, by_phys>>
    BY <1>3
  <2>4. objects' =
          [p \in Pages |-> IF p = o.page THEN s
                           ELSE IF objects[p] = t THEN NoSlot
                           ELSE objects[p]]
    BY <1>3, <1>9
  <2>5. pending_swap' = [pending_swap EXCEPT ![o.phys] = s]
    BY <1>3, <1>9
  <2> QED
    BY <2>1, <2>2, <2>3, <2>4, <2>5 DEF Promises
<1>11. /\ FrameInv' /\ Used' = Used \cup {s} /\ lifecycle_ram'[s] = o
       /\ \A r \in Used : r # t => lifecycle_ram'[r] = lifecycle_ram[r]
       /\ lifecycle_ram'[t] = [old EXCEPT !.state = "EVICTING"]
  <2>1. o.fill_pending <= 1 /\ o.state # "EVICTING"
    BY <1>9
  <2> QED
    BY <1>1, <1>4, <1>6, <1>7, <1>9, <1>10, <2>1, PromiseMoves DEF s
<1>12. /\ d \in Descriptor /\ d.id = free_desc[1] /\ d.slot = s
       /\ d.phys = o.phys /\ d.generation = o.generation
       /\ d.owner = o.birth /\ d.tclass = q.tclass
  <2>1. /\ o.phys \in Frames /\ o.generation \in 0 .. GenMod - 1
        /\ o.birth \in Nat /\ cycle \in Nat
    BY <1>9 DEF Object, Scheduled
  <2> QED
    BY <1>1, <1>4, <1>8, <2>1, NewDescriptorIs
<1> HIDE DEF d
<1>13. Joins(d)
  BY <1>1, <1>3, <1>12, JoinsStep
<1>14. ComesIn(q, d, s, o)
  <2>1. \A e \in Unissued \cup OnBus : e.slot # s /\ e.slot \in Used'
    BY <1>1, <1>8, <1>11 DEF Handles, Handled
  <2>2. SameUse(lifecycle_ram'[t], old)
    BY <1>5, <1>11 DEF SameUse, Object
  <2>3. \A r \in Used' : r # s =>
          r \in Used /\ SameUse(lifecycle_ram'[r], lifecycle_ram[r])
    BY <1>11, <2>2 DEF SameUse
  <2> QED
    BY <1>9, <1>11, <1>12, <1>13, <2>1, <2>3 DEF ComesIn
<1>15. DescInv'
  <2>1. IsFiniteSet(Unissued) /\ IsFiniteSet(OnBus) /\ s \in Used'
    BY <1>1, <1>11, QueueFacts
  <2> QED
    BY <1>1, <1>2, <1>14, <2>1, Newcomer
<1> QED
  BY <1>1, <1>2, <1>3, <1>11, <1>13, <1>15 DEF BooksInv, Joins

(* admit, whatever the page finds (model/gm/control_plane.py:199-270). *)
LEMMA AdmitBooks ==
  ASSUME OneSpeculation, BooksInv, Scheduled, NEW q \in Requests, SimAdmit(q)
  PROVE  BooksInv'
<1>1. Arrive(q) /\ Admit(q) /\ cycle \in Nat
  BY DEF SimAdmit, Scheduled
<1>2. free_desc # <<>>
  <2>1. DescAvailable(q)
    BY <1>1 DEF Admit, Refused
  <2>2. CASE q.tclass = "SPECULATIVE"
    <3>1. Len(free_desc) > NReserved /\ NReserved \in Nat
      BY <2>1, <2>2, GmAssumption DEF DescAvailable
    <3> QED
      BY <3>1, MembersOf DEF BooksInv, QueueInv, QueueTypes
  <2>3. CASE q.tclass # "SPECULATIVE"
    BY <2>1, <2>3 DEF DescAvailable
  <2> QED
    BY <2>2, <2>3
<1> QED
  BY <1>1, <1>2, HitBooks, FreeBooks, ReclaimBooks, DrainBooks DEF Admit
---------------------------------------------------------------------------
(* The free lists count up from 0 (model/gm/control_plane.py:47-105). *)
LEMMA CountingUp ==
  ASSUME NEW n \in Nat
  PROVE  LET q == [i \in 1 .. n |-> i - 1] IN
         q \in Seq(0 .. n - 1) /\ Distinct(q) /\ ToSet(q) = 0 .. n - 1
<1> DEFINE q == [i \in 1 .. n |-> i - 1]
<1>1. /\ q \in [1 .. n -> 0 .. n - 1]
      /\ \A i \in 1 .. n : q[i] = i - 1
  OBVIOUS
<1> HIDE DEF q
<1>2. q \in Seq(0 .. n - 1) /\ Len(q) = n
  BY <1>1
<1>3. Distinct(q)
  BY <1>1, <1>2 DEF Distinct
<1>4. ToSet(q) = {q[i] : i \in 1 .. n}
  BY <1>2, MembersOf
<1>5. ASSUME NEW x \in 0 .. n - 1 PROVE x \in ToSet(q)
  <2>1. x + 1 \in 1 .. n /\ q[x + 1] = x
    BY <1>1
  <2> QED
    BY <1>4, <2>1
<1>6. ToSet(q) \subseteq 0 .. n - 1
  BY <1>2, MembersOf
<1> QED
  BY <1>2, <1>3, <1>5, <1>6 DEF q

(* Nothing is queued, used or booked at first. *)
LEMMA BooksInit ==
  ASSUME Init
  PROVE  BooksInv
<1>1. /\ ready_m = {} /\ ready_s = <<>> /\ dispatch_q = <<>> /\ pending = <<>>
      /\ free_desc = [i \in 1 .. NDesc |-> i - 1]
  BY DEF Init, DpInit, CpInit
<1>2. /\ free_desc \in Seq(DescIds) /\ Distinct(free_desc)
      /\ ToSet(free_desc) = DescIds
  BY <1>1, CountingUp, GmAssumption DEF DescIds
<1>3. ToSet(<<>>) = {} /\ Distinct(<<>>)
  BY DEF ToSet, Distinct
<1>4. /\ pending \in Seq(Outstanding) /\ ready_s \in Seq(Descriptor)
      /\ dispatch_q \in Seq(Descriptor)
  BY <1>1
<1>5. Descs(pending) = <<>>
  <2>1. Descs(pending) \in Seq(Descriptor) /\ Len(Descs(pending)) = 0
    BY <1>1, <1>4, DescsOf
  <2> QED
    BY <2>1, EmptySeq
<1>6. Unissued = {} /\ OnBus = {}
  BY <1>1, <1>3, <1>5 DEF Unissued, OnBus
<1>7. QueueInv
  <2>1. QueueTypes
    BY <1>1, <1>2, <1>4, FS_EmptySet DEF QueueTypes
  <2>2. QueuesDisjoint
    BY <1>1, <1>3, <1>5, <1>6 DEF QueuesDisjoint
  <2>3. IdsOf(Unissued \cup OnBus, free_desc)
    BY <1>2, <1>6 DEF IdsOf
  <2> QED
    BY <2>1, <2>2, <2>3 DEF QueueInv
<1>8. /\ lifecycle_ram = [s \in Slots |-> NoObject]
      /\ free_slots = [i \in 1 .. NMeta |-> i - 1]
      /\ free_frames = [i \in 1 .. NFrames |-> i - 1]
      /\ objects = [p \in Pages |-> NoSlot] /\ by_phys = <<>>
      /\ pending_swap = [f \in Frames |-> NoSlot]
      /\ births = 0 /\ escaped = "none"
  BY DEF Init, CpInit
<1>9. /\ free_slots \in Seq(Slots) /\ Distinct(free_slots)
      /\ ToSet(free_slots) = Slots
  BY <1>8, CountingUp, GmAssumption DEF Slots
<1>10. /\ free_frames \in Seq(Frames) /\ Distinct(free_frames)
       /\ ToSet(free_frames) = Frames
  BY <1>8, CountingUp, GmAssumption DEF Frames
<1>11. Used = {} /\ Table = {} /\ Promised = {}
  BY <1>3, <1>8 DEF Used, Table, Promised
<1>12. FrameInv
  <2>1. FrameTypes
    BY <1>3, <1>8, <1>9, <1>10, <1>11 DEF FrameTypes
  <2>2. SlotBooks
    BY <1>9, <1>11 DEF SlotBooks
  <2>3. FrameBooked
    BY <1>10, <1>11 DEF FrameBooked
  <2>4. PromiseKept /\ PagesKnown
    BY <1>8 DEF PromiseKept, PagesKnown
  <2>5. Leaving
    BY <1>11 DEF Leaving
  <2> QED
    BY <2>1, <2>2, <2>3, <2>4, <2>5 DEF FrameInv
<1>13. DescInv
  <2>1. to_come = Requests
    BY DEF Init
  <2> QED
    BY <1>6, <1>11, <2>1 DEF DescInv, Handles, Counted, Speculation
<1> QED
  BY <1>7, <1>8, <1>12, <1>13 DEF BooksInv, Init

(* Every step of the loop keeps the books.                                 *)
LEMMA BooksStep ==
  ASSUME OneSpeculation, BooksInv, Scheduled, [Next]_vars
  PROVE  BooksInv'
<1> DEFINE Queues == <<ready_m, ready_s, dispatch_q, pending, free_desc>>
           Tables == <<lifecycle_ram, FrameTables, escaped>>
<1>1. ASSUME UNCHANGED Queues, UNCHANGED Tables, to_come' \subseteq to_come,
             \A h \in holds' : h[1] \in Requests
      PROVE  BooksInv'
  <2>1. Settled
    BY <1>1, SettledStep DEF BooksInv
  <2> QED
    BY <1>1, <2>1, QuietBooks
<1>2. CASE SimComplete
  BY <1>2, CompleteBooks
<1>3. CASE SimCancel
  BY <1>3, CancelBooks
<1>4. CASE SimReplenish
  BY <1>1, <1>4 DEF SimReplenish, Replenish, cpvars, FrameTables, BooksInv
<1>5. CASE SimRelease
  BY <1>5, ReleaseBooks
<1>6. CASE SimDispatch
  BY <1>6, DispatchBooks
<1>7. ASSUME NEW q \in Requests, SimAdmit(q) PROVE BooksInv'
  BY <1>7, AdmitBooks
<1>8. ASSUME NEW q \in Requests, SimReject(q) PROVE BooksInv'
  <2>1. /\ to_come' \subseteq to_come /\ \A h \in holds' : h[1] \in Requests
    BY <1>8, ArriveFacts DEF SimReject
  <2>2. UNCHANGED Queues /\ UNCHANGED Tables
    BY <1>8 DEF SimReject, dpvars, cpvars, FrameTables
  <2> QED
    BY <1>1, <2>1, <2>2
<1>9. CASE SimAccept
  BY <1>9, AcceptBooks
<1>10. CASE EndCycle
  BY <1>1, <1>10 DEF EndCycle, Tick, dpvars, cpvars, FrameTables, BooksInv
<1>11. CASE UNCHANGED vars
  BY <1>1, <1>11 DEF vars, dpvars, cpvars, FrameTables, BooksInv
<1> QED
  BY <1>2, <1>3, <1>4, <1>5, <1>6, <1>7, <1>8, <1>9, <1>10, <1>11
     DEF Next, Finished

(* The books are right in every state of a run.                            *)
LEMMA BooksHold ==
  ASSUME OneSpeculation
  PROVE  Spec => []BooksInv
<1>1. Init => BooksInv
  BY BooksInit
<1>2. BooksInv /\ PortInv /\ [Next]_vars => BooksInv'
  BY BooksStep DEF PortInv
<1>3. Spec => []PortInv
  BY PortInvHolds
<1> QED
  BY <1>1, <1>2, <1>3, PTL DEF Spec
---------------------------------------------------------------------------
(* For every size, envelope, policy and trace whose speculative pages are   *)
(* fetched once: every object is published or promised, once, every other   *)
(* slot is free, and a frame has one published object unless it is free     *)
(* (model/gm/control_plane.py:107-125, 129-143, 199-270, 352-364).          *)
THEOREM FrameBooksCorrect ==
  ASSUME OneSpeculation
  PROVE  Spec => []FrameBooks
<1>1. BooksInv => FrameBooks
  <2> SUFFICES ASSUME BooksInv PROVE FrameBooks
    OBVIOUS
  <2>1. /\ FrameTypes /\ SlotBooks /\ FrameBooked /\ PromiseKept /\ Leaving
    BY DEF BooksInv, FrameInv
  <2>2. /\ Used = ToSet(by_phys) \cup Promised
        /\ ToSet(by_phys) \cap Promised = {}
        /\ ToSet(free_slots) = Slots \ Used
    BY <2>1 DEF SlotBooks, Table
  <2>3. /\ Len(by_phys) = Cardinality(ToSet(by_phys))
        /\ Len(free_slots) = Cardinality(ToSet(free_slots))
    BY <2>1, DistinctLength DEF FrameTypes
  <2>4. ASSUME NEW f \in Frames
        PROVE  /\ Cardinality(Published(f))
                    = IF f \in ToSet(free_frames) THEN 0 ELSE 1
               /\ pending_swap[f] # NoSlot =>
                    /\ lifecycle_ram[pending_swap[f]].phys = f
                    /\ \A s \in Published(f) :
                         lifecycle_ram[s].state = "EVICTING"
    <3>1. Published(f) = {s \in Table : lifecycle_ram[s].phys = f}
      BY DEF Published, Table
    <3>2. CASE f \in ToSet(free_frames)
      <4>1. Published(f) = {}
        BY <2>1, <3>1, <3>2 DEF FrameBooked
      <4> QED
        BY <2>1, <3>2, <4>1, FS_EmptySet DEF PromiseKept
    <3>3. CASE f \notin ToSet(free_frames)
      <4>1. PICK s \in Table : lifecycle_ram[s].phys = f
        BY <2>1, <3>3 DEF FrameBooked
      <4>2. Published(f) = {s}
        BY <2>1, <3>1, <4>1 DEF FrameBooked
      <4>3. Cardinality(Published(f)) = 1
        BY <4>2, FS_Singleton
      <4>4. pending_swap[f] # NoSlot => lifecycle_ram[s].state = "EVICTING"
        BY <2>1, <4>1 DEF Leaving
      <4> QED
        BY <2>1, <3>3, <4>2, <4>3, <4>4 DEF PromiseKept
    <3> QED
      BY <3>2, <3>3
  <2> QED
    BY <2>2, <2>3, <2>4 DEF FrameBooks, Used
<1>2. Spec => []BooksInv
  BY BooksHold
<1> QED
  BY <1>1, <1>2, PTL

(* Under the same condition on the trace: every live handle resolves to the *)
(* object it was issued for, and an object's counters are the descriptors   *)
(* that use it (model/gm/control_plane.py:3-14, 282-309).                   *)
THEOREM DescriptorsCorrect ==
  ASSUME OneSpeculation
  PROVE  Spec => []DescriptorsAreCounted
<1>1. BooksInv => DescriptorsAreCounted
  <2> SUFFICES ASSUME BooksInv PROVE DescriptorsAreCounted
    OBVIOUS
  <2>1. /\ QueueInv /\ Handles /\ Counted /\ pending \in Seq(Outstanding)
        /\ Distinct(Descs(pending))
    BY DEF BooksInv, DescInv, QueueInv, QueueTypes, QueuesDisjoint
  <2>2. Live = Unissued \cup OnBus
    BY <2>1, QueueFacts
  <2>3. \A d \in Live : Resolves(d) /\ lifecycle_ram[d.slot].birth = d.owner
    BY <2>1, <2>2 DEF Handles, Handled, Used, Resolves
  <2>4. ASSUME NEW s \in Slots, lifecycle_ram[s] # NoObject
        PROVE  /\ lifecycle_ram[s].reservation =
                    Cardinality({d \in Unissued : d.slot = s})
               /\ lifecycle_ram[s].inflight =
                    Cardinality({i \in DOMAIN pending :
                                   pending[i].desc.slot = s})
    <3>1. s \in Used
      BY <2>4 DEF Used
    <3>2. Cardinality({i \in DOMAIN pending : pending[i].desc.slot = s})
            = Uses(OnBus, s)
      BY <2>1, DescsCount DEF OnBus
    <3> QED
      BY <2>1, <3>1, <3>2 DEF Counted, Uses
  <2> QED
    BY <2>3, <2>4 DEF DescriptorsAreCounted
<1>2. Spec => []BooksInv
  BY BooksHold
<1> QED
  BY <1>1, <1>2, PTL
---------------------------------------------------------------------------
(* l_down_max grows with the transfer, and the last one of a trace is the   *)
(* measurement horizon's tail (model/gm/traces_b.py:303-314).               *)
LEMMA CeilDivGrows ==
  ASSUME NEW m \in Nat, NEW n \in Nat, m <= n, NEW d \in Nat \ {0}
  PROVE  CeilDiv(m, d) <= CeilDiv(n, d)
<1> DEFINE x == m + d - 1
           y == n + d - 1
           p == x \div d
           r == y \div d
<1>1. x \in Nat /\ y \in Nat /\ x <= y
  OBVIOUS
<1>2. /\ p \in Int /\ r \in Int
      /\ d * p <= x /\ y < d * (r + 1)
  <2> HIDE DEF x, y
  <2> QED
    BY <1>1, SMT
<1> HIDE DEF x, y, p, r
<1>3. SUFFICES ASSUME p > r PROVE FALSE
  BY <1>2 DEF CeilDiv, p, r, x, y
<1>4. d * (r + 1) <= d * p
  <2>1. p - (r + 1) \in Nat
    BY <1>2, <1>3
  <2>2. d * (p - (r + 1)) \in Nat
    BY <2>1, ProductType
  <2>3. d * p = d * (r + 1) + d * (p - (r + 1))
    BY <1>2, SMT
  <2>4. d * (r + 1) \in Int
    BY <1>2, SMT
  <2> QED
    BY <2>2, <2>3, <2>4
<1> QED
  <2>1. d * (r + 1) \in Int /\ d * p \in Int
    BY <1>2, SMT
  <2> QED
    BY <1>1, <1>2, <1>4, <2>1

(* The worst case grows with the service time of the transfer              *)
(* (model/gm/types.py:89-135).                                             *)
LEMMA LDownMaxGrows ==
  ASSUME NEW n \in Nat, NEW c \in Nat, NEW e \in Nat, c <= e,
         LDownWork(n, c) \in Nat
  PROVE  LDownMax(n, c) <= LDownMax(n, e) /\ LDownMax(n, e) \in Nat
<1> DEFINE v == LDownWork(n, c)
           w == LDownWork(n, e)
           d == Window - Refresh
<1>1. d \in Nat \ {0} /\ Refresh \in Nat
  BY GmAssumption
<1>2. w \in Nat /\ v <= w
  <2> DEFINE a == n * BFixed + (n - 1) * CMax
             b == Bypass * CMax
  <2>1. a \in Int /\ b \in Int
    <3>1. BFixed \in Int /\ CMax \in Int /\ Bypass \in Int /\ n - 1 \in Int
      BY GmAssumption
    <3> QED
      BY <3>1, SMT
  <2>2. v = a + c + b /\ w = a + e + b
    BY DEF LDownWork
  <2>3. v \in Nat
    OBVIOUS
  <2> HIDE DEF a, b, v, w
  <2> QED
    BY <2>1, <2>2, <2>3
<1> HIDE DEF w
<1>3. /\ CeilDiv(v, d) <= CeilDiv(w, d)
      /\ CeilDiv(v, d) \in Nat /\ CeilDiv(w, d) \in Nat
  <2> HIDE DEF v, d
  <2>1. v \in Nat
    BY DEF v
  <2> QED
    BY <1>1, <1>2, <2>1, CeilDivGrows, CeilDivType
<1> DEFINE x == CeilDiv(v, d)
           y == CeilDiv(w, d)
<1>4. /\ Refresh * x <= Refresh * y
      /\ Refresh * x \in Nat /\ Refresh * y \in Nat
  <2> HIDE DEF x, y
  <2>1. y - x \in Nat /\ x \in Nat /\ y \in Nat
    BY <1>3 DEF x, y
  <2>2. Refresh * (y - x) \in Nat /\ Refresh * x \in Nat
        /\ Refresh * y \in Nat
    BY <1>1, <2>1, ProductType
  <2>3. Refresh * y = Refresh * x + Refresh * (y - x)
    BY <1>1, <2>1, SMT
  <2> QED
    BY <2>2, <2>3
<1>5. LDownMax(n, c) = v + Refresh * x /\ LDownMax(n, e) = w + Refresh * y
  BY DEF LDownMax, w
<1> HIDE DEF v, x, y
<1>6. v \in Nat
  BY DEF v
<1> QED
  BY <1>2, <1>4, <1>5, <1>6

(* The worst case over a trace is a number of cycles.                      *)
LEMMA WorstTailType ==
  ASSUME Requests # {}
  PROVE  /\ WorstTail \in Nat
         /\ \A q \in Requests :
              LDownMax(MaxOutstanding, Beats(q.bytes)) <= WorstTail
<1> DEFINE T == {LDownMax(MaxOutstanding, Beats(q.bytes)) : q \in Requests}
           b == LDownMax(MaxOutstanding, CMax)
<1>1. MaxOutstanding \in Nat \ {0} /\ CMax \in Nat
  BY GmAssumption
<1>2. ASSUME NEW c \in Nat PROVE LDownWork(MaxOutstanding, c) \in Nat
  <2>1. /\ BFixed \in Nat /\ Bypass \in Nat /\ MaxOutstanding - 1 \in Nat
        /\ MaxOutstanding \in Nat
    BY <1>1, GmAssumption
  <2>2. /\ MaxOutstanding * BFixed \in Nat /\ Bypass * CMax \in Nat
        /\ (MaxOutstanding - 1) * CMax \in Nat
    BY <1>1, <2>1, ProductType
  <2> QED
    BY <2>2 DEF LDownWork
<1>3. ASSUME NEW q \in Requests
      PROVE  /\ LDownMax(MaxOutstanding, Beats(q.bytes)) \in Nat
             /\ LDownMax(MaxOutstanding, Beats(q.bytes)) <= b
  <2>1. Beats(q.bytes) \in Nat /\ Beats(q.bytes) <= CMax
    BY GmAssumption, SimAssumption DEF Request
  <2> QED
    BY <1>1, <1>2, <2>1, LDownMaxGrows, LDownMaxCovers
<1>4. b \in Nat
  BY <1>1, LDownMaxCovers
<1> HIDE DEF b
<1>5. T \subseteq Nat /\ T # {} /\ \A x \in T : x <= b
  BY <1>3
<1>6. Max(T) \in Nat /\ \A x \in T : x <= Max(T)
  <2> HIDE DEF T
  <2> QED
    BY <1>4, <1>5, GreatestNumber
<1>7. WorstTail = Max(T)
  BY DEF WorstTail
<1> QED
  BY <1>6, <1>7

(* The loop is somewhere in its cycle, within the horizon. *)
LoopInv ==
  /\ phase \in {"settle", "arrive", "accept"} /\ policy \in Policies
  /\ latest \in Nat
  /\ cycle <= LastCycle \/ cycle <= LastArrival

(* The loop stays within its horizon (model/gm/sim.py:52-127).             *)
LEMMA LoopStep ==
  ASSUME Requests # {}, LoopInv, cycle \in Nat, [Next]_vars
  PROVE  LoopInv'
<1>1. /\ WorstTail \in Nat /\ LastArrival \in Nat /\ WorstTail' = WorstTail
  BY WorstTailType, SimAssumption DEF WorstTail
<1>2. /\ phase \in {"settle", "arrive", "accept"} /\ policy \in Policies
      /\ latest \in Nat
      /\ cycle <= LastCycle \/ cycle <= LastArrival
  BY DEF LoopInv
<1>3. ASSUME UNCHANGED <<cycle, policy>>, latest' \in Nat, latest <= latest',
             phase' \in {"settle", "arrive", "accept"}
      PROVE  LoopInv'
  <2>1. LastCycle \in Nat /\ LastCycle <= LastCycle' /\ LastCycle' \in Nat
    <3>1. LastCycle = latest + WorstTail /\ LastCycle' = latest' + WorstTail
      BY <1>1 DEF LastCycle
    <3>2. latest \in Nat /\ latest' \in Nat /\ latest <= latest'
      BY <1>2, <1>3
    <3>3. WorstTail \in Nat
      BY <1>1
    <3>4. \A a, b, w \in Nat :
            a <= b => a + w \in Nat /\ b + w \in Nat /\ a + w <= b + w
      OBVIOUS
    <3>5. /\ latest + WorstTail \in Nat /\ latest' + WorstTail \in Nat
          /\ latest + WorstTail <= latest' + WorstTail
      BY <3>2, <3>3, <3>4
    <3> QED
      BY <3>1, <3>5
  <2> HIDE DEF LastCycle
  <2>2. cycle' <= LastCycle' \/ cycle' <= LastArrival
    BY <1>2, <1>3, <2>1
  <2> QED
    BY <1>2, <1>3, <2>2 DEF LoopInv
<1>4. ASSUME UNCHANGED <<cycle, policy, latest>>,
             phase' \in {"settle", "arrive", "accept"}
      PROVE  LoopInv'
  <2>1. latest' \in Nat /\ latest <= latest' /\ UNCHANGED <<cycle, policy>>
    BY <1>2, <1>4
  <2> QED
    BY <1>3, <1>4, <2>1
<1>5. CASE SimComplete
  BY <1>2, <1>4, <1>5 DEF SimComplete, Complete
<1>6. CASE SimCancel
  BY <1>2, <1>4, <1>6 DEF SimCancel, Cancel
<1>7. CASE SimReplenish
  BY <1>2, <1>4, <1>7 DEF SimReplenish, Replenish
<1>8. CASE SimRelease
  <2>1. latest' = Max({latest, cycle}) /\ UNCHANGED <<cycle, policy, phase>>
    BY <1>8 DEF SimRelease
  <2>2. latest' \in Nat /\ latest <= latest'
    BY <1>2, <2>1, MaxOfTwo
  <2> QED
    BY <1>2, <1>3, <2>1, <2>2
<1>9. CASE SimDispatch
  BY <1>2, <1>4, <1>9 DEF SimDispatch, Dispatch
<1>10. ASSUME NEW q \in Requests, Arrive(q), UNCHANGED cycle PROVE LoopInv'
  <2>1. latest' = Max({latest, Deadline(q)}) /\ UNCHANGED <<policy, phase>>
    BY <1>10 DEF Arrive
  <2>2. Deadline(q) \in Int
    <3>1. Beats(q.bytes) \in Nat /\ q.headroom \in Nat
      BY GmAssumption, SimAssumption DEF Request
    <3>2. LDownMax(MaxOutstanding, Beats(q.bytes)) \in Nat
      BY <3>1, LDownMaxCovers
    <3> QED
      BY <3>1, <3>2 DEF Deadline
  <2>3. latest' \in Nat /\ latest <= latest'
    BY <1>2, <2>1, <2>2, MaxOfTwo
  <2> QED
    BY <1>2, <1>3, <1>10, <2>1, <2>3
<1>11. ASSUME NEW q \in Requests, SimAdmit(q) PROVE LoopInv'
  <2>1. Arrive(q) /\ UNCHANGED cycle
    BY <1>11 DEF SimAdmit, Admit, AdmitHit, AdmitFree, AdmitReclaim,
                 AdmitDrain, Enqueue
  <2> QED
    BY <1>10, <2>1
<1>12. ASSUME NEW q \in Requests, SimReject(q) PROVE LoopInv'
  BY <1>10, <1>12 DEF SimReject
<1>13. CASE SimAccept
  BY <1>2, <1>4, <1>13 DEF SimAccept, Accept
<1>14. CASE EndCycle
  <2>1. /\ cycle < LastCycle \/ cycle < LastArrival
        /\ cycle' = cycle + 1 /\ phase' = "settle"
        /\ UNCHANGED <<policy, latest>>
    BY <1>14 DEF EndCycle, Tick
  <2>2. LastCycle \in Nat /\ LastCycle' = LastCycle
    BY <1>1, <1>2, <2>1 DEF LastCycle
  <2> HIDE DEF LastCycle
  <2>3. cycle' <= LastCycle' \/ cycle' <= LastArrival
    BY <1>1, <2>1, <2>2
  <2> QED
    BY <1>2, <2>1, <2>3 DEF LoopInv
<1>15. CASE UNCHANGED vars
  BY <1>2, <1>4, <1>15 DEF vars
<1> QED
  BY <1>5, <1>6, <1>7, <1>8, <1>9, <1>11, <1>12, <1>13, <1>14, <1>15
     DEF Next, Finished

(* The loop is somewhere in its cycle, within the horizon, in every state.  *)
LEMMA LoopInvHolds ==
  ASSUME Requests # {}
  PROVE  Spec => []LoopInv
<1>1. Init => LoopInv
  <2> SUFFICES ASSUME Init PROVE LoopInv
    OBVIOUS
  <2>1. WorstTail \in Nat /\ latest = 0 /\ cycle = 0
    BY WorstTailType DEF Init, DpInit
  <2> QED
    BY <2>1 DEF Init, LoopInv, LastCycle
<1>2. LoopInv /\ PortInv /\ [Next]_vars => LoopInv'
  BY LoopStep DEF PortInv, Scheduled
<1>3. Spec => []PortInv
  BY PortInvHolds
<1> QED
  BY <1>1, <1>2, <1>3, PTL DEF Spec

(* The structures keep their types and the widths the code gives them, every*)
(* descriptor id is free or in one live descriptor, and no event raises     *)
(* (model/gm/data_plane.py:55-110, model/gm/control_plane.py:47-105).       *)
THEOREM SimTypeCorrect ==
  ASSUME OneSpeculation, Requests # {}
  PROVE  Spec => []SimTypeOK
<1>1. Spec => []LoopInv
  BY LoopInvHolds
<1>2. Spec => []BooksInv
  BY BooksHold
<1>3. LoopInv /\ PortInv /\ CreditInv /\ BooksInv => SimTypeOK
  <2> SUFFICES ASSUME LoopInv, PortInv, CreditInv, BooksInv PROVE SimTypeOK
    OBVIOUS
  <2>1. cycle \in 0 .. Max({LastCycle, LastArrival})
    <3>1. /\ cycle \in Nat /\ latest \in Nat /\ WorstTail \in Nat
          /\ LastArrival \in Nat
          /\ cycle <= LastCycle \/ cycle <= LastArrival
      BY WorstTailType, SimAssumption DEF LoopInv, PortInv, Scheduled
    <3>2. LastCycle \in Nat
      BY <3>1 DEF LastCycle
    <3> HIDE DEF LastCycle
    <3> QED
      BY <3>1, <3>2, MaxOfTwo
  <2>2. /\ phase \in {"settle", "arrive", "accept"} /\ policy \in Policies
        /\ Len(pending) <= MaxOutstanding /\ Len(dispatch_q) <= QueueDepth
    BY DEF LoopInv, PortInv, Scheduled, CreditInv
  <2>3. /\ ready_m \subseteq Descriptor
        /\ ready_s \in Seq(Descriptor) /\ dispatch_q \in Seq(Descriptor)
        /\ pending \in Seq(Outstanding)
        /\ lifecycle_ram \in [Slots -> Object \cup {NoObject}]
        /\ escaped = "none"
    BY DEF BooksInv, QueueInv, QueueTypes, FrameInv, FrameTypes
  <2>4. ToSet(free_desc) = DescIds \ {d.id : d \in Live}
    <3>1. Live = Unissued \cup OnBus
      BY QueueFacts DEF BooksInv
    <3> QED
      BY <3>1 DEF BooksInv, QueueInv, IdsOf
  <2> QED
    BY <2>1, <2>2, <2>3, <2>4 DEF SimTypeOK
<1>4. Spec => []PortInv
  BY PortInvHolds
<1>5. Spec => []CreditInv
  BY CreditInvHolds
<1> QED
  BY <1>1, <1>2, <1>3, <1>4, <1>5, PTL
---------------------------------------------------------------------------
(* The port serves in order, and outside the phase "settle" nothing is due: *)
(* each cycle first takes out all that is (model/gm/sim.py:52-127,          *)
(* model/gm/data_plane.py:99-142).                                          *)
PortInOrder ==
  \A i, j \in 1 .. Len(pending) : i <= j => pending[i].done <= pending[j].done

CaughtUp == phase # "settle" => ~Due

(* What measurement_horizon promises: by the end of the horizon whatever    *)
(* was accepted by the last deadline has completed, so that a transfer that *)
(* is still on the bus was accepted later (model/gm/traces_b.py:303-317).   *)
HorizonObserves ==
  phase = "accept" /\ cycle >= LastCycle
    => \A i \in DOMAIN pending : pending[i].accept > latest

(* The end times of the transfers on the bus. *)
LEMMA EndTimes ==
  ASSUME PortInv, NEW i \in 1 .. Len(pending)
  PROVE  pending[i].done \in Nat /\ pending[i].accept \in Nat
<1> PICK S : Queued(S)
  BY DEF PortInv
<1>1. pending[i] \in Jobs(S)
  BY DoneType
<1> QED
  BY <1>1 DEF Jobs

(* The first transfer leaves the bus. *)
LEMMA CompleteInOrder ==
  ASSUME PortInv, PortInOrder, Complete
  PROVE  PortInOrder'
<1> PICK S : Queued(S)
  BY DEF PortInv
<1> DEFINE n == Len(pending)
<1>1. /\ pending \in Seq(Jobs(S)) /\ pending # <<>> /\ n \in Nat \ {0}
      /\ pending' = Tail(pending)
  BY DEF Complete, Due, Queued
<1>2. /\ Len(pending') = n - 1
      /\ \A i \in 1 .. n - 1 : pending'[i] = pending[i + 1]
  BY <1>1
<1> SUFFICES ASSUME NEW i \in 1 .. n - 1, NEW j \in 1 .. n - 1, i <= j
             PROVE  pending'[i].done <= pending'[j].done
  BY <1>2 DEF PortInOrder
<1>3. i + 1 \in 1 .. n /\ j + 1 \in 1 .. n /\ i + 1 <= j + 1
  <2>1. n \in Nat /\ i \in Int /\ j \in Int /\ i <= j
    BY <1>1
  <2> HIDE DEF n
  <2> QED
    BY <2>1
<1>4. pending[i + 1].done <= pending[j + 1].done
  BY <1>3 DEF PortInOrder
<1> QED
  BY <1>2, <1>4

(* A transfer that is accepted ends last, and not at once. *)
LEMMA AcceptInOrder ==
  ASSUME PortInv, PortInOrder, ~Due, Accept
  PROVE  PortInOrder' /\ ~Due'
<1> PICK S : Queued(S)
  BY DEF PortInv
<1> DEFINE n == Len(pending)
           d == dispatch_q[1]
           done == ServiceStart + Beats(d.bytes)
           job == [desc |-> d, accept |-> cycle, done |-> done]
<1>1. /\ pending \in Seq(Jobs(S)) /\ n \in Nat
      /\ pending' = Append(pending, job)
      /\ dispatch_q \in Seq(S) /\ dispatch_q # <<>> /\ cycle' = cycle
  BY DEF Accept, Acceptable, Queued
<1>2. Beats(d.bytes) \in Nat \ {0}
  <2>1. d \in S
    BY <1>1
  <2>2. d.bytes \in 1 .. MaxBytes
    BY <2>1 DEF Queued, Timed
  <2> QED
    BY <2>2, GmAssumption
<1>3. /\ cycle \in Nat /\ port_free \in Nat /\ FixedOverhead \in Nat
      /\ pending # <<>> => port_free = pending[n].done
  BY GmAssumption DEF PortInv, Scheduled
<1>4. /\ ServiceStart \in Nat /\ port_free <= ServiceStart
      /\ cycle <= ServiceStart
  BY <1>3, MaxOfTwo DEF ServiceStart
<1>5. done \in Nat /\ port_free <= done /\ cycle < done
  <2> DEFINE b == Beats(d.bytes)
  <2>1. b \in Nat \ {0}
    BY <1>2
  <2> HIDE DEF b
  <2> QED
    BY <1>3, <1>4, <2>1 DEF b
<1>6. job.done = done /\ job \in Jobs(S)
  <2>1. d \in S
    BY <1>1
  <2> QED
    BY <1>3, <1>5, <2>1 DEF Jobs
<1> HIDE DEF job, done
<1>7. /\ Len(pending') = n + 1 /\ pending'[n + 1] = job
      /\ \A i \in 1 .. n : pending'[i] = pending[i]
  BY <1>1, <1>6
<1>8. \A i \in 1 .. n + 1 : i \in 1 .. n \/ i = n + 1
  <2>1. n \in Nat
    BY <1>1
  <2> HIDE DEF n
  <2> QED
    BY <2>1
<1>9. ASSUME NEW i \in 1 .. n PROVE pending[i].done <= done
  <2>1. n \in 1 .. n /\ i <= n /\ pending # <<>>
    BY <1>1
  <2>2. pending[i].done <= pending[n].done
    BY <2>1 DEF PortInOrder
  <2>3. pending[i].done \in Nat /\ pending[n].done \in Nat
    BY <2>1, EndTimes
  <2> QED
    BY <1>3, <1>5, <2>1, <2>2, <2>3
<1>10. PortInOrder'
  <2> SUFFICES ASSUME NEW i \in 1 .. n + 1, NEW j \in 1 .. n + 1, i <= j
               PROVE  pending'[i].done <= pending'[j].done
    BY <1>7 DEF PortInOrder
  <2>1. CASE j = n + 1
    BY <1>5, <1>6, <1>7, <1>8, <1>9, <2>1
  <2>2. CASE j \in 1 .. n
    <3>1. i \in 1 .. n
      BY <1>1, <2>2
    <3> QED
      BY <1>7, <2>2, <3>1 DEF PortInOrder
  <2> QED
    BY <1>8, <2>1, <2>2
<1>11. ~Due'
  <2>1. CASE pending = <<>>
    <3>1. n = 0
      BY <2>1
    <3> QED
      BY <1>1, <1>3, <1>5, <1>6, <1>7, <3>1 DEF Due
  <2>2. CASE pending # <<>>
    <3>1. 1 \in 1 .. n
      BY <1>1, <2>2
    <3> QED
      BY <1>1, <1>7, <2>2, <3>1 DEF Due
  <2> QED
    BY <2>1, <2>2
<1> QED
  BY <1>10, <1>11

(* Every step of the loop serves in order and catches up.                   *)
LEMMA LoopServes ==
  ASSUME PortInv, PortInOrder, CaughtUp, [Next]_vars
  PROVE  PortInOrder' /\ CaughtUp'
<1>1. ASSUME UNCHANGED <<pending, cycle>>, phase' # "settle" => ~Due
      PROVE  PortInOrder' /\ CaughtUp'
  BY <1>1 DEF PortInOrder, CaughtUp, Due
<1>2. ASSUME UNCHANGED <<pending, cycle>>, phase' = phase
      PROVE  PortInOrder' /\ CaughtUp'
  BY <1>1, <1>2 DEF CaughtUp
<1>3. CASE SimComplete
  BY <1>3, CompleteInOrder DEF SimComplete, CaughtUp
<1>4. CASE SimCancel
  BY <1>2, <1>4 DEF SimCancel, Cancel
<1>5. CASE SimReplenish
  BY <1>1, <1>5 DEF SimReplenish, Replenish
<1>6. CASE SimRelease
  BY <1>2, <1>6 DEF SimRelease, dpvars
<1>7. CASE SimDispatch
  BY <1>1, <1>7 DEF SimDispatch, Dispatch, dpvars, CaughtUp
<1>8. ASSUME NEW q \in Requests, SimAdmit(q)
      PROVE  PortInOrder' /\ CaughtUp'
  BY <1>2, <1>8 DEF SimAdmit, Arrive, Admit, AdmitHit, AdmitFree,
                    AdmitReclaim, AdmitDrain, Enqueue
<1>9. ASSUME NEW q \in Requests, SimReject(q)
      PROVE  PortInOrder' /\ CaughtUp'
  BY <1>2, <1>9 DEF SimReject, Arrive, dpvars
<1>10. CASE SimAccept
  <2>1. ~Due /\ Accept
    BY <1>10 DEF SimAccept, CaughtUp
  <2> QED
    BY <2>1, AcceptInOrder DEF CaughtUp
<1>11. CASE EndCycle
  BY <1>11 DEF EndCycle, Tick, dpvars, PortInOrder, CaughtUp
<1>12. CASE UNCHANGED vars
  BY <1>2, <1>12 DEF vars, dpvars
<1> QED
  BY <1>3, <1>4, <1>5, <1>6, <1>7, <1>8, <1>9, <1>10, <1>11, <1>12
     DEF Next, Finished

(* For every size, envelope, trace and policy: the horizon is long enough   *)
(* to see whatever was accepted by the last deadline complete; a transfer   *)
(* that is never accepted, or later, is not promised anything               *)
(* (model/gm/traces_b.py:303-317).                                          *)
THEOREM HorizonCorrect ==
  ASSUME Requests # {}
  PROVE  Spec => []HorizonObserves
<1>1. Init => PortInOrder /\ CaughtUp
  BY DEF Init, DpInit, PortInOrder, CaughtUp
<1>2. PortInv /\ PortInOrder /\ CaughtUp /\ [Next]_vars
        => PortInOrder' /\ CaughtUp'
  BY LoopServes
<1>3. PortInv /\ PortInOrder /\ CaughtUp /\ LoopInv => HorizonObserves
  <2> SUFFICES ASSUME PortInv, PortInOrder, CaughtUp, LoopInv,
                      phase = "accept", cycle >= LastCycle,
                      NEW i \in DOMAIN pending
               PROVE  pending[i].accept > latest
    BY DEF HorizonObserves
  <2> PICK S : Queued(S)
    BY DEF PortInv
  <2> DEFINE L == LDownMax(MaxOutstanding, Beats(pending[i].desc.bytes))
  <2>1. /\ i \in 1 .. Len(pending) /\ 1 \in 1 .. Len(pending) /\ 1 <= i
        /\ pending # <<>> /\ pending[i] \in Jobs(S)
    <3>1. pending \in Seq(Jobs(S))
      BY DEF Queued
    <3>2. i \in 1 .. Len(pending) /\ Len(pending) \in Nat
      BY <3>1
    <3> QED
      BY <3>1, <3>2, DoneType
  <2>2. pending[1].done > cycle
    BY <2>1, EndTimes DEF CaughtUp, Due, PortInv, Scheduled
  <2>3. pending[1].done <= pending[i].done
    BY <2>1 DEF PortInOrder
  <2>4. pending[i].done <= pending[i].accept + L
    BY <2>1 DEF PortInv, WithinEnvelope
  <2>5. L <= WorstTail /\ WorstTail \in Nat /\ L \in Nat
    <3>1. pending[i].desc \in S
      BY <2>1 DEF Jobs
    <3>2. PICK q \in Requests : pending[i].desc.bytes = q.bytes
      BY <3>1 DEF Queued, Timed
    <3>3. Beats(q.bytes) \in Nat
      BY GmAssumption, SimAssumption DEF Request
    <3> QED
      BY <3>2, <3>3, WorstTailType, LDownMaxCovers
  <2>6. /\ pending[1].done \in Nat /\ pending[i].done \in Nat
        /\ pending[i].accept \in Nat /\ cycle \in Nat /\ latest \in Nat
    BY <2>1, EndTimes DEF PortInv, Scheduled, LoopInv
  <2>7. cycle >= latest + WorstTail
    BY DEF LastCycle
  <2> HIDE DEF L
  <2>8. pending[i].accept + L > latest + WorstTail
    BY <2>2, <2>3, <2>4, <2>5, <2>6, <2>7
  <2> QED
    BY <2>5, <2>6, <2>8
<1>4. Spec => []LoopInv
  BY LoopInvHolds
<1>5. Spec => []PortInv
  BY PortInvHolds
<1> QED
  BY <1>1, <1>2, <1>3, <1>4, <1>5, PTL DEF Spec
===========================================================================
