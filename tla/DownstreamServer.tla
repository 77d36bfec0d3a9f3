-------------------------- MODULE DownstreamServer --------------------------
(***************************************************************************)
(* The queue and service model against which the declared worst case       *)
(* l_down_max was validated (model/validate_ldownmax.py): one FIFO server  *)
(* that is never pre-empted, MaxOutstanding transactions accepted and not  *)
(* complete, an overhead for each or for each busy period (b_mode), and a  *)
(* refresh stall at the end of each window or once for each busy period    *)
(* (r_mode).  A step is one transaction.                                   *)
(***************************************************************************)
EXTENDS GmTypes, FiniteSetsExt, SequencesExt

CONSTANTS
  Gaps,       \* cycles between two arrivals
  Services,   \* service times, none above CMax
  Jumpers,    \* transactions that may go ahead of the last one
  LastTxn

VARIABLES
  b_mode, r_mode,
  t,            \* the last arrival
  server_free,  \* when the server has done what was accepted
  pending,      \* completion times of what is outstanding, ascending
  served,       \* transactions served
  last          \* the last one, or NoTxn

qvars == <<b_mode, r_mode, t, server_free, pending, served, last>>

NoTxn == [accept |-> 0, svc |-> 0, finish |-> 0, jumped |-> 0]

ASSUME ServerAssumption ==
  /\ Gaps \subseteq Nat /\ Services \subseteq 1 .. CMax
  /\ Jumpers \in Nat /\ LastTxn \in Nat

Usable == Window - Refresh
---------------------------------------------------------------------------
(* When w cycles of work begun at start are done: the server stands for the *)
(* last Refresh cycles of every window.                                     *)
Advance(start, w) ==
  LET fin[at \in Nat \X Nat] ==       \* a cycle and the work then left
        LET u == at[1]
            left == at[2]
            off == u % Window
            next == (u \div Window + 1) * Window IN
        IF off >= Usable THEN fin[<<next, left>>]
        ELSE IF left <= Usable - off THEN u + left
        ELSE fin[<<next, left - (Usable - off)>>]
  IN IF Refresh = 0 \/ w = 0 THEN start + w ELSE fin[<<start, w>>]

(* The same stalls, one cycle at a time. *)
AdvanceStepping(start, w) ==
  LET fin[at \in Nat \X Nat] ==
        LET u == at[1]
            left == at[2] IN
        IF left = 0 THEN u
        ELSE fin[<<u + 1, IF u % Window < Usable THEN left - 1 ELSE left>>]
  IN fin[<<start, w>>]

(* Mutant: one stall is charged, however long the work. *)
StallInflationOnce(w) == w + Refresh

(* The longest w cycles of work can take, whenever they begin. *)
StallInflation(w) == w + Refresh * CeilDiv(w, Usable)
---------------------------------------------------------------------------
(* One transaction through a server that is free at cycle free: when it is  *)
(* done.                                                                    *)
Served(free, acc, svc) ==
  LET idle  == free <= acc
      start == Max({acc, free})
      w     == svc + IF b_mode = "per_txn" \/ idle THEN BFixed ELSE 0 IN
  IF r_mode = "periodic" THEN Advance(start, w)
  ELSE start + w + IF idle THEN Refresh ELSE 0

(* n transactions of the longest service, accepted at acc. *)
AfterBlockers(free, acc, n) ==
  LET after[i \in 0 .. n] ==
        IF i = 0 THEN free ELSE Served(after[i - 1], acc, CMax)
  IN after[n]

(* What is over by then leaves from the front. *)
StillPending(at) ==
  LET over == {i \in DOMAIN pending : \A j \in 1 .. i : pending[j] <= at}
  IN  SubSeq(pending, Cardinality(over) + 1, Len(pending))

(* Mutant: the outstanding limit does not hold the arrival back. *)
AcceptAtOnce(a) == a

(* An arrival is accepted at once, or when the first of a full window       *)
(* completes.                                                               *)
AcceptAt(a) ==
  IF Len(StillPending(a)) >= MaxOutstanding THEN StillPending(a)[1] ELSE a

(* A transaction arrives, with jumped bounded bypasses ahead of it. *)
Transact(gap, svc, jumped) ==
  LET acc == AcceptAt(t + gap)
      fin == Served(AfterBlockers(server_free, acc, jumped), acc, svc) IN
  /\ t' = t + gap
  /\ server_free' = fin
  /\ pending' = Append(StillPending(acc), fin)
  /\ served' = served + 1
  /\ last' = [accept |-> acc, svc |-> svc, finish |-> fin, jumped |-> jumped]
  /\ UNCHANGED <<b_mode, r_mode>>

QueueInit ==
  /\ b_mode \in {"per_txn", "bp"} /\ r_mode \in {"periodic", "bp"}
  /\ t \in 0 .. Window - 1
  /\ server_free = t
  /\ pending = <<>> /\ served = 0 /\ last = NoTxn

(* Nothing is observed after the probe that was jumped. *)
Observed == served = LastTxn \/ last.jumped > 0

Arrive ==
  /\ ~Observed
  /\ \E gap \in Gaps, svc \in Services : Transact(gap, svc, 0)

Probe ==
  /\ ~Observed
  /\ \E gap \in Gaps, svc \in Services, n \in 1 .. Jumpers :
       Transact(gap, svc, n)

ServerNext == Arrive \/ Probe \/ (Observed /\ UNCHANGED qvars)

ServerSpec == QueueInit /\ [][ServerNext]_qvars
---------------------------------------------------------------------------
(* The bound as it was first asserted. *)
AnalyticBound(svc, n) ==
  BFixed + (MaxOutstanding - 1) * CMax + svc + n * CMax + Refresh

(* How often the fixed overhead is paid. *)
Overheads(n) == IF b_mode = "per_txn" THEN MaxOutstanding + n ELSE 1

(* The bound proposed in its place, when n transactions go ahead. *)
CorrectedBound(svc, n) ==
  LET w == Overheads(n) * BFixed + (MaxOutstanding - 1 + n) * CMax + svc IN
  IF r_mode = "periodic" THEN StallInflation(w) ELSE w + Refresh

(* The adversarial construction: at t0 the window fills at once with the    *)
(* longest services, and the observed transaction is the last of it.        *)
Adversarial(t0, svc, n) ==
  Served(AfterBlockers(t0, t0, MaxOutstanding - 1 + n), t0, svc) - t0

(* No transaction is outstanding for longer than the corrected bound, in    *)
(* any reading of the service model, whatever arrives when; in the literal  *)
(* reading l_down_max, which admission subtracts from every deadline, is    *)
(* that bound, and in the lumped reading the bound first asserted was right *)
(* (model/validate_ldownmax.py:25-41, 288-356, 426-435,                     *)
(* model/gm/types.py:89-132).                                               *)
LatencyWithinBound ==
  LET latency == last.finish - last.accept IN
  last # NoTxn =>
    /\ latency <= CorrectedBound(last.svc, last.jumped)
    /\ b_mode = "per_txn" /\ r_mode = "periodic" /\ last.jumped = 0
         => latency <= LDownMax(MaxOutstanding, last.svc)
    /\ b_mode = "bp" /\ r_mode = "bp"
         => latency <= AnalyticBound(last.svc, last.jumped)

(* The bound gives nothing away: for some phase of the refresh the          *)
(* adversarial construction attains it, for the same transaction and the    *)
(* same bypasses (model/validate_ldownmax.py:361-423, 966-1008).            *)
WorstCaseIsAttained ==
  last # NoTxn =>
    CorrectedBound(last.svc, last.jumped) =
      Max({Adversarial(t0, last.svc, last.jumped) : t0 \in 0 .. Window - 1})
=============================================================================
