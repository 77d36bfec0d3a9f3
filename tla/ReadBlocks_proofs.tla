-------------------------- MODULE ReadBlocks_proofs -------------------------
(***************************************************************************)
(* What the manager, the tracker and the bus agree on, for any number of   *)
(* tags and outstanding places, whatever is requested and whatever the     *)
(* window registers hold.  The argument follows one edge: an AR handshake  *)
(* makes the issued tag live in all three records, a last beat ends its    *)
(* tag in all three, and the two are never one tag.                        *)
(***************************************************************************)
EXTENDS Integers, ReadBlocks, FiniteSetTheorems, TLAPS

USE PkgAssumption, TrackerAssumption, RdmAssumption

RecordTypes ==
  /\ RdmTypeOK /\ TrackerTypeOK
  /\ bus \in [Tags -> Nat]
  /\ IsFiniteSet(Live)

(* ARVALID is the last state of the issue machine. *)
ArIsState == arvalid <=> state = "AR"

(* What the two blocks and the bus keep between them.                       *)
BlocksInv == RecordTypes /\ ArIsState /\ LiveSetsAgree /\ OutstandingIsExact

(* The two blocks and the slave on one edge.                                *)
BlocksEdge(valid, req, w, arready, r) ==
  ReadClock(valid, req, w, arready, r) /\ Slave(arready, r)
---------------------------------------------------------------------------
(* A cleared descriptor has a tag. *)
LEMMA ZeroDescType == ZeroDesc \in Descriptor
BY DEF ZeroDesc, Descriptor

(* Out of reset every register of the two blocks is legal                   *)
(* (axi_read_manager.sv:189-235; tag_tracker.sv:55-64).                     *)
LEMMA ClearedRecords ==
  /\ RdmInit => RdmTypeOK
  /\ TrackerInit => TrackerTypeOK
<1>1. /\ 0 \in Count /\ ZeroDesc \in Descriptor
      /\ [desc |-> ZeroDesc, addr |-> 0, len |-> 0, sigchk |-> FALSE]
           \in ReadReq
  BY ZeroDescType DEF Count, ReadReq
<1>2. ASSUME RdmInit PROVE RdmTypeOK
  <2> USE <1>2 DEF RdmInit, RdmCleared
  <2>1. /\ evt_a \in [valid : BOOLEAN, code : {"DISPATCH", "AXI_ACCEPT"},
                      desc : Descriptor]
        /\ evt_r \in [valid : BOOLEAN, first : BOOLEAN, last : BOOLEAN,
                      desc : Descriptor]
    BY <1>1
  <2>2. rdm_cnt \in [dispatch : Count, accept : Count, first_data : Count,
                     complete : Count]
    BY <1>1
  <2>3. /\ state \in {"IDLE", "DISP", "AR"} /\ arvalid \in BOOLEAN
        /\ issue \in ReadReq
        /\ busy_sh \in [Tags -> BOOLEAN] /\ seen_sh \in [Tags -> BOOLEAN]
        /\ desc_sh \in [Tags -> Descriptor] /\ chk_sh \in [Tags -> BOOLEAN]
        /\ pulse \subseteq (Refusals \cup {"axi_err", "payload"})
    BY <1>1
  <2> QED
    BY <2>1, <2>2, <2>3 DEF RdmTypeOK
<1>3. TrackerInit => TrackerTypeOK
  BY <1>1 DEF TrackerInit, TrackerCleared, TrackerTypeOK, Errors
<1> QED
  BY <1>2, <1>3

LEMMA BlocksInvInit ==
  RdmInit /\ TrackerInit /\ SlaveInit => BlocksInv
<1> SUFFICES ASSUME RdmInit, TrackerInit, SlaveInit PROVE BlocksInv
  OBVIOUS
<1>1. RdmTypeOK /\ TrackerTypeOK
  BY ClearedRecords
<1> USE DEF RdmInit, RdmCleared, TrackerInit, TrackerCleared, SlaveInit
<1>2. Live = {} /\ IsFiniteSet(Live) /\ Cardinality(Live) = 0
  BY FS_EmptySet DEF Live
<1>3. RecordTypes /\ ArIsState
  BY <1>1, <1>2 DEF RecordTypes, ArIsState
<1>4. LiveSetsAgree
  BY DEF LiveSetsAgree
<1>5. OutstandingIsExact
  BY <1>2 DEF OutstandingIsExact
<1> QED
  BY <1>3, <1>4, <1>5 DEF BlocksInv

LEMMA BlocksStutter ==
  BlocksInv /\ UNCHANGED <<rdmvars, ttvars, bus>> => BlocksInv'
BY DEF rdmvars, ttvars, BlocksInv, RecordTypes, RdmTypeOK, TrackerTypeOK,
       ArIsState, LiveSetsAgree, OutstandingIsExact, Live
---------------------------------------------------------------------------
(* A beat is of a live burst, and RLAST is on the burst's last one.         *)
LEMMA BeatFacts ==
  ASSUME BlocksInv, NEW r \in Beats
  PROVE  /\ r.id \in Tags /\ r.valid \in BOOLEAN /\ r.last \in BOOLEAN
         /\ r.valid => bus[r.id] > 0 /\ (r.last <=> bus[r.id] = 1)
<1>1. CASE r = NoBeat
  BY <1>1, ZeroDescType DEF NoBeat, Descriptor
<1>2. ASSUME r # NoBeat
      PROVE  /\ r.id \in Tags /\ r.valid = TRUE /\ r.last \in BOOLEAN
             /\ bus[r.id] > 0 /\ (r.last <=> bus[r.id] = 1)
  <2>1. PICK t \in {u \in Tags : bus[u] > 0}, e \in BOOLEAN, m \in BOOLEAN :
          r = [valid |-> TRUE, id |-> t, last |-> bus[t] = 1, err |-> e,
               match |-> m]
    BY <1>2 DEF Beats
  <2> QED
    BY <2>1
<1> QED
  BY <1>1, <1>2

(* Both judgements of the tracker come out as the manager expects: room and *)
(* tag are still there at the handshake, and only live tags complete.       *)
LEMMA BothGoThrough ==
  ASSUME BlocksInv, NEW arready \in BOOLEAN, NEW r \in Beats
  PROVE  /\ AcceptOk(ArHs(arready), issue.desc) <=> ArHs(arready)
         /\ CompleteOk(RLast(r), r.id) <=> RLast(r)
         /\ issue.desc.transaction_tag \in Tags
         /\ ArHs(arready) => /\ state = "AR" /\ outstanding < MaxOutstanding
                             /\ ~tag_busy[issue.desc.transaction_tag]
         /\ RLast(r) => tag_busy[r.id] /\ bus[r.id] = 1
         /\ r.valid => tag_busy[r.id]
<1>1. issue.desc.transaction_tag \in Tags
  BY DEF BlocksInv, RecordTypes, RdmTypeOK, TrackerTypeOK, ReadReq, Descriptor
<1>2. ArHs(arready) => /\ state = "AR" /\ outstanding < MaxOutstanding
                       /\ ~tag_busy[issue.desc.transaction_tag]
  BY DEF BlocksInv, ArIsState, OutstandingIsExact, ArHs
<1>3. r.valid => tag_busy[r.id]
  BY BeatFacts DEF BlocksInv, LiveSetsAgree
<1>4. RLast(r) => tag_busy[r.id] /\ bus[r.id] = 1
  BY <1>3, BeatFacts DEF RLast
<1> QED
  BY <1>1, <1>2, <1>3, <1>4 DEF AcceptOk, CompleteOk, AcceptReady
---------------------------------------------------------------------------
(* One edge, whatever is presented to the manager and by the slave.         *)
LEMMA LiveStep ==
  ASSUME BlocksInv, NEW valid, NEW req, NEW w, NEW arready \in BOOLEAN,
         NEW r \in Beats, BlocksEdge(valid, req, w, arready, r)
  PROVE  /\ Live' = (Live \ (IF RLast(r) THEN {r.id} ELSE {}))
                      \cup (IF ArHs(arready)
                            THEN {issue.desc.transaction_tag} ELSE {})
         /\ tag_busy' \in [Tags -> BOOLEAN]
         /\ busy_sh' = tag_busy'
<1> DEFINE a == issue.desc.transaction_tag
           acc == ArHs(arready)
           cmp == RLast(r)
<1> HIDE DEF a, acc, cmp
<1>1. acc \in BOOLEAN /\ cmp \in BOOLEAN
  BY BeatFacts DEF acc, cmp, ArHs, RLast, BlocksInv, ArIsState
<1>2. a \in Tags /\ (acc => ~tag_busy[a]) /\ (cmp => tag_busy[r.id])
  BY BothGoThrough DEF a, acc, cmp
<1>3. tag_busy' = [t \in Tags |-> IF cmp /\ t = r.id THEN FALSE
                                  ELSE tag_busy[t] \/ (acc /\ t = a)]
  BY BothGoThrough DEF BlocksEdge, ReadClock, TrackerClock, a, acc, cmp
<1>4. busy_sh' = [t \in Tags |-> (acc /\ t = a)
                                 \/ (busy_sh[t] /\ ~(cmp /\ t = r.id))]
  BY DEF BlocksEdge, ReadClock, RdmClock, Shadow, a, acc, cmp
<1>5. busy_sh = tag_busy /\ tag_busy \in [Tags -> BOOLEAN]
  BY DEF BlocksInv, LiveSetsAgree, RecordTypes, RdmTypeOK, TrackerTypeOK
<1>6. \A t \in Tags : /\ busy_sh'[t] = tag_busy'[t]
                      /\ tag_busy'[t] \in BOOLEAN
  BY <1>1, <1>2, <1>3, <1>4, <1>5
<1>7. tag_busy' \in [Tags -> BOOLEAN] /\ busy_sh' = tag_busy'
  BY <1>3, <1>4, <1>6
<1>8. Live' = (Live \ (IF cmp THEN {r.id} ELSE {}))
                \cup (IF acc THEN {a} ELSE {})
  BY <1>1, <1>2, <1>3, <1>5 DEF Live
<1> QED
  BY <1>7, <1>8 DEF a, acc, cmp

(* The counter follows the live tags: an accept and a completion of one     *)
(* edge are of two tags, and leave the count alone.                         *)
LEMMA CountStep ==
  ASSUME BlocksInv, NEW valid, NEW req, NEW w, NEW arready \in BOOLEAN,
         NEW r \in Beats, BlocksEdge(valid, req, w, arready, r)
  PROVE  /\ IsFiniteSet(Live') /\ outstanding' = Cardinality(Live')
         /\ outstanding' \in Nat /\ outstanding' <= MaxOutstanding
         /\ outstanding' =
              outstanding + (IF ArHs(arready) THEN 1 ELSE 0)
                          - (IF RLast(r) THEN 1 ELSE 0)
<1> DEFINE a == issue.desc.transaction_tag
           acc == ArHs(arready)
           cmp == RLast(r)
           less == Live \ (IF cmp THEN {r.id} ELSE {})
<1> HIDE DEF a, acc, cmp, less
<1>1. acc \in BOOLEAN /\ cmp \in BOOLEAN
  BY BeatFacts DEF acc, cmp, ArHs, RLast, BlocksInv, ArIsState
<1>2. /\ acc => a \notin Live /\ outstanding < MaxOutstanding
      /\ cmp => r.id \in Live
  BY BothGoThrough, BeatFacts DEF a, acc, cmp, Live
<1>3. /\ IsFiniteSet(Live) /\ outstanding = Cardinality(Live)
      /\ outstanding \in Nat /\ outstanding <= MaxOutstanding
  BY DEF BlocksInv, RecordTypes, RdmTypeOK, TrackerTypeOK, OutstandingIsExact
<1>4. /\ IsFiniteSet(less)
      /\ Cardinality(less) = outstanding - (IF cmp THEN 1 ELSE 0)
  <2>1. CASE cmp
    BY <1>2, <1>3, <2>1, FS_RemoveElement DEF less
  <2>2. CASE ~cmp
    <3>1. less = Live
      BY <2>2 DEF less
    <3> QED
      BY <1>3, <2>2, <3>1
  <2> QED
    BY <2>1, <2>2
<1>5. Live' = less \cup (IF acc THEN {a} ELSE {})
  BY LiveStep DEF less, a, acc, cmp
<1>6. /\ IsFiniteSet(Live')
      /\ Cardinality(Live') = Cardinality(less) + (IF acc THEN 1 ELSE 0)
  <2>1. CASE acc
    <3>1. a \notin less
      BY <1>2, <2>1 DEF less
    <3>2. Live' = less \cup {a}
      BY <1>5, <2>1
    <3> QED
      BY <1>3, <1>4, <2>1, <3>1, <3>2, FS_AddElement
  <2>2. CASE ~acc
    <3>1. Live' = less
      BY <1>5, <2>2
    <3> QED
      BY <1>3, <1>4, <2>2, <3>1
  <2> QED
    BY <2>1, <2>2
<1>7. cmp => outstanding > 0
  <2>1. cmp => Live # {}
    BY <1>2
  <2> QED
    BY <1>3, <2>1, FS_EmptySet
<1>8. outstanding' = outstanding + (IF acc THEN 1 ELSE 0)
                                 - (IF cmp THEN 1 ELSE 0)
  <2>1. outstanding' = OutstandingAfter(acc, cmp)
    BY BothGoThrough, <1>1
       DEF BlocksEdge, ReadClock, TrackerClock, OutstandingAfter, acc, cmp
  <2> QED
    BY <1>1, <1>2, <1>3, <1>7, <2>1 DEF OutstandingAfter, Succ, Pred
<1>9. outstanding' \in Nat /\ outstanding' <= MaxOutstanding
  BY <1>1, <1>2, <1>3, <1>7, <1>8
<1>10. outstanding' = Cardinality(Live')
  BY <1>1, <1>3, <1>4, <1>6, <1>8
<1> QED
  BY <1>6, <1>8, <1>9, <1>10 DEF acc, cmp

(* The descriptors and the bus follow the live tags.                        *)
LEMMA RecordsStep ==
  ASSUME BlocksInv, NEW valid, NEW req, NEW w, NEW arready \in BOOLEAN,
         NEW r \in Beats, BlocksEdge(valid, req, w, arready, r)
  PROVE  /\ LiveSetsAgree' /\ bus' \in [Tags -> Nat]
<1> DEFINE a == issue.desc.transaction_tag
           acc == ArHs(arready)
           cmp == RLast(r)
<1> HIDE DEF a, acc, cmp
<1>1. /\ acc \in BOOLEAN /\ cmp \in BOOLEAN
      /\ r.valid \in BOOLEAN /\ r.last \in BOOLEAN /\ r.id \in Tags
  BY BeatFacts DEF acc, cmp, ArHs, RLast, BlocksInv, ArIsState
<1>2. /\ a \in Tags /\ issue.desc.transaction_tag = a
      /\ acc => ~tag_busy[a]
      /\ r.valid => tag_busy[r.id] /\ bus[r.id] > 0
      /\ cmp <=> r.valid /\ bus[r.id] = 1
  <2>1. a \in Tags /\ (acc => ~tag_busy[a]) /\ (r.valid => tag_busy[r.id])
    BY BothGoThrough DEF a, acc
  <2>2. r.valid => bus[r.id] > 0 /\ (r.last <=> bus[r.id] = 1)
    BY BeatFacts
  <2>3. cmp <=> r.valid /\ r.last
    BY DEF cmp, RLast
  <2> QED
    BY <2>1, <2>2, <2>3 DEF a
<1>3. issue.len + 1 \in Nat /\ issue.len + 1 > 0
  <2>1. issue.len \in BurstLens
    BY DEF BlocksInv, RecordTypes, RdmTypeOK, TrackerTypeOK, ReadReq
  <2>2. issue.len \in Nat
    BY <2>1
  <2> QED
    BY <2>2
<1>4. /\ busy_sh = tag_busy /\ tag_busy \in [Tags -> BOOLEAN]
      /\ bus \in [Tags -> Nat]
      /\ DOMAIN tag_desc = Tags /\ DOMAIN desc_sh = Tags
      /\ \A t \in Tags : tag_busy[t] <=> bus[t] > 0
      /\ \A t \in Tags : tag_busy[t] => /\ tag_desc[t] = desc_sh[t]
                                        /\ tag_desc[t].transaction_tag = t
  BY DEF BlocksInv, LiveSetsAgree, RecordTypes, RdmTypeOK, TrackerTypeOK
<1>5. /\ tag_busy' \in [Tags -> BOOLEAN] /\ busy_sh' = tag_busy'
      /\ \A t \in Tags : tag_busy'[t] <=>
           (acc /\ t = a) \/ (tag_busy[t] /\ ~(cmp /\ t = r.id))
  <2>1. Live' = (Live \ (IF cmp THEN {r.id} ELSE {}))
                  \cup (IF acc THEN {a} ELSE {})
    BY LiveStep DEF a, acc, cmp
  <2>2. \A t \in Tags : tag_busy'[t] <=> t \in Live'
    BY DEF Live
  <2>3. \A t \in Tags : tag_busy[t] <=> t \in Live
    BY DEF Live
  <2>4. tag_busy' \in [Tags -> BOOLEAN] /\ busy_sh' = tag_busy'
    BY LiveStep
  <2> QED
    BY <1>1, <2>1, <2>2, <2>3, <2>4
<1>6. bus' = [t \in Tags |-> IF acc /\ t = a THEN issue.len + 1
                             ELSE IF r.valid /\ t = r.id THEN bus[t] - 1
                             ELSE bus[t]]
  BY DEF BlocksEdge, Slave, a, acc
<1>7. bus' \in [Tags -> Nat]
  BY <1>1, <1>2, <1>3, <1>4, <1>6
<1>8. \A t \in Tags : tag_busy'[t] <=> bus'[t] > 0
  <2> SUFFICES ASSUME NEW t \in Tags PROVE tag_busy'[t] <=> bus'[t] > 0
    OBVIOUS
  <2>1. /\ bus[t] \in Nat /\ tag_busy[t] \in BOOLEAN
        /\ tag_busy[t] <=> bus[t] > 0
    BY <1>4
  <2>2. CASE acc /\ t = a
    <3>1. bus'[t] = issue.len + 1 /\ tag_busy'[t]
      BY <1>5, <1>6, <2>2
    <3> QED
      BY <1>3, <3>1
  <2>3. CASE ~(acc /\ t = a) /\ r.valid /\ t = r.id
    <3>1. bus'[t] = bus[t] - 1 /\ bus[t] > 0
      BY <1>2, <1>6, <2>3
    <3>2. tag_busy'[t] <=> ~(bus[t] = 1)
      BY <1>2, <1>5, <2>1, <2>3
    <3> QED
      BY <2>1, <3>1, <3>2
  <2>4. CASE ~(acc /\ t = a) /\ ~(r.valid /\ t = r.id)
    <3>1. bus'[t] = bus[t]
      BY <1>6, <2>4
    <3>2. tag_busy'[t] <=> tag_busy[t]
      BY <1>2, <1>5, <2>4
    <3> QED
      BY <2>1, <3>1, <3>2
  <2> QED
    BY <2>2, <2>3, <2>4
<1>9. tag_desc' = IF acc THEN [tag_desc EXCEPT ![a] = issue.desc]
                  ELSE tag_desc
  BY BothGoThrough DEF BlocksEdge, ReadClock, TrackerClock, a, acc
<1>10. desc_sh' = IF acc THEN [desc_sh EXCEPT ![a] = issue.desc]
                  ELSE desc_sh
  BY DEF BlocksEdge, ReadClock, RdmClock, Shadow, a, acc
<1>11. DOMAIN tag_desc' = Tags /\ DOMAIN desc_sh' = Tags
  BY <1>4, <1>9, <1>10
<1>12. \A t \in Tags : tag_busy'[t] =>
         tag_desc'[t] = desc_sh'[t] /\ tag_desc'[t].transaction_tag = t
  <2> SUFFICES ASSUME NEW t \in Tags, tag_busy'[t]
               PROVE  /\ tag_desc'[t] = desc_sh'[t]
                      /\ tag_desc'[t].transaction_tag = t
    OBVIOUS
  <2>1. CASE acc /\ t = a
    BY <1>2, <1>4, <1>9, <1>10, <2>1
  <2>2. CASE ~(acc /\ t = a)
    BY <1>1, <1>2, <1>4, <1>5, <1>9, <1>10, <2>2
  <2> QED
    BY <2>1, <2>2
<1> QED
  BY <1>5, <1>7, <1>8, <1>11, <1>12 DEF LiveSetsAgree

(* Every register of the two blocks stays within its width                  *)
(* (axi_read_manager.sv:236-345; tag_tracker.sv:65-117).                    *)
LEMMA RdmTypeStep ==
  ASSUME RdmTypeOK, NEW valid, NEW req, valid => req \in ReadReq,
         NEW w, NEW ready, NEW arready \in BOOLEAN,
         NEW r, r.id \in Tags, r.valid \in BOOLEAN, r.last \in BOOLEAN,
         RdmClock(valid, req, w, ready, arready, r)
  PROVE  RdmTypeOK'
<1> USE DEF RdmClock
<1>1. /\ state' \in {"IDLE", "DISP", "AR"}
      /\ arvalid' \in BOOLEAN /\ issue' \in ReadReq
  BY DEF IssueMachine, RdmTypeOK
<1>2. /\ issue.desc \in Descriptor /\ issue.desc.transaction_tag \in Tags
      /\ issue.sigchk \in BOOLEAN
      /\ ArHs(arready) \in BOOLEAN /\ RLast(r) \in BOOLEAN
      /\ RFirst(r) \in BOOLEAN
  BY DEF RdmTypeOK, ReadReq, Descriptor, ArHs, RLast, RFirst
<1>3. /\ busy_sh' \in [Tags -> BOOLEAN] /\ seen_sh' \in [Tags -> BOOLEAN]
      /\ desc_sh' \in [Tags -> Descriptor] /\ chk_sh' \in [Tags -> BOOLEAN]
  BY <1>2 DEF Shadow, RdmTypeOK
<1>4. evt_a' \in [valid : BOOLEAN, code : {"DISPATCH", "AXI_ACCEPT"},
                  desc : Descriptor]
  BY <1>2 DEF Events, RdmTypeOK
<1>5. evt_r' \in [valid : BOOLEAN, first : BOOLEAN, last : BOOLEAN,
                  desc : Descriptor]
  BY <1>2 DEF Events, RdmTypeOK
<1>6. pulse' \subseteq (Refusals \cup {"axi_err", "payload"})
  BY DEF Observe, Refusal, Refusals
<1>7. rdm_cnt' \in [dispatch : Count, accept : Count, first_data : Count,
                    complete : Count]
  <2>1. \A c \in Count, p \in BOOLEAN : Tick(c, p) \in Count
    BY DEF Tick, Succ, Count
  <2>2. /\ rdm_cnt.dispatch \in Count /\ rdm_cnt.accept \in Count
        /\ rdm_cnt.first_data \in Count /\ rdm_cnt.complete \in Count
    BY DEF RdmTypeOK
  <2> QED
    BY <1>2, <2>1, <2>2 DEF Observe
<1> QED
  BY <1>1, <1>3, <1>4, <1>5, <1>6, <1>7 DEF RdmTypeOK

LEMMA TrackerTypeStep ==
  ASSUME BlocksInv, NEW valid, NEW req, NEW w, NEW arready \in BOOLEAN,
         NEW r \in Beats, BlocksEdge(valid, req, w, arready, r)
  PROVE  TrackerTypeOK'
<1>1. TrackerClock(ArHs(arready), issue.desc, RLast(r), r.id,
                   FALSE, ZeroDesc.transaction_tag)
  BY DEF BlocksEdge, ReadClock
<1>2. /\ TrackerTypeOK /\ issue.desc \in Descriptor /\ r.id \in Tags
      /\ CompleteOk(RLast(r), r.id) \in BOOLEAN
  BY BeatFacts
     DEF BlocksInv, RecordTypes, RdmTypeOK, TrackerTypeOK, ReadReq,
         CompleteOk, RLast
<1>3. tag_desc' \in [Tags -> Descriptor]
  BY <1>1, <1>2 DEF TrackerClock, TrackerTypeOK
<1>4. lookup' \in [valid : BOOLEAN, desc : Descriptor]
  BY <1>1, <1>2 DEF TrackerClock, TrackerTypeOK
<1>5. tt_err' \in Errors
  BY <1>1 DEF TrackerClock, TrackerError, Errors
<1>6. tag_busy' \in [Tags -> BOOLEAN] /\ outstanding' \in 0 .. OutMax
  BY LiveStep, CountStep
<1> QED
  BY <1>3, <1>4, <1>5, <1>6 DEF TrackerTypeOK
---------------------------------------------------------------------------
(* A request is under way only with room and its tag free, and nothing but  *)
(* its own handshake takes either away.                                     *)
LEMMA IssueStep ==
  ASSUME BlocksInv, NEW valid, NEW req, NEW w, NEW arready \in BOOLEAN,
         valid => req \in ReadReq,
         NEW r \in Beats, BlocksEdge(valid, req, w, arready, r)
  PROVE  /\ ArIsState'
         /\ state' # "IDLE" =>
              /\ outstanding' < MaxOutstanding
              /\ ~tag_busy'[issue'.desc.transaction_tag]
<1> DEFINE acc == ArHs(arready)
           fire == valid /\ ReqReady(w, req, AcceptReady)
                         /\ Refusal(w, req) = {}
<1>1. /\ state \in {"IDLE", "DISP", "AR"} /\ issue \in ReadReq
      /\ arvalid \in BOOLEAN /\ (arvalid <=> state = "AR")
      /\ busy_sh = tag_busy /\ tag_busy \in [Tags -> BOOLEAN]
      /\ outstanding \in Nat
  BY DEF BlocksInv, RecordTypes, RdmTypeOK, TrackerTypeOK, ArIsState,
         LiveSetsAgree
<1>2. IssueMachine(valid, req, w, AcceptReady, arready)
  BY DEF BlocksEdge, ReadClock, RdmClock
<1>3. ~acc => /\ outstanding' <= outstanding
              /\ \A t \in Tags : ~tag_busy[t] => ~tag_busy'[t]
  <2> SUFFICES ASSUME ~acc
               PROVE  /\ outstanding' <= outstanding
                      /\ \A t \in Tags : ~tag_busy[t] => ~tag_busy'[t]
    OBVIOUS
  <2>1. outstanding' <= outstanding
    BY <1>1, CountStep
  <2>2. Live' \subseteq Live
    BY LiveStep
  <2> QED
    BY <2>1, <2>2 DEF Live
<1>5. issue.desc.transaction_tag \in Tags
  BY BothGoThrough
<1>6. CASE state = "IDLE" /\ fire
  <2>1. state' = "DISP" /\ issue' = req /\ arvalid' = arvalid
    BY <1>2, <1>6 DEF IssueMachine
  <2>2. req \in ReadReq /\ req.desc.transaction_tag \in Tags
    BY <1>6 DEF ReadReq, Descriptor
  <2>3. ~busy_sh[req.desc.transaction_tag]
    BY <1>6 DEF Refusal, TagFree
  <2>4. outstanding < MaxOutstanding
    BY <1>6 DEF ReqReady, AcceptReady
  <2>5. ~acc
    BY <1>1, <1>6 DEF ArHs
  <2>6. outstanding' < MaxOutstanding
    BY <1>1, <1>3, <2>4, <2>5, CountStep
  <2>7. ~tag_busy'[issue'.desc.transaction_tag]
    BY <1>1, <1>3, <2>1, <2>2, <2>3, <2>5
  <2>8. ArIsState'
    BY <1>1, <1>6, <2>1 DEF ArIsState
  <2> QED
    BY <2>6, <2>7, <2>8
<1>7. CASE state = "IDLE" /\ ~fire
  <2>1. state' = "IDLE" /\ issue' = issue /\ arvalid' = arvalid
    BY <1>2, <1>7 DEF IssueMachine
  <2> QED
    BY <1>1, <1>7, <2>1 DEF ArIsState
<1>8. CASE state # "IDLE"
  <2>1. /\ outstanding < MaxOutstanding
        /\ ~tag_busy[issue.desc.transaction_tag]
    BY <1>8 DEF BlocksInv, OutstandingIsExact
  <2>2. /\ issue' = issue
        /\ state' = IF state = "AR" /\ arready THEN "IDLE" ELSE "AR"
        /\ arvalid' = ~(state = "AR" /\ arready)
    BY <1>1, <1>2, <1>8 DEF IssueMachine
  <2>3. ArIsState'
    BY <1>1, <2>2 DEF ArIsState
  <2>4. state' # "IDLE" => ~acc
    BY <1>1, <2>2 DEF ArHs
  <2>5. state' # "IDLE" => outstanding' < MaxOutstanding
    BY <1>1, <1>3, <2>1, <2>4, CountStep
  <2>6. state' # "IDLE" => ~tag_busy'[issue'.desc.transaction_tag]
    BY <1>3, <1>5, <2>1, <2>2, <2>4
  <2> QED
    BY <1>1, <2>3, <2>5, <2>6
<1> QED
  BY <1>1, <1>6, <1>7, <1>8

(* One edge keeps what the blocks agree on.                                 *)
LEMMA BlocksStep ==
  ASSUME BlocksInv, NEW valid, NEW req, NEW w, NEW arready \in BOOLEAN,
         valid => req \in ReadReq,
         NEW r \in Beats, BlocksEdge(valid, req, w, arready, r)
  PROVE  BlocksInv'
<1>1. RdmTypeOK'
  <2>1. RdmClock(valid, req, w, AcceptReady, arready, r)
    BY DEF BlocksEdge, ReadClock
  <2> QED
    BY <2>1, BeatFacts, RdmTypeStep DEF BlocksInv, RecordTypes
<1>2. RecordTypes'
  BY <1>1, TrackerTypeStep, CountStep, RecordsStep DEF RecordTypes
<1>3. OutstandingIsExact'
  BY IssueStep, CountStep DEF OutstandingIsExact
<1> QED
  BY <1>2, <1>3, IssueStep, RecordsStep DEF BlocksInv
---------------------------------------------------------------------------
(* A tag's burst ends on the bus on the edge that its last beat is looked   *)
(* up, and on no other.                                                     *)
LEMMA LookupStep ==
  ASSUME BlocksInv, NEW valid, NEW req, NEW w, NEW arready \in BOOLEAN,
         NEW r \in Beats, BlocksEdge(valid, req, w, arready, r)
  PROVE  /\ \A t \in Tags : bus[t] > 0 /\ bus'[t] = 0 =>
                            lookup'.valid /\ lookup'.desc = tag_desc[t]
         /\ lookup'.valid => \E t \in Tags :
              bus[t] > 0 /\ bus'[t] = 0 /\ lookup'.desc.transaction_tag = t
<1> DEFINE cmp_ok == CompleteOk(RLast(r), r.id)
<1> HIDE DEF cmp_ok
<1>1. /\ lookup'.valid <=> RLast(r)
      /\ RLast(r) => lookup'.desc = tag_desc[r.id]
  <2>1. lookup' = [valid |-> cmp_ok,
                   desc |-> IF cmp_ok THEN tag_desc[r.id] ELSE lookup.desc]
    BY DEF BlocksEdge, ReadClock, TrackerClock, cmp_ok
  <2>2. cmp_ok <=> RLast(r)
    BY BothGoThrough DEF cmp_ok
  <2>3. lookup'.valid = cmp_ok /\ (cmp_ok => lookup'.desc = tag_desc[r.id])
    BY <2>1
  <2> QED
    BY <2>2, <2>3
<1>2. /\ LiveSetsAgree /\ bus \in [Tags -> Nat] /\ LiveSetsAgree'
      /\ bus' \in [Tags -> Nat]
  BY RecordsStep DEF BlocksInv, RecordTypes, RdmTypeOK, TrackerTypeOK
<1>3. \A t \in Tags :
        /\ tag_busy[t] <=> bus[t] > 0
        /\ tag_busy'[t] <=> bus'[t] > 0
        /\ tag_busy[t] => tag_desc[t].transaction_tag = t
  <2>1. \A t \in Tags :
          /\ tag_busy[t] <=> bus[t] > 0
          /\ tag_busy[t] => tag_desc[t].transaction_tag = t
    BY <1>2 DEF LiveSetsAgree
  <2>2. \A t \in Tags : tag_busy'[t] <=> bus'[t] > 0
    BY <1>2 DEF LiveSetsAgree
  <2> QED
    BY <2>1, <2>2
<1>4. \A t \in Tags : tag_busy[t] /\ ~tag_busy'[t] => RLast(r) /\ t = r.id
  <2>1. Live \ Live' \subseteq (IF RLast(r) THEN {r.id} ELSE {})
    BY LiveStep
  <2> QED
    BY <2>1 DEF Live
<1>5. RLast(r) => r.id \in Tags /\ tag_busy[r.id] /\ ~tag_busy'[r.id]
  <2> SUFFICES ASSUME RLast(r)
               PROVE  r.id \in Tags /\ tag_busy[r.id] /\ ~tag_busy'[r.id]
    OBVIOUS
  <2>1. r.id \in Tags /\ tag_busy[r.id]
    BY BeatFacts, BothGoThrough
  <2>2. ArHs(arready) => r.id # issue.desc.transaction_tag
    BY <2>1, BothGoThrough
  <2>3. r.id \notin Live'
    BY <2>2, LiveStep
  <2> QED
    BY <2>1, <2>3 DEF Live
<1>6. \A t \in Tags : bus[t] > 0 /\ bus'[t] = 0 => RLast(r) /\ t = r.id
  BY <1>3, <1>4
<1>7. RLast(r) => r.id \in Tags /\ bus[r.id] > 0 /\ bus'[r.id] = 0
  BY <1>2, <1>3, <1>5
<1>8. RLast(r) => tag_desc[r.id].transaction_tag = r.id
  BY <1>3, <1>5
<1> QED
  BY <1>1, <1>6, <1>7, <1>8
=============================================================================
