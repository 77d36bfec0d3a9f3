--------------------------- MODULE ReadPath_proofs --------------------------
(***************************************************************************)
(* The read path behind its gates, for any number of tags and outstanding  *)
(* places, any requests and any locked window: what ReadBlocks_proofs      *)
(* keeps, and that the request under way has passed the gates.             *)
(***************************************************************************)
EXTENDS ReadPath, ReadBlocks_proofs

---------------------------------------------------------------------------
(* Quotient and remainder. *)
LEMMA Division ==
  ASSUME NEW x \in Nat, NEW m \in Nat, m > 0
  PROVE  /\ x \div m \in Nat /\ x % m \in 0 .. m - 1
         /\ x = m * (x \div m) + (x % m)
<1>1. x % m \in 0 .. m - 1
  BY SMTT(30)
<1>2. x = m * (x \div m) + (x % m)
  BY SMTT(30)
<1>3. x \div m \in Nat
  BY SMTT(30)
<1> QED
  BY <1>1, <1>2, <1>3

LEMMA DivisionIsUnique ==
  ASSUME NEW q \in Nat, NEW m \in Nat, m > 0, NEW s \in 0 .. m - 1
  PROVE  (m * q + s) \div m = q /\ (m * q + s) % m = s
BY SMTT(30)

(* Sizes of bursts: m bytes a beat. *)
LEMMA Product ==
  ASSUME NEW x \in Nat, NEW y \in Nat, NEW m \in Nat, x <= y
  PROVE  x * m \in Nat /\ x * m <= y * m /\ (x + 1) * m = x * m + m
BY SMTT(30)

(* What lies within m of a multiple of m has its quotient. *)
LEMMA SameQuotient ==
  ASSUME NEW x \in Nat, NEW k \in Nat, NEW m \in Nat, m > 0, (x % m) + k < m
  PROVE  (x + k) \div m = x \div m
<1>1. /\ x \div m \in Nat /\ x % m \in 0 .. m - 1
      /\ x = m * (x \div m) + (x % m)
  BY Division
<1> DEFINE q == x \div m
           s == (x % m) + k
<1> HIDE DEF q, s
<1>2. q \in Nat /\ s \in 0 .. m - 1
  BY <1>1 DEF q, s
<1>3. (m * q + s) \div m = q
  BY <1>2, DivisionIsUnique
<1>4. m * q \in Nat
  BY <1>2, SMTT(30)
<1>5. x + k = m * q + s
  BY <1>1, <1>4 DEF q, s
<1> QED
  BY <1>3, <1>5 DEF q

(* Whole beats after an aligned address are aligned. *)
LEMMA StaysAligned ==
  ASSUME NEW x \in Nat, NEW k \in Nat, NEW m \in Nat, m > 0, x % m = 0
  PROVE  (x + k * m) % m = 0
<1>1. x \div m \in Nat /\ x = m * (x \div m) + 0
  BY Division
<1> DEFINE q == x \div m
<1> HIDE DEF q
<1>2. q \in Nat /\ x = m * q
  <2>1. m * (x \div m) \in Nat
    BY <1>1, SMTT(30)
  <2> QED
    BY <1>1, <2>1 DEF q
<1>3. x + k * m = m * (q + k) + 0
  BY <1>2, SMTT(30)
<1>4. (m * (q + k) + 0) % m = 0
  BY <1>2, DivisionIsUnique
<1> QED
  BY <1>3, <1>4
---------------------------------------------------------------------------
USE PkgAssumption, TrackerAssumption, RdmAssumption, ReadPathAssumption

(* A request under way has passed the gates. *)
GatesPassed ==
  /\ win \in Windows
  /\ state # "IDLE" => InWindow(win, issue) /\ InPage(issue) /\ Aligned(issue)

ReadInv == BlocksInv /\ GatesPassed
---------------------------------------------------------------------------
LEMMA ReadInvInit == ReadPathInit => ReadInv
BY BlocksInvInit DEF ReadPathInit, RdmInit, RdmCleared, GatesPassed, ReadInv

LEMMA EdgeOfBlocks ==
  ASSUME NEW valid, NEW req, NEW arready, NEW r, Edge(valid, req, arready, r)
  PROVE  BlocksEdge(valid, req, win, arready, r)
BY DEF Edge, BlocksEdge

(* A request that starts has just passed the gates, one under way keeps its *)
(* address, and the window does not move (axi_read_manager.sv:135-187).     *)
LEMMA GatesStep ==
  ASSUME ReadInv, NEW valid, NEW req, NEW arready, NEW r,
         Edge(valid, req, arready, r)
  PROVE  GatesPassed'
<1>1. IssueMachine(valid, req, win, AcceptReady, arready) /\ win' = win
  BY DEF Edge, ReadClock, RdmClock
<1>2. \/ state' = "IDLE"
      \/ state # "IDLE" /\ issue' = issue
      \/ issue' = req /\ Refusal(win, req) = {}
  BY <1>1 DEF IssueMachine
<1>3. ASSUME NEW q, InWindow(win, q), InPage(q), Aligned(q), issue' = q
      PROVE  InWindow(win, issue)' /\ InPage(issue)' /\ Aligned(issue)'
  BY <1>1, <1>3 DEF InWindow, WindowProgrammed, InPage, Aligned
<1>4. CASE state' = "IDLE"
  BY <1>1, <1>4 DEF ReadInv, GatesPassed
<1>5. CASE state # "IDLE" /\ issue' = issue
  BY <1>1, <1>3, <1>5 DEF ReadInv, GatesPassed
<1>6. CASE issue' = req /\ Refusal(win, req) = {}
  <2>1. InWindow(win, req) /\ InPage(req) /\ Aligned(req)
    BY <1>6 DEF Refusal
  <2> QED
    BY <1>1, <1>3, <1>6, <2>1 DEF ReadInv, GatesPassed
<1> QED
  BY <1>2, <1>4, <1>5, <1>6

(* One edge keeps the invariant. *)
LEMMA EdgeStep ==
  ASSUME ReadInv, NEW valid \in BOOLEAN, NEW req, NEW arready \in BOOLEAN,
         valid => req \in ReadReqs,
         NEW r \in Beats, Edge(valid, req, arready, r)
  PROVE  ReadInv'
BY EdgeOfBlocks, GatesStep, BlocksStep DEF ReadInv

LEMMA StutterStep == ReadInv /\ UNCHANGED rpvars => ReadInv'
<1> SUFFICES ASSUME ReadInv, UNCHANGED rpvars PROVE ReadInv'
  OBVIOUS
<1>1. BlocksInv'
  BY BlocksStutter DEF ReadInv, rpvars
<1>2. GatesPassed'
  BY DEF ReadInv, GatesPassed, rpvars, rdmvars, InWindow, WindowProgrammed,
         InPage, Aligned
<1> QED
  BY <1>1, <1>2 DEF ReadInv

(* What the requester presents. *)
LEMMA PresentedType ==
  ASSUME NEW p \in Presented
  PROVE  p.valid \in BOOLEAN /\ (p.valid => p.req \in ReadReqs)
<1>1. CASE p \in [valid : {TRUE}, req : ReadReqs]
  BY <1>1
<1>2. CASE p = [valid |-> FALSE, req |-> CHOOSE req \in ReadReqs : TRUE]
  BY <1>2
<1> QED
  BY <1>1, <1>2 DEF Presented

LEMMA ReadInvHolds == ReadPathSpec => []ReadInv
<1>1. ReadInv /\ [ReadPathNext]_rpvars => ReadInv'
  <2> SUFFICES ASSUME ReadInv, [ReadPathNext]_rpvars PROVE ReadInv'
    OBVIOUS
  <2>1. CASE ReadPathNext
    <3>1. PICK p \in Presented, arready \in BOOLEAN, r \in Beats :
            Edge(p.valid, p.req, arready, r)
      BY <2>1 DEF ReadPathNext
    <3> QED
      BY <3>1, EdgeStep, PresentedType
  <2>2. CASE UNCHANGED rpvars
    BY <2>2, StutterStep
  <2> QED
    BY <2>1, <2>2
<1> QED
  BY <1>1, ReadInvInit, PTL DEF ReadPathSpec

(* The manager, the tracker and the bus agree on the live bursts and their  *)
(* descriptors, for any number of tags                                      *)
(* (axi_read_manager.sv:158-164, 321-332; tag_tracker.sv:80-104).           *)
THEOREM LiveSetsCorrect == ReadPathSpec => []LiveSetsAgree
<1>1. ReadInv => LiveSetsAgree
  BY DEF ReadInv, BlocksInv
<1> QED
  BY <1>1, ReadInvHolds, PTL

(* The outstanding counter is the number of live bursts, and the room and   *)
(* the tag a request was taken with are there until its handshake           *)
(* (tag_tracker.sv:70-108, axi_read_manager.sv:182-187).                    *)
THEOREM OutstandingCorrect == ReadPathSpec => []OutstandingIsExact
<1>1. ReadInv => OutstandingIsExact
  BY DEF ReadInv, BlocksInv
<1> QED
  BY <1>1, ReadInvHolds, PTL
---------------------------------------------------------------------------
(* A completed burst is looked up once, on the next cycle, with the         *)
(* descriptor it was accepted with, and nothing else is                     *)
(* (tag_tracker.sv:94-104).                                                 *)
THEOREM CompletionCorrect == ReadPathSpec => CompletionIsRouted
<1> DEFINE Routed ==
      /\ \A t \in Tags : bus[t] > 0 /\ bus'[t] = 0 =>
                         lookup'.valid /\ lookup'.desc = tag_desc[t]
      /\ lookup'.valid => \E t \in Tags :
           /\ bus[t] > 0 /\ bus'[t] = 0
           /\ lookup'.desc.transaction_tag = t
<1>1. ReadInv /\ [ReadPathNext]_rpvars => [Routed]_rpvars
  <2> SUFFICES ASSUME ReadInv, ReadPathNext PROVE Routed
    OBVIOUS
  <2>1. PICK p \in Presented, arready \in BOOLEAN, r \in Beats :
          Edge(p.valid, p.req, arready, r)
    BY DEF ReadPathNext
  <2> QED
    BY <2>1, EdgeOfBlocks, LookupStep, PresentedType DEF ReadInv
<1> QED
  BY <1>1, ReadInvHolds, PTL DEF ReadPathSpec, CompletionIsRouted
---------------------------------------------------------------------------
(* The address channel holds still until the slave takes it, and then that  *)
(* burst is on the bus (axi_read_manager.sv:303-320).                       *)
THEOREM ArHeldCorrect == ReadPathSpec => ArIsHeld
<1> DEFINE Held ==
      arvalid => \/ arvalid' /\ issue' = issue
                 \/ bus'[issue.desc.transaction_tag] = issue.len + 1
<1>1. ReadInv /\ [ReadPathNext]_rpvars => [Held]_rpvars
  <2> SUFFICES ASSUME ReadInv, ReadPathNext, arvalid
               PROVE  \/ arvalid' /\ issue' = issue
                      \/ bus'[issue.desc.transaction_tag] = issue.len + 1
    OBVIOUS
  <2>1. PICK p \in Presented, arready \in BOOLEAN, r \in Beats :
          Edge(p.valid, p.req, arready, r)
    BY DEF ReadPathNext
  <2>2. state = "AR"
    BY DEF ReadInv, BlocksInv, ArIsState
  <2>3. CASE arready
    <3>1. issue.desc.transaction_tag \in Tags
      BY BothGoThrough DEF ReadInv
    <3> QED
      BY <2>1, <2>3, <3>1 DEF Edge, Slave, ArHs
  <2>4. CASE ~arready
    BY <2>1, <2>2, <2>4 DEF Edge, ReadClock, RdmClock, IssueMachine
  <2> QED
    BY <2>3, <2>4
<1> QED
  BY <1>1, ReadInvHolds, PTL DEF ReadPathSpec, ArIsHeld
---------------------------------------------------------------------------
(* Gates that look at the first byte and the length cover every beat. *)
LEMMA GatesCoverBurst ==
  ASSUME NEW w \in Window, NEW req \in ReadReq,
         InWindow(w, req), InPage(req), Aligned(req), NEW beat \in 0 .. req.len
  PROVE  LET first == req.addr + beat * BeatBytes
             last  == first + BeatBytes - 1
         IN  /\ first >= w.base /\ last < w.limit
             /\ last \div PageBytes = req.addr \div PageBytes
             /\ first % BeatBytes = 0
<1> DEFINE a == req.addr
           offset == beat * BeatBytes
           size == (req.len + 1) * BeatBytes
<1>1. /\ a \in Nat /\ req.len \in Nat /\ beat \in Nat /\ beat <= req.len
      /\ w.base \in Nat /\ w.limit \in Nat
  <2>1. req.addr \in Addrs /\ req.len \in BurstLens
    BY DEF ReadReq
  <2>2. w.base \in Nat /\ w.limit \in Nat
    BY DEF Window
  <2>3. a \in Nat /\ req.len \in Nat
    BY <2>1
  <2> QED
    BY <2>2, <2>3
<1>2. /\ BeatBytes \in Nat /\ BeatBytes > 0
      /\ PageBytes \in Nat /\ PageBytes > 0
  OBVIOUS
<1>3. /\ offset \in Nat /\ size \in Nat
      /\ offset + BeatBytes <= size
  <2>1. offset \in Nat /\ (beat + 1) * BeatBytes = offset + BeatBytes
    BY <1>1, <1>2, Product
  <2>2. (beat + 1) * BeatBytes <= size
    BY <1>1, <1>2, Product
  <2>3. size \in Nat
    BY <1>1, <1>2, Product
  <2> QED
    BY <2>1, <2>2, <2>3
<1>4. /\ a >= w.base /\ a + size <= w.limit
      /\ (a % PageBytes) + size <= PageBytes
      /\ a % BeatBytes = 0
  BY DEF InWindow, InPage, Aligned, BurstBytes
<1> HIDE DEF a, offset, size
<1>5. a + offset >= w.base /\ a + offset + BeatBytes - 1 < w.limit
  BY <1>1, <1>2, <1>3, <1>4
<1>6. (a + offset + BeatBytes - 1) \div PageBytes = a \div PageBytes
  <2>1. a % PageBytes \in 0 .. PageBytes - 1
    BY <1>1, <1>2, Division
  <2>2. /\ offset + BeatBytes - 1 \in Nat
        /\ (a % PageBytes) + (offset + BeatBytes - 1) < PageBytes
    BY <1>2, <1>3, <1>4, <2>1
  <2>3. (a + (offset + BeatBytes - 1)) \div PageBytes = a \div PageBytes
    BY <1>1, <1>2, <2>2, SameQuotient
  <2>4. a + (offset + BeatBytes - 1) = a + offset + BeatBytes - 1
    BY <1>1, <1>2, <1>3
  <2> QED
    BY <2>3, <2>4
<1>7. (a + offset) % BeatBytes = 0
  <2>1. (a + beat * BeatBytes) % BeatBytes = 0
    <3>1. a \in Nat /\ a % BeatBytes = 0
      BY <1>1, <1>4
    <3> QED
      BY <1>1, <1>2, <3>1, StaysAligned, Zenon
  <2> QED
    BY <2>1 DEF offset
<1> QED
  BY <1>5, <1>6, <1>7 DEF a, offset

(* Every beat of an offered burst is in the window and in one page, and     *)
(* aligned, for every geometry of beats and pages                           *)
(* (axi_read_manager.sv:135-156).                                           *)
THEOREM ArLegalCorrect == ReadPathSpec => []ArIsLegal
<1>1. ReadInv => ArIsLegal
  <2> SUFFICES ASSUME ReadInv, arvalid, NEW beat \in 0 .. issue.len
               PROVE  LET first == issue.addr + beat * BeatBytes
                          last  == first + BeatBytes - 1
                      IN  /\ first >= win.base /\ last < win.limit
                          /\ last \div PageBytes = issue.addr \div PageBytes
                          /\ first % BeatBytes = 0
    BY DEF ArIsLegal
  <2>1. /\ win \in Window /\ issue \in ReadReq
        /\ InWindow(win, issue) /\ InPage(issue) /\ Aligned(issue)
    BY DEF ReadInv, BlocksInv, RecordTypes, RdmTypeOK, ArIsState,
           GatesPassed
  <2> QED
    BY <2>1, GatesCoverBurst
<1> QED
  BY <1>1, ReadInvHolds, PTL
---------------------------------------------------------------------------
(* Where the records say each tag is: what its last event must have been.   *)
Stage(t) ==
  IF state = "AR" /\ issue.desc.transaction_tag = t THEN "DISPATCH"
  ELSE IF ~tag_busy[t] THEN "AXI_COMPLETE"
  ELSE IF seen_sh[t] THEN "AXI_FIRST_DATA" ELSE "AXI_ACCEPT"

EventInv ==
  /\ seen_sh \in [Tags -> BOOLEAN]
  /\ "valid" \in DOMAIN evt_a /\ "valid" \in DOMAIN evt_r
  /\ trail = [t \in Tags |-> Stage(t)]

LEMMA EventInvInit == ReadPathInit => EventInv
BY DEF ReadPathInit, RdmInit, RdmCleared, TrackerInit, TrackerCleared,
       EventInv, Stage

(* The two event slots of one edge, and the observer. *)
LEMMA SlotStep ==
  ASSUME ReadInv, EventInv,
         NEW valid \in BOOLEAN, NEW req, NEW arready \in BOOLEAN,
         valid => req \in ReadReqs,
         NEW r \in Beats, Edge(valid, req, arready, r)
  PROVE  /\ evt_a'.valid <=> (state = "DISP" \/ ArHs(arready))
         /\ evt_a'.valid =>
              /\ evt_a'.desc.transaction_tag = issue.desc.transaction_tag
              /\ evt_a'.code = IF state = "DISP" THEN "DISPATCH"
                                                 ELSE "AXI_ACCEPT"
         /\ evt_r'.valid <=> (RFirst(r) \/ RLast(r))
         /\ evt_r'.valid => /\ evt_r'.desc.transaction_tag = r.id
                            /\ evt_r'.first <=> RFirst(r)
                            /\ evt_r'.last <=> RLast(r)
         /\ "valid" \in DOMAIN evt_a' /\ "valid" \in DOMAIN evt_r'
<1>1. Events(arready, r)
  BY DEF Edge, ReadClock, RdmClock
<1>2. "valid" \in DOMAIN evt_a /\ "valid" \in DOMAIN evt_r
  BY DEF EventInv
<1>3. r.id \in Tags /\ (r.valid => desc_sh[r.id].transaction_tag = r.id)
  <2>1. r.valid => tag_busy[r.id]
    BY BothGoThrough DEF ReadInv
  <2>2. LiveSetsAgree
    BY DEF ReadInv, BlocksInv
  <2> QED
    BY <2>1, <2>2, BeatFacts DEF ReadInv, LiveSetsAgree
<1>4. /\ evt_a'.valid <=> (state = "DISP" \/ ArHs(arready))
      /\ evt_a'.valid =>
           /\ evt_a'.desc.transaction_tag = issue.desc.transaction_tag
           /\ evt_a'.code = IF state = "DISP" THEN "DISPATCH" ELSE "AXI_ACCEPT"
      /\ "valid" \in DOMAIN evt_a'
  <2>1. CASE state = "DISP" \/ ArHs(arready)
    BY <1>1, <2>1 DEF Events
  <2>2. CASE ~(state = "DISP" \/ ArHs(arready))
    <3>1. evt_a' = [evt_a EXCEPT !.valid = FALSE]
      BY <1>1, <2>2 DEF Events
    <3> QED
      BY <1>2, <2>2, <3>1
  <2> QED
    BY <2>1, <2>2
<1>5. /\ evt_r'.valid <=> (RFirst(r) \/ RLast(r))
      /\ evt_r'.valid => /\ evt_r'.desc.transaction_tag = r.id
                         /\ evt_r'.first <=> RFirst(r)
                         /\ evt_r'.last <=> RLast(r)
      /\ "valid" \in DOMAIN evt_r'
  <2>1. CASE RFirst(r) \/ RLast(r)
    <3>1. evt_r' = [valid |-> TRUE, first |-> RFirst(r), last |-> RLast(r),
                    desc |-> desc_sh[r.id]]
      BY <1>1, <2>1 DEF Events
    <3>2. r.valid
      BY <2>1 DEF RFirst, RLast
    <3>3. /\ evt_r'.valid /\ evt_r'.desc = desc_sh[r.id]
          /\ evt_r'.first = RFirst(r) /\ evt_r'.last = RLast(r)
          /\ "valid" \in DOMAIN evt_r'
      BY <3>1
    <3> QED
      BY <1>3, <2>1, <3>2, <3>3
  <2>2. CASE ~(RFirst(r) \/ RLast(r))
    <3>1. evt_r' = [evt_r EXCEPT !.valid = FALSE]
      BY <1>1, <2>2 DEF Events
    <3> QED
      BY <1>2, <2>2, <3>1
  <2> QED
    BY <2>1, <2>2
<1> QED
  BY <1>4, <1>5

LEMMA StageStep ==
  ASSUME ReadInv, EventInv,
         NEW valid \in BOOLEAN, NEW req, NEW arready \in BOOLEAN,
         valid => req \in ReadReqs,
         NEW r \in Beats, Edge(valid, req, arready, r)
  PROVE  EventInv'
<1> DEFINE a == issue.desc.transaction_tag
           acc == ArHs(arready)
           beat(t) == r.valid /\ t = r.id
           address(t) == (state = "DISP" \/ acc) /\ t = a
<1>1. /\ a \in Tags /\ r.id \in Tags
      /\ tag_busy \in [Tags -> BOOLEAN] /\ seen_sh \in [Tags -> BOOLEAN]
      /\ trail = [t \in Tags |-> Stage(t)]
      /\ state \in {"IDLE", "DISP", "AR"}
  BY BothGoThrough, BeatFacts 
     DEF ReadInv, BlocksInv, RecordTypes, RdmTypeOK, TrackerTypeOK, EventInv
<1>2. /\ state # "IDLE" => ~tag_busy[a]
      /\ acc <=> state = "AR" /\ arready
      /\ r.valid => tag_busy[r.id]
  <2>1. state # "IDLE" => ~tag_busy[a]
    BY DEF ReadInv, BlocksInv, OutstandingIsExact
  <2>2. acc <=> state = "AR" /\ arready
    BY DEF ReadInv, BlocksInv, ArIsState, ArHs
  <2> QED
    BY <2>1, <2>2, BothGoThrough DEF ReadInv
<1>3. /\ state' = "AR" => issue' = issue
      /\ state = "IDLE" => state' # "AR"
      /\ state = "DISP" => state' = "AR"
      /\ state = "AR" => state' = IF arready THEN "IDLE" ELSE "AR"
  BY <1>1 DEF Edge, ReadClock, RdmClock, IssueMachine
<1>4. /\ seen_sh' \in [Tags -> BOOLEAN]
      /\ \A t \in Tags :
           seen_sh'[t] <=> ~(acc /\ t = a) /\ (seen_sh[t] \/ beat(t))
  <2>1. seen_sh' = [t \in Tags |-> ~(acc /\ t = a) /\
                                   (seen_sh[t] \/ (r.valid /\ t = r.id))]
    BY DEF Edge, ReadClock, RdmClock, Shadow
  <2> QED
    BY <1>1, <1>2, <2>1, BeatFacts DEF ReadInv
<1>5. \A t \in Tags : tag_busy'[t] <=>
        (acc /\ t = a) \/ (tag_busy[t] /\ ~(RLast(r) /\ t = r.id))
  <2>1. Live' = (Live \ (IF RLast(r) THEN {r.id} ELSE {}))
                  \cup (IF acc THEN {a} ELSE {})
    BY EdgeOfBlocks, LiveStep DEF ReadInv
  <2>2. \A t \in Tags : /\ tag_busy'[t] <=> t \in Live'
                        /\ tag_busy[t] <=> t \in Live
    BY DEF Live
  <2> QED
    BY <1>1, <2>1, <2>2
<1>6. trail' = [t \in Tags |-> Reported(t)]
  BY DEF Edge
<1>7. /\ evt_a'.valid <=> (state = "DISP" \/ acc)
      /\ evt_a'.valid => /\ evt_a'.desc.transaction_tag = a
                         /\ evt_a'.code = IF state = "DISP" THEN "DISPATCH"
                                                            ELSE "AXI_ACCEPT"
      /\ evt_r'.valid <=> (RFirst(r) \/ RLast(r))
      /\ evt_r'.valid => /\ evt_r'.desc.transaction_tag = r.id
                         /\ evt_r'.last <=> RLast(r)
  BY SlotStep
<1>8. /\ RFirst(r) <=> r.valid /\ ~seen_sh[r.id]
      /\ RLast(r) <=> r.valid /\ r.last
  BY DEF RFirst, RLast
<1> HIDE DEF a, acc
<1>9. ASSUME NEW t \in Tags PROVE Reported(t) = Stage(t)'
  <2>1. trail[t] = Stage(t)
    BY <1>1
  <2>2. CASE beat(t)
    <3>1. tag_busy[t] /\ (state # "IDLE" => t # a)
      BY <1>2, <2>2
    <3>2. ~(state' = "AR" /\ issue'.desc.transaction_tag = t)
      BY <1>1, <1>3, <3>1 DEF a
    <3>3. ~(evt_a'.valid /\ evt_a'.desc.transaction_tag = t)
      BY <1>2, <1>7, <3>1
    <3>4. CASE RLast(r)
      <4>1. Reported(t) = "AXI_COMPLETE"
        BY <1>7, <2>2, <3>4 DEF Reported
      <4>2. ~tag_busy'[t]
        BY <1>2, <1>5, <2>2, <3>1, <3>4
      <4> QED
        BY <3>2, <4>1, <4>2 DEF Stage
    <3>5. CASE ~RLast(r)
      <4>1. tag_busy'[t] /\ seen_sh'[t]
        BY <1>2, <1>4, <1>5, <2>2, <3>1, <3>5
      <4>2. Stage(t)' = "AXI_FIRST_DATA"
        BY <3>2, <4>1 DEF Stage
      <4>3. CASE RFirst(r)
        BY <1>7, <2>2, <3>5, <4>2, <4>3 DEF Reported
      <4>4. CASE ~RFirst(r)
        <5>1. seen_sh[t] /\ ~evt_r'.valid
          BY <1>7, <1>8, <2>2, <3>5, <4>4
        <5>2. trail[t] = "AXI_FIRST_DATA"
          BY <2>1, <3>1, <5>1 DEF Stage, a
        <5> QED
          BY <3>3, <4>2, <5>1, <5>2 DEF Reported
      <4> QED
        BY <4>3, <4>4
    <3> QED
      BY <3>4, <3>5
  <2>3. CASE ~beat(t) /\ address(t)
    <3>1. ~(evt_r'.valid /\ evt_r'.desc.transaction_tag = t)
      BY <1>7, <1>8, <2>3
    <3>2. Reported(t) = IF state = "DISP" THEN "DISPATCH" ELSE "AXI_ACCEPT"
      BY <1>7, <2>3, <3>1 DEF Reported
    <3>3. CASE state = "DISP"
      <4>1. state' = "AR" /\ issue'.desc.transaction_tag = t
        BY <1>3, <2>3, <3>3 DEF a
      <4> QED
        BY <3>2, <3>3, <4>1 DEF Stage
    <3>4. CASE state # "DISP"
      <4>1. acc /\ t = a /\ state' = "IDLE"
        BY <1>2, <1>3, <2>3, <3>4
      <4>2. tag_busy'[t] /\ ~seen_sh'[t]
        BY <1>4, <1>5, <4>1
      <4> QED
        BY <3>2, <3>4, <4>1, <4>2 DEF Stage
    <3> QED
      BY <3>3, <3>4
  <2>4. CASE ~beat(t) /\ ~address(t)
    <3>1. Reported(t) = trail[t]
      BY <1>7, <1>8, <2>4 DEF Reported
    <3>2. (tag_busy'[t] <=> tag_busy[t]) /\ (seen_sh'[t] <=> seen_sh[t])
      BY <1>4, <1>5, <1>8, <2>4
    <3>3. (state' = "AR" /\ issue'.desc.transaction_tag = t)
            <=> (state = "AR" /\ issue.desc.transaction_tag = t)
      BY <1>1, <1>2, <1>3, <2>4 DEF a
    <3> QED
      BY <2>1, <3>1, <3>2, <3>3 DEF Stage
  <2> QED
    BY <2>2, <2>3, <2>4
<1>10. trail' = [t \in Tags |-> Stage(t)]'
  BY <1>6, <1>9
<1>11. "valid" \in DOMAIN evt_a' /\ "valid" \in DOMAIN evt_r'
  BY SlotStep
<1> QED
  BY <1>4, <1>10, <1>11 DEF EventInv

LEMMA EventInvHolds == ReadPathSpec => [](ReadInv /\ EventInv)
<1>1. ReadInv /\ EventInv /\ [ReadPathNext]_rpvars => (ReadInv /\ EventInv)'
  <2> SUFFICES ASSUME ReadInv, EventInv, [ReadPathNext]_rpvars
               PROVE  ReadInv' /\ EventInv'
    OBVIOUS
  <2>1. CASE ReadPathNext
    <3>1. PICK p \in Presented, arready \in BOOLEAN, r \in Beats :
            Edge(p.valid, p.req, arready, r)
      BY <2>1 DEF ReadPathNext
    <3> QED
      BY <3>1, EdgeStep, StageStep, PresentedType
  <2>2. CASE UNCHANGED rpvars
    <3>1. EventInv'
      BY <2>2 DEF EventInv, Stage, rpvars, rdmvars, ttvars
    <3> QED
      BY <2>2, <3>1, StutterStep
  <2> QED
    BY <2>1, <2>2
<1> QED
  BY <1>1, ReadInvInit, EventInvInit, PTL DEF ReadPathSpec

(* Each tag's events are reported in the order of one transaction after     *)
(* another, with nothing missing                                            *)
(* (axi_read_manager.sv:349-364).                                           *)
THEOREM EventsCorrect == ReadPathSpec => EventsInOrder
<1> DEFINE Ordered ==
      /\ evt_a'.valid =>
           trail[evt_a'.desc.transaction_tag] =
             IF evt_a'.code = "DISPATCH" THEN "AXI_COMPLETE" ELSE "DISPATCH"
      /\ evt_r'.valid =>
           trail[evt_r'.desc.transaction_tag] =
             IF evt_r'.first THEN "AXI_ACCEPT" ELSE "AXI_FIRST_DATA"
<1>1. ReadInv /\ EventInv /\ [ReadPathNext]_rpvars => [Ordered]_rpvars
  <2> SUFFICES ASSUME ReadInv, EventInv, ReadPathNext PROVE Ordered
    OBVIOUS
  <2>1. PICK p \in Presented, arready \in BOOLEAN, r \in Beats :
          Edge(p.valid, p.req, arready, r)
    BY DEF ReadPathNext
  <2>2. p.valid \in BOOLEAN /\ (p.valid => p.req \in ReadReqs)
    BY PresentedType
  <2> DEFINE a == issue.desc.transaction_tag
  <2>3. /\ a \in Tags /\ r.id \in Tags
        /\ trail[a] = Stage(a) /\ trail[r.id] = Stage(r.id)
    BY BothGoThrough, BeatFacts DEF ReadInv, EventInv
  <2>4. /\ state # "IDLE" => ~tag_busy[a]
        /\ ArHs(arready) => state = "AR"
        /\ r.valid => tag_busy[r.id]
    BY BothGoThrough DEF ReadInv, BlocksInv, OutstandingIsExact
  <2>5. evt_a'.valid => trail[evt_a'.desc.transaction_tag] =
             IF evt_a'.code = "DISPATCH" THEN "AXI_COMPLETE" ELSE "DISPATCH"
    <3>1. evt_a'.valid => /\ state = "DISP" \/ ArHs(arready)
                          /\ evt_a'.desc.transaction_tag = a
                          /\ evt_a'.code = IF state = "DISP" THEN "DISPATCH"
                                                             ELSE "AXI_ACCEPT"
      BY <2>1, <2>2, SlotStep
    <3> QED
      BY <2>3, <2>4, <3>1 DEF Stage
  <2>6. evt_r'.valid => trail[evt_r'.desc.transaction_tag] =
             IF evt_r'.first THEN "AXI_ACCEPT" ELSE "AXI_FIRST_DATA"
    <3>1. evt_r'.valid => /\ RFirst(r) \/ RLast(r)
                          /\ evt_r'.desc.transaction_tag = r.id
                          /\ evt_r'.first <=> RFirst(r)
      BY <2>1, <2>2, SlotStep
    <3> QED
      BY <2>3, <2>4, <3>1 DEF Stage, RFirst, RLast
  <2> QED
    BY <2>5, <2>6
<1> QED
  BY <1>1, EventInvHolds, PTL DEF ReadPathSpec, EventsInOrder
---------------------------------------------------------------------------
(* The difference of two counters of one width, with the wrap.              *)
LEMMA WrappedDifference ==
  ASSUME NEW x \in Count, NEW y \in Count
  PROVE  Less(x, y) = IF x >= y THEN x - y ELSE (x - y) + (CntMax + 1)
<1>1. \A m \in Nat \ {0} : \A d \in 0 .. m - 1 : d % m = d
  BY SMTT(30)
<1>2. \A m \in Nat \ {0} : \A d \in (1 - m) .. (-1) : d % m = d + m
  BY SMTT(30)
<1>3. CASE x >= y
  <2>1. x - y \in 0 .. (CntMax + 1) - 1 /\ CntMax + 1 \in Nat \ {0}
    BY <1>3 DEF Count
  <2> QED
    BY <1>1, <1>3, <2>1 DEF Less
<1>4. CASE ~(x >= y)
  <2>1. /\ x - y \in (1 - (CntMax + 1)) .. (-1)
        /\ CntMax + 1 \in Nat \ {0}
    BY <1>4 DEF Count
  <2> QED
    BY <1>2, <1>4, <2>1 DEF Less
<1> QED
  BY <1>3, <1>4

(* Two counters that tick keep their difference, wrap or no wrap, as long   *)
(* as the difference itself fits the register.                              *)
LEMMA DifferenceTicks ==
  ASSUME NEW x \in Count, NEW y \in Count, NEW p \in BOOLEAN,
         NEW q \in BOOLEAN, NEW n \in Int,
         n = Less(x, y) + (IF p THEN 1 ELSE 0) - (IF q THEN 1 ELSE 0),
         n \in 0 .. CntMax
  PROVE  Less(Tick(x, p), Tick(y, q)) = n
<1> DEFINE u == Tick(x, p)
           v == Tick(y, q)
<1>1. u \in Count /\ v \in Count
  BY DEF Tick, Succ, Count
<1>2. /\ Less(u, v) = IF u >= v THEN u - v ELSE (u - v) + (CntMax + 1)
      /\ Less(x, y) = IF x >= y THEN x - y ELSE (x - y) + (CntMax + 1)
  BY <1>1, WrappedDifference
<1>3. /\ u = IF p THEN (IF x = CntMax THEN 0 ELSE x + 1) ELSE x
      /\ v = IF q THEN (IF y = CntMax THEN 0 ELSE y + 1) ELSE y
  BY DEF Tick, Succ
<1> HIDE DEF u, v
<1>4. Less(u, v) = n
  BY <1>1, <1>2, <1>3 DEF Count
<1> QED
  BY <1>4 DEF u, v

Answering == {t \in Live : seen_sh[t]}

(* The bursts that are answering: a first beat adds its tag, a last one     *)
(* takes it away, and an accept adds none.                                  *)
LEMMA AnsweringStep ==
  ASSUME ReadInv, NEW valid \in BOOLEAN, NEW req, NEW arready \in BOOLEAN,
         NEW r \in Beats, Edge(valid, req, arready, r)
  PROVE  /\ Cardinality(Answering) \in Nat /\ Cardinality(Answering') \in Nat
         /\ Cardinality(Answering') <= MaxOutstanding
         /\ Cardinality(Answering') =
              Cardinality(Answering) + (IF RFirst(r) THEN 1 ELSE 0)
                                     - (IF RLast(r) THEN 1 ELSE 0)
<1> DEFINE a == issue.desc.transaction_tag
           acc == ArHs(arready)
           more == Answering \cup (IF RFirst(r) THEN {r.id} ELSE {})
<1> HIDE DEF a, acc, more
<1>1. BlocksInv /\ BlocksEdge(valid, req, win, arready, r)
  BY EdgeOfBlocks DEF ReadInv
<1>2. /\ r.id \in Tags /\ r.valid \in BOOLEAN /\ r.last \in BOOLEAN
      /\ RFirst(r) => r.valid /\ ~seen_sh[r.id]
      /\ RLast(r) => r.valid
      /\ r.valid => r.id \in Live
      /\ RLast(r) => r.id \in Live
      /\ acc => a \notin Live
  BY <1>1, BeatFacts, BothGoThrough DEF RFirst, RLast, Live, a, acc
<1>3. /\ seen_sh \in [Tags -> BOOLEAN] /\ Live \subseteq Tags
      /\ seen_sh' = [t \in Tags |-> ~(acc /\ t = a) /\
                                     (seen_sh[t] \/ (r.valid /\ t = r.id))]
  BY DEF ReadInv, BlocksInv, RecordTypes, RdmTypeOK, Live, Edge, ReadClock,
         RdmClock, Shadow, a, acc
<1>4. Live' = (Live \ (IF RLast(r) THEN {r.id} ELSE {}))
                \cup (IF acc THEN {a} ELSE {})
  BY <1>1, LiveStep DEF a, acc
<1>5. Answering' = more \ (IF RLast(r) THEN {r.id} ELSE {})
  <2>1. RFirst(r) <=> r.valid /\ ~seen_sh[r.id]
    BY DEF RFirst
  <2>2. a \in Tags /\ Answering' = {t \in Live' : seen_sh'[t]}
    BY <1>1, BothGoThrough DEF Answering, a
  <2> QED
    BY <1>2, <1>3, <1>4, <2>1, <2>2 DEF Answering, more
<1>6. /\ IsFiniteSet(Answering)
      /\ IsFiniteSet(Live') /\ Cardinality(Live') <= MaxOutstanding
  <2>1. IsFiniteSet(Live) /\ Answering \subseteq Live
    BY DEF ReadInv, BlocksInv, RecordTypes, Answering
  <2>2. IsFiniteSet(Answering)
    BY <2>1, FS_Subset
  <2> QED
    BY <1>1, <2>2, CountStep
<1>7. /\ IsFiniteSet(more) /\ Cardinality(more) =
           Cardinality(Answering) + (IF RFirst(r) THEN 1 ELSE 0)
      /\ Cardinality(Answering) \in Nat
  <2>1. CASE RFirst(r)
    <3>1. r.id \notin Answering /\ more = Answering \cup {r.id}
      BY <1>2, <2>1 DEF more, Answering
    <3> QED
      BY <1>6, <2>1, <3>1, FS_AddElement, FS_CardinalityType
  <2>2. CASE ~RFirst(r)
    <3>1. more = Answering
      BY <2>2 DEF more
    <3> QED
      BY <1>6, <2>2, <3>1, FS_CardinalityType
  <2> QED
    BY <2>1, <2>2
<1>8. /\ IsFiniteSet(Answering') /\ Cardinality(Answering') =
           Cardinality(more) - (IF RLast(r) THEN 1 ELSE 0)
  <2>1. CASE RLast(r)
    <3>1. r.id \in more
      BY <1>2, <2>1 DEF more, Answering, RFirst
    <3> QED
      BY <1>5, <1>7, <2>1, <3>1, FS_RemoveElement
  <2>2. CASE ~RLast(r)
    <3>1. Answering' = more
      BY <1>5, <2>2
    <3>2. Cardinality(more) \in Nat
      BY <1>7, FS_CardinalityType
    <3> QED
      BY <1>7, <2>2, <3>1, <3>2
  <2> QED
    BY <2>1, <2>2
<1>9. /\ Cardinality(Answering') <= Cardinality(Live')
      /\ Cardinality(Answering') \in Nat /\ Cardinality(Live') \in Nat
  <2>1. Answering' \subseteq Live'
    BY DEF Answering
  <2> QED
    BY <1>6, <2>1, FS_Subset, FS_CardinalityType
<1> QED
  BY <1>6, <1>7, <1>8, <1>9

(* One edge keeps the three balances.                                       *)
LEMMA BalanceStep ==
  ASSUME MaxOutstanding <= CntMax, ReadInv, CountersBalance,
         NEW valid \in BOOLEAN, NEW req, NEW arready \in BOOLEAN,
         valid => req \in ReadReqs,
         NEW r \in Beats, Edge(valid, req, arready, r)
  PROVE  CountersBalance'
<1> DEFINE c == rdm_cnt
           acc == state = "AR" /\ arready
           dis == state = "DISP"
<1>1. /\ c.dispatch \in Count /\ c.accept \in Count
      /\ c.first_data \in Count /\ c.complete \in Count
      /\ state \in {"IDLE", "DISP", "AR"} /\ (arvalid <=> state = "AR")
      /\ outstanding = Cardinality(Live) /\ outstanding \in Nat
  BY DEF ReadInv, BlocksInv, RecordTypes, RdmTypeOK, TrackerTypeOK,
         ArIsState, OutstandingIsExact
<1>2. /\ RFirst(r) \in BOOLEAN /\ RLast(r) \in BOOLEAN
      /\ acc \in BOOLEAN /\ dis \in BOOLEAN
  BY BeatFacts DEF ReadInv, BlocksInv, RecordTypes, RdmTypeOK, RFirst, RLast
<1>3. rdm_cnt' = [dispatch   |-> Tick(c.dispatch, dis),
                  accept     |-> Tick(c.accept, acc),
                  first_data |-> Tick(c.first_data, RFirst(r)),
                  complete   |-> Tick(c.complete, RLast(r))]
  BY DEF Edge, ReadClock, RdmClock, Observe
<1>4. CntMax \in Nat /\ MaxOutstanding \in Nat \ {0}
  OBVIOUS
<1>5. Less(rdm_cnt'.accept, rdm_cnt'.complete) = Cardinality(Live')
  <2>1. /\ Cardinality(Live') \in Nat /\ Cardinality(Live') <= MaxOutstanding
        /\ Cardinality(Live') = outstanding
              + (IF ArHs(arready) THEN 1 ELSE 0) - (IF RLast(r) THEN 1 ELSE 0)
    BY EdgeOfBlocks, CountStep DEF ReadInv
  <2>2. ArHs(arready) <=> acc
    BY <1>1 DEF ArHs
  <2>3. Less(c.accept, c.complete) = outstanding
    BY <1>1 DEF CountersBalance
  <2> HIDE DEF acc, dis
  <2> QED
    BY <1>1, <1>2, <1>3, <1>4, <2>1, <2>2, <2>3, DifferenceTicks
<1>6. Less(rdm_cnt'.first_data, rdm_cnt'.complete) = Cardinality(Answering')
  <2>1. Less(c.first_data, c.complete) = Cardinality(Answering)
    BY DEF CountersBalance, Answering
  <2> QED
    BY <1>1, <1>2, <1>3, <1>4, <2>1, AnsweringStep, DifferenceTicks
<1>7. Less(rdm_cnt'.dispatch, rdm_cnt'.accept)
        = IF state' = "AR" THEN 1 ELSE 0
  <2>1. IssueMachine(valid, req, win, AcceptReady, arready)
    BY DEF Edge, ReadClock, RdmClock
  <2>2. (IF state' = "AR" THEN 1 ELSE 0)
          = (IF state = "AR" THEN 1 ELSE 0) + (IF dis THEN 1 ELSE 0)
             - (IF acc THEN 1 ELSE 0)
    BY <1>1, <2>1 DEF IssueMachine
  <2>3. Less(c.dispatch, c.accept) = IF state = "AR" THEN 1 ELSE 0
    BY DEF CountersBalance
  <2>4. (IF state' = "AR" THEN 1 ELSE 0) \in 0 .. CntMax
    BY <1>4
  <2> HIDE DEF acc, dis
  <2> QED
    BY <1>1, <1>2, <1>3, <2>2, <2>3, <2>4, DifferenceTicks
<1> QED
  BY <1>5, <1>6, <1>7 DEF CountersBalance, Answering

(* The audit counters balance for ever, through any number of wraps, for    *)
(* counters wide enough to hold what can be outstanding: 32 bits against 2  *)
(* (axi_read_manager.sv:303-316, 342-343).                                  *)
THEOREM CountersCorrect ==
  ASSUME MaxOutstanding <= CntMax
  PROVE  ReadPathSpec => []CountersBalance
<1>1. ReadPathInit => CountersBalance
  <2> SUFFICES ASSUME ReadPathInit PROVE CountersBalance
    OBVIOUS
  <2>1. /\ rdm_cnt = [dispatch |-> 0, accept |-> 0, first_data |-> 0,
                      complete |-> 0]
        /\ state = "IDLE" /\ Live = {} /\ {t \in Live : seen_sh[t]} = {}
    BY DEF ReadPathInit, RdmInit, RdmCleared, TrackerInit, TrackerCleared,
           Live
  <2>2. Less(0, 0) = 0
    BY WrappedDifference DEF Count
  <2> QED
    BY <2>1, <2>2, FS_EmptySet DEF CountersBalance
<1>2. ReadInv /\ CountersBalance /\ [ReadPathNext]_rpvars => CountersBalance'
  <2> SUFFICES ASSUME ReadInv, CountersBalance, [ReadPathNext]_rpvars
               PROVE  CountersBalance'
    OBVIOUS
  <2>1. CASE ReadPathNext
    <3>1. PICK p \in Presented, arready \in BOOLEAN, r \in Beats :
            Edge(p.valid, p.req, arready, r)
      BY <2>1 DEF ReadPathNext
    <3> QED
      BY <3>1, BalanceStep, PresentedType
  <2>2. CASE UNCHANGED rpvars
    BY <2>2 DEF CountersBalance, rpvars, rdmvars, ttvars, Live, Less
  <2> QED
    BY <2>1, <2>2
<1> QED
  BY <1>1, <1>2, ReadInvHolds, PTL DEF ReadPathSpec
=============================================================================
