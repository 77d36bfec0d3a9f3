------------------------- MODULE LutHistory_proofs -------------------------
(***************************************************************************)
(* Generation tagging, for every number of slots and every width of the    *)
(* generation field: how far the generation of a slot has run ahead of a   *)
(* descriptor tells exactly how often the slot has changed hands, as long  *)
(* as the field has not gone all the way round.                            *)
(***************************************************************************)
EXTENDS LutHistory, PageStateLut_proofs

USE PkgAssumption

---------------------------------------------------------------------------
(* The generation a grants after g, in a field that wraps. *)
Ahead(g, a) == IF g + a <= GenMax THEN g + a ELSE g + a - Lives

(* What the observer's descriptor says of its slot.                         *)
HeldInv ==
  held # NoDesc =>
    /\ held.lifecycle_slot \in Slots
    /\ held.expected_generation \in 0..GenMax
    /\ ram[held.lifecycle_slot].valid
    /\ age \in 0..Lives
    /\ age = 0 => ram[held.lifecycle_slot].phys_idx = held.phys_idx
    /\ age < Lives =>
         ram[held.lifecycle_slot].generation
           = Ahead(held.expected_generation, age)

HistoryInv == LutTypeOK /\ HeldInv

(* A grant moves the generation one further ahead; fewer grants than the    *)
(* field has values never bring it back to where it was.                    *)
LEMMA AheadMoves ==
  ASSUME NEW g \in 0..GenMax, NEW a \in 0..GenMax
  PROVE  /\ Ahead(g, 0) = g
         /\ a # GenMax => Succ(Ahead(g, a), GenMax) = Ahead(g, a + 1)
         /\ Ahead(g, a) = g => a = 0
BY DEF Ahead, Lives, Succ

(* A clock edge keeps what the held descriptor says of its slot.            *)
LEMMA ClockKeepsHeld ==
  ASSUME HistoryInv, NEW cmd \in LutCommands, NEW req \in LutReuses,
         NEW mode \in LutModes, Clock(cmd, req, mode)
  PROVE  HeldInv'
<1> SUFFICES ASSUME held # NoDesc PROVE HeldInv'
  BY DEF Clock, HeldInv
<1> DEFINE s == held.lifecycle_slot
           n == AfterCmd(cmd, mode)[s]
           g == held.expected_generation
<1>0. /\ cmd \in LcCmd /\ req \in ReuseReq
      /\ LutClock(cmd, req, mode) /\ held' = held
  BY LutAssumption DEF Clock
<1>1. /\ s \in Slots /\ g \in 0..GenMax /\ ram[s].valid /\ age \in 0..Lives
      /\ age = 0 => ram[s].phys_idx = held.phys_idx
      /\ age < Lives => ram[s].generation = Ahead(g, age)
  BY DEF HistoryInv, HeldInv
<1>2. n \in Entry /\ Owner(n) = Owner(ram[s])
  BY <1>0, <1>1, CommandPort DEF HistoryInv
<1>3. /\ reuse'.grant = (Grantable(req) \/ Bypassed(req, mode))
  BY <1>0 DEF LutClock
<1>4. CASE s = req.slot /\ (Grantable(req) \/ Bypassed(req, mode))
  <2>1. ram'[s] = Installed(req, n)
    BY <1>0, <1>1, <1>4, ReusePort DEF HistoryInv
  <2>2. /\ ram'[s].valid
        /\ ram'[s].generation = Succ(ram[s].generation, GenMax)
    BY <2>1, <1>4 DEF Installed, NextGen
  <2>3. age' = IF age < Lives THEN age + 1 ELSE age
    BY <1>3, <1>4 DEF Clock
  <2>4. age' \in 0..Lives /\ age' # 0
    BY <2>3, <1>1 DEF Lives
  <2>5. age' < Lives => ram'[s].generation = Ahead(g, age')
    <3> SUFFICES ASSUME age' < Lives
                 PROVE  ram'[s].generation = Ahead(g, age')
      OBVIOUS
    <3>1. age \in 0..GenMax /\ age # GenMax /\ age < Lives /\ age' = age + 1
      BY <2>3, <1>1 DEF Lives
    <3> QED
      BY <3>1, <2>2, <1>1, AheadMoves
  <2> QED
    BY <1>0, <1>1, <2>2, <2>4, <2>5 DEF HeldInv
<1>5. CASE ~(s = req.slot /\ (Grantable(req) \/ Bypassed(req, mode)))
  <2>1. ram'[s] = n
    BY <1>0, <1>1, <1>5, ReusePort DEF HistoryInv
  <2>2. /\ ram'[s].valid = ram[s].valid
        /\ ram'[s].phys_idx = ram[s].phys_idx
        /\ ram'[s].generation = ram[s].generation
    BY <2>1, <1>2 DEF Owner
  <2>3. age' = age
    BY <1>3, <1>5 DEF Clock
  <2> QED
    BY <1>0, <1>1, <2>2, <2>3 DEF HeldInv
<1> QED
  BY <1>4, <1>5

(* What the descriptor says of its slot is inductive.                       *)
LEMMA HistoryInvariant == HSpec => []HistoryInv
<1>1. HInit => HistoryInv
  BY ClearEntryType, ClearedTypes
     DEF HInit, HistoryInv, HeldInv, LutInit, LutCleared, LutTypeOK
<1>2. HistoryInv /\ [HNext]_hvars => HistoryInv'
  <2> SUFFICES ASSUME HistoryInv, [HNext]_hvars PROVE HistoryInv'
    OBVIOUS
  <2>1. LutTypeOK'
    BY LutStepTyped
       DEF HistoryInv, HNext, Reset, Read, Clock, LutNext, hvars, lutvars
  <2>2. HeldInv'
    <3>1. CASE Reset
      BY <3>1 DEF Reset, HeldInv
    <3>2. ASSUME NEW s \in Slots, Read(s) PROVE HeldInv'
      <4>1. /\ held'.lifecycle_slot = s
            /\ held'.expected_generation = ram[s].generation
            /\ held'.phys_idx = ram[s].phys_idx
            /\ age' = 0 /\ ram' = ram /\ ram[s].valid
        BY <3>2 DEF Read, DescriptorOf, lutvars
      <4>2. ram[s].generation \in 0..GenMax
        BY DEF HistoryInv, LutTypeOK, Entry
      <4>3. Ahead(ram[s].generation, 0) = ram[s].generation /\ 0 \in 0..Lives
        BY <4>2 DEF Ahead, Lives
      <4> QED
        BY <4>1, <4>2, <4>3 DEF HeldInv
    <3>3. ASSUME NEW cmd \in LutCommands, NEW req \in LutReuses,
                 NEW mode \in LutModes, Clock(cmd, req, mode)
          PROVE  HeldInv'
      BY <3>3, ClockKeepsHeld
    <3>4. CASE UNCHANGED hvars
      BY <3>4 DEF HistoryInv, HeldInv, hvars
    <3> QED
      BY <3>1, <3>2, <3>3, <3>4 DEF HNext
  <2> QED
    BY <2>1, <2>2 DEF HistoryInv
<1> QED
  BY <1>1, <1>2, PTL DEF HSpec

(* A descriptor resolves exactly while its slot has not changed hands since *)
(* it was read, for every width of the generation and in every mode, until  *)
(* the field has gone all the way round (page_state_lut.sv:67-83).          *)
THEOREM StaleNeverResolvesCorrect == HSpec => []StaleNeverResolves
<1>1. HistoryInv => StaleNeverResolves
  <2> SUFFICES ASSUME HistoryInv, held # NoDesc, age < Lives
               PROVE  DescValid(ram[held.lifecycle_slot], held) <=> age = 0
    BY DEF StaleNeverResolves
  <2> DEFINE e == ram[held.lifecycle_slot]
             g == held.expected_generation
  <2>1. /\ g \in 0..GenMax /\ e.valid /\ age \in 0..Lives
        /\ age = 0 => e.phys_idx = held.phys_idx
        /\ e.generation = Ahead(g, age)
    BY DEF HistoryInv, HeldInv
  <2>2. age \in 0..GenMax
    BY <2>1 DEF Lives
  <2>3. e.generation = g <=> age = 0
    BY <2>1, <2>2, AheadMoves
  <2> QED
    BY <2>1, <2>3 DEF DescValid, DescValidNoGen
<1> QED
  BY <1>1, HistoryInvariant, PTL
===========================================================================
