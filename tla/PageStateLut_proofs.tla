------------------------ MODULE PageStateLut_proofs ------------------------
(***************************************************************************)
(* Theorems about the lifecycle table, for every number of slots and every *)
(* width of the counters.                                                  *)
(***************************************************************************)
EXTENDS Integers, PageStateLut, TLAPS

USE PkgAssumption

---------------------------------------------------------------------------
(* Register arithmetic stays within the register. *)
LEMMA RegisterStep ==
  ASSUME NEW max \in Nat, NEW x \in 0..max
  PROVE  Succ(x, max) \in 0..max /\ Pred(x, max) \in 0..max
BY DEF Succ, Pred

(* A counter that may tick stays within its 32 bits. *)
LEMMA TickType ==
  ASSUME NEW c \in Count, NEW p \in BOOLEAN
  PROVE  Tick(c, p) \in Count
BY DEF Tick, Succ, Count

(* The reset values of an entry, of the answer and of the reuse outputs are *)
(* legal register contents (page_state_lut.sv:146-157).                     *)
LEMMA ClearEntryType == ClearEntry \in Entry
BY DEF ClearEntry, Entry

(* So is everything else the reset clears.                                 *)
LEMMA ClearedTypes ==
  /\ ClearRsp \in LcRsp
  /\ NoReuse \in [grant : BOOLEAN, refused : BOOLEAN, committed : BOOLEAN,
                  new_gen : 0..GenMax]
  /\ [refused |-> 0, stale |-> 0, unsafe |-> 0]
       \in [refused : Count, stale : Count, unsafe : Count]
<1>1. ClearRsp \in LcRsp
  BY ClearEntryType DEF ClearRsp, LcRsp, Errors
<1>2. 0 \in 0..GenMax /\ 0 \in Count
  BY DEF Count
<1> QED
  BY <1>1, <1>2 DEF NoReuse

(* An event, accepted or not, leaves an entry within its registers.         *)
LEMMA EventEffectType ==
  ASSUME NEW e \in Entry, NEW ev
  PROVE  EventEffect(ev, e) \in Entry
<1> DEFINE ref == e.refcount
           rsv == e.reservation
           inf == e.inflight
           fil == e.fill_pending
<1>1. /\ Succ(ref, RefMax) \in 0..RefMax /\ Pred(ref, RefMax) \in 0..RefMax
      /\ Succ(rsv, RsvMax) \in 0..RsvMax /\ Pred(rsv, RsvMax) \in 0..RsvMax
      /\ Succ(inf, InfMax) \in 0..InfMax /\ Pred(inf, InfMax) \in 0..InfMax
      /\ Succ(fil, FillMax) \in 0..FillMax /\ Pred(fil, FillMax) \in 0..FillMax
  BY RegisterStep DEF Entry
<1> QED
  BY <1>1 DEF EventEffect, Entry

(* A use count that an accepted event raises was below its limit, one that  *)
(* it lowers was above zero, and the owner of the slot is left alone.       *)
LEMMA AcceptedEvent ==
  ASSUME NEW e \in Entry, NEW ev, EventError(ev, e) = "NONE",
         NEW n, n = EventEffect(ev, e)
  PROVE  /\ Owner(n) = Owner(e)
         /\ OneApart(e.refcount, n.refcount)
         /\ OneApart(e.reservation, n.reservation)
         /\ OneApart(e.inflight, n.inflight)
         /\ OneApart(e.fill_pending, n.fill_pending)
         /\ OneApart(Uses(e), Uses(n))
<1>0. /\ e.refcount \in Nat /\ e.reservation \in Nat
      /\ e.inflight \in Nat /\ e.fill_pending \in Nat
  BY DEF Entry
<1>1. CASE ev = "ACQUIRE"
  <2>1. e.refcount # RefMax /\ n = [e EXCEPT !.refcount = e.refcount + 1]
    BY <1>1 DEF EventError, EventEffect, Succ
  <2>2. /\ n.refcount = e.refcount + 1
        /\ n.reservation = e.reservation
        /\ n.inflight = e.inflight
        /\ n.fill_pending = e.fill_pending
        /\ Owner(n) = Owner(e)
    BY <2>1 DEF Entry, Owner
  <2> QED  BY <2>1, <2>2, <1>0 DEF OneApart, Uses
<1>2. CASE ev = "ADMIT"
  <2>1. /\ e.reservation # RsvMax
        /\ n = [e EXCEPT !.reservation = e.reservation + 1]
    BY <1>2 DEF EventError, EventEffect, Succ
  <2>2. /\ n.refcount = e.refcount
        /\ n.reservation = e.reservation + 1
        /\ n.inflight = e.inflight
        /\ n.fill_pending = e.fill_pending
        /\ Owner(n) = Owner(e)
    BY <2>1 DEF Entry, Owner
  <2> QED  BY <2>1, <2>2, <1>0 DEF OneApart, Uses
<1>3. CASE ev = "ISSUE"
  <2>1. /\ e.reservation # 0 /\ e.inflight # InfMax
        /\ n = [e EXCEPT !.reservation = e.reservation - 1,
                         !.inflight = e.inflight + 1]
    BY <1>3 DEF EventError, EventEffect, Succ, Pred
  <2>2. /\ n.reservation = e.reservation - 1 /\ n.inflight = e.inflight + 1
        /\ n.refcount = e.refcount /\ n.fill_pending = e.fill_pending
        /\ Owner(n) = Owner(e)
    BY <2>1 DEF Entry, Owner
  <2> QED  BY <2>1, <2>2, <1>0 DEF OneApart, Uses
<1>4. CASE ev = "COMPLETE"
  <2>1. e.inflight # 0 /\ n = [e EXCEPT !.inflight = e.inflight - 1]
    BY <1>4 DEF EventError, EventEffect, Pred
  <2>2. /\ n.refcount = e.refcount
        /\ n.reservation = e.reservation
        /\ n.inflight = e.inflight - 1
        /\ n.fill_pending = e.fill_pending
        /\ Owner(n) = Owner(e)
    BY <2>1 DEF Entry, Owner
  <2> QED  BY <2>1, <2>2, <1>0 DEF OneApart, Uses
<1>5. CASE ev = "RELEASE"
  <2>1. e.refcount # 0 /\ n = [e EXCEPT !.refcount = e.refcount - 1]
    BY <1>5 DEF EventError, EventEffect, Pred
  <2>2. /\ n.refcount = e.refcount - 1
        /\ n.reservation = e.reservation
        /\ n.inflight = e.inflight
        /\ n.fill_pending = e.fill_pending
        /\ Owner(n) = Owner(e)
    BY <2>1 DEF Entry, Owner
  <2> QED  BY <2>1, <2>2, <1>0 DEF OneApart, Uses
<1>6. CASE ev = "CANCEL"
  <2>1. e.reservation # 0 /\ n = [e EXCEPT !.reservation = e.reservation - 1]
    BY <1>6 DEF EventError, EventEffect, Pred
  <2>2. /\ n.refcount = e.refcount
        /\ n.reservation = e.reservation - 1
        /\ n.inflight = e.inflight
        /\ n.fill_pending = e.fill_pending
        /\ Owner(n) = Owner(e)
    BY <2>1 DEF Entry, Owner
  <2> QED  BY <2>1, <2>2, <1>0 DEF OneApart, Uses
<1>7. CASE ev = "FILL_ST"
  <2>1. /\ e.fill_pending # FillMax
        /\ n = [e EXCEPT !.fill_pending = e.fill_pending + 1]
    BY <1>7 DEF EventError, EventEffect, Succ
  <2>2. /\ n.refcount = e.refcount
        /\ n.reservation = e.reservation
        /\ n.inflight = e.inflight
        /\ n.fill_pending = e.fill_pending + 1
        /\ Owner(n) = Owner(e)
    BY <2>1 DEF Entry, Owner
  <2> QED  BY <2>1, <2>2, <1>0 DEF OneApart, Uses
<1>8. CASE ev \notin {"ACQUIRE", "ADMIT", "ISSUE", "COMPLETE", "RELEASE",
                      "CANCEL", "FILL_ST"}
  <2>1. /\ e.fill_pending # 0
        /\ n = [e EXCEPT !.fill_pending = e.fill_pending - 1]
    BY <1>8 DEF EventError, EventEffect, Pred
  <2>2. /\ n.refcount = e.refcount
        /\ n.reservation = e.reservation
        /\ n.inflight = e.inflight
        /\ n.fill_pending = e.fill_pending - 1
        /\ Owner(n) = Owner(e)
    BY <2>1 DEF Entry, Owner
  <2> QED  BY <2>1, <2>2, <1>0 DEF OneApart, Uses
<1> QED
  BY <1>1, <1>2, <1>3, <1>4, <1>5, <1>6, <1>7, <1>8
---------------------------------------------------------------------------
(* Every entry of the table, before and after the command port, is typed.   *)
LEMMA AfterCmdType ==
  ASSUME ram \in [Slots -> Entry], NEW cmd, NEW mode
  PROVE  AfterCmd(cmd, mode) \in [Slots -> Entry]
BY EventEffectType DEF AfterCmd

(* The entry a reuse installs is typed (page_state_lut.sv:185-203).         *)
LEMMA InstalledType ==
  ASSUME ram \in [Slots -> Entry], NEW req \in ReuseReq, NEW e \in Entry
  PROVE  Installed(req, e) \in Entry
<1>1. NextGen(req.slot) \in 0..GenMax
  BY RegisterStep DEF NextGen, ReuseReq, Entry
<1> QED
  BY <1>1 DEF Installed, Entry, ReuseReq

(* So is the table after the reuse port.                                    *)
LEMMA AfterReuseType ==
  ASSUME ram \in [Slots -> Entry], NEW req \in ReuseReq, NEW mode,
         NEW table \in [Slots -> Entry]
  PROVE  AfterReuse(table, req, mode) \in [Slots -> Entry]
<1>1. req.slot \in Slots
  BY DEF ReuseReq
<1>2. Installed(req, table[req.slot]) \in Entry
  BY <1>1, InstalledType
<1> QED
  BY <1>1, <1>2 DEF AfterReuse

(* The registered answer to a command is typed (page_state_lut.sv:165-178). *)
LEMMA AnswerType ==
  ASSUME LutTypeOK, NEW cmd \in LcCmd, NEW mode
  PROVE  Answer(cmd, mode) \in LcRsp
<1> DEFINE e == ram[cmd.desc.lifecycle_slot]
           seen == IF CmdOk(cmd, mode) THEN EventEffect(cmd.ev, e) ELSE e
<1>1. e \in Entry
  BY DEF LutTypeOK, LcCmd, Descriptor
<1>2. seen \in Entry
  BY <1>1, EventEffectType
<1>3. CmdError(cmd, mode) \in Errors
  BY DEF CmdError, EventError, Errors
<1>4. CmdOk(cmd, mode) \in BOOLEAN /\ Evictable(seen) \in BOOLEAN
  BY DEF CmdOk, Evictable, LcCmd
<1>5. CASE cmd.valid
  <2>1. Answer(cmd, mode) = [valid |-> TRUE, ok |-> CmdOk(cmd, mode),
                             err |-> CmdError(cmd, mode),
                             evictable |-> Evictable(seen), entry |-> seen]
    BY <1>5 DEF Answer
  <2> HIDE DEF seen
  <2> QED
    BY <2>1, <1>2, <1>3, <1>4 DEF LcRsp
<1>6. CASE ~cmd.valid
  BY <1>6 DEF Answer, LcRsp, LutTypeOK
<1> QED
  BY <1>5, <1>6

(* A clock edge keeps every register of the table within its width,         *)
(* whatever is presented to the two ports (page_state_lut.sv:158-216).      *)
LEMMA ClockTyped ==
  ASSUME LutTypeOK, NEW cmd \in LcCmd, NEW req \in ReuseReq,
         NEW mode \in BypassMode, LutClock(cmd, req, mode)
  PROVE  LutTypeOK'
<1>1. ram' \in [Slots -> Entry]
  BY AfterCmdType, AfterReuseType DEF LutClock, LutTypeOK
<1>2. rsp' \in LcRsp
  BY AnswerType DEF LutClock
<1>3. reuse' \in [grant : BOOLEAN, refused : BOOLEAN,
                  committed : BOOLEAN, new_gen : 0..GenMax]
  <2>1. NextGen(req.slot) \in 0..GenMax
    BY RegisterStep DEF NextGen, ReuseReq, Entry, LutTypeOK
  <2>2. /\ Grantable(req) \in BOOLEAN /\ req.valid \in BOOLEAN
        /\ Bypassed(req, mode) \in BOOLEAN
    BY DEF Grantable, Bypassed, ReuseReq
  <2> QED
    BY <2>1, <2>2 DEF LutClock, LutTypeOK
<1>4. stale' \in BOOLEAN
  BY DEF LutClock, LcCmd
<1>5. lut_cnt' \in [refused : Count, stale : Count, unsafe : Count]
  BY TickType DEF LutClock, LutTypeOK, Grantable, Bypassed, ReuseReq, LcCmd
<1> QED
  BY <1>1, <1>2, <1>3, <1>4, <1>5 DEF LutTypeOK

(* A reset leaves legal contents behind (page_state_lut.sv:145-157).        *)
LEMMA ResetTyped == LutReset => LutTypeOK'
BY ClearEntryType, ClearedTypes DEF LutReset, LutCleared, LutTypeOK

LEMMA InitTyped == LutInit => LutTypeOK
<1> SUFFICES ASSUME LutInit PROVE LutTypeOK
  OBVIOUS
<1> QED
  BY ClearEntryType, ClearedTypes DEF LutInit, LutCleared, LutTypeOK

(* Every step keeps every register of the table within its width.          *)
LEMMA LutStepTyped == LutTypeOK /\ [LutNext]_lutvars => LutTypeOK'
<1> SUFFICES ASSUME LutTypeOK, [LutNext]_lutvars PROVE LutTypeOK'
  OBVIOUS
<1>1. CASE LutReset
  BY <1>1, ResetTyped
<1>2. ASSUME NEW cmd \in LutCommands, NEW req \in LutReuses,
             NEW mode \in LutModes, LutClock(cmd, req, mode)
      PROVE  LutTypeOK'
  BY <1>2, LutAssumption, ClockTyped
<1>3. CASE UNCHANGED lutvars
  BY <1>3 DEF lutvars, LutTypeOK
<1> QED
  BY <1>1, <1>2, <1>3 DEF LutNext

(* Type correctness of the table and its outputs.                           *)
THEOREM LutTypeCorrect == LutSpec => []LutTypeOK
BY InitTyped, LutStepTyped, PTL DEF LutSpec
---------------------------------------------------------------------------
(* The command port leaves a slot alone or applies one accepted event to it.*)
LEMMA CommandPort ==
  ASSUME LutTypeOK, NEW cmd \in LcCmd, NEW mode, NEW s \in Slots,
         NEW n, n = AfterCmd(cmd, mode)[s]
  PROVE  /\ n \in Entry
         /\ Owner(n) = Owner(ram[s])
         /\ OneApart(ram[s].refcount, n.refcount)
         /\ OneApart(ram[s].reservation, n.reservation)
         /\ OneApart(ram[s].inflight, n.inflight)
         /\ OneApart(ram[s].fill_pending, n.fill_pending)
         /\ OneApart(Uses(ram[s]), Uses(n))
<1> DEFINE e == ram[s]
<1>1. e \in Entry
  BY DEF LutTypeOK
<1>2. CASE n = e
  BY <1>1, <1>2 DEF OneApart
<1>3. CASE n # e
  <2>1. CmdOk(cmd, mode) /\ cmd.desc.lifecycle_slot = s
    BY <1>3 DEF AfterCmd, LutTypeOK
  <2>2. EventError(cmd.ev, e) = "NONE"
    BY <2>1 DEF CmdOk, CmdError
  <2>3. n = EventEffect(cmd.ev, e)
    BY <2>1 DEF AfterCmd, LutTypeOK
  <2> QED
    BY <1>1, <2>2, <2>3, AcceptedEvent, EventEffectType
<1> QED
  BY <1>2, <1>3

(* The reuse port replaces the slot it is granted and touches no other.     *)
LEMMA ReusePort ==
  ASSUME LutTypeOK, NEW cmd \in LcCmd, NEW req \in ReuseReq, NEW mode,
         LutClock(cmd, req, mode), NEW s \in Slots
  PROVE  LET n == AfterCmd(cmd, mode)[s]
         IN  IF s = req.slot /\ (Grantable(req) \/ Bypassed(req, mode))
             THEN ram'[s] = Installed(req, n)
             ELSE ram'[s] = n
<1>1. AfterCmd(cmd, mode) \in [Slots -> Entry]
  BY AfterCmdType DEF LutTypeOK
<1>2. ram' = AfterReuse(AfterCmd(cmd, mode), req, mode)
  BY DEF LutClock
<1> QED
  BY <1>1, <1>2 DEF AfterReuse

(* The next generation is never the present one, at any width.              *)
LEMMA NextGenMoves ==
  ASSUME LutTypeOK, NEW s \in Slots
  PROVE  NextGen(s) # ram[s].generation
BY DEF NextGen, Succ, LutTypeOK, Entry

(* What a slot that changes hands must show (page_state_lut.sv:180-214).    *)
Clean(s) ==
  NewOwner(s) =>
    /\ reuse'.grant
    /\ ram'[s].generation = Succ(ram[s].generation, GenMax)
    /\ reuse'.new_gen = ram'[s].generation
    /\ ram'[s].refcount = 0 /\ ram'[s].reservation = 0
    /\ reuse'.committed \/ (Evictable(ram[s]) /\ Evictable(ram'[s]))

(* One edge, whatever is presented: a slot that gets a new owner is the one *)
(* the reuse port was granted.                                              *)
LEMMA CleanClock ==
  ASSUME LutTypeOK, NEW cmd \in LcCmd, NEW req \in ReuseReq, NEW mode,
         LutClock(cmd, req, mode), NEW s \in Slots
  PROVE  Clean(s)
<1> DEFINE n == AfterCmd(cmd, mode)[s]
<1>1. n \in Entry /\ Owner(n) = Owner(ram[s])
  BY CommandPort
<1>2. CASE s = req.slot /\ (Grantable(req) \/ Bypassed(req, mode))
  <2>1. ram'[s] = Installed(req, n)
    BY <1>2, ReusePort
  <2>2. reuse'.grant /\ reuse'.new_gen = NextGen(s)
    BY <1>2 DEF LutClock
  <2>3. /\ ram'[s].generation = NextGen(s)
        /\ ram'[s].refcount = 0 /\ ram'[s].reservation = 0
        /\ Grantable(req) => ram'[s].inflight = 0
                              /\ ram'[s].fill_pending = 0
    BY <1>2, <2>1 DEF Installed
  <2>4. reuse'.committed = Bypassed(req, mode)
    BY DEF LutClock
  <2>5. Grantable(req) => Evictable(ram[s]) /\ Evictable(ram'[s])
    BY <1>2, <2>3 DEF Grantable, Evictable
  <2> QED
    BY <1>2, <2>2, <2>3, <2>4, <2>5 DEF NextGen, Clean
<1>3. CASE ~(s = req.slot /\ (Grantable(req) \/ Bypassed(req, mode)))
  <2>1. ram'[s] = n
    BY <1>3, ReusePort
  <2> QED
    BY <1>1, <2>1 DEF NewOwner, Clean
<1> QED
  BY <1>2, <1>3

(* A reset hands no slot to anyone.                                         *)
LEMMA CleanReset ==
  ASSUME LutReset, NEW s \in Slots
  PROVE  Clean(s)
BY DEF LutReset, LutCleared, ClearEntry, NewOwner, Clean

(* A slot changes hands cleanly, for every width and every mode.            *)
THEOREM HandOverCorrect == LutSpec => HandOverIsClean
<1>1. LutTypeOK /\ [LutNext]_lutvars => [\A s \in Slots : Clean(s)]_lutvars
  <2> SUFFICES ASSUME LutTypeOK, LutNext, NEW s \in Slots PROVE Clean(s)
    OBVIOUS
  <2>1. CASE LutReset
    BY <2>1, CleanReset
  <2>2. ASSUME NEW cmd \in LutCommands, NEW req \in LutReuses,
               NEW mode \in LutModes, LutClock(cmd, req, mode)
        PROVE  Clean(s)
    BY <2>2, LutAssumption, CleanClock
  <2> QED
    BY <2>1, <2>2 DEF LutNext
<1> QED
  BY <1>1, LutTypeCorrect, PTL DEF LutSpec, HandOverIsClean, Clean

(* No use count ever wraps, for every width and every mode.                 *)
THEOREM UsesNeverWrapCorrect == LutSpec => UsesNeverWrap
<1> DEFINE Steady(s) ==
       Owner(ram'[s]) = Owner(ram[s]) /\ ram'[s] # ClearEntry =>
         /\ OneApart(ram[s].refcount, ram'[s].refcount)
         /\ OneApart(ram[s].reservation, ram'[s].reservation)
         /\ OneApart(ram[s].inflight, ram'[s].inflight)
         /\ OneApart(ram[s].fill_pending, ram'[s].fill_pending)
<1>1. LutTypeOK /\ [LutNext]_lutvars => [\A s \in Slots : Steady(s)]_lutvars
  <2> SUFFICES ASSUME LutTypeOK, LutNext, NEW s \in Slots PROVE Steady(s)
    OBVIOUS
  <2>1. CASE LutReset
    BY <2>1 DEF LutReset, LutCleared
  <2>2. ASSUME NEW cmd \in LutCommands, NEW req \in LutReuses,
               NEW mode \in LutModes, LutClock(cmd, req, mode)
        PROVE  Steady(s)
    <3> DEFINE n == AfterCmd(cmd, mode)[s]
    <3>0. cmd \in LcCmd /\ req \in ReuseReq /\ mode \in BypassMode
      BY LutAssumption
    <3>1. CASE s = req.slot /\ (Grantable(req) \/ Bypassed(req, mode))
      <4>1. ram'[s] = Installed(req, n)
        BY <2>2, <3>0, <3>1, ReusePort
      <4>2. ram'[s].generation = NextGen(s)
        BY <4>1, <3>1 DEF Installed
      <4>3. Owner(ram'[s]) # Owner(ram[s])
        BY <4>2, NextGenMoves DEF Owner
      <4> QED
        BY <4>3
    <3>2. CASE ~(s = req.slot /\ (Grantable(req) \/ Bypassed(req, mode)))
      <4>1. ram'[s] = n
        BY <2>2, <3>0, <3>2, ReusePort
      <4>2. /\ OneApart(ram[s].refcount, n.refcount)
            /\ OneApart(ram[s].reservation, n.reservation)
            /\ OneApart(ram[s].inflight, n.inflight)
            /\ OneApart(ram[s].fill_pending, n.fill_pending)
        BY <3>0, CommandPort
      <4> HIDE DEF n
      <4> QED
        BY <4>1, <4>2
    <3> QED
      BY <3>1, <3>2
  <2> QED
    BY <2>1, <2>2 DEF LutNext
<1> QED
  BY <1>1, LutTypeCorrect, PTL DEF LutSpec, UsesNeverWrap
---------------------------------------------------------------------------
(* The number of uses of a slot is a natural number, and it is zero exactly *)
(* when the interlock grants a reuse.                                       *)
LEMMA UsesCount ==
  ASSUME NEW e \in Entry
  PROVE  Uses(e) \in Nat /\ (Evictable(e) <=> Uses(e) = 0)
<1>1. /\ e.refcount \in Nat /\ e.reservation \in Nat
      /\ e.inflight \in Nat /\ e.fill_pending \in Nat
  BY DEF Entry
<1> QED
  BY <1>1 DEF Uses, Evictable

(* A change by one is a use that begins or ends.                            *)
LEMMA UseMoves ==
  ASSUME LutTypeOK, NEW c \in Slots, ram' \in [Slots -> Entry],
         OneApart(Uses(ram[c]), Uses(ram'[c])), Uses(ram[c]) # Uses(ram'[c]),
         \A x \in Slots \ {c} : Uses(ram'[x]) = Uses(ram[x])
  PROVE  Life!Use(c)
<1> DEFINE d == Uses(ram'[c]) - Uses(ram[c])
<1>1. Uses(ram[c]) \in Nat /\ Uses(ram'[c]) \in Nat
  BY UsesCount DEF LutTypeOK
<1>2. d \in {-1, 1}
  BY <1>1 DEF OneApart
<1>3. Uses(ram[c]) + d = Uses(ram'[c])
  BY <1>1
<1>4. [s \in Slots |-> Uses(ram'[s])]
        = [[s \in Slots |-> Uses(ram[s])] EXCEPT ![c] = @ + d]
  BY <1>3
<1>5. [s \in Slots |-> Uses(ram[s])][c] + d >= 0
  BY <1>1, <1>3
<1> HIDE DEF d
<1> SUFFICES \E i \in {-1, 1} :
               /\ [s \in Slots |-> Uses(ram[s])][c] + i >= 0
               /\ [s \in Slots |-> Uses(ram'[s])]
                    = [[s \in Slots |-> Uses(ram[s])] EXCEPT ![c] = @ + i]
  BY DEF Life!Use
<1> WITNESS d \in {-1, 1}
<1> QED
  BY <1>4, <1>5

(* One edge without a bypass is a use beginning or ending, a hand-over of   *)
(* an unused slot, both for two different slots, or nothing.                *)
LEMMA ClockImplementsLife ==
  ASSUME LutTypeOK, LutTypeOK', NEW cmd \in LcCmd, NEW req \in ReuseReq,
         NEW mode, ~Bypassed(req, mode), LutClock(cmd, req, mode)
  PROVE  Life!SLNext \/ UNCHANGED Life!slvars
<1> DEFINE c == cmd.desc.lifecycle_slot
           g == req.slot
           n == AfterCmd(cmd, mode)
<1>0. cmd \in LcCmd /\ req \in ReuseReq /\ ~Bypassed(req, mode)
  OBVIOUS
<1>1. c \in Slots /\ g \in Slots
  BY <1>0 DEF LcCmd, Descriptor, ReuseReq
<1>2. n \in [Slots -> Entry] /\ \A x \in Slots \ {c} : n[x] = ram[x]
  BY AfterCmdType DEF AfterCmd, LutTypeOK
<1>3. \A x \in Slots : /\ n[x].generation = ram[x].generation
                       /\ OneApart(Uses(ram[x]), Uses(n[x]))
  BY <1>0, CommandPort DEF Owner
<1>4. CASE ~Grantable(req)
  <2>1. \A x \in Slots : ram'[x] = n[x]
    BY <1>0, <1>4, ReusePort
  <2>2. UNCHANGED [s \in Slots |-> ram[s].generation]
    BY <2>1, <1>3
  <2>3. CASE Uses(ram'[c]) = Uses(ram[c])
    <3>1. \A x \in Slots : Uses(ram'[x]) = Uses(ram[x])
      BY <2>1, <2>3, <1>2
    <3> QED
      BY <2>2, <3>1 DEF Life!slvars
  <2>4. CASE Uses(ram'[c]) # Uses(ram[c])
    <3>1. Life!Use(c)
      BY <2>1, <2>4, <1>1, <1>2, <1>3, UseMoves DEF LutTypeOK
    <3> QED
      BY <2>2, <3>1, <1>1 DEF Life!SLNext, Life!Touch
  <2> QED
    BY <2>3, <2>4
<1>5. CASE Grantable(req)
  <2>1. ram'[g] = Installed(req, n[g])
    BY <1>0, <1>1, <1>5, ReusePort
  <2>2. \A x \in Slots \ {g} : ram'[x] = n[x]
    BY <1>0, ReusePort
  <2>3. Uses(ram[g]) = 0 /\ Uses(ram'[g]) = 0
    <3>1. Evictable(ram[g])
      BY <1>5 DEF Grantable
    <3>2. Evictable(ram'[g])
      BY <2>1, <1>5 DEF Installed, Evictable
    <3> QED
      BY <3>1, <3>2, <1>1, UsesCount DEF LutTypeOK
  <2>4. [s \in Slots |-> ram'[s].generation]
          = [[s \in Slots |-> ram[s].generation] EXCEPT
               ![g] = NextGen(g)]
    <3>1. ram'[g].generation = NextGen(g)
      BY <2>1 DEF Installed
    <3>2. \A x \in Slots \ {g} : ram'[x].generation = ram[x].generation
      BY <2>2, <1>3
    <3> QED
      BY <3>1, <3>2, <1>1
  <2>5. NextGen(g) = Life!NextLife(g)
    BY <1>1 DEF NextGen, Succ, Life!NextLife
  <2>6. CASE c = g \/ Uses(ram'[c]) = Uses(ram[c])
    <3>1. \A x \in Slots : Uses(ram'[x]) = Uses(ram[x])
      BY <2>2, <2>3, <2>6, <1>1, <1>2
    <3> QED
      BY <2>3, <2>4, <2>5, <3>1, <1>1 DEF Life!SLNext, Life!HandOver
  <2>7. CASE c # g /\ Uses(ram'[c]) # Uses(ram[c])
    <3>1. \A x \in Slots \ {c} : Uses(ram'[x]) = Uses(ram[x])
      BY <2>2, <2>3, <1>2
    <3>2. Life!Use(c)
      BY <2>2, <2>7, <3>1, <1>1, <1>3, UseMoves DEF LutTypeOK
    <3> QED
      BY <2>3, <2>4, <2>5, <2>7, <3>2, <1>1
         DEF Life!SLNext, Life!HandOver
  <2> QED
    BY <2>6, <2>7
<1> QED
  BY <1>4, <1>5

(* A reset ends every life.                                                 *)
LEMMA ResetImplementsLife == LutReset => Life!SLNext
BY DEF LutReset, LutCleared, Life!SLNext, Life!Restart, ClearEntry, Uses

LEMMA InitImplementsLife == LutInit => Life!SLInit
BY DEF LutInit, LutCleared, Life!SLInit, ClearEntry, Uses

(* Without the bypass the table implements SlotLifecycle: every edge is a   *)
(* use beginning or ending, a hand-over of an unused slot, both for two     *)
(* different slots, a restart, or nothing.                                  *)
THEOREM LutImplementsLifecycle ==
  ASSUME \A m \in LutModes : ~m.unsafe_bypass
  PROVE  LutSpec => LifeSpec
<1>1. LutTypeOK /\ LutTypeOK' /\ [LutNext]_lutvars
        => [Life!SLNext]_(Life!slvars)
  <2> SUFFICES ASSUME LutTypeOK, LutTypeOK', [LutNext]_lutvars
               PROVE  Life!SLNext \/ UNCHANGED Life!slvars
    OBVIOUS
  <2>1. CASE LutReset
    BY <2>1, ResetImplementsLife
  <2>2. ASSUME NEW cmd \in LutCommands, NEW req \in LutReuses,
               NEW mode \in LutModes, LutClock(cmd, req, mode)
        PROVE  Life!SLNext \/ UNCHANGED Life!slvars
    <3>1. ~Bypassed(req, mode)
      BY DEF Bypassed
    <3> QED
      BY <2>2, <3>1, LutAssumption, ClockImplementsLife
  <2>3. CASE UNCHANGED lutvars
    BY <2>3 DEF lutvars, Life!slvars
  <2> QED
    BY <2>1, <2>2, <2>3 DEF LutNext
<1> QED
  BY <1>1, InitImplementsLife, LutTypeCorrect, PTL
     DEF LutSpec, LifeSpec, Life!SLSpec
===========================================================================
