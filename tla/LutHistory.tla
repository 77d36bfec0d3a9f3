---------------------------- MODULE LutHistory ----------------------------
(***************************************************************************)
(* PageStateLut with an observer: a host that reads the entry of one slot  *)
(* and keeps the descriptor it saw, and a count of how often the slot has  *)
(* changed hands since.  The observer never influences the table.          *)
(***************************************************************************)
EXTENDS PageStateLut

CONSTANT NoDesc   \* the observer holds no descriptor

VARIABLES
  held,  \* the descriptor the observer read, or NoDesc
  age    \* grants of its slot since it was read, saturating at 2^GEN_W

hvars == <<ram, rsp, reuse, stale, lut_cnt, held, age>>

ASSUME HistoryAssumption == NoDesc \notin Descriptor

Lives == GenMax + 1   \* generations before the field wraps

DescriptorOf(s, tag) ==
  [lifecycle_slot |-> s, phys_idx |-> ram[s].phys_idx,
   expected_generation |-> ram[s].generation, transaction_tag |-> tag,
   tenant |-> ram[s].tenant]

HInit == LutInit /\ held = NoDesc /\ age = 0

(* The host reads the entry back through the register block (LC_ENTRY).     *)
Read(s) == /\ ram[s].valid
           /\ held' = DescriptorOf(s, CHOOSE t \in Tags : TRUE)
           /\ age' = 0
           /\ UNCHANGED lutvars

Clock(cmd, req, mode) ==
  /\ LutClock(cmd, req, mode)
  /\ age' = IF /\ held # NoDesc
               /\ reuse'.grant /\ req.slot = held.lifecycle_slot
               /\ age < Lives
            THEN age + 1 ELSE age
  /\ UNCHANGED held

Reset == LutReset /\ held' = NoDesc /\ age' = 0

HNext == \/ Reset
         \/ \E s \in Slots : Read(s)
         \/ \E cmd \in LutCommands, req \in LutReuses, mode \in LutModes :
              Clock(cmd, req, mode)

HSpec == HInit /\ [][HNext]_hvars
---------------------------------------------------------------------------
(* Generation tagging, the second line of defence (page_state_lut.sv:67-83, *)
(* lifecycle_pkg.sv:124-143): a descriptor resolves exactly while its slot  *)
(* has not changed hands since it was read, with the interlock or without   *)
(* it, until the generation field has gone all the way round.               *)
StaleNeverResolves ==
  held # NoDesc /\ age < Lives =>
    (DescValid(ram[held.lifecycle_slot], held) <=> age = 0)
===========================================================================
