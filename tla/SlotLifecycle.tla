--------------------------- MODULE SlotLifecycle --------------------------
(***************************************************************************)
(* What the reuse interlock promises, without commands, descriptors or     *)
(* responses: every slot goes through a succession of lives, in each life  *)
(* it has some number of uses, and a new life begins only when the slot has*)
(* no use left, and begins with none.                                      *)
(***************************************************************************)
EXTENDS Integers

CONSTANTS Slot, LifeMax
VARIABLES life, uses

slvars == <<life, uses>>

SLInit == /\ life = [s \in Slot |-> 0]
          /\ uses = [s \in Slot |-> 0]

NextLife(s) == IF life[s] = LifeMax THEN 0 ELSE life[s] + 1

(* One use of slot s begins or ends. *)
Use(s) == \E d \in {-1, 1} : /\ uses[s] + d >= 0
                             /\ uses' = [uses EXCEPT ![s] = @ + d]

Touch(s) == Use(s) /\ UNCHANGED life

(* Slot s passes to its next life; in the same instant a use of one other   *)
(* slot may begin or end.                                                   *)
HandOver(s) == /\ uses[s] = 0
               /\ life' = [life EXCEPT ![s] = NextLife(s)]
               /\ UNCHANGED uses \/ \E t \in Slot \ {s} : Use(t)

(* A reset ends every life at once. *)
Restart == /\ life' = [s \in Slot |-> 0]
           /\ uses' = [s \in Slot |-> 0]

SLNext == Restart \/ \E s \in Slot : Touch(s) \/ HandOver(s)
SLSpec == SLInit /\ [][SLNext]_slvars
===========================================================================
