-------------------------- MODULE MCPageStateLut --------------------------
(***************************************************************************)
(* Input sets for TLC: which commands, reuse requests and bypass settings  *)
(* the table is presented with.                                            *)
(***************************************************************************)
EXTENDS PageStateLut

Idle == [valid |-> FALSE, ev |-> "ACQUIRE", use_desc |-> FALSE,
         desc |-> [lifecycle_slot |-> CHOOSE s \in Slots : TRUE,
                   phys_idx |-> FrameZero, expected_generation |-> 0,
                   transaction_tag |-> CHOOSE t \in Tags : TRUE,
                   tenant |-> TenantZero]]
NoReq == [valid |-> FALSE, slot |-> CHOOSE s \in Slots : TRUE,
          phys |-> FrameZero, tenant |-> TenantZero]

(* Raw commands ignore every field of the descriptor but the slot. *)
RawCommands == {[Idle EXCEPT !.valid = TRUE, !.ev = ev,
                             !.desc.lifecycle_slot = s] :
                  ev \in LcEvents, s \in Slots}

(* Commands that resolve through a descriptor: fresh, stale, for another    *)
(* frame or for another tenant.                                             *)
DescCommands == {c \in LcCmd : c.valid /\ c.use_desc}
CompleteByDesc == {c \in DescCommands : c.ev = "COMPLETE"}

AllCommands == {Idle} \cup RawCommands \cup CompleteByDesc
AllReuses == {NoReq} \cup {r \in ReuseReq : r.valid}

SafeMode == {[unsafe_bypass |-> FALSE, no_generation_check |-> FALSE]}
EveryMode == BypassMode
===========================================================================
