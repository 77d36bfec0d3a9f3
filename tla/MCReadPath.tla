---------------------------- MODULE MCReadPath ----------------------------
(***************************************************************************)
(* Input sets for TLC.  A beat is 2 bytes and a page 4 or 8, so that a    *)
(* burst can be misaligned, cross a page, or leave the window.             *)
(***************************************************************************)
EXTENDS ReadPath

Req(t, a, l, c) ==
  [desc |-> [ZeroDesc EXCEPT !.transaction_tag = t], addr |-> a, len |-> l,
   sigchk |-> c]

(* One good request per tag, of one or of two beats; one tag has its        *)
(* payload checked.                                                         *)
FirstTag == CHOOSE t \in Tags : TRUE
GoodReqs == {Req(t, 0, l, t = FirstTag) : t \in Tags, l \in BurstLens}

(* Good requests of every tag, and of one tag those that start misaligned,  *)
(* cross the page, or run over the end of the window.                       *)
ContendingReqs ==
  GoodReqs \cup {Req(FirstTag, 1, 0, FALSE), Req(FirstTag, 2, 1, FALSE),
                 Req(FirstTag, 4, 1, FALSE)}
SixBytes == {[base |-> 0, limit |-> 6]}

WholePage == {[base |-> 0, limit |-> 8]}
===========================================================================
