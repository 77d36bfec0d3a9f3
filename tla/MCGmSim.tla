------------------------------ MODULE MCGmSim ------------------------------
(* Small traces for TLC.  Times are a few cycles, transfers one or two beats*)
(* of two bytes.                                                            *)
EXTENDS GmSim, TLC

CONSTANTS pA, pB, pC, pX, t1, t2

Fetch(p, t, c, b, h, held) ==
  [page |-> p, tenant |-> t, tclass |-> c, bytes |-> b, headroom |-> h,
   held |-> held]

(* Two pages and a speculative expert over the frames; page A is fetched    *)
(* twice, once held.  Each speculative page is fetched once.                *)
MixedTrace ==
  {Fetch(pA, t1, "MANDATORY", 2, 3, TRUE),
   Fetch(pA, t1, "MANDATORY", 4, 1, FALSE),
   Fetch(pB, t2, "MANDATORY", 4, 2, FALSE),
   Fetch(pX, t2, "SPECULATIVE", 2, 2, FALSE)}

TwoFramesTrace ==
  MixedTrace \cup {Fetch(pC, t1, "MANDATORY", 2, 4, FALSE)}
(* Two speculative fetches of one page, and two pages that want its frame.  *)
RepeatedSpeculation ==
  {Fetch(pX, t1, "SPECULATIVE", 4, 9, FALSE),
   Fetch(pX, t1, "SPECULATIVE", 4, 8, FALSE),
   Fetch(pA, t2, "MANDATORY", 8, 9, FALSE),
   Fetch(pB, t2, "MANDATORY", 4, 9, FALSE)}
=============================================================================
