--------------------------- MODULE MCLutHistory ---------------------------
(***************************************************************************)
(* LutHistory under the input sets of MCPageStateLut.                      *)
(***************************************************************************)
EXTENDS LutHistory, MCPageStateLut

(* Raw commands, and completions through any descriptor. *)
HistoryCommands ==
  {Idle} \cup {c \in RawCommands : c.ev \notin {"FILL_ST", "FILL_DN"}}
         \cup {c \in DescCommands : c.ev = "COMPLETE"}
===========================================================================
