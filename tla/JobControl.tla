----------------------------- MODULE JobControl -----------------------------
(***************************************************************************)
(* What tsh promises about its jobs, from the table of job states and      *)
(* enabling actions at the head of tsh.c (lines 33-41): a job is started   *)
(* in the foreground or the background, moves between foreground,          *)
(* background and stopped only along the listed transitions, and at most   *)
(* one job is in the foreground.  A job that has left the list does not    *)
(* come back.                                                              *)
(***************************************************************************)
CONSTANT Pids

VARIABLE job     \* job[p]: "none" before p is a job, "done" after

JCInit == job = [p \in Pids |-> "none"]

ForegroundFree == \A q \in Pids : job[q] # "FG"

Become(p, from, to) ==
  /\ job[p] \in from
  /\ to = "FG" => ForegroundFree
  /\ job' = [job EXCEPT ![p] = to]

StartFG(p) == Become(p, {"none"}, "FG")         \* program
StartBG(p) == Become(p, {"none"}, "BG")         \* program &
CtrlZ(p) == Become(p, {"FG"}, "ST")
FgCommand(p) == Become(p, {"ST", "BG"}, "FG")
BgCommand(p) == Become(p, {"ST"}, "BG")
Finish(p) == Become(p, {"FG", "BG", "ST"}, "done")
Refuse(p) == Become(p, {"none"}, "done")        \* too many jobs

JCNext == \E p \in Pids :
  \/ StartFG(p) \/ StartBG(p) \/ CtrlZ(p) \/ FgCommand(p) \/ BgCommand(p)
  \/ Finish(p) \/ Refuse(p)

JCSpec == JCInit /\ [][JCNext]_job
=============================================================================
