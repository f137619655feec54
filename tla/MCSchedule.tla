------------------------------ MODULE MCSchedule ------------------------------
(***************************************************************************)
(* The daily tasks at the times the code gives them when config.ini does   *)
(* not: the scan at 00:00 and the backup later in the day.                 *)
(***************************************************************************)
EXTENDS Scheduler, TLC

CONSTANTS scan, backup

DefaultTimes == scan :> 0 @@ backup :> 40
===============================================================================
