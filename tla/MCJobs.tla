-------------------------------- MODULE MCJobs --------------------------------
(***************************************************************************)
(* The two kinds of jobs that the main loop gives to worker threads, side  *)
(* by side: requests of the client, and runs of Qihe.  A behaviour is one  *)
(* of one of them; the other stays as it begins.                           *)
(***************************************************************************)
EXTENDS Requests, Qihe

VARIABLE kind    \* the jobs that are given out

JobsInit == kind \in {"requests", "qihe"} /\ Init /\ QiheInit

JobsNext ==
  /\ UNCHANGED kind
  /\ \/ kind = "requests" /\ Next /\ UNCHANGED qiheVars
     \/ kind = "qihe" /\ QiheNext /\ UNCHANGED vars

JobsSpec ==
  /\ JobsInit /\ [][JobsNext]_<<kind, vars, qiheVars>>
  /\ kind = "requests" => Fairness
  /\ kind = "qihe" => LoopFairness /\ CommandsEnd
=============================================================================
