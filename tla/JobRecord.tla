------------------------------ MODULE JobRecord ------------------------------
(***************************************************************************)
(* What the record of a job promises about its command, whoever writes it: *)
(* the abstract specification that RemoteJobs implements.                  *)
(*                                                                         *)
(* The record is opened as running, settled once, and its verdict can be   *)
(* believed as long as nothing has failed.  After a failure only two       *)
(* promises are left: "done" is never wrong, and "stale" is wrong only     *)
(* for a job that was given up without a look at its process.              *)
(***************************************************************************)
CONSTANT Jobs

VARIABLES
    status,     \* status[j]: the status in meta.json, "absent" without one
    process,    \* process[j]: the command: "none", "alive", "over"
    trusted,    \* has nothing failed yet?
    blind       \* the jobs given up without a look

vars == <<status, process, trusted, blind>>

Init ==
    /\ status = [j \in Jobs |-> "absent"]
    /\ process = [j \in Jobs |-> "none"]
    /\ trusted = TRUE
    /\ blind = {}

(* run_remote saves the first record before anything is started.           *)
Open(j) ==
    /\ status[j] = "absent" /\ process[j] = "none"
    /\ status' = [status EXCEPT ![j] = "running"]
    /\ UNCHANGED <<process, trusted, blind>>

(* The verdicts that say the command has ended; "failed" does not say so.  *)
Verdicts == {"done", "timeout", "stopped", "stale"}

(* A verdict while nothing has failed.  A stop and a query that both saw   *)
(* the job running may each save theirs, in either order.                  *)
Settle(j, verdict) ==
    /\ trusted
    /\ \/ status[j] = "running"
       \/ {status[j], verdict} \subseteq {"stopped", "stale"}
    /\ verdict \in Verdicts => process[j] = "over"
    /\ status' = [status EXCEPT ![j] = verdict]
    /\ UNCHANGED <<process, trusted, blind>>

(* After a failure any writer may overwrite any other.                     *)
Overwrite(j, verdict) ==
    /\ ~trusted
    /\ status[j] # "absent"
    /\ verdict = "done" => process[j] = "over"
    /\ verdict = "stale" => process[j] = "over" \/ j \in blind
    /\ status' = [status EXCEPT ![j] = verdict]
    /\ UNCHANGED <<process, trusted, blind>>

Start(j) ==
    /\ process[j] = "none"
    /\ \E p \in {"alive", "over"} : process' = [process EXCEPT ![j] = p]
    /\ UNCHANGED <<status, trusted, blind>>

End(j) ==
    /\ process[j] = "alive"
    /\ process' = [process EXCEPT ![j] = "over"]
    /\ UNCHANGED <<status, trusted, blind>>

(* Something fails: commands may end with it, and jobs may be given up.    *)
Fail ==
    /\ trusted' = FALSE
    /\ \E J \in SUBSET Jobs :
          process' = [j \in Jobs |-> IF j \in J /\ process[j] = "alive"
                                     THEN "over" ELSE process[j]]
    /\ \E J \in SUBSET Jobs : blind' = blind \cup J
    /\ UNCHANGED status

Next ==
    \/ Fail
    \/ \E j \in Jobs :
          \/ Open(j) \/ Start(j) \/ End(j)
          \/ \E verdict \in Verdicts \cup {"running", "failed"} :
                Settle(j, verdict) \/ Overwrite(j, verdict)

Spec == Init /\ [][Next]_vars
=============================================================================
