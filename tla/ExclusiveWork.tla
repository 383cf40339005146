---------------------------- MODULE ExclusiveWork ----------------------------
(***************************************************************************)
(* What the durable queue promises its handlers, whatever the states and   *)
(* timestamps of its rows: no job is handled by two workers at a time, and *)
(* a job that has been closed (cancelled or suppressed) is never handled   *)
(* again.  JobQueue implements this module.                                *)
(***************************************************************************)
CONSTANTS Jobs, Workers, NoJob

VARIABLES handling,     \* the job each worker's handler is executing
          closed        \* the jobs that are over for good

vars == <<handling, closed>>

Init ==
    /\ handling = [w \in Workers |-> NoJob]
    /\ closed = {}

Start(w, j) ==
    /\ handling[w] = NoJob
    /\ j \notin closed
    /\ \A v \in Workers : handling[v] # j
    /\ handling' = [handling EXCEPT ![w] = j]
    /\ UNCHANGED closed

\* The handlers of W end, by returning or by a crash, and the jobs of J close;
\* a handler that goes on is not executing a closed job.
StopAndClose(W, J) ==
    /\ handling' = [w \in Workers |-> IF w \in W THEN NoJob ELSE handling[w]]
    /\ closed' = closed \cup J
    /\ \A w \in Workers : handling'[w] \notin J

Next ==
    \/ \E w \in Workers, j \in Jobs : Start(w, j)
    \/ \E W \in SUBSET Workers, J \in SUBSET Jobs : StopAndClose(W, J)

Spec == Init /\ [][Next]_vars

=============================================================================
