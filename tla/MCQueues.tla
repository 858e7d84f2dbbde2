------------------------------ MODULE MCQueues ------------------------------
(* What waits for somebody else, in one run: the outbox under two           *)
(* deployments (the running program, where nobody recovers stale rows and   *)
(* batches may be slow; and an operator who calls recoverStalePublishing,   *)
(* with batches that finish within their lock), the live monitor's streams, *)
(* and the phone's offline queue.  Which scene it is never changes; what is *)
(* not in the scene stays as it was.                                        *)
EXTENDS MCOutbox, LiveMonitor, ReaderQueue

VARIABLE scene

Kept  == INSTANCE Outbox WITH Recovers <- TRUE, Slow <- FALSE

ASSUME QueueAssumption /\ MonitorAssumption

QueuesInit ==
    /\ scene \in {"program", "operator", "monitor", "phone"}
    /\ Init /\ QueueInit /\ MonitorInit

QueuesNext ==
    /\ UNCHANGED scene
    /\ \/ /\ scene = "program" /\ Next
          /\ UNCHANGED <<queueVars, monitorVars>>
       \/ /\ scene = "operator" /\ Kept!Next
          /\ UNCHANGED <<queueVars, monitorVars>>
       \/ /\ scene = "monitor" /\ MonitorNext
          /\ UNCHANGED <<vars, queueVars>>
       \/ /\ scene = "phone" /\ QueueNext
          /\ UNCHANGED <<vars, monitorVars>>

\* The fairness of Outbox, where only an operator recovers rows, and of
\* ReaderQueue.
QueuesFairness ==
    /\ \A b \in Batch : /\ WF_vars(scene \in {"program", "operator"} /\ Claim(b))
                        /\ WF_vars(scene \in {"program", "operator"} /\ Publish(b))
    /\ \A e \in Event : WF_vars(scene = "operator" /\ Kept!LockExpires(e))
    /\ WF_vars(scene = "operator" /\ Kept!Recover)
    /\ WF_queueVars(scene = "phone" /\ StartFlush)
    /\ WF_queueVars(scene = "phone" /\ FlushStep)
    /\ WF_queueVars(scene = "phone" /\ \E r \in Answers : LiveAnswer(r))

QueuesSpec ==
    /\ QueuesInit /\ [][QueuesNext]_<<vars, queueVars, monitorVars, scene>>
    /\ QueuesFairness

-----------------------------------------------------------------------------
\* Without an operator, consumers see an event at most once per attempt and a
\* row gets at most MAX_ATTEMPTS of them (Outbox's CopiesBounded; a recovered
\* row is claimed once more, whatever its attempts).
ProgramCopiesBounded == scene = "program" => CopiesBounded

\* With an operator, every row that is written is published or given up,
\* although a batch died and an update failed (recoverStalePublishing).
KeptSettled == \A e \in Event :
    scene = "operator" /\ status[e] = "PENDING" ~> status[e] \in {"PUBLISHED", "DLQ"}
=============================================================================
