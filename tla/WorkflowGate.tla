---------------------------- MODULE WorkflowGate ----------------------------
(* temporal/wait.go and temporal/workflow.go: a workflow waits, through the *)
(* retries of one activity, until no workflow of a type is running, while   *)
(* such workflows start, pause, continue as new and end and a client asks   *)
(* for their status.  Temporal is external: Describe sees the latest run of *)
(* an id at once, the visibility store that ListWorkflow reads is brought   *)
(* up to date later, run by run.                                            *)
EXTENDS Integers, FiniteSetsExt, Functions

CONSTANTS
  Flows,    \* ids of the workflows of the type
  MaxRuns,  \* bound: runs of one id
  Configs   \* what a caller passes: [initial, coefficient, max, attempts]

ASSUME ConfigsAssumption ==
  /\ MaxRuns \in Nat \ {0}
  /\ \A c \in Configs : {c.initial, c.coefficient, c.max, c.attempts} \subseteq Nat

(* "FAILED" stands for FAILED, CANCELED, TERMINATED and TIMED_OUT.          *)
Closed == {"COMPLETED", "FAILED"}
Statuses == {"UNSPECIFIED", "RUNNING", "PAUSED", "CONTINUED_AS_NEW"} \cup Closed

VARIABLES
  status,    \* status of each run of each id, "none" where there is no run
  latest,    \* the number of the latest run of each id, 0 without one
  visible,   \* the status the visibility store has for each run
  told,      \* the client's last answer from GetStatus, and the run it was about
  gate,      \* the wait: "off", "attempt", "backoff", "clear", "gave up", "refused"
  config,    \* its config, defaults applied
  attempt,   \* the attempt of the activity
  interval,  \* the next retry interval, in minutes
  waited,    \* minutes between attempts so far
  steady     \* history: ids whose first run was indexed as running before
             \* the wait and has been running since

gateVars == <<status, latest, visible, told, gate, config, attempt, interval, waited, steady>>

NotTold == [flow |-> "none", run |-> 0, status |-> "none", terminal |-> FALSE]

Default(value, default) == IF value = 0 THEN default ELSE value

applyDefaults(c) ==
  [initial |-> Default(c.initial, 5), coefficient |-> Default(c.coefficient, 2),
   max |-> Default(c.max, 15), attempts |-> Default(c.attempts, 4)]

NoConfig == [initial |-> 0, coefficient |-> 0, max |-> 0, attempts |-> 0]

(* Some ids have a run that is indexed; the others have none yet.           *)
GateInit ==
  /\ latest \in [Flows -> {0, 1}]
  /\ status = [w \in Flows |-> [k \in 1..MaxRuns |-> IF k <= latest[w] THEN "RUNNING" ELSE "none"]]
  /\ visible = status /\ told = NotTold
  /\ gate = "attempt" /\ config \in {applyDefaults(c) : c \in Configs}
  /\ attempt = 1 /\ interval = config.initial /\ waited = 0
  /\ steady = {w \in Flows : latest[w] = 1}

GateIdle ==
  /\ latest = [w \in Flows |-> 0]
  /\ status = [w \in Flows |-> [k \in 1..MaxRuns |-> "none"]] /\ visible = status
  /\ told = NotTold /\ gate = "off" /\ config = applyDefaults(NoConfig)
  /\ attempt = 1 /\ interval = 5 /\ waited = 0 /\ steady = {}

(* The latest run of id w is one of S.                                      *)
LatestIs(w, S) == latest[w] > 0 /\ status[w][latest[w]] \in S

(* An id without an open run may be given a run.                            *)
StartRun(w) ==
  /\ latest[w] < MaxRuns /\ (latest[w] = 0 \/ LatestIs(w, Closed))
  /\ latest' = [latest EXCEPT ![w] = @ + 1]
  /\ status' = [status EXCEPT ![w][latest[w] + 1] = "RUNNING"]
  /\ UNCHANGED <<visible, told, gate, config, attempt, interval, waited, steady>>

(* An open run pauses, resumes or ends.                                     *)
RunChanges(w, s) ==
  /\ LatestIs(w, {"RUNNING", "PAUSED"} \ {s})
  /\ status' = [status EXCEPT ![w][latest[w]] = s] /\ steady' = steady \ {w}
  /\ UNCHANGED <<latest, visible, told, gate, config, attempt, interval, waited>>

(* A run ends and its successor starts in one transaction.                  *)
ContinueAsNew(w) ==
  /\ LatestIs(w, {"RUNNING"}) /\ latest[w] < MaxRuns
  /\ latest' = [latest EXCEPT ![w] = @ + 1]
  /\ status' = [status EXCEPT ![w] = [@ EXCEPT ![latest[w]] = "CONTINUED_AS_NEW", ![latest[w] + 1] = "RUNNING"]]
  /\ steady' = steady \ {w}
  /\ UNCHANGED <<visible, told, gate, config, attempt, interval, waited>>

Index(w, k) ==
  /\ visible[w][k] # status[w][k] /\ visible' = [visible EXCEPT ![w][k] = status[w][k]]
  /\ UNCHANGED <<status, latest, told, gate, config, attempt, interval, waited, steady>>

(* Fault: whatever is not running counts as over. *)
isWorkflowStatusTerminalUnlessRunning(s) == s # "RUNNING"

isWorkflowStatusTerminal(s) == s \in Closed \cup {"UNSPECIFIED"}

(* DescribeWorkflowExecution of the latest run.  UNSPECIFIED is what an     *)
(* answer without the field is decoded to.                                  *)
Describe(w) == {status[w][latest[w]], "UNSPECIFIED"}

(* GetStatus, which answers ErrNotFound for an id without a run; IsRunning  *)
(* and IsCompletedSuccessfully read this answer.                            *)
GetStatus(w) ==
  /\ latest[w] > 0
  /\ \E s \in Describe(w) :
       told' = [flow |-> w, run |-> latest[w], status |-> s, terminal |-> isWorkflowStatusTerminal(s)]
  /\ UNCHANGED <<status, latest, visible, gate, config, attempt, interval, waited, steady>>

IsRunning == told.status = "RUNNING"
IsCompletedSuccessfully == told.terminal /\ told.status = "COMPLETED"

(* ListWorkflow by type and ExecutionStatus="Running".                      *)
IsWorkflowTypeRunning == \E w \in Flows : \E k \in 1..MaxRuns : visible[w][k] = "RUNNING"

(* The Temporal service checks a retry policy before it schedules anything: *)
(* defaults can put a maximum below the initial interval the caller chose.  *)
validateRetryPolicy(c) == c.attempts = 1 \/ c.initial <= c.max

Refuse ==
  /\ gate = "attempt" /\ ~validateRetryPolicy(config) /\ gate' = "refused"
  /\ UNCHANGED <<status, latest, visible, told, config, attempt, interval, waited, steady>>

ActivityFails ==
  /\ gate' = IF attempt < config.attempts THEN "backoff" ELSE "gave up"
  /\ UNCHANGED <<status, latest, visible, told, config, attempt, interval, waited, steady>>

(* Fault: a failed query is read as "clear". *)
ActivityTakesErrorAsClear ==
  /\ gate = "attempt" /\ gate' = "clear" /\ UNCHANGED <<status, latest, visible, told, config, attempt, interval, waited, steady>>

(* The activity finds the type running or clear, or its query fails or      *)
(* outlasts StartToCloseTimeout.                                            *)
Activity ==
  /\ gate = "attempt" /\ validateRetryPolicy(config)
  /\ \/ ActivityFails
     \/ /\ ~IsWorkflowTypeRunning /\ gate' = "clear"
        /\ UNCHANGED <<status, latest, visible, told, config, attempt, interval, waited, steady>>

(* Fault: MaximumInterval is not passed on. *)
RetryUncapped ==
  /\ gate = "backoff" /\ gate' = "attempt" /\ attempt' = attempt + 1
  /\ waited' = waited + interval
  /\ interval' = interval * config.coefficient
  /\ UNCHANGED <<status, latest, visible, told, config, steady>>

(* Temporal's RetryPolicy: the interval passes and is multiplied, up to the *)
(* maximum.                                                                 *)
Retry ==
  /\ gate = "backoff" /\ gate' = "attempt" /\ attempt' = attempt + 1
  /\ waited' = waited + interval
  /\ interval' = Min({interval * config.coefficient, config.max})
  /\ UNCHANGED <<status, latest, visible, told, config, steady>>

GateNext ==
  \/ Refuse \/ Activity \/ Retry
  \/ \E w \in Flows : StartRun(w) \/ ContinueAsNew(w) \/ GetStatus(w)
  \/ \E w \in Flows, s \in {"RUNNING", "PAUSED"} \cup Closed : RunChanges(w, s)
  \/ \E w \in Flows, k \in 1..MaxRuns : Index(w, k)

GateFairness == WF_gateVars(Refuse) /\ WF_gateVars(Activity) /\ WF_gateVars(Retry)

GateSpec == GateInit /\ [][GateNext]_gateVars /\ GateFairness
----------------------------------------------------------------------------
(* Types of the state of the wait.                                          *)
GateTypeOK ==
  /\ status \in [Flows -> [1..MaxRuns -> Statuses \cup {"none"}]]
  /\ visible \in [Flows -> [1..MaxRuns -> Statuses \cup {"none"}]]
  /\ latest \in [Flows -> 0..MaxRuns] /\ steady \subseteq Flows
  /\ \/ told = NotTold
     \/ told.flow \in Flows /\ told.run \in 1..latest[told.flow] /\ told.status \in Statuses
  /\ gate \in {"off", "attempt", "backoff", "clear", "gave up", "refused"}
  /\ attempt \in 1..config.attempts /\ interval \in Nat /\ waited \in Nat

(* WaitForWorkflowTypeClear answers nil only when no workflow that was      *)
(* already running and indexed when the wait began is still in that run: a  *)
(* failed or late query is never read as "clear".                           *)
GateHolds == gate = "clear" => steady = {}

(* It gives up only after MaximumAttempts attempts, with the gaps of an     *)
(* exponential backoff between them, one fewer than the attempts:           *)
(* Initial * Coefficient^k, up to Maximum.                                  *)
Power(c, n) ==
  LET power[k \in 0..n] == IF k = 0 THEN 1 ELSE c * power[k - 1]
  IN power[n]

BackoffGap(k) == Min({config.initial * Power(config.coefficient, k), config.max})

GivesUpInTime ==
  gate = "gave up" => /\ attempt = config.attempts
                      /\ waited = SumFunction([k \in 0..config.attempts - 2 |-> BackoffGap(k)])

(* WaitForWorkflowTypeClearConfig says of its defaults: "5min, 10min,       *)
(* 15min, 15min ... total ~45min wait across 4 attempts before giving up".  *)
DefaultsWaitAsDocumented ==
  gate = "gave up" /\ config = applyDefaults(NoConfig) => waited = 45

(* GetStatus: a run it calls terminal has ended and keeps that status, also *)
(* when the id is used for another run: IsCompletedSuccessfully never takes *)
(* back its answer, and a paused or continued run is not over.  The         *)
(* exception is an answer without a status, which counts as terminal        *)
(* although the run may be running.                                         *)
TerminalIsFinal ==
  told.terminal =>
    \/ told.status = "UNSPECIFIED"
    \/ told.status \in Closed /\ status[told.flow][told.run] = told.status

(* The wait is over, or none was asked for.                                 *)
WaitOver == gate \in {"clear", "gave up", "refused", "off"}
=============================================================================
