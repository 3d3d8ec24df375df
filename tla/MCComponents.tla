---------------------------- MODULE MCComponents ----------------------------
(* Components that work for one caller at a time, one component at a time:  *)
(* "part" names the one that runs, the others stay idle.                    *)
EXTENDS TextStreamer, LokiHandler, ClaudeClient, Heartbeat, WorkflowGate, GormSlogLogger

CONSTANT Parts  \* the components to run

AttrLists == {<<"user">>, <<"service", "user">>}
Labels == {<<"service">>, <<"g", "user">>}

WaitConfig(i, c, m, n) == [initial |-> i, coefficient |-> c, max |-> m, attempts |-> n]
WaitConfigs == {WaitConfig(0, 0, 0, 0), WaitConfig(1, 3, 20, 3), WaitConfig(20, 1, 0, 1), WaitConfig(20, 0, 0, 2)}

Awkward == {"'", "\\", "$"}
LiteralBodies ==
  {<<>>, <<"a">>} \cup {<<x>> : x \in Awkward} \cup {<<x, y>> : x \in Awkward, y \in {"'", "\\", "a"}}

VARIABLE part

ComponentsInit ==
  /\ part \in Parts
  /\ IF part = "stream" THEN StreamInit ELSE StreamIdle
  /\ IF part = "loki" THEN LokiInit ELSE LokiIdle
  /\ IF part = "client" THEN ClientInit ELSE ClientIdle
  /\ IF part = "heartbeat" THEN BeatInit ELSE BeatIdle
  /\ IF part = "gate" THEN GateInit ELSE GateIdle
  /\ IF part = "log" THEN LogInit ELSE LogIdle

ComponentsNext ==
  /\ UNCHANGED part
  /\ \/ part = "stream" /\ StreamNext /\ UNCHANGED <<lokiVars, clientVars, beatVars, gateVars, logVars>>
     \/ part = "loki" /\ LokiNext /\ UNCHANGED <<streamVars, clientVars, beatVars, gateVars, logVars>>
     \/ part = "client" /\ ClientNext /\ UNCHANGED <<streamVars, lokiVars, beatVars, gateVars, logVars>>
     \/ part = "heartbeat" /\ BeatNext /\ UNCHANGED <<streamVars, lokiVars, clientVars, gateVars, logVars>>
     \/ part = "gate" /\ GateNext /\ UNCHANGED <<streamVars, lokiVars, clientVars, beatVars, logVars>>
     \/ part = "log" /\ LogNext /\ UNCHANGED <<streamVars, lokiVars, clientVars, beatVars, gateVars>>

ComponentsSpec ==
  ComponentsInit /\ [][ComponentsNext]_<<part, streamVars, lokiVars, clientVars, beatVars, gateVars, logVars>>
=============================================================================
