---------------------------- MODULE TextStreamer ----------------------------
(***************************************************************************)
(* llm/mqsse: a TextStreamer and the block operations of its Publisher,    *)
(* called one after the other to publish one assistant message as events   *)
(* on a message queue.  mq.Publish may fail before or after the event has  *)
(* reached the topic.  The caller keeps to the order the operations are    *)
(* named for: preamble, blocks, epilogue; it closes the text block before  *)
(* a tool block or the epilogue, numbers a tool block with the streamer's  *)
(* exported BlockIndex and moves it on, may go on after WriteChunk or      *)
(* CloseBlock fails, and gives the message up when anything else fails.    *)
(***************************************************************************)
EXTENDS SequenceOps

CONSTANTS
  Chunks,     \* texts other than ""
  MaxChunks,  \* bound: WriteChunk calls in a behaviour
  MaxBlocks,  \* bound: content blocks in a message
  MaxEvents   \* bound: events on the topic when a Publish fails late

ASSUME StreamerAssumption ==
  MaxChunks \in Nat /\ MaxBlocks \in Nat /\ MaxEvents \in Nat

VARIABLES
  publishing,    \* publisher # nil
  text,          \* messageBuilder
  BlockIndex,
  blockStarted,
  phase,         \* the caller: "new", "blocks", "ended", "gaveup"
  op,            \* the operation under way, or "none"
  todo,          \* the events it has yet to publish
  topic,         \* the events that reached the topic
  late           \* history: some Publish failed after the event was stored

streamVars == <<publishing, text, BlockIndex, blockStarted, phase, op, todo, topic,
          late>>

streamer == <<publishing, text, BlockIndex, blockStarted>>

MessageEvent(t) == [type |-> t, index |-> -1, kind |-> "message", text |-> "none"]
BlockStart(i, k) == [type |-> "start", index |-> i, kind |-> k, text |-> "none"]
Delta(i, k, c) == [type |-> "delta", index |-> i, kind |-> k, text |-> c]
BlockStop(i) == [type |-> "stop", index |-> i, kind |-> "block", text |-> "none"]

Opening == <<MessageEvent("message_start"), MessageEvent("ping")>>
Closing == <<MessageEvent("message_delta"), MessageEvent("message_stop")>>

ToolUse(i)    == <<BlockStart(i, "tool_use"), Delta(i, "tool_use", "none")>>
ToolResult(i) == <<BlockStart(i, "tool_result"), Delta(i, "tool_result", "none")>>

StreamInit ==
  /\ publishing \in BOOLEAN
  /\ text = <<>> /\ BlockIndex = 0 /\ blockStarted = FALSE
  /\ phase = "new" /\ op = "none" /\ todo = <<>> /\ topic = <<>>
  /\ late = FALSE

(* A message that was given up.                                            *)
StreamIdle ==
  /\ publishing = TRUE /\ text = <<>> /\ BlockIndex = 0 /\ blockStarted = FALSE
  /\ phase = "gaveup" /\ op = "none" /\ todo = <<>> /\ topic = <<>> /\ late = FALSE

BeginOp(o, events) == op' = o /\ todo' = events

SendStreamPreamble ==
  /\ publishing /\ phase = "new" /\ op = "none"
  /\ BeginOp("preamble", Opening)
  /\ UNCHANGED <<streamer, phase, topic, late>>

(* Without a publisher text is only accumulated. *)
Accumulate(c) ==
  /\ ~publishing /\ Len(text) < MaxChunks
  /\ text' = Append(text, c)
  /\ UNCHANGED <<publishing, BlockIndex, blockStarted, phase, op, todo, topic,
                 late>>

(* Fault: text is accumulated only when it continues a block. *)
WriteChunkForgets(c) ==
  LET start == IF blockStarted THEN <<>> ELSE <<BlockStart(BlockIndex, "text")>>
  IN
  /\ publishing /\ phase = "blocks" /\ op = "none"
  /\ Len(text) < MaxChunks /\ BlockIndex < MaxBlocks
  /\ text' = IF blockStarted THEN Append(text, c) ELSE text
  /\ BeginOp("write", Append(start, Delta(BlockIndex, "text", c)))
  /\ UNCHANGED <<publishing, BlockIndex, blockStarted, phase, topic, late>>

WriteChunk(c) ==
  LET start == IF blockStarted THEN <<>> ELSE <<BlockStart(BlockIndex, "text")>>
  IN
  /\ publishing /\ phase = "blocks" /\ op = "none"
  /\ Len(text) < MaxChunks /\ BlockIndex < MaxBlocks
  /\ text' = Append(text, c)
  /\ BeginOp("write", Append(start, Delta(BlockIndex, "text", c)))
  /\ UNCHANGED <<publishing, BlockIndex, blockStarted, phase, topic, late>>

CloseBlock ==
  /\ phase = "blocks" /\ op = "none" /\ blockStarted
  /\ BeginOp("close", <<BlockStop(BlockIndex)>>)
  /\ UNCHANGED <<streamer, phase, topic, late>>

ToolBlock(events) ==
  /\ publishing /\ phase = "blocks" /\ op = "none" /\ ~blockStarted
  /\ BlockIndex < MaxBlocks
  /\ BeginOp("tool", Append(events, BlockStop(BlockIndex)))
  /\ UNCHANGED <<streamer, phase, topic, late>>

SendToolUseBlock == ToolBlock(ToolUse(BlockIndex))
SendToolResultBlock == ToolBlock(ToolResult(BlockIndex))

SendStreamEpilogue ==
  /\ phase = "blocks" /\ op = "none" /\ ~blockStarted
  /\ BeginOp("epilogue", Closing)
  /\ UNCHANGED <<streamer, phase, topic, late>>

(* Publish returns nil: the operation goes on to its next event or ends.   *)
(* A text block has started once its first event is out, and has ended     *)
(* once its last one is.                                                   *)
PublishOk ==
  LET e    == Head(todo)
      last == Len(todo) = 1
  IN
  /\ op # "none"
  /\ topic' = Append(topic, e)
  /\ todo' = Tail(todo)
  /\ op' = IF last THEN "none" ELSE op
  /\ phase' = CASE last /\ op = "preamble" -> "blocks"
                [] last /\ op = "epilogue" -> "ended"
                [] OTHER -> phase
  /\ blockStarted' = \/ op = "write"
                     \/ op # "close" /\ blockStarted
  /\ BlockIndex' = IF last /\ op \in {"close", "tool"}
                   THEN BlockIndex + 1 ELSE BlockIndex
  /\ UNCHANGED <<publishing, text, late>>

(* Fault: CloseBlock resets its state before it looks at the error. *)
PublishFailsClosed ==
  /\ op # "none"
  /\ op' = "none" /\ todo' = <<>>
  /\ phase' = IF op \in {"write", "close"} THEN phase ELSE "gaveup"
  /\ blockStarted' = (op # "close" /\ blockStarted)
  /\ BlockIndex' = IF op = "close" THEN BlockIndex + 1 ELSE BlockIndex
  /\ UNCHANGED <<publishing, text, topic, late>>

(* It fails: the rest of the operation is dropped. *)
PublishFails ==
  /\ op # "none"
  /\ op' = "none" /\ todo' = <<>>
  /\ phase' = IF op \in {"write", "close"} THEN phase ELSE "gaveup"
  /\ \/ UNCHANGED <<topic, late>>
     \/ /\ Len(topic) < MaxEvents
        /\ topic' = Append(topic, Head(todo))
        /\ late' = TRUE
  /\ UNCHANGED streamer

StreamNext ==
  \/ SendStreamPreamble \/ CloseBlock \/ SendStreamEpilogue
  \/ \E c \in Chunks : Accumulate(c) \/ WriteChunk(c)
  \/ SendToolUseBlock \/ SendToolResultBlock
  \/ PublishOk \/ PublishFails

StreamSpec == StreamInit /\ [][StreamNext]_streamVars
-----------------------------------------------------------------------------
(* What a reader of the stream makes of it: where it is, the next block's  *)
(* index, and the kind of the open block.                                  *)
Reader == [at : {"start", "blocks", "block", "delta", "stop", "bad"},
           index : Nat, kind : {"none", "text", "tool_use", "tool_result"}]

Reads(r, e) ==
  CASE r.at = "start" /\ e.type = "message_start" -> [r EXCEPT !.at = "blocks"]
    [] r.at = "blocks" /\ e.type = "ping" -> r
    [] r.at = "blocks" /\ e.type = "start" /\ e.index = r.index ->
         [r EXCEPT !.at = "block", !.kind = e.kind]
    [] r.at = "block" /\ e.type = "delta" /\ e.index = r.index /\ e.kind = r.kind -> r
    [] r.at = "block" /\ e.type = "stop" /\ e.index = r.index ->
         [at |-> "blocks", index |-> r.index + 1, kind |-> "none"]
    [] r.at = "blocks" /\ e.type = "message_delta" -> [r EXCEPT !.at = "delta"]
    [] r.at = "delta" /\ e.type = "message_stop" -> [r EXCEPT !.at = "stop"]
    [] OTHER -> [r EXCEPT !.at = "bad"]

reader == InOrder(Reads, [at |-> "start", index |-> 0, kind |-> "none"], topic)

Receives(t, e) == IF e.type = "delta" /\ e.kind = "text" THEN Append(t, e.text) ELSE t

Received == InOrder(Receives, <<>>, topic)

(* Types of the streamer and of its caller; without a publisher no block   *)
(* is ever open.                                                           *)
StreamTypeOK ==
  /\ publishing \in BOOLEAN /\ late \in BOOLEAN
  /\ text \in Seq(Chunks) /\ BlockIndex \in 0 .. MaxBlocks
  /\ blockStarted \in BOOLEAN /\ (blockStarted => publishing)
  /\ phase \in {"new", "blocks", "ended", "gaveup"}
  /\ op \in {"none", "preamble", "write", "close", "tool", "epilogue"}
  /\ (op = "none") = (todo = <<>>)

(* A delta follows the start of the block it belongs to, with no other     *)
(* block started in between.                                               *)
DeltaAfterStart(d) ==
  \E j \in 1 .. d - 1 :
    /\ topic[j].type = "start"
    /\ topic[j].index = topic[d].index /\ topic[j].kind = topic[d].kind
    /\ \A n \in j + 1 .. d - 1 :
         topic[n].type = "start" => topic[n].index = topic[j].index
                                    /\ topic[n].kind = topic[j].kind

(* Whatever calls fail and are made again or given up, the topic holds a   *)
(* message a reader can follow: numbered blocks, each started, filled and  *)
(* stopped in turn, and all of it there once the epilogue is out.  If an   *)
(* event was stored by a Publish that failed it may be there twice; every  *)
(* delta then still follows the start of its block.                        *)
Readable ==
  /\ ~late => reader.at # "bad" /\ (phase = "ended" => reader.at = "stop")
  /\ \A d \in DOMAIN topic : topic[d].type = "delta" => DeltaAfterStart(d)

(* Text() has all that a reader was sent, in that order, whatever failed:  *)
(* WriteChunk accumulates before it publishes.                             *)
TextHasReceived ==
  \E f \in [DOMAIN Received -> DOMAIN text] :
    \A i, j \in DOMAIN Received :
      text[f[i]] = Received[i] /\ (i < j => f[i] < f[j])
=============================================================================
