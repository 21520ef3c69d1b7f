------------------------------ MODULE SseStream ------------------------------
(***************************************************************************)
(* One streamed request: Agent::fetch_response, the pump task that         *)
(* OpenAIAdapter::stream spawns, and the bounded channel between them.     *)
(*                                                                         *)
(* The server writes Lines lines, each in two pieces, so that the bytes    *)
(* written are a position: 2n ends line n, 2n - 1 is inside it.  A chunk   *)
(* is whatever lies between two positions.  The pump's buffer is what lies *)
(* between the position it has drained and the position it has taken.      *)
(***************************************************************************)
EXTENDS Naturals, Sequences

CONSTANTS
  Lines,   \* bound: lines of the response
  Buffer   \* STREAM_BUFFER

ASSUME StreamAssumption == Lines \in Nat /\ Buffer \in Nat \ {0}

VARIABLES
  \* The server and the connection.
  kind,     \* what each line carries
  conn,     \* none, open, closed by the server, or broken
  sent,     \* position written
  \* The pump task.
  pump,     \* none, reading, draining, failing (sends the error), ended
  taken,    \* position read into the buffer
  drained,  \* position moved out of the buffer
  damaged,  \* lines cut by a chunk inside a character
  channel,  \* events not yet received
  \* The agent.
  agent,    \* posting, receiving, done
  text,     \* the deltas received: the line, and whether it is as it was sent
  result    \* of fetch_response; "dropped" with the run that timed out

serverVars == <<kind, conn, sent>>
pumpVars == <<pump, taken, drained, damaged>>
agentVars == <<agent, text, result>>
vars == <<serverVars, pumpVars, channel, agentVars>>

(* A line with text, with nothing but white space in it, with the end of   *)
(* the turn, or one that parse_sse_line ignores.                           *)
LineKinds == {"text", "blank", "done", "noise"}

Deltas == {n \in 1..Lines : kind[n] \in {"text", "blank"}}

Init ==
  /\ kind \in [1..Lines -> LineKinds]
  /\ conn = "none"
  /\ sent = 0
  /\ pump = "none"
  /\ taken = 0
  /\ drained = 0
  /\ damaged = {}
  /\ channel = <<>>
  /\ agent = "posting"
  /\ text = <<>>
  /\ result = "none"

-----------------------------------------------------------------------------
(* The server. *)

ServerWrites ==
  /\ conn = "open"
  /\ sent < 2 * Lines
  /\ sent' = sent + 1
  /\ UNCHANGED <<kind, conn, pumpVars, channel, agentVars>>

ServerEnds ==
  /\ conn = "open"
  /\ conn' \in {"closed", "broken"}
  /\ UNCHANGED <<kind, sent, pumpVars, channel, agentVars>>

-----------------------------------------------------------------------------
(* The pump. *)

(* Mutant of ChunkArrives: the chunk replaces what was left of the last.   *)
ChunkReplacesBuffer ==
  /\ pump = "reading"
  /\ \E position \in taken + 1 .. sent :
       /\ taken' = position
       /\ damaged' \in {damaged} \cup
            (IF position % 2 = 1 THEN {damaged \cup {(position + 1) \div 2}} ELSE {})
  /\ drained' = taken
  /\ pump' = "draining"
  /\ UNCHANGED <<serverVars, channel, agentVars>>

(* A chunk is decoded by itself: a character that the next chunk goes on   *)
(* with is replaced.                                                       *)
ChunkArrives ==
  /\ pump = "reading"
  /\ \E position \in taken + 1 .. sent :
       /\ taken' = position
       /\ damaged' \in {damaged} \cup
            (IF position % 2 = 1 THEN {damaged \cup {(position + 1) \div 2}} ELSE {})
  /\ pump' = "draining"
  /\ UNCHANGED <<serverVars, drained, channel, agentVars>>

(* The first line in the buffer, its end, and whether it makes an event:   *)
(* the rest of a line whose beginning was cleared makes none.              *)
FirstLine == drained \div 2 + 1

LineEnd == 2 * FirstLine

Eventful == drained % 2 = 0 /\ kind[FirstLine] # "noise"

ReceiverGone == agent = "done"

SkipLine ==
  /\ pump = "draining"
  /\ LineEnd <= taken
  /\ ~Eventful
  /\ drained' = LineEnd
  /\ UNCHANGED <<serverVars, pump, taken, damaged, channel, agentVars>>

(* Mutant of SendLine: one line is drained of each chunk. *)
SendOneLine ==
  /\ pump = "draining" /\ pump' = "reading"
  /\ LineEnd <= taken
  /\ Eventful /\ ~ReceiverGone
  /\ Len(channel) < Buffer
  /\ channel' = Append(channel, [line |-> FirstLine, intact |-> FirstLine \notin damaged])
  /\ drained' = LineEnd
  /\ UNCHANGED <<serverVars, taken, damaged, agentVars>>

(* send waits for room in the channel. *)
SendLine ==
  /\ pump = "draining"
  /\ LineEnd <= taken
  /\ Eventful /\ ~ReceiverGone
  /\ Len(channel) < Buffer
  /\ channel' = Append(channel, [line |-> FirstLine, intact |-> FirstLine \notin damaged])
  /\ drained' = LineEnd
  /\ UNCHANGED <<serverVars, pump, taken, damaged, agentVars>>

(* The receiver is gone: the buffer is cleared, and the pump goes on to    *)
(* read.                                                                   *)
SendFails ==
  /\ pump = "draining"
  /\ LineEnd <= taken
  /\ Eventful /\ ReceiverGone
  /\ drained' = taken
  /\ pump' = "reading"
  /\ UNCHANGED <<serverVars, taken, damaged, channel, agentVars>>

DrainEnds ==
  /\ pump = "draining"
  /\ LineEnd > taken
  /\ pump' = "reading"
  /\ UNCHANGED <<serverVars, taken, drained, damaged, channel, agentVars>>

(* The end of the body; a last line without a newline stays in the buffer. *)
BodyEnds ==
  /\ pump = "reading"
  /\ conn = "closed" /\ taken = sent
  /\ pump' = "ended"
  /\ UNCHANGED <<serverVars, taken, drained, damaged, channel, agentVars>>

(* A broken connection may be noticed before everything written is read. *)
ReadFails ==
  /\ pump = "reading"
  /\ conn = "broken"
  /\ pump' = "failing"
  /\ UNCHANGED <<serverVars, taken, drained, damaged, channel, agentVars>>

(* Mutant of SendError: the loop is not left. *)
SendErrorGoesOn ==
  /\ pump = "failing"
  /\ IF ReceiverGone
     THEN UNCHANGED channel
     ELSE /\ Len(channel) < Buffer
          /\ channel' = Append(channel, [line |-> 0, intact |-> TRUE])
  /\ pump' = "reading"
  /\ UNCHANGED <<serverVars, taken, drained, damaged, agentVars>>

SendError ==
  /\ pump = "failing"
  /\ IF ReceiverGone
     THEN UNCHANGED channel
     ELSE /\ Len(channel) < Buffer
          /\ channel' = Append(channel, [line |-> 0, intact |-> TRUE])
  /\ pump' = "ended"
  /\ UNCHANGED <<serverVars, taken, drained, damaged, agentVars>>

Pump ==
  \/ ChunkArrives \/ SkipLine \/ SendLine \/ SendFails \/ DrainEnds
  \/ BodyEnds \/ ReadFails \/ SendError

-----------------------------------------------------------------------------
(* The agent. *)

HasContent == \E i \in 1..Len(text) : kind[text[i].line] = "text"

(* fetch_response returns and drops the receiver with what is in it. *)
Return(outcome) ==
  /\ agent' = "done"
  /\ result' = outcome
  /\ channel' = <<>>

(* A transport failure or a status that is not a success. *)
PostFails ==
  /\ agent = "posting"
  /\ Return("error")
  /\ UNCHANGED <<serverVars, pumpVars, text>>

PostSucceeds ==
  /\ agent = "posting"
  /\ agent' = "receiving"
  /\ conn' = "open"
  /\ pump' = "reading"
  /\ UNCHANGED <<kind, sent, taken, drained, damaged, channel, text, result>>

ReceiveEvent ==
  /\ agent = "receiving"
  /\ channel # <<>>
  /\ Head(channel).line # 0
  /\ text' = IF Head(channel).line \in Deltas THEN Append(text, Head(channel)) ELSE text
  /\ channel' = Tail(channel)
  /\ UNCHANGED <<serverVars, pumpVars, agent, result>>

(* What was received before a failure is used as the answer. *)
ReceiveError ==
  /\ agent = "receiving"
  /\ channel # <<>>
  /\ Head(channel).line = 0
  /\ Return(IF HasContent THEN "interrupted" ELSE "error")
  /\ UNCHANGED <<serverVars, pumpVars, text>>

(* The sender is gone and the channel empty. *)
StreamEnds ==
  /\ agent = "receiving"
  /\ channel = <<>> /\ pump = "ended"
  /\ Return(IF HasContent THEN "whole" ELSE "error")
  /\ UNCHANGED <<serverVars, pumpVars, text>>

(* The run's timeout drops fetch_response at its await. *)
RunTimesOut ==
  /\ agent \in {"posting", "receiving"}
  /\ Return("dropped")
  /\ UNCHANGED <<serverVars, pumpVars, text>>

Fetch == ReceiveEvent \/ ReceiveError \/ StreamEnds

Next ==
  \/ ServerWrites \/ ServerEnds \/ Pump
  \/ PostFails \/ PostSucceeds \/ Fetch \/ RunTimesOut

Spec == Init /\ [][Next]_vars

(* The runtime polls the pump and the agent.  Nothing is assumed of the    *)
(* server, or of the run's timeout.                                        *)
FairSpec == Spec /\ WF_vars(Pump) /\ WF_vars(Fetch)

-----------------------------------------------------------------------------
Events == [line : 0..Lines, intact : BOOLEAN]

TypeOK ==
  /\ kind \in [1..Lines -> LineKinds]
  /\ conn \in {"none", "open", "closed", "broken"}
  /\ sent \in 0..2 * Lines
  /\ pump \in {"none", "reading", "draining", "failing", "ended"}
  /\ taken \in 0..sent
  /\ drained \in 0..taken
  /\ damaged \subseteq 1..Lines
  /\ channel \in Seq(Events) /\ Len(channel) <= Buffer
  /\ agent \in {"posting", "receiving", "done"}
  /\ text \in Seq(Events)
  /\ result \in {"none", "error", "interrupted", "whole", "dropped"}

(* However the lines are cut into chunks and the channel fills, the text   *)
(* is made of the deltas in the order they were written: none is doubled   *)
(* and none is left out before one that was received.                      *)
TextInOrder ==
  /\ \A i, j \in 1..Len(text) : i < j => text[i].line < text[j].line
  /\ \A i \in 1..Len(text), n \in Deltas :
       n < text[i].line => \E j \in 1..Len(text) : text[j].line = n

(* An answer that is not reported as interrupted is the whole answer: all  *)
(* the deltas whose line the server ended, also when it closed with a full *)
(* channel.                                                                *)
WholeAnswer ==
  result = "whole" => {text[i].line : i \in 1..Len(text)} = {n \in Deltas : 2 * n <= sent}

(* Pump and agent never wait for each other: when the connection is over,  *)
(* both come to an end, whichever of them was first.                       *)
BothEnd ==
  (conn \in {"closed", "broken"}) ~> (pump = "ended" /\ agent = "done")

=============================================================================
