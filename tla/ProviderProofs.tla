-------------------------- MODULE ProviderProofs --------------------------
(***************************************************************************)
(* Proofs about SseStream, the stream of an answer: its type invariant,    *)
(* that the text received is in order and without gaps, and that an answer *)
(* taken for whole is; and about Startup, which builds the provider and    *)
(* replays the last run: that the transcript it shows is what that run     *)
(* said.                                                                   *)
(***************************************************************************)
EXTENDS SseStream, Startup, FiniteSetTheorems, SequenceTheorems, TLAPS

InText(n) == \E i \in 1..Len(text) : text[i].line = n

InChannel(n) == \E j \in 1..Len(channel) : channel[j].line = n

(* Before the request is answered nothing has moved. *)
NothingYet ==
  agent = "posting" =>
    /\ pump = "none" /\ conn = "none"
    /\ sent = 0 /\ taken = 0 /\ drained = 0
    /\ text = <<>> /\ channel = <<>>

(* What the channel holds comes after the text, in order, and an error     *)
(* comes last.                                                             *)
ChannelOrdered ==
  /\ \A i, j \in 1..Len(channel) :
       i < j => /\ channel[i].line # 0
                /\ channel[j].line # 0 => channel[i].line < channel[j].line
  /\ \A i \in 1..Len(text), j \in 1..Len(channel) :
       channel[j].line # 0 => text[i].line < channel[j].line
  /\ \A j \in 1..Len(channel) : channel[j].line = 0 => pump = "ended"

(* Only lines that left the buffer were sent or received. *)
OnlyDrained ==
  /\ \A i \in 1..Len(text) : text[i].line \in Deltas /\ 2 * text[i].line <= drained
  /\ \A j \in 1..Len(channel) : 2 * channel[j].line <= drained

(* As long as there is a receiver, whole lines leave the buffer, and every *)
(* delta that left it is on its way or received.                           *)
NoneMissing ==
  agent = "receiving" =>
    /\ drained % 2 = 0
    /\ \A n \in Deltas : 2 * n <= drained => InText(n) \/ InChannel(n)

(* How the pump can have come to its end, or be reading again. *)
PumpDrained ==
  agent = "receiving" =>
    /\ pump # "none"
    /\ pump \in {"reading", "failing"} => LineEnd > taken
    /\ pump = "ended" => \/ conn = "closed" /\ taken = sent /\ LineEnd > taken
                         \/ Len(channel) > 0 /\ channel[Len(channel)].line = 0

Returned ==
  /\ agent = "done" => channel = <<>>
  /\ agent # "done" => result = "none"
  /\ result = "whole" => conn = "closed"

IInv ==
  /\ TypeOK /\ NothingYet /\ ChannelOrdered /\ OnlyDrained /\ NoneMissing /\ PumpDrained /\ Returned
  /\ TextInOrder /\ WholeAnswer

-----------------------------------------------------------------------------
(* What Append and Tail do to a sequence of events, index by index. *)
LEMMA Appended ==
  ASSUME NEW s \in Seq(Events), NEW e \in Events
  PROVE  /\ Append(s, e) \in Seq(Events)
         /\ Len(Append(s, e)) = Len(s) + 1
         /\ \A i \in 1..Len(s) : Append(s, e)[i] = s[i]
         /\ Append(s, e)[Len(s) + 1] = e
  OBVIOUS

LEMMA Shortened ==
  ASSUME NEW s \in Seq(Events), s # <<>>
  PROVE  /\ Tail(s) \in Seq(Events)
         /\ Len(Tail(s)) = Len(s) - 1 /\ Len(s) \in Nat \ {0}
         /\ \A i \in 1..Len(Tail(s)) : Tail(s)[i] = s[i + 1]
         /\ Head(s) = s[1] /\ Head(s) \in Events
  OBVIOUS

LEMMA Elements ==
  ASSUME NEW s \in Seq(Events), NEW i \in 1..Len(s)
  PROVE  s[i] \in Events /\ s[i].line \in Nat
  <1>1. s[i] \in Events
    OBVIOUS
  <1>2. \A e \in Events : e.line \in Nat
    BY StreamAssumption DEF Events
  <1> QED
    BY <1>1, <1>2

(* Positions and lines. *)
LEMMA Positions ==
  ASSUME NEW p \in Nat, NEW t \in Nat, NEW n \in Nat
  PROVE  /\ p \div 2 \in Nat
         /\ 2 * (p \div 2 + 1) > p
         /\ 2 * (p \div 2 + 1) <= p + 2
         /\ 2 * n <= p => n < p \div 2 + 1
         /\ p % 2 = 0 => 2 * (p \div 2 + 1) = p + 2
         /\ (2 * (p \div 2 + 1)) % 2 = 0
  OBVIOUS

-----------------------------------------------------------------------------
LEMMA StartsRight == Init => IInv
  <1> SUFFICES ASSUME Init PROVE IInv
    OBVIOUS
  <1>1. TypeOK
    BY StreamAssumption DEF Init, TypeOK
  <1>2. NothingYet /\ Returned /\ NoneMissing /\ PumpDrained
    BY DEF Init, NothingYet, Returned, NoneMissing, PumpDrained
  <1>3. ChannelOrdered /\ OnlyDrained
    BY DEF Init, ChannelOrdered, OnlyDrained
  <1>4. TextInOrder /\ WholeAnswer
    BY DEF Init, TextInOrder, WholeAnswer
  <1> QED
    BY <1>1, <1>2, <1>3, <1>4 DEF IInv

(* The type invariant needs only what a position is. *)
LEMMA TypeStep == IInv /\ Next => TypeOK'
  <1> SUFFICES ASSUME IInv, Next PROVE TypeOK'
    OBVIOUS
  <1> USE StreamAssumption
  <1>0. TypeOK
    BY DEF IInv
  <1>1. CASE ServerWrites
    BY <1>0, <1>1 DEF TypeOK, ServerWrites, pumpVars, agentVars
  <1>2. CASE ServerEnds
    BY <1>0, <1>2 DEF TypeOK, ServerEnds, pumpVars, agentVars
  <1>3. CASE ChunkArrives
    <2>1. PICK position \in taken + 1 .. sent :
            /\ taken' = position
            /\ damaged' \in {damaged} \cup
                 (IF position % 2 = 1 THEN {damaged \cup {(position + 1) \div 2}} ELSE {})
      BY <1>3 DEF ChunkArrives
    <2>2. position \in Nat /\ position <= 2 * Lines /\ position >= 1
      BY <1>0, <2>1 DEF TypeOK
    <2>3. (position + 1) \div 2 \in 1..Lines \/ position % 2 # 1
      BY <2>2
    <2>4. damaged' \subseteq 1..Lines
      BY <1>0, <2>1, <2>3 DEF TypeOK
    <2>5. taken' \in 0..sent /\ drained \in 0..taken'
      BY <1>0, <2>1 DEF TypeOK
    <2> QED
      BY <1>0, <1>3, <2>4, <2>5 DEF TypeOK, ChunkArrives, serverVars, agentVars
  <1>4. CASE SkipLine
    <2>1. LineEnd \in 0..taken
      BY <1>0, <1>4 DEF TypeOK, SkipLine, LineEnd, FirstLine
    <2> QED
      BY <1>0, <1>4, <2>1 DEF TypeOK, SkipLine, serverVars, agentVars
  <1>5. CASE SendLine
    <2> DEFINE event == [line |-> FirstLine, intact |-> FirstLine \notin damaged]
    <2>1. LineEnd \in 0..taken /\ FirstLine \in 0..Lines
      BY <1>0, <1>5 DEF TypeOK, SendLine, LineEnd, FirstLine
    <2>2. event \in Events
      BY <2>1 DEF Events
    <2>3. channel' \in Seq(Events) /\ Len(channel') <= Buffer
      <3>1. channel \in Seq(Events) /\ Len(channel) \in Nat /\ Len(channel) < Buffer
        BY <1>0, <1>5 DEF TypeOK, SendLine
      <3>2. channel' = Append(channel, event)
        BY <1>5 DEF SendLine
      <3>3. Append(channel, event) \in Seq(Events) /\ Len(Append(channel, event)) = Len(channel) + 1
        BY <2>2, <3>1, Appended
      <3> QED
        BY <3>1, <3>2, <3>3
    <2> QED
      BY <1>0, <1>5, <2>1, <2>3 DEF TypeOK, SendLine, serverVars, agentVars
  <1>6. CASE SendFails
    BY <1>0, <1>6 DEF TypeOK, SendFails, serverVars, agentVars
  <1>7. CASE DrainEnds
    BY <1>0, <1>7 DEF TypeOK, DrainEnds, serverVars, agentVars
  <1>8. CASE BodyEnds \/ ReadFails
    BY <1>0, <1>8 DEF TypeOK, BodyEnds, ReadFails, serverVars, agentVars
  <1>9. CASE SendError
    <2>1. [line |-> 0, intact |-> TRUE] \in Events
      BY DEF Events
    <2>2. channel' \in Seq(Events) /\ Len(channel') <= Buffer
      <3>1. channel \in Seq(Events) /\ Len(channel) \in Nat /\ Len(channel) <= Buffer
        BY <1>0 DEF TypeOK
      <3>2. CASE channel' = channel
        BY <3>1, <3>2
      <3>3. CASE /\ channel' = Append(channel, [line |-> 0, intact |-> TRUE])
                 /\ Len(channel) < Buffer
        <4>1. /\ Append(channel, [line |-> 0, intact |-> TRUE]) \in Seq(Events)
              /\ Len(Append(channel, [line |-> 0, intact |-> TRUE])) = Len(channel) + 1
          BY <2>1, <3>1, Appended
        <4> QED
          BY <3>1, <3>3, <4>1
      <3> QED
        BY <1>9, <3>2, <3>3 DEF SendError
    <2> QED
      BY <1>0, <1>9, <2>2 DEF TypeOK, SendError, serverVars, agentVars
  <1>10. CASE PostFails \/ ReceiveError \/ StreamEnds \/ RunTimesOut
    <2>1. /\ agent' = "done"
          /\ result' \in {"error", "interrupted", "whole", "dropped"}
          /\ channel' = <<>>
          /\ UNCHANGED <<serverVars, pumpVars, text>>
      BY <1>10 DEF PostFails, ReceiveError, StreamEnds, RunTimesOut, Return
    <2>2. channel' \in Seq(Events) /\ Len(channel') <= Buffer
      BY <2>1
    <2> QED
      BY <1>0, <2>1, <2>2 DEF TypeOK, serverVars, pumpVars
  <1>11. CASE PostSucceeds
    BY <1>0, <1>11 DEF TypeOK, PostSucceeds
  <1>12. CASE ReceiveEvent
    <2>1. channel' \in Seq(Events) /\ Len(channel') <= Buffer /\ Head(channel) \in Events
      BY <1>0, <1>12, Shortened DEF TypeOK, ReceiveEvent
    <2>2. text' \in Seq(Events)
      BY <1>0, <1>12, <2>1, Appended DEF TypeOK, ReceiveEvent
    <2> QED
      BY <1>0, <1>12, <2>1, <2>2 DEF TypeOK, ReceiveEvent, serverVars, pumpVars
  <1> QED
    BY <1>1, <1>2, <1>3, <1>4, <1>5, <1>6, <1>7, <1>8, <1>9, <1>10, <1>11, <1>12
    DEF Next, Pump, Fetch

(* Before the request is answered, and after fetch_response returned. *)
LEMMA EndsStep == IInv /\ Next => NothingYet' /\ Returned'
  <1> SUFFICES ASSUME IInv, Next PROVE NothingYet' /\ Returned'
    OBVIOUS
  <1>0. TypeOK /\ NothingYet /\ Returned /\ PumpDrained /\ OnlyDrained
    BY DEF IInv
  <1>1. CASE ServerWrites \/ ServerEnds
    BY <1>0, <1>1 DEF TypeOK, NothingYet, Returned, ServerWrites, ServerEnds, pumpVars, agentVars
  <1>2. CASE ChunkArrives \/ SkipLine \/ SendFails \/ DrainEnds \/ BodyEnds \/ ReadFails
    BY <1>0, <1>2 DEF TypeOK, NothingYet, Returned, ChunkArrives, SkipLine, SendFails, DrainEnds,
       BodyEnds, ReadFails, serverVars, agentVars
  <1>3. CASE SendLine \/ SendError
    BY <1>0, <1>3 DEF TypeOK, NothingYet, Returned, SendLine, SendError, ReceiverGone, serverVars,
       agentVars
  <1>4. CASE PostFails \/ RunTimesOut \/ ReceiveError
    BY <1>0, <1>4 DEF TypeOK, NothingYet, Returned, PostFails, RunTimesOut, ReceiveError, Return,
       serverVars, pumpVars
  <1>5. CASE PostSucceeds \/ ReceiveEvent
    BY <1>0, <1>5 DEF TypeOK, NothingYet, Returned, PostSucceeds, ReceiveEvent, serverVars, pumpVars
  <1>6. CASE StreamEnds
    <2>1. Len(channel) = 0
      BY <1>6 DEF StreamEnds
    <2>2. conn = "closed"
      BY <1>0, <1>6, <2>1 DEF PumpDrained, StreamEnds
    <2> QED
      BY <1>0, <1>6, <2>2 DEF TypeOK, NothingYet, Returned, StreamEnds, Return, serverVars, pumpVars
  <1> QED
    BY <1>1, <1>2, <1>3, <1>4, <1>5, <1>6 DEF Next, Pump, Fetch

(* Only DrainEnds and the end of the connection take the pump where        *)
(* nothing but an unfinished line may be left in the buffer.               *)
LEMMA PumpStep == IInv /\ Next => PumpDrained'
  <1> SUFFICES ASSUME IInv, Next PROVE PumpDrained'
    OBVIOUS
  <1>0. TypeOK /\ NothingYet /\ PumpDrained /\ ChannelOrdered
    BY DEF IInv
  <1>1. CASE ServerWrites \/ ServerEnds
    BY <1>0, <1>1 DEF TypeOK, PumpDrained, ServerWrites, ServerEnds, pumpVars, agentVars, LineEnd,
       FirstLine
  <1>2. CASE ChunkArrives \/ SkipLine \/ SendLine
    BY <1>0, <1>2 DEF PumpDrained, ChunkArrives, SkipLine, SendLine
  <1>3. CASE SendFails
    BY <1>0, <1>3 DEF PumpDrained, SendFails, ReceiverGone, agentVars
  <1>4. CASE DrainEnds \/ BodyEnds \/ ReadFails
    BY <1>0, <1>4 DEF PumpDrained, DrainEnds, BodyEnds, ReadFails, LineEnd, FirstLine, serverVars,
       agentVars
  <1>5. CASE SendError
    <2> SUFFICES ASSUME agent' = "receiving" PROVE PumpDrained'
      BY DEF PumpDrained
    <2>1. /\ channel' = Append(channel, [line |-> 0, intact |-> TRUE])
          /\ pump' = "ended"
      BY <1>5 DEF SendError, ReceiverGone, agentVars
    <2>2. [line |-> 0, intact |-> TRUE] \in Events
      BY StreamAssumption DEF Events
    <2>3. Len(channel') = Len(channel) + 1 /\ channel'[Len(channel) + 1].line = 0
      BY <1>0, <2>1, <2>2, Appended DEF TypeOK
    <2>4. Len(channel') > 0 /\ channel'[Len(channel')].line = 0
      BY <1>0, <2>3 DEF TypeOK
    <2> QED
      BY <2>1, <2>4 DEF PumpDrained
  <1>6. CASE PostFails \/ RunTimesOut \/ ReceiveError \/ StreamEnds
    BY <1>6 DEF PumpDrained, PostFails, RunTimesOut, ReceiveError, StreamEnds, Return
  <1>7. CASE PostSucceeds
    BY <1>0, <1>7 DEF PumpDrained, NothingYet, PostSucceeds, LineEnd, FirstLine
  <1>8. CASE ReceiveEvent
    <2>1. channel # <<>> /\ channel' = Tail(channel) /\ Head(channel).line # 0
      BY <1>8 DEF ReceiveEvent
    <2>2. /\ Len(channel) \in Nat \ {0} /\ Len(channel') = Len(channel) - 1
          /\ \A i \in 1..Len(channel') : channel'[i] = channel[i + 1]
          /\ channel[1].line # 0
      BY <1>0, <2>1, Shortened DEF TypeOK
    <2>3. Len(channel) > 0 /\ channel[Len(channel)].line = 0
            => Len(channel') > 0 /\ channel'[Len(channel')].line = 0
      BY <2>2
    <2> QED
      BY <1>0, <1>8, <2>3 DEF PumpDrained, ReceiveEvent, LineEnd, FirstLine, serverVars, pumpVars
  <1> QED
    BY <1>1, <1>2, <1>3, <1>4, <1>5, <1>6, <1>7, <1>8 DEF Next, Pump, Fetch

(* Most steps move no event, and what the lines carry never changes. *)
Quiet ==
  \/ ServerWrites \/ ServerEnds \/ ChunkArrives \/ DrainEnds \/ BodyEnds \/ ReadFails
  \/ PostSucceeds

Drop == PostFails \/ RunTimesOut \/ ReceiveError \/ StreamEnds

LEMMA QuietSteps ==
  ASSUME Quiet
  PROVE  UNCHANGED <<kind, drained, channel, text, result>>
  BY DEF Quiet, ServerWrites, ServerEnds, ChunkArrives, DrainEnds, BodyEnds, ReadFails,
     PostSucceeds, serverVars, pumpVars, agentVars

LEMMA DropSteps ==
  ASSUME Drop
  PROVE  /\ UNCHANGED <<kind, sent, conn, pump, taken, drained, text>>
         /\ agent # "done" /\ agent' = "done" /\ channel' = <<>>
  BY DEF Drop, PostFails, RunTimesOut, ReceiveError, StreamEnds, Return, serverVars, pumpVars

LEMMA Actions ==
  ASSUME Next
  PROVE  Quiet \/ Drop \/ SkipLine \/ SendLine \/ SendFails \/ SendError \/ ReceiveEvent
  BY DEF Next, Pump, Fetch, Quiet, Drop

LEMMA OrderStep == IInv /\ Next => ChannelOrdered'
  <1> SUFFICES ASSUME IInv, Next PROVE ChannelOrdered'
    OBVIOUS
  <1>0. TypeOK /\ ChannelOrdered /\ OnlyDrained /\ NothingYet
    BY DEF IInv
  <1>1. CASE Quiet
    <2>1. UNCHANGED <<channel, text>>
      BY <1>1, QuietSteps
    <2>2. \/ pump' = pump
          \/ pump \in {"reading", "draining"}
          \/ channel = <<>>
      BY <1>0, <1>1 DEF Quiet, ServerWrites, ServerEnds, ChunkArrives, DrainEnds, BodyEnds,
         ReadFails, PostSucceeds, NothingYet, pumpVars
    <2> QED
      BY <1>0, <2>1, <2>2 DEF ChannelOrdered
  <1>2. CASE Drop
    BY <1>2, DropSteps DEF ChannelOrdered
  <1>3. CASE SkipLine
    BY <1>0, <1>3 DEF ChannelOrdered, SkipLine, agentVars
  <1>4. CASE SendFails
    BY <1>0, <1>4 DEF ChannelOrdered, SendFails, agentVars
  <1>5. CASE SendLine
    <2> DEFINE event == [line |-> FirstLine, intact |-> FirstLine \notin damaged]
    <2>1. /\ drained \in Nat /\ FirstLine \in 1..Lines
          /\ \A n \in Nat : 2 * n <= drained => n < FirstLine
      BY <1>0, <1>5, Positions, StreamAssumption DEF TypeOK, SendLine, LineEnd, FirstLine
    <2>2. event \in Events /\ event.line = FirstLine
      BY <2>1 DEF Events
    <2>3. channel' = Append(channel, event) /\ text' = text /\ pump = "draining"
      BY <1>5 DEF SendLine, agentVars
    <2>4. /\ Len(channel) \in Nat /\ Len(channel') = Len(channel) + 1
          /\ \A j \in 1..Len(channel) : channel'[j] = channel[j]
          /\ channel'[Len(channel) + 1].line = FirstLine
      BY <1>0, <2>2, <2>3, Appended DEF TypeOK
    <2>5. \A j \in 1..Len(channel) : channel[j].line \in Nat /\ channel[j].line # 0
      BY <1>0, <2>3, Elements DEF TypeOK, ChannelOrdered
    <2>6. \A j \in 1..Len(channel) : channel[j].line < FirstLine
      BY <1>0, <2>1, <2>5 DEF OnlyDrained
    <2>7. \A i \in 1..Len(text) : text[i].line \in Nat /\ text[i].line < FirstLine
      BY <1>0, <2>1, Elements DEF TypeOK, OnlyDrained
    <2>8. \A i, j \in 1..Len(channel') :
            i < j => /\ channel'[i].line # 0
                     /\ channel'[j].line # 0 => channel'[i].line < channel'[j].line
      BY <1>0, <2>4, <2>5, <2>6 DEF ChannelOrdered
    <2>9. \A i \in 1..Len(text'), j \in 1..Len(channel') :
            channel'[j].line # 0 => text'[i].line < channel'[j].line
      BY <1>0, <2>3, <2>4, <2>7 DEF ChannelOrdered
    <2>10. \A j \in 1..Len(channel') : channel'[j].line # 0
      BY <2>1, <2>4, <2>5
    <2> QED
      BY <2>8, <2>9, <2>10 DEF ChannelOrdered
  <1>6. CASE SendError
    <2> DEFINE event == [line |-> 0, intact |-> TRUE]
    <2>1. event \in Events
      BY StreamAssumption DEF Events
    <2>2. text' = text /\ pump = "failing" /\ pump' = "ended"
      BY <1>6 DEF SendError, agentVars
    <2>3. \A j \in 1..Len(channel) : channel[j].line # 0
      BY <1>0, <2>2 DEF ChannelOrdered
    <2>4. CASE channel' = channel
      BY <1>0, <2>2, <2>4 DEF ChannelOrdered
    <2>5. CASE channel' = Append(channel, event)
      <3>1. /\ Len(channel) \in Nat /\ Len(channel') = Len(channel) + 1
            /\ \A j \in 1..Len(channel) : channel'[j] = channel[j]
            /\ channel'[Len(channel) + 1].line = 0
        BY <1>0, <2>1, <2>5, Appended DEF TypeOK
      <3> QED
        BY <1>0, <2>2, <2>3, <3>1 DEF ChannelOrdered
    <2> QED
      BY <1>6, <2>4, <2>5 DEF SendError
  <1>7. CASE ReceiveEvent
    <2>1. channel # <<>> /\ channel' = Tail(channel) /\ Head(channel).line # 0 /\ pump' = pump
      BY <1>7 DEF ReceiveEvent, pumpVars
    <2>2. /\ Len(channel) \in Nat \ {0} /\ Len(channel') = Len(channel) - 1
          /\ \A j \in 1..Len(channel') : channel'[j] = channel[j + 1]
          /\ channel[1] = Head(channel) /\ Head(channel) \in Events
      BY <1>0, <2>1, Shortened DEF TypeOK
    <2>3. text' = text \/ text' = Append(text, Head(channel))
      BY <1>7 DEF ReceiveEvent
    <2>4. \A i, j \in 1..Len(channel') :
            i < j => /\ channel'[i].line # 0
                     /\ channel'[j].line # 0 => channel'[i].line < channel'[j].line
      <3> SUFFICES ASSUME NEW i \in 1..Len(channel'), NEW j \in 1..Len(channel'), i < j
                   PROVE  /\ channel'[i].line # 0
                          /\ channel'[j].line # 0 => channel'[i].line < channel'[j].line
        OBVIOUS
      <3>1. i + 1 \in 1..Len(channel) /\ j + 1 \in 1..Len(channel) /\ i + 1 < j + 1
        BY <2>2
      <3>2. channel'[i] = channel[i + 1] /\ channel'[j] = channel[j + 1]
        BY <2>2
      <3> QED
        BY <1>0, <3>1, <3>2 DEF ChannelOrdered
    <2>5. \A j \in 1..Len(channel') : channel'[j].line = 0 => pump' = "ended"
      BY <1>0, <2>1, <2>2 DEF ChannelOrdered
    <2>6. \A j \in 1..Len(channel') :
            channel'[j].line # 0 => /\ channel[1].line < channel'[j].line
                                   /\ \A i \in 1..Len(text) : text[i].line < channel'[j].line
      BY <1>0, <2>1, <2>2 DEF ChannelOrdered
    <2>7. \A i \in 1..Len(text') : text'[i] = channel[1] \/ (i \in 1..Len(text) /\ text'[i] = text[i])
      BY <1>0, <2>2, <2>3, Appended DEF TypeOK
    <2>8. \A i \in 1..Len(text'), j \in 1..Len(channel') :
            channel'[j].line # 0 => text'[i].line < channel'[j].line
      BY <2>6, <2>7
    <2> QED
      BY <2>4, <2>5, <2>8 DEF ChannelOrdered
  <1> QED
    BY <1>1, <1>2, <1>3, <1>4, <1>5, <1>6, <1>7, Actions

LEMMA DrainedStep == IInv /\ Next => OnlyDrained'
  <1> SUFFICES ASSUME IInv, Next PROVE OnlyDrained'
    OBVIOUS
  <1>0. TypeOK /\ OnlyDrained /\ TypeOK'
    BY TypeStep DEF IInv
  <1>1. CASE Quiet
    BY <1>0, <1>1, QuietSteps DEF OnlyDrained, Deltas
  <1>2. CASE Drop
    BY <1>0, <1>2, DropSteps DEF OnlyDrained, Deltas
  <1>3. CASE SkipLine \/ SendFails
    <2>1. UNCHANGED <<kind, text, channel>>
      BY <1>3 DEF SkipLine, SendFails, serverVars, agentVars
    <2>2. drained \in Nat /\ drained' \in Nat /\ drained <= drained'
      BY <1>0, <1>3, Positions DEF TypeOK, SkipLine, SendFails, LineEnd, FirstLine
    <2>3. /\ \A i \in 1..Len(text) : text[i].line \in Nat
          /\ \A j \in 1..Len(channel) : channel[j].line \in Nat
      BY <1>0, Elements DEF TypeOK
    <2> QED
      BY <1>0, <2>1, <2>2, <2>3 DEF OnlyDrained, Deltas
  <1>4. CASE SendLine
    <2> DEFINE event == [line |-> FirstLine, intact |-> FirstLine \notin damaged]
    <2>1. /\ drained \in Nat /\ FirstLine \in 1..Lines
          /\ drained' = 2 * FirstLine /\ drained <= drained' /\ drained' \in Nat
      BY <1>0, <1>4, Positions, StreamAssumption DEF TypeOK, SendLine, LineEnd, FirstLine
    <2>2. event \in Events /\ event.line = FirstLine
      BY <2>1 DEF Events
    <2>3. channel' = Append(channel, event) /\ UNCHANGED <<kind, text>>
      BY <1>4 DEF SendLine, serverVars, agentVars
    <2>4. /\ Len(channel) \in Nat /\ Len(channel') = Len(channel) + 1
          /\ \A j \in 1..Len(channel) : channel'[j] = channel[j]
          /\ channel'[Len(channel) + 1].line = FirstLine
      BY <1>0, <2>2, <2>3, Appended DEF TypeOK
    <2>5. /\ \A i \in 1..Len(text) : text[i].line \in Nat
          /\ \A j \in 1..Len(channel) : channel[j].line \in Nat
      BY <1>0, Elements DEF TypeOK
    <2>6. \A j \in 1..Len(channel') : 2 * channel'[j].line <= drained'
      BY <1>0, <2>1, <2>4, <2>5 DEF OnlyDrained
    <2> QED
      BY <1>0, <2>1, <2>3, <2>5, <2>6 DEF OnlyDrained, Deltas
  <1>5. CASE SendError
    <2> DEFINE event == [line |-> 0, intact |-> TRUE]
    <2>1. event \in Events
      BY StreamAssumption DEF Events
    <2>2. UNCHANGED <<kind, text, drained>> /\ drained \in Nat
      BY <1>0, <1>5 DEF TypeOK, SendError, serverVars, agentVars
    <2>3. CASE channel' = channel
      BY <1>0, <2>2, <2>3 DEF OnlyDrained, Deltas
    <2>4. CASE channel' = Append(channel, event)
      <3>1. /\ Len(channel) \in Nat /\ Len(channel') = Len(channel) + 1
            /\ \A j \in 1..Len(channel) : channel'[j] = channel[j]
            /\ channel'[Len(channel) + 1].line = 0
        BY <1>0, <2>1, <2>4, Appended DEF TypeOK
      <3>2. \A j \in 1..Len(channel') : 2 * channel'[j].line <= drained'
        BY <1>0, <2>2, <3>1 DEF OnlyDrained
      <3> QED
        BY <1>0, <2>2, <3>2 DEF OnlyDrained, Deltas
    <2> QED
      BY <1>5, <2>3, <2>4 DEF SendError
  <1>6. CASE ReceiveEvent
    <2>1. channel # <<>> /\ channel' = Tail(channel) /\ UNCHANGED <<kind, drained>>
      BY <1>6 DEF ReceiveEvent, serverVars, pumpVars
    <2>2. /\ Len(channel) \in Nat \ {0} /\ Len(channel') = Len(channel) - 1
          /\ \A j \in 1..Len(channel') : channel'[j] = channel[j + 1]
          /\ channel[1] = Head(channel) /\ Head(channel) \in Events
      BY <1>0, <2>1, Shortened DEF TypeOK
    <2>3. \/ text' = text
          \/ text' = Append(text, Head(channel)) /\ Head(channel).line \in Deltas
      BY <1>6 DEF ReceiveEvent
    <2>4. \A i \in 1..Len(text') :
            \/ text'[i] = channel[1] /\ channel[1].line \in Deltas
            \/ i \in 1..Len(text) /\ text'[i] = text[i]
      <3>1. CASE text' = text
        BY <3>1
      <3>2. CASE text' = Append(text, Head(channel)) /\ Head(channel).line \in Deltas
        <4>1. /\ Len(text) \in Nat /\ Len(text') = Len(text) + 1
              /\ \A i \in 1..Len(text) : text'[i] = text[i]
              /\ text'[Len(text) + 1] = channel[1]
          BY <1>0, <2>2, <3>2, Appended DEF TypeOK
        <4>2. channel[1].line \in Deltas
          BY <2>2, <3>2
        <4>3. \A i \in 1..Len(text') : i = Len(text) + 1 \/ i \in 1..Len(text)
          BY <4>1
        <4> QED
          BY <4>1, <4>2, <4>3
      <3> QED
        BY <2>3, <3>1, <3>2
    <2>5. 2 * channel[1].line <= drained
      BY <1>0, <2>2 DEF OnlyDrained
    <2>6. \A i \in 1..Len(text') : text'[i].line \in Deltas /\ 2 * text'[i].line <= drained
      BY <1>0, <2>4, <2>5 DEF OnlyDrained
    <2>7. \A j \in 1..Len(channel') : 2 * channel'[j].line <= drained
      BY <1>0, <2>2 DEF OnlyDrained
    <2> QED
      BY <2>1, <2>6, <2>7 DEF OnlyDrained, Deltas
  <1> QED
    BY <1>1, <1>2, <1>3, <1>4, <1>5, <1>6, Actions

LEMMA MissingStep == IInv /\ Next => NoneMissing'
  <1> SUFFICES ASSUME IInv, Next, agent' = "receiving" PROVE NoneMissing'
    BY DEF NoneMissing
  <1>0. TypeOK /\ NoneMissing /\ NothingYet
    BY DEF IInv
  <1>1. CASE Quiet
    <2>1. UNCHANGED <<kind, drained, channel, text>>
      BY <1>1, QuietSteps
    <2>2. CASE agent = "receiving"
      BY <1>0, <2>1, <2>2 DEF NoneMissing, InText, InChannel, Deltas
    <2>3. CASE agent = "posting"
      BY <1>0, <2>1, <2>3 DEF NothingYet, NoneMissing, Deltas
    <2>4. agent # "done"
      BY <1>1 DEF Quiet, ServerWrites, ServerEnds, ChunkArrives, DrainEnds, BodyEnds, ReadFails,
         PostSucceeds, agentVars
    <2> QED
      BY <1>0, <2>2, <2>3, <2>4 DEF TypeOK
  <1>2. CASE Drop
    BY <1>2, DropSteps
  <1>3. CASE SkipLine
    <2>1. agent = "receiving" /\ UNCHANGED <<kind, channel, text>>
      BY <1>3 DEF SkipLine, serverVars, agentVars
    <2>2. drained \in Nat /\ drained % 2 = 0 /\ drained' = drained + 2 /\ kind[FirstLine] = "noise"
          /\ drained' % 2 = 0 /\ drained' = 2 * FirstLine
      BY <1>0, <1>3, <2>1, Positions DEF TypeOK, NoneMissing, SkipLine, Eventful, LineEnd, FirstLine
    <2>3. \A n \in Deltas : 2 * n <= drained' => 2 * n <= drained
      <3> SUFFICES ASSUME NEW n \in Deltas, 2 * n <= drained' PROVE 2 * n <= drained
        OBVIOUS
      <3>1. n \in Nat /\ n # FirstLine
        BY <2>2 DEF Deltas
      <3>2. FirstLine \in Nat /\ drained = 2 * FirstLine - 2
        BY <2>2, Positions DEF FirstLine
      <3> QED
        BY <2>2, <3>1, <3>2
    <2> QED
      BY <1>0, <2>1, <2>2, <2>3 DEF NoneMissing, InText, InChannel, Deltas
  <1>4. CASE SendFails
    BY <1>4 DEF SendFails, ReceiverGone, agentVars
  <1>5. CASE SendLine
    <2> DEFINE event == [line |-> FirstLine, intact |-> FirstLine \notin damaged]
    <2>1. agent = "receiving" /\ UNCHANGED <<kind, text>> /\ channel' = Append(channel, event)
      BY <1>5 DEF SendLine, serverVars, agentVars
    <2>2. /\ drained \in Nat /\ drained' = drained + 2 /\ drained' % 2 = 0
          /\ drained' = 2 * FirstLine /\ FirstLine \in 1..Lines
      BY <1>0, <1>5, <2>1, Positions, StreamAssumption
      DEF TypeOK, NoneMissing, SendLine, LineEnd, FirstLine
    <2>3. event \in Events /\ event.line = FirstLine
      BY <2>2 DEF Events
    <2>4. /\ Len(channel) \in Nat /\ Len(channel') = Len(channel) + 1
          /\ \A j \in 1..Len(channel) : channel'[j] = channel[j]
          /\ channel'[Len(channel) + 1].line = FirstLine
      BY <1>0, <2>1, <2>3, Appended DEF TypeOK
    <2>5. \A n \in Deltas : 2 * n <= drained' => 2 * n <= drained \/ n = FirstLine
      BY <2>2 DEF Deltas
    <2>7. \A n \in Deltas : InChannel(n) => \E j \in 1..Len(channel') : channel'[j].line = n
      BY <2>4 DEF InChannel
    <2>8. \E j \in 1..Len(channel') : channel'[j].line = FirstLine
      BY <2>4
    <2>9. Deltas' = Deltas
      BY <2>1 DEF Deltas
    <2> QED
      BY <1>0, <2>1, <2>2, <2>5, <2>7, <2>8, <2>9 DEF NoneMissing, InText, InChannel
  <1>6. CASE SendError
    <2> DEFINE event == [line |-> 0, intact |-> TRUE]
    <2>1. event \in Events
      BY StreamAssumption DEF Events
    <2>2. agent = "receiving" /\ UNCHANGED <<kind, text, drained>> /\ channel' = Append(channel, event)
      BY <1>6 DEF SendError, ReceiverGone, serverVars, agentVars
    <2>3. /\ Len(channel) \in Nat /\ Len(channel') = Len(channel) + 1
          /\ \A j \in 1..Len(channel) : channel'[j] = channel[j]
      BY <1>0, <2>1, <2>2, Appended DEF TypeOK
    <2>4. \A n \in Deltas : InChannel(n) => \E j \in 1..Len(channel') : channel'[j].line = n
      BY <2>3 DEF InChannel
    <2> QED
      BY <1>0, <2>2, <2>4 DEF NoneMissing, InText, InChannel, Deltas
  <1>7. CASE ReceiveEvent
    <2>1. /\ agent = "receiving" /\ channel # <<>> /\ channel' = Tail(channel)
          /\ UNCHANGED <<kind, drained>>
      BY <1>7 DEF ReceiveEvent, serverVars, pumpVars
    <2>2. /\ Len(channel) \in Nat \ {0} /\ Len(channel') = Len(channel) - 1
          /\ \A j \in 1..Len(channel') : channel'[j] = channel[j + 1]
          /\ channel[1] = Head(channel) /\ Head(channel) \in Events
      BY <1>0, <2>1, Shortened DEF TypeOK
    <2>3. text' = IF Head(channel).line \in Deltas THEN Append(text, Head(channel)) ELSE text
      BY <1>7 DEF ReceiveEvent
    <2>4. \A n \in Deltas : InText(n) => \E i \in 1..Len(text') : text'[i].line = n
      BY <1>0, <2>2, <2>3, Appended DEF TypeOK, InText
    <2>5. channel[1].line \in Deltas => \E i \in 1..Len(text') : text'[i] = channel[1]
      BY <1>0, <2>2, <2>3, Appended DEF TypeOK
    <2>6. \A n \in Deltas :
            InChannel(n) => \/ \E i \in 1..Len(text') : text'[i].line = n
                            \/ \E j \in 1..Len(channel') : channel'[j].line = n
      <3> SUFFICES ASSUME NEW n \in Deltas, NEW j \in 1..Len(channel), channel[j].line = n
                   PROVE  \/ \E i \in 1..Len(text') : text'[i].line = n
                          \/ \E k \in 1..Len(channel') : channel'[k].line = n
        BY DEF InChannel
      <3>1. CASE j = 1
        BY <2>5, <3>1
      <3>2. CASE j # 1
        <4>1. j - 1 \in 1..Len(channel') /\ channel'[j - 1] = channel[j]
          BY <2>2, <3>2
        <4> QED
          BY <4>1
      <3> QED
        BY <3>1, <3>2
    <2>7. Deltas' = Deltas
      BY <2>1 DEF Deltas
    <2> QED
      BY <1>0, <2>1, <2>4, <2>6, <2>7 DEF NoneMissing, InText, InChannel
  <1> QED
    BY <1>1, <1>2, <1>3, <1>4, <1>5, <1>6, <1>7, Actions

(* The event received comes after the text, and every delta before it has  *)
(* been received: none of them can still be in the channel.                *)
LEMMA InOrderStep == IInv /\ Next => TextInOrder'
  <1> SUFFICES ASSUME IInv, Next PROVE TextInOrder'
    OBVIOUS
  <1>0. TypeOK /\ ChannelOrdered /\ OnlyDrained /\ NoneMissing /\ TextInOrder
    BY DEF IInv
  <1>1. CASE UNCHANGED <<kind, text>>
    BY <1>0, <1>1 DEF TextInOrder, Deltas
  <1>2. CASE ReceiveEvent
    <2>1. /\ agent = "receiving" /\ channel # <<>> /\ UNCHANGED kind
          /\ Head(channel).line # 0
      BY <1>2 DEF ReceiveEvent, serverVars
    <2>2. /\ Len(channel) \in Nat \ {0}
          /\ channel[1] = Head(channel) /\ Head(channel) \in Events
      BY <1>0, <2>1, Shortened DEF TypeOK
    <2>3. text' = text \/ text' = Append(text, Head(channel))
      BY <1>2 DEF ReceiveEvent
    <2>4. CASE text' = Append(text, Head(channel))
      <3> DEFINE m == channel[1].line
      <3>1. /\ Len(text) \in Nat /\ Len(text') = Len(text) + 1
            /\ \A i \in 1..Len(text) : text'[i] = text[i]
            /\ text'[Len(text) + 1] = channel[1]
        BY <1>0, <2>2, <2>4, Appended DEF TypeOK
      <3>2. \A i \in 1..Len(text) : text[i].line < m
        BY <1>0, <2>1, <2>2 DEF ChannelOrdered
      <3>3. \A n \in Deltas : n < m => InText(n)
        <4> SUFFICES ASSUME NEW n \in Deltas, n < m PROVE InText(n)
          OBVIOUS
        <4>1. n \in Nat /\ n # 0 /\ m \in Nat /\ drained \in Nat
          BY <1>0, <2>2, Elements DEF TypeOK, Deltas
        <4>2. 2 * m <= drained
          BY <1>0, <2>2 DEF OnlyDrained
        <4>3. InText(n) \/ InChannel(n)
          BY <1>0, <2>1, <4>1, <4>2 DEF NoneMissing
        <4>4. ASSUME NEW j \in 1..Len(channel), channel[j].line = n PROVE FALSE
          <5>1. j # 1 => m < n
            BY <1>0, <2>2, <4>1, <4>4 DEF ChannelOrdered
          <5> QED
            BY <4>1, <4>4, <5>1
        <4> QED
          BY <4>3, <4>4 DEF InChannel
      <3>4. \A i, j \in 1..Len(text') : i < j => text'[i].line < text'[j].line
        <4> SUFFICES ASSUME NEW i \in 1..Len(text'), NEW j \in 1..Len(text'), i < j
                     PROVE  text'[i].line < text'[j].line
          OBVIOUS
        <4>1. i \in 1..Len(text) /\ (j \in 1..Len(text) \/ j = Len(text) + 1)
          BY <3>1
        <4> QED
          BY <1>0, <3>1, <3>2, <4>1 DEF TextInOrder
      <3>5. \A n \in Deltas : InText(n) => \E j \in 1..Len(text') : text'[j].line = n
        BY <3>1 DEF InText
      <3>6. \A i \in 1..Len(text'), n \in Deltas : n < text'[i].line => InText(n)
        <4> SUFFICES ASSUME NEW i \in 1..Len(text'), NEW n \in Deltas, n < text'[i].line
                     PROVE  InText(n)
          OBVIOUS
        <4>1. i \in 1..Len(text) \/ i = Len(text) + 1
          BY <3>1
        <4> QED
          BY <1>0, <3>1, <3>3, <4>1 DEF TextInOrder, InText
      <3>7. Deltas' = Deltas
        BY <2>1 DEF Deltas
      <3> QED
        BY <3>4, <3>5, <3>6, <3>7 DEF TextInOrder
    <2> QED
      BY <1>1, <2>1, <2>3, <2>4
  <1>3. CASE Quiet \/ Drop
    BY <1>1, <1>3, QuietSteps, DropSteps
  <1>4. CASE SkipLine \/ SendLine \/ SendFails \/ SendError
    BY <1>1, <1>4 DEF SkipLine, SendLine, SendFails, SendError, serverVars, agentVars
  <1> QED
    BY <1>2, <1>3, <1>4, Actions

(* The pump of an answer taken for whole came to the end of a closed       *)
(* connection with nothing but an unfinished line in its buffer.           *)
LEMMA WholeStep == IInv /\ Next => WholeAnswer'
  <1> SUFFICES ASSUME IInv, Next, result' = "whole"
               PROVE  {text'[i].line : i \in 1..Len(text')} = {n \in Deltas' : 2 * n <= sent'}
    BY DEF WholeAnswer
  <1>0. TypeOK /\ OnlyDrained /\ NoneMissing /\ PumpDrained /\ Returned /\ WholeAnswer
    BY DEF IInv
  <1>1. CASE StreamEnds
    <2>1. /\ agent = "receiving" /\ channel = <<>> /\ pump = "ended"
          /\ UNCHANGED <<kind, sent, text>>
      BY <1>1 DEF StreamEnds, serverVars
    <2>2. taken = sent /\ LineEnd > taken
      BY <1>0, <2>1 DEF PumpDrained
    <2>3. drained \in Nat /\ sent \in Nat /\ drained <= sent
      BY <1>0, StreamAssumption DEF TypeOK
    <2>4. ASSUME NEW i \in 1..Len(text)
          PROVE  text[i].line \in Deltas /\ 2 * text[i].line <= sent
      <3>1. text[i].line \in Nat /\ text[i].line \in Deltas /\ 2 * text[i].line <= drained
        BY <1>0, Elements DEF TypeOK, OnlyDrained
      <3> QED
        BY <2>3, <3>1
    <2>5. ASSUME NEW n \in Deltas, 2 * n <= sent PROVE InText(n)
      <3>1. n \in Nat
        BY DEF Deltas
      <3>2. 2 * n < 2 * (drained \div 2 + 1)
        BY <2>2, <2>3, <2>5, <3>1 DEF LineEnd, FirstLine
      <3>3. 2 * n <= drained
        BY <2>3, <3>1, <3>2
      <3>4. InText(n) \/ InChannel(n)
        BY <1>0, <2>1, <3>3 DEF NoneMissing
      <3> QED
        BY <2>1, <3>4 DEF InChannel
    <2>6. {text[i].line : i \in 1..Len(text)} = {n \in Deltas : 2 * n <= sent}
      BY <2>4, <2>5 DEF InText
    <2> QED
      BY <2>1, <2>6 DEF Deltas
  <1>2. CASE ~StreamEnds
    <2>1. result' = result
      BY <1>2, Actions, QuietSteps
      DEF Drop, PostFails, RunTimesOut, ReceiveError, Return, SkipLine, SendLine, SendFails,
          SendError, ReceiveEvent, agentVars
    <2>2. conn = "closed" /\ agent = "done"
      BY <1>0, <2>1 DEF Returned, TypeOK
    <2>3. UNCHANGED <<kind, sent, text>>
      BY <1>2, <2>2 DEF Next, Pump, Fetch, ServerWrites, ServerEnds, ChunkArrives, SkipLine, SendLine,
         SendFails, DrainEnds, BodyEnds, ReadFails, SendError, PostFails, PostSucceeds, ReceiveEvent,
         ReceiveError, RunTimesOut, serverVars, agentVars
    <2> QED
      BY <1>0, <2>1, <2>3 DEF WholeAnswer, Deltas
  <1> QED
    BY <1>1, <1>2

LEMMA Inductive == IInv /\ [Next]_vars => IInv'
  <1> SUFFICES ASSUME IInv, [Next]_vars PROVE IInv'
    OBVIOUS
  <1>1. CASE Next
    BY <1>1, TypeStep, EndsStep, PumpStep, OrderStep, DrainedStep, MissingStep, InOrderStep, WholeStep
    DEF IInv
  <1>2. CASE UNCHANGED vars
    BY <1>2 DEF vars, serverVars, pumpVars, agentVars, IInv, TypeOK, NothingYet, ChannelOrdered,
       OnlyDrained, NoneMissing, InText, InChannel, PumpDrained, LineEnd, FirstLine, Returned,
       TextInOrder, WholeAnswer, Deltas
  <1> QED
    BY <1>1, <1>2

LEMMA Invariant == Spec => []IInv
  BY StartsRight, Inductive, PTL DEF Spec

-----------------------------------------------------------------------------
(* The buffer and the channel keep within their bounds, whatever arrives.  *)
THEOREM Typed == Spec => []TypeOK
  <1>1. IInv => TypeOK
    BY DEF IInv
  <1> QED
    BY Invariant, <1>1, PTL

(* OpenAIAdapter::stream and fetch_response put the deltas together in the *)
(* order they were written, without a gap, however the body is cut into    *)
(* chunks and however small the channel is.                                *)
THEOREM InOrder == Spec => []TextInOrder
  <1>1. IInv => TextInOrder
    BY DEF IInv
  <1> QED
    BY Invariant, <1>1, PTL

(* fetch_response takes an answer for whole only when it has every delta   *)
(* whose line the server ended.                                            *)
THEOREM Whole == Spec => []WholeAnswer
  <1>1. IInv => WholeAnswer
    BY DEF IInv
  <1> QED
    BY Invariant, <1>1, PTL

-----------------------------------------------------------------------------
(* The start of the application: the transcript of the last run.           *)
Rows == [session : Nat, role : {"user", "agent"}]

CountIn(seq, s, i) == Cardinality({j \in 1..i : seq[j].session = s})

OfIn(seq, s) ==
  [k \in 1..CountIn(seq, s, Len(seq)) |->
    seq[Cardinality({i \in DOMAIN seq : CountIn(seq, s, i) < k}) + 1]]

LEMMA OfMessages == \A s : Of(s) = OfIn(messages, s)
BY DEF Of, OfIn, Count, CountIn

LEMMA CountNat ==
  ASSUME NEW seq, NEW s, NEW i \in Nat
  PROVE  /\ IsFiniteSet({j \in 1..i : seq[j].session = s})
         /\ CountIn(seq, s, i) \in Nat
         /\ \A k \in 0..i : CountIn(seq, s, k) \in Nat /\ CountIn(seq, s, k) <= CountIn(seq, s, i)
<1>. DEFINE upto(k) == {j \in 1..k : seq[j].session = s}
<1>1. ASSUME NEW k \in Nat PROVE IsFiniteSet(upto(k)) /\ CountIn(seq, s, k) \in Nat
  <2>1. IsFiniteSet(1..k) /\ upto(k) \subseteq 1..k
    BY FS_Interval
  <2>2. IsFiniteSet(upto(k))
    BY <2>1, FS_Subset
  <2>. HIDE DEF upto
  <2>3. Cardinality(upto(k)) \in Nat
    BY <2>2, FS_CardinalityType
  <2>. QED BY <2>2, <2>3 DEF CountIn, upto
<1>2. ASSUME NEW k \in 0..i PROVE CountIn(seq, s, k) <= CountIn(seq, s, i)
  <2>1. upto(k) \subseteq upto(i)
    OBVIOUS
  <2>2. IsFiniteSet(upto(i))
    BY <1>1
  <2>. HIDE DEF upto
  <2>3. Cardinality(upto(k)) <= Cardinality(upto(i))
    BY <2>1, <2>2, FS_Subset
  <2>. QED BY <2>3 DEF CountIn, upto
<1>3. \A k \in 0..i : k \in Nat
  OBVIOUS
<1>4. IsFiniteSet({j \in 1..i : seq[j].session = s})
  BY <1>1
<1>. QED BY <1>1, <1>2, <1>3, <1>4

(* A message is the last of its session and leaves the others as they are. *)
LEMMA OfAppended ==
  ASSUME NEW seq \in Seq(Rows), NEW m \in Rows, NEW s
  PROVE  OfIn(Append(seq, m), s) = IF m.session = s THEN Append(OfIn(seq, s), m) ELSE OfIn(seq, s)
<1>. DEFINE n == Len(seq)
            t == Append(seq, m)
            c == CountIn(seq, s, n)
            Fewer(u, k) == {i \in DOMAIN u : CountIn(u, s, i) < k}
<1>1. /\ n \in Nat /\ DOMAIN seq = 1..n /\ Len(t) = n + 1 /\ DOMAIN t = 1..(n + 1)
      /\ \A j \in 1..n : t[j] = seq[j]
      /\ t[n + 1] = m
  OBVIOUS
<1>. HIDE DEF n, t
<1>2. c \in Nat /\ \A i \in 0..n : CountIn(seq, s, i) \in Nat /\ CountIn(seq, s, i) <= c
  BY <1>1, CountNat
<1>3. ASSUME NEW i \in 0..n PROVE CountIn(t, s, i) = CountIn(seq, s, i)
  <2>1. \A j \in 1..i : t[j] = seq[j]
    BY <1>1
  <2>2. {j \in 1..i : t[j].session = s} = {j \in 1..i : seq[j].session = s}
    BY <2>1
  <2>. QED BY <2>2 DEF CountIn
<1>4. CountIn(t, s, n + 1) = IF m.session = s THEN c + 1 ELSE c
  <2>. DEFINE S == {j \in 1..n : t[j].session = s}
              T == {j \in 1..(n + 1) : t[j].session = s}
  <2>1. T = IF m.session = s THEN S \cup {n + 1} ELSE S
    BY <1>1
  <2>2. IsFiniteSet(S) /\ n + 1 \notin S
    <3>1. n \in Nat /\ n + 1 \notin 1..n
      BY <1>1
    <3>2. IsFiniteSet(S)
      BY <3>1, CountNat
    <3>. QED BY <3>1, <3>2
  <2>3. Cardinality(S) = c
    BY <1>1, <1>3 DEF CountIn
  <2>4. CountIn(t, s, n + 1) = Cardinality(T)
    BY DEF CountIn
  <2>. HIDE DEF S, T, c
  <2>5. Cardinality(S \cup {n + 1}) = Cardinality(S) + 1
    BY <2>2, FS_AddElement
  <2>. QED BY <2>1, <2>3, <2>4, <2>5
<1>5. ASSUME NEW k \in 1..c
      PROVE  Fewer(t, k) = Fewer(seq, k) /\ Cardinality(Fewer(seq, k)) + 1 \in 1..n
  <2>1. ~(CountIn(t, s, n + 1) < k) /\ ~(CountIn(seq, s, n) < k)
    BY <1>2, <1>4
  <2>2. Fewer(t, k) = Fewer(seq, k)
    BY <1>1, <1>3, <2>1
  <2>3. Fewer(seq, k) \subseteq 1..(n - 1) /\ n # 0
    <3>1. n # 0
      <4>1. CASE n = 0
        <5>1. {j \in 1..n : seq[j].session = s} = {}
          BY <4>1
        <5>2. c = 0
          BY <5>1, FS_EmptySet DEF CountIn
        <5>. QED BY <5>2
      <4>. QED BY <4>1
    <3>. QED BY <1>1, <2>1, <3>1
  <2>4. IsFiniteSet(1..(n - 1)) /\ Cardinality(1..(n - 1)) = n - 1
    <3>1. n - 1 \in Nat
      BY <1>1, <2>3
    <3>. QED BY <3>1, FS_Interval
  <2>. HIDE DEF Fewer, c
  <2>5. Cardinality(Fewer(seq, k)) \in Nat /\ Cardinality(Fewer(seq, k)) <= n - 1
    BY <2>3, <2>4, FS_Subset, FS_CardinalityType
  <2>. QED BY <1>1, <2>2, <2>5
<1>6. ASSUME NEW k \in 1..c PROVE OfIn(t, s)[k] = OfIn(seq, s)[k]
  <2>. DEFINE at == Cardinality(Fewer(seq, k)) + 1
  <2>1. k \in 1..CountIn(t, s, Len(t)) /\ k \in 1..CountIn(seq, s, Len(seq))
    BY <1>1, <1>2, <1>4 DEF n
  <2>2. OfIn(t, s)[k] = t[Cardinality(Fewer(t, k)) + 1] /\ OfIn(seq, s)[k] = seq[at]
    BY <2>1 DEF OfIn
  <2>. HIDE DEF Fewer
  <2>. QED BY <1>1, <1>5, <2>2
<1>7. CASE m.session # s
  <2>1. CountIn(t, s, Len(t)) = c /\ CountIn(seq, s, Len(seq)) = c
    BY <1>1, <1>4, <1>7 DEF n
  <2>. HIDE DEF c, Fewer
  <2>2. /\ OfIn(t, s) = [k \in 1..c |-> OfIn(t, s)[k]]
        /\ OfIn(seq, s) = [k \in 1..c |-> OfIn(seq, s)[k]]
    BY <2>1 DEF OfIn
  <2>. QED BY <1>6, <1>7, <2>2 DEF t
<1>8. CASE m.session = s
  <2>1. CountIn(t, s, Len(t)) = c + 1 /\ CountIn(seq, s, Len(seq)) = c
    BY <1>1, <1>4, <1>8 DEF n
  <2>2. OfIn(t, s)[c + 1] = m
    <3>1. Fewer(t, c + 1) = 1..n
      BY <1>1, <1>2, <1>3, <1>4, <1>8
    <3>2. Cardinality(1..n) = n
      BY <1>1, FS_Interval
    <3>3. OfIn(t, s)[c + 1] = t[Cardinality(Fewer(t, c + 1)) + 1]
      <4>1. c + 1 \in 1..CountIn(t, s, Len(t))
        BY <1>2, <2>1
      <4>. QED BY <4>1 DEF OfIn
    <3>. HIDE DEF Fewer
    <3>. QED BY <1>1, <3>1, <3>2, <3>3
  <2>. HIDE DEF c, Fewer
  <2>3. /\ OfIn(t, s) = [k \in 1..(c + 1) |-> OfIn(t, s)[k]]
        /\ OfIn(seq, s) = [k \in 1..c |-> OfIn(seq, s)[k]]
    BY <2>1 DEF OfIn
  <2>. DEFINE old == OfIn(seq, s)
              new == OfIn(t, s)
  <2>. HIDE DEF old, new
  <2>4. Len(old) = c /\ Append(old, m) = [k \in 1..(c + 1) |-> IF k <= c THEN old[k] ELSE m]
    <3>. DEFINE X == {old[k] : k \in 1..c} \cup {m}
    <3>1. old = [k \in 1..c |-> old[k]]
      BY <2>3 DEF old
    <3>2. \A k \in 1..c : old[k] \in X
      OBVIOUS
    <3>3. m \in X
      OBVIOUS
    <3>. HIDE DEF X
    <3>4. old \in [1..c -> X]
      BY <3>1, <3>2
    <3>5. old \in Seq(X) /\ Len(old) = c
      BY <1>2, <3>4
    <3>. DEFINE app == Append(old, m)
    <3>6. /\ app \in Seq(X) /\ Len(app) = c + 1 /\ app[c + 1] = m
          /\ \A k \in 1..c : app[k] = old[k]
      BY <3>3, <3>5, AppendProperties
    <3>. HIDE DEF app
    <3>7. app = [k \in 1..(c + 1) |-> app[k]]
      BY <3>6
    <3>8. \A k \in 1..(c + 1) : app[k] = IF k <= c THEN old[k] ELSE m
      BY <1>2, <3>6
    <3>9. app = [k \in 1..(c + 1) |-> IF k <= c THEN old[k] ELSE m]
      BY <3>7, <3>8
    <3>. QED BY <3>5, <3>9 DEF app
  <2>5. \A k \in 1..(c + 1) : new[k] = IF k <= c THEN old[k] ELSE m
    <3>1. \A k \in 1..c : new[k] = old[k]
      BY <1>6 DEF old, new
    <3>2. new[c + 1] = m
      BY <2>2 DEF new
    <3>. QED BY <1>2, <3>1, <3>2
  <2>6. new = Append(old, m)
    BY <2>3, <2>4, <2>5 DEF new
  <2>. QED BY <1>8, <2>6 DEF old, new, t
<1>. QED BY <1>7, <1>8


StartTyped ==
  /\ sessions \in Nat /\ sessions <= MaxSessions
  /\ messages \in Seq(Rows) /\ \A i \in DOMAIN messages : messages[i].session \in 1..sessions
  /\ DOMAIN phase = Processes /\ DOMAIN sid = Processes /\ DOMAIN from = Processes
  /\ DOMAIN shown = Processes /\ DOMAIN said = Processes /\ DOMAIN ended = 1..MaxSessions
  /\ DOMAIN running = Processes /\ DOMAIN doing = Processes
  /\ \A p \in Processes : doing[p] \in {"none", "record", "show"}
  /\ \A p \in Processes : sid[p] \in 0..sessions /\ from[p] \in 0..sessions
  /\ \A s \in 1..sessions : OfIn(messages, s) \in Seq(Rows)

(* A session belongs to one process, which has it after it looked at the   *)
(* one before, has said nothing before it has it, and does nothing half    *)
(* until it is live.                                                       *)
OneEach ==
  /\ \A p, q \in Processes : sid[p] # 0 /\ sid[p] = sid[q] => p = q
  /\ \A p \in Processes : sid[p] # 0 => phase[p] \in {"ready", "live"}
  /\ \A p \in Processes : sid[p] = 0 => said[p] = <<>>
  /\ \A p \in Processes : phase[p] # "live" => doing[p] = "none" /\ ~running[p]

(* Memory has what the run of a session has on the screen, but for the     *)
(* message it has half dealt with; when it has ended, but for one that it  *)
(* had.                                                                    *)
KeptAs(step, s, memory, screen) ==
  /\ step = "none" => memory = screen
  /\ step = "record" => screen = Append(memory, UserLine(s))
  /\ step = "show" => memory = Append(screen, Summary(s))

Recorded ==
  \A s \in (1..sessions) \ spoiled :
    /\ \A p \in Processes : sid[p] = s => KeptAs(doing[p], s, OfIn(messages, s), said[p])
    /\ (\A p \in Processes : sid[p] # s) => OfIn(messages, s) \in Kept(s, ended[s])

StartInv == StartTyped /\ OneEach /\ Recorded

LEMMA OfNobody ==
  ASSUME NEW seq \in Seq(Rows), NEW s, \A i \in DOMAIN seq : seq[i].session # s
  PROVE  OfIn(seq, s) = <<>>
<1>1. DOMAIN seq = 1..Len(seq)
  OBVIOUS
<1>2. {j \in 1..Len(seq) : seq[j].session = s} = {}
  BY <1>1
<1>3. CountIn(seq, s, Len(seq)) = 0
  BY <1>2, FS_EmptySet DEF CountIn
<1>. QED BY <1>3 DEF OfIn

(* What is half dealt with is all that screen and memory differ in.        *)
LEMMA KeptWhole ==
  ASSUME NEW step \in {"none", "record", "show"}, NEW s, NEW memory \in Seq(Rows), NEW screen,
         UserLine(s) \in Rows, KeptAs(step, s, memory, screen)
  PROVE  memory \in Kept(s, screen)
<1>1. CASE step = "none" \/ step = "show"
  BY <1>1 DEF KeptAs, Kept
<1>2. CASE step = "record"
  <2>. DEFINE row == UserLine(s)
  <2>. HIDE DEF row
  <2>1. screen = Append(memory, row) /\ row \in Rows
    BY <1>2 DEF KeptAs, row
  <2>2. /\ screen \in Seq(Rows) /\ Len(screen) = Len(memory) + 1 /\ screen[Len(memory) + 1] = row
        /\ Len(memory) \in Nat /\ \A i \in 1..Len(memory) : screen[i] = memory[i]
    BY <2>1
  <2>3. screen # <<>> /\ Last(screen) = row
    BY <2>2 DEF Last
  <2>4. Front(screen) = memory
    BY <2>1, <2>2 DEF Front
  <2>. QED BY <2>3, <2>4 DEF Kept, row
<1>. QED BY <1>1, <1>2

LEMMA StartInvInit == StartupInit => StartInv
<1>. SUFFICES ASSUME StartupInit PROVE StartInv
  OBVIOUS
<1>. USE DEF StartupInit, MemoryInit
<1>1. StartTyped
  <2>1. MaxSessions \in Nat
    BY StartupAssumption
  <2>2. messages = <<>> /\ messages \in Seq(Rows)
    OBVIOUS
  <2>3. \A p \in Processes : sid[p] = 0 /\ from[p] = 0
    OBVIOUS
  <2>4. DOMAIN phase = Processes /\ DOMAIN sid = Processes /\ DOMAIN from = Processes
        /\ DOMAIN shown = Processes /\ DOMAIN said = Processes /\ DOMAIN ended = 1..MaxSessions
        /\ DOMAIN running = Processes /\ DOMAIN doing = Processes
        /\ \A p \in Processes : doing[p] = "none" /\ ~running[p]
    OBVIOUS
  <2>. QED BY <2>1, <2>2, <2>3, <2>4 DEF StartTyped
<1>2. OneEach
  BY DEF OneEach
<1>3. Recorded
  BY DEF Recorded
<1>. QED BY <1>1, <1>2, <1>3 DEF StartInv

(* Steps that leave the sessions alone.                                    *)
LEMMA SessionsKept ==
  ASSUME StartInv, NEW p \in Processes,
         UNCHANGED <<dbVars, sid, running, doing, said, ended, spoiled>>,
         \A q \in Processes :
           \/ phase'[q] = phase[q]
           \/ q = p /\ phase[p] # "live" /\ (sid[p] = 0 \/ phase'[p] = "live"),
         \A q \in Processes : from'[q] \in {from[q], 0, sessions},
         DOMAIN phase' = Processes, DOMAIN from' = Processes, DOMAIN shown' = Processes
  PROVE  StartInv'
<1>1. StartTyped'
  <2>1. \A q \in Processes : from'[q] \in 0..sessions
    BY DEF StartInv, StartTyped
  <2>. QED BY <2>1 DEF StartInv, StartTyped, dbVars
<1>2. OneEach'
  BY DEF StartInv, OneEach
<1>3. Recorded'
  BY DEF StartInv, Recorded, dbVars
<1>. QED BY <1>1, <1>2, <1>3 DEF StartInv

LEMMA LookingInv ==
  ASSUME StartInv, NEW p \in Processes,
         \/ Launch(p) \/ Replay(p) \/ ReplayFails(p) \/ StartSessionFails(p) \/ Build(p)
         \/ Heed(p)
  PROVE  StartInv'
<1>1. phase[p] \in {"off", "looked", "replayed"} => sid[p] = 0
  BY DEF StartInv, OneEach
<1>2. /\ DOMAIN phase = Processes /\ DOMAIN from = Processes /\ DOMAIN shown = Processes
      /\ \A q \in Processes : from[q] \in {from[q], 0, sessions}
  BY DEF StartInv, StartTyped
<1>3. CASE Launch(p)
  BY <1>1, <1>2, <1>3, SessionsKept DEF Launch
<1>4. CASE Replay(p) \/ ReplayFails(p)
  BY <1>1, <1>2, <1>4, SessionsKept DEF Replay, ReplayFails
<1>5. CASE StartSessionFails(p)
  BY <1>1, <1>2, <1>5, SessionsKept DEF StartSessionFails
<1>6. CASE Build(p)
  BY <1>1, <1>2, <1>6, SessionsKept DEF Build
<1>7. CASE Heed(p)
  BY <1>1, <1>2, <1>7, SessionsKept DEF Heed
<1>. QED BY <1>3, <1>4, <1>5, <1>6, <1>7

(* A new session has no messages, and nobody else has it.                  *)
LEMMA StartSessionInv ==
  ASSUME StartInv, NEW p \in Processes, StartSession(p)
  PROVE  StartInv'
<1>. DEFINE new == sessions + 1
<1>1. /\ sessions' = new /\ UNCHANGED <<messages, from, shown, running, doing, said, ended, spoiled>>
      /\ sid' = [sid EXCEPT ![p] = new] /\ phase' = [phase EXCEPT ![p] = "ready"]
      /\ phase[p] = "replayed" /\ sessions < MaxSessions
  BY DEF StartSession, CreateSession
<1>2. /\ sessions \in Nat /\ new \in Nat /\ new # 0 /\ MaxSessions \in Nat /\ sid[p] = 0
      /\ DOMAIN sid = Processes /\ DOMAIN phase = Processes
      /\ \A q \in Processes : sid[q] \in 0..sessions /\ sid[q] # new
  <2>1. /\ sessions \in Nat /\ DOMAIN sid = Processes /\ DOMAIN phase = Processes
        /\ \A q \in Processes : sid[q] \in 0..sessions
    BY DEF StartInv, StartTyped
  <2>2. sid[p] = 0
    BY <1>1 DEF StartInv, OneEach
  <2>. QED BY <1>1, <2>1, <2>2, StartupAssumption
<1>3. /\ sid'[p] = new /\ phase'[p] = "ready"
      /\ \A q \in Processes : q # p => sid'[q] = sid[q] /\ phase'[q] = phase[q]
  BY <1>1, <1>2
<1>7. OfIn(messages, new) = <<>>
  <2>1. \A i \in DOMAIN messages : messages[i].session # new
    BY <1>2 DEF StartInv, StartTyped
  <2>. QED BY <2>1, OfNobody DEF StartInv, StartTyped
<1>4. StartTyped'
  <2>1. \A q \in Processes : sid'[q] \in 0..new /\ from'[q] \in 0..new
    BY <1>1, <1>2, <1>3 DEF StartInv, StartTyped
  <2>2. \A i \in DOMAIN messages : messages[i].session \in 1..new
    BY <1>2 DEF StartInv, StartTyped
  <2>3. new <= MaxSessions
    BY <1>1, <1>2
  <2>4. DOMAIN sid' = Processes /\ DOMAIN phase' = Processes
    BY <1>1, <1>2
  <2>5. OfIn(messages, new) \in Seq(Rows)
    <3>1. <<>> \in Seq(Rows)
      OBVIOUS
    <3>. HIDE DEF new
    <3>. QED BY <1>7, <3>1
  <2>6. \A s \in 1..new : OfIn(messages, s) \in Seq(Rows)
    <3>1. \A s \in 1..new : s = new \/ s \in 1..sessions
      BY <1>2
    <3>. QED BY <2>5, <3>1 DEF StartInv, StartTyped
  <2>. HIDE DEF new
  <2>. QED BY <1>1, <1>2, <2>1, <2>2, <2>3, <2>4, <2>6 DEF StartInv, StartTyped
<1>5. OneEach'
  <2>. HIDE DEF new
  <2>. QED BY <1>1, <1>2, <1>3 DEF StartInv, OneEach
<1>6. Recorded'
  <2>2. said'[p] = <<>> /\ doing'[p] = "none"
    BY <1>1, <1>2 DEF StartInv, OneEach
  <2>3. ASSUME NEW s \in (1..new) \ spoiled
        PROVE  /\ \A q \in Processes :
                    sid'[q] = s => KeptAs(doing'[q], s, OfIn(messages', s), said'[q])
               /\ (\A q \in Processes : sid'[q] # s) => OfIn(messages', s) \in Kept(s, ended'[s])
    <3>1. CASE s = new
      <4>1. \A q \in Processes : sid'[q] = new => q = p
        BY <1>2, <1>3
      <4>2. KeptAs(doing'[p], new, OfIn(messages', new), said'[p])
        BY <1>1, <1>7, <2>2 DEF KeptAs
      <4>. HIDE DEF new
      <4>. QED BY <1>3, <3>1, <4>1, <4>2
    <3>2. CASE s # new
      <4>1. s \in (1..sessions) \ spoiled
        BY <1>2, <2>3, <3>2
      <4>2. /\ \A q \in Processes : sid[q] = s => KeptAs(doing[q], s, OfIn(messages, s), said[q])
            /\ (\A q \in Processes : sid[q] # s) => OfIn(messages, s) \in Kept(s, ended[s])
        BY <4>1 DEF StartInv, Recorded
      <4>3. \A q \in Processes : sid'[q] = s <=> sid[q] = s
        BY <1>2, <1>3, <3>2, <4>1
      <4>. HIDE DEF new
      <4>. QED BY <1>1, <4>2, <4>3
    <3>. QED BY <3>1, <3>2
  <2>. HIDE DEF new
  <2>. QED BY <1>1, <2>3 DEF Recorded
<1>. QED BY <1>4, <1>5, <1>6 DEF StartInv


(* What is shown first is yet to be recorded, and what was recorded first  *)
(* is now shown.                                                           *)
LEMMA ShowInv ==
  ASSUME StartInv, NEW p \in Processes, Submit(p) \/ ShowSummary(p)
  PROVE  StartInv'
<1>. DEFINE row == [session |-> sid[p], role |-> IF Submit(p) THEN "user" ELSE "agent"]
<1>1. /\ UNCHANGED <<dbVars, phase, sid, from, shown, running, ended, spoiled>>
      /\ phase[p] = "live" \/ doing[p] = "show"
      /\ said' = IF sid[p] = 0 THEN said ELSE [said EXCEPT ![p] = Append(said[p], row)]
      /\ \/ Submit(p) /\ doing[p] = "none" /\ doing' = [doing EXCEPT ![p] = "record"]
         \/ ~Submit(p) /\ doing[p] = "show" /\ doing' = [doing EXCEPT ![p] = "none"]
  <2>1. CASE Submit(p)
    BY <2>1 DEF Submit, Show, Live
  <2>2. CASE ~Submit(p)
    BY <2>2 DEF ShowSummary, Show
  <2>. QED BY <2>1, <2>2
<1>2. DOMAIN said = Processes /\ DOMAIN doing = Processes
  BY DEF StartInv, StartTyped
<1>3. /\ \A q \in Processes : q # p => said'[q] = said[q] /\ doing'[q] = doing[q]
      /\ sid[p] = 0 => said'[p] = said[p]
      /\ sid[p] # 0 => said'[p] = Append(said[p], row)
  BY <1>1, <1>2
<1>4. StartTyped'
  <2>1. /\ DOMAIN said' = Processes /\ DOMAIN doing' = Processes
        /\ \A q \in Processes : doing'[q] \in {doing[q], "record", "none"}
    BY <1>1, <1>2
  <2>. QED BY <1>1, <2>1 DEF StartInv, StartTyped, dbVars
<1>5. OneEach'
  <2>1. phase[p] = "live"
    BY <1>1 DEF StartInv, OneEach
  <2>. QED BY <1>1, <1>3, <2>1 DEF StartInv, OneEach
<1>6. ASSUME NEW s \in (1..sessions) \ spoiled, NEW q \in Processes, sid[q] = s
      PROVE  KeptAs(doing'[q], s, OfIn(messages, s), said'[q])
  <2>1. KeptAs(doing[q], s, OfIn(messages, s), said[q])
    BY <1>6 DEF StartInv, Recorded
  <2>2. CASE q # p
    BY <1>3, <2>1, <2>2
  <2>3. CASE q = p
    <3>1. said'[p] = Append(said[p], row) /\ sid[p] = s
      BY <1>3, <1>6, <2>3 DEF StartInv, StartTyped
    <3>2. CASE Submit(p)
      <4>1. OfIn(messages, s) = said[p] /\ doing'[p] = "record"
        BY <1>1, <1>2, <2>1, <2>3, <3>2 DEF KeptAs
      <4>2. row = UserLine(s)
        BY <3>1, <3>2 DEF UserLine
      <4>. HIDE DEF row
      <4>. QED BY <2>3, <3>1, <4>1, <4>2 DEF KeptAs
    <3>3. CASE ~Submit(p)
      <4>1. OfIn(messages, s) = Append(said[p], Summary(s)) /\ doing'[p] = "none"
        BY <1>1, <1>2, <2>1, <2>3, <3>3 DEF KeptAs
      <4>2. row = Summary(s)
        BY <3>1, <3>3 DEF Summary
      <4>. HIDE DEF row
      <4>. QED BY <2>3, <3>1, <4>1, <4>2 DEF KeptAs
    <3>. QED BY <3>2, <3>3
  <2>. QED BY <2>2, <2>3
<1>7. Recorded'
  BY <1>1, <1>6 DEF StartInv, Recorded, dbVars
<1>. QED BY <1>4, <1>5, <1>7 DEF StartInv

(* What is recorded first is yet to be shown, what was shown first is now  *)
(* recorded, and what fails to be is known to.                             *)
LEMMA RecordInv ==
  ASSUME StartInv, NEW p \in Processes, RecordLine(p) \/ Finish(p)
  PROVE  StartInv'
<1>. DEFINE role == IF RecordLine(p) THEN "user" ELSE "agent"
            m == [session |-> sid[p], role |-> role]
<1>1. PICK blank \in BOOLEAN :
        /\ Record(p, role, blank)
        /\ \/ RecordLine(p) /\ ~blank /\ doing[p] = "record" /\ doing' = [doing EXCEPT ![p] = "none"]
           \/ /\ ~RecordLine(p) /\ doing[p] = "none"
              /\ doing' = [doing EXCEPT ![p] = IF blank THEN "none" ELSE "show"]
  <2>1. CASE RecordLine(p)
    BY <2>1 DEF RecordLine
  <2>2. CASE ~RecordLine(p)
    BY <2>2 DEF Finish
  <2>. QED BY <2>1, <2>2
<1>2. /\ UNCHANGED <<phase, sid, from, shown, said, ended>> /\ phase[p] = "live"
      /\ DOMAIN running' = Processes /\ \A q \in Processes : q # p => running'[q] = running[q]
  BY DEF StartInv, StartTyped, OneEach, RecordLine, Finish
<1>3. /\ doing'[p] \in {"none", "show"} /\ DOMAIN doing' = Processes
      /\ \A q \in Processes : q # p => doing'[q] = doing[q]
  BY <1>1 DEF StartInv, StartTyped
<1>4. OneEach'
  BY <1>2, <1>3 DEF StartInv, OneEach
<1>5. \/ UNCHANGED dbVars /\ spoiled' = spoiled \cup ({sid[p]} \ {0})
      \/ /\ sid[p] # 0 /\ spoiled' = spoiled /\ sessions' = sessions
         /\ messages' = IF blank THEN messages ELSE Append(messages, m)
  BY <1>1 DEF Record, RecordMessage
<1>. HIDE DEF role
<1>6. CASE UNCHANGED dbVars /\ spoiled' = spoiled \cup ({sid[p]} \ {0})
  <2>1. StartTyped'
    BY <1>2, <1>3, <1>6 DEF StartInv, StartTyped, dbVars
  <2>2. ASSUME NEW s \in (1..sessions) \ spoiled'
        PROVE  /\ s \in (1..sessions) \ spoiled
               /\ \A q \in Processes : sid[q] = s => doing'[q] = doing[q]
    <3>1. s \notin spoiled /\ (sid[p] = 0 \/ s # sid[p])
      BY <1>6, <2>2
    <3>2. s # 0
      BY DEF StartInv, StartTyped
    <3>. QED BY <1>3, <3>1, <3>2
  <2>3. Recorded'
    BY <1>2, <1>6, <2>2 DEF StartInv, Recorded, dbVars
  <2>. QED BY <1>4, <2>1, <2>3 DEF StartInv
<1>7. CASE /\ sid[p] # 0 /\ spoiled' = spoiled /\ sessions' = sessions
           /\ messages' = IF blank THEN messages ELSE Append(messages, m)
  <2>1. /\ messages \in Seq(Rows) /\ sid[p] \in 1..sessions /\ sessions \in Nat /\ m \in Rows
        /\ \A i \in DOMAIN messages : messages[i].session \in 1..sessions
        /\ m.session = sid[p]
    BY <1>7 DEF StartInv, StartTyped, Rows, role
  <2>2. ASSUME NEW s \in 1..sessions
        PROVE  /\ blank \/ sid[p] # s => OfIn(messages', s) = OfIn(messages, s)
               /\ ~blank /\ sid[p] = s => OfIn(messages', s) = Append(OfIn(messages, s), m)
               /\ OfIn(messages', s) \in Seq(Rows)
    <3>1. OfIn(messages, s) \in Seq(Rows)
      BY DEF StartInv, StartTyped
    <3>. HIDE DEF m
    <3>2. CASE blank
      BY <1>7, <3>1, <3>2
    <3>3. CASE ~blank
      <4>1. OfIn(messages', s) =
              IF sid[p] = s THEN Append(OfIn(messages, s), m) ELSE OfIn(messages, s)
        BY <1>7, <2>1, <3>3, OfAppended
      <4>2. Append(OfIn(messages, s), m) \in Seq(Rows)
        BY <2>1, <3>1
      <4>. QED BY <3>1, <3>3, <4>1, <4>2
    <3>. QED BY <3>2, <3>3
  <2>3. StartTyped'
    <3>1. /\ messages' \in Seq(Rows)
          /\ \A i \in DOMAIN messages' : messages'[i].session \in 1..sessions
      <4>1. CASE blank
        BY <1>7, <2>1, <4>1
      <4>2. CASE ~blank
        <5>. HIDE DEF m
        <5>1. messages' \in Seq(Rows) /\ DOMAIN messages' = 1..(Len(messages) + 1)
              /\ Len(messages) \in Nat /\ DOMAIN messages = 1..Len(messages)
              /\ messages'[Len(messages) + 1] = m
              /\ \A i \in 1..Len(messages) : messages'[i] = messages[i]
          BY <1>7, <2>1, <4>2
        <5>. QED BY <2>1, <5>1
      <4>. QED BY <4>1, <4>2
    <3>2. \A s \in 1..sessions : OfIn(messages', s) \in Seq(Rows)
      BY <2>2
    <3>. QED BY <1>2, <1>3, <1>7, <3>1, <3>2 DEF StartInv, StartTyped
  <2>4. ASSUME NEW s \in (1..sessions) \ spoiled
        PROVE  /\ \A q \in Processes :
                    sid[q] = s => KeptAs(doing'[q], s, OfIn(messages', s), said[q])
               /\ (\A q \in Processes : sid[q] # s) => OfIn(messages', s) \in Kept(s, ended[s])
    <3>1. /\ \A q \in Processes : sid[q] = s => KeptAs(doing[q], s, OfIn(messages, s), said[q])
          /\ (\A q \in Processes : sid[q] # s) => OfIn(messages, s) \in Kept(s, ended[s])
      BY DEF StartInv, Recorded
    <3>2. CASE sid[p] # s
      BY <1>3, <2>2, <3>1, <3>2
    <3>3. CASE sid[p] = s
      <4>1. \A q \in Processes : sid[q] = s => q = p
        BY <1>7, <3>3 DEF StartInv, OneEach
      <4>2. KeptAs(doing'[p], s, OfIn(messages', s), said[p])
        <5>1. KeptAs(doing[p], s, OfIn(messages, s), said[p])
          BY <3>1, <3>3
        <5>2. CASE RecordLine(p)
          <6>1. ~blank /\ doing[p] = "record" /\ doing'[p] = "none"
            BY <1>1, <1>3, <5>2 DEF StartInv, StartTyped
          <6>2. m = UserLine(s)
            BY <3>3, <5>2 DEF UserLine, role
          <6>. HIDE DEF m
          <6>. QED BY <2>2, <3>3, <5>1, <6>1, <6>2 DEF KeptAs
        <5>3. CASE ~RecordLine(p)
          <6>1. doing[p] = "none" /\ doing'[p] = IF blank THEN "none" ELSE "show"
            BY <1>1, <5>3 DEF StartInv, StartTyped
          <6>2. m = Summary(s)
            BY <3>3, <5>3 DEF Summary, role
          <6>. HIDE DEF m
          <6>. QED BY <2>2, <3>3, <5>1, <6>1, <6>2 DEF KeptAs
        <5>. QED BY <5>2, <5>3
      <4>. QED BY <3>3, <4>1, <4>2
    <3>. QED BY <3>2, <3>3
  <2>5. Recorded'
    BY <1>2, <1>7, <2>4 DEF Recorded
  <2>. QED BY <1>4, <2>3, <2>5 DEF StartInv
<1>. QED BY <1>5, <1>6, <1>7

(* The run that had a session leaves to it what it said.                   *)
LEMMA EndInv == ASSUME StartInv, NEW p \in Processes, End(p) PROVE StartInv'
<1>1. /\ UNCHANGED <<dbVars, spoiled>>
      /\ phase' = [phase EXCEPT ![p] = "off"] /\ sid' = [sid EXCEPT ![p] = 0]
      /\ from' = [from EXCEPT ![p] = 0] /\ shown' = [shown EXCEPT ![p] = <<>>]
      /\ said' = [said EXCEPT ![p] = <<>>] /\ doing' = [doing EXCEPT ![p] = "none"]
      /\ running' = [running EXCEPT ![p] = FALSE]
      /\ ended' = IF sid[p] = 0 THEN ended ELSE [ended EXCEPT ![sid[p]] = said[p]]
  BY DEF End
<1>2. /\ sessions \in Nat /\ sessions <= MaxSessions /\ MaxSessions \in Nat
      /\ DOMAIN phase = Processes /\ DOMAIN sid = Processes /\ DOMAIN from = Processes
      /\ DOMAIN shown = Processes /\ DOMAIN said = Processes /\ DOMAIN ended = 1..MaxSessions
      /\ DOMAIN running = Processes /\ DOMAIN doing = Processes
      /\ \A q \in Processes : sid[q] \in 0..sessions /\ from[q] \in 0..sessions
  BY StartupAssumption DEF StartInv, StartTyped
<1>3. /\ sid'[p] = 0 /\ from'[p] = 0 /\ said'[p] = <<>> /\ phase'[p] = "off"
      /\ doing'[p] = "none" /\ ~running'[p]
      /\ \A q \in Processes : q # p => /\ sid'[q] = sid[q] /\ from'[q] = from[q]
                                       /\ said'[q] = said[q] /\ phase'[q] = phase[q]
                                       /\ doing'[q] = doing[q] /\ running'[q] = running[q]
  BY <1>1, <1>2
<1>4. StartTyped'
  <2>1. \A q \in Processes : sid'[q] \in 0..sessions /\ from'[q] \in 0..sessions
    BY <1>2, <1>3
  <2>2. /\ DOMAIN phase' = Processes /\ DOMAIN sid' = Processes /\ DOMAIN from' = Processes
        /\ DOMAIN shown' = Processes /\ DOMAIN said' = Processes /\ DOMAIN doing' = Processes
        /\ DOMAIN running' = Processes /\ \A q \in Processes : doing'[q] \in {doing[q], "none"}
    BY <1>1, <1>2
  <2>3. DOMAIN ended' = 1..MaxSessions
    BY <1>1, <1>2
  <2>. QED BY <1>1, <2>1, <2>2, <2>3 DEF StartInv, StartTyped, dbVars
<1>5. OneEach'
  BY <1>3 DEF StartInv, OneEach
<1>6. ASSUME NEW s \in (1..sessions) \ spoiled
      PROVE  /\ \A q \in Processes : sid'[q] = s => KeptAs(doing'[q], s, OfIn(messages, s), said'[q])
             /\ (\A q \in Processes : sid'[q] # s) => OfIn(messages, s) \in Kept(s, ended'[s])
  <2>1. /\ \A q \in Processes : sid[q] = s => KeptAs(doing[q], s, OfIn(messages, s), said[q])
        /\ (\A q \in Processes : sid[q] # s) => OfIn(messages, s) \in Kept(s, ended[s])
    BY DEF StartInv, Recorded
  <2>2. s # 0 /\ s \in 1..MaxSessions
    BY <1>2
  <2>3. \A q \in Processes :
          sid'[q] = s => q # p /\ sid[q] = s /\ said'[q] = said[q] /\ doing'[q] = doing[q]
    BY <1>3, <2>2
  <2>4. CASE sid[p] = s
    <3>1. ended'[s] = said[p]
      BY <1>1, <1>2, <2>2, <2>4
    <3>2. OfIn(messages, s) \in Kept(s, said[p])
      <4>1. OfIn(messages, s) \in Seq(Rows) /\ doing[p] \in {"none", "record", "show"}
        BY DEF StartInv, StartTyped
      <4>2. UserLine(s) \in Rows
        BY <1>2 DEF UserLine, Rows
      <4>. QED BY <2>1, <2>4, <4>1, <4>2, KeptWhole
    <3>. QED BY <2>1, <2>3, <3>1, <3>2
  <2>5. CASE sid[p] # s
    <3>1. ended'[s] = ended[s]
      BY <1>1, <1>2, <2>2, <2>5
    <3>2. (\A q \in Processes : sid'[q] # s) => \A q \in Processes : sid[q] # s
      BY <1>3, <2>5
    <3>. QED BY <2>1, <2>3, <3>1, <3>2
  <2>. QED BY <2>4, <2>5
<1>7. Recorded'
  BY <1>1, <1>6 DEF Recorded, dbVars
<1>. QED BY <1>4, <1>5, <1>7 DEF StartInv

LEMMA StartInvNext == StartInv /\ [StartupNext]_startupVars => StartInv'
<1>. SUFFICES ASSUME StartInv, [StartupNext]_startupVars PROVE StartInv'
  OBVIOUS
<1>1. CASE UNCHANGED startupVars
  <2>1. UNCHANGED <<dbVars, phase, sid, from, shown, running, doing, said, ended, spoiled>>
    BY <1>1 DEF startupVars, runVars
  <2>2. StartTyped' /\ OneEach'
    BY <2>1 DEF StartInv, StartTyped, OneEach, dbVars
  <2>3. Recorded'
    BY <2>1 DEF StartInv, Recorded, dbVars
  <2>. QED BY <2>2, <2>3 DEF StartInv
<1>2. ASSUME NEW p \in Processes,
             \/ Launch(p) \/ Replay(p) \/ ReplayFails(p) \/ StartSession(p) \/ StartSessionFails(p)
             \/ Build(p) \/ Submit(p) \/ RecordLine(p) \/ Finish(p) \/ ShowSummary(p) \/ End(p)
             \/ Heed(p)
      PROVE  StartInv'
  BY <1>2, LookingInv, StartSessionInv, ShowInv, RecordInv, EndInv
<1>. QED BY <1>1, <1>2 DEF StartupNext

LEMMA StartInvAlways == StartupSpec => []StartInv
BY StartInvInit, StartInvNext, PTL DEF StartupSpec

(* The transcript a start shows is the last of what the run before it had  *)
(* on the screen, but for the one message a kill may have caught between   *)
(* screen and memory, for any number of processes, sessions, messages and  *)
(* kills (open_memory, recent_messages, create_session, record_message).   *)
THEOREM ReplayRight == StartupSpec => ReplayIsTheLastRun
<1>1. ASSUME StartInv, NEW p \in Processes, Replay(p), from[p] \notin spoiled \cup {0}
      PROVE  \E kept \in Kept(from[p], SaidIn(from[p])) : shown'[p] = LastOf(kept, ReplayLimit)
  <2>. DEFINE s == from[p]
  <2>1. s \in (1..sessions) \ spoiled
    BY <1>1 DEF StartInv, StartTyped
  <2>2. shown'[p] = LastOf(OfIn(messages, s), ReplayLimit)
    <3>1. shown'[p] = RecentMessages(s, ReplayLimit)
      BY <1>1, <2>1 DEF Replay, StartInv, StartTyped
    <3>. QED BY <3>1, OfMessages DEF RecentMessages
  <2>3. /\ \A q \in Processes : sid[q] = s => KeptAs(doing[q], s, OfIn(messages, s), said[q])
        /\ (\A q \in Processes : sid[q] # s) => OfIn(messages, s) \in Kept(s, ended[s])
    BY <1>1, <2>1 DEF StartInv, Recorded
  <2>4. /\ OfIn(messages, s) \in Seq(Rows) /\ UserLine(s) \in Rows
        /\ \A q \in Processes : doing[q] \in {"none", "record", "show"}
    BY <1>1, <2>1 DEF StartInv, StartTyped, UserLine, Rows
  <2>. HIDE DEF s
  <2>5. OfIn(messages, s) \in Kept(s, SaidIn(s))
    <3>1. CASE \E q \in Processes : sid[q] = s
      <4>. DEFINE whose == CHOOSE q \in Processes : sid[q] = s
      <4>1. whose \in Processes /\ sid[whose] = s
        BY <3>1
      <4>2. SaidIn(s) = said[whose]
        BY <3>1 DEF SaidIn
      <4>. HIDE DEF whose
      <4>3. KeptAs(doing[whose], s, OfIn(messages, s), said[whose])
        BY <2>3, <4>1
      <4>. QED BY <2>4, <4>1, <4>2, <4>3, KeptWhole
    <3>2. CASE ~\E q \in Processes : sid[q] = s
      BY <2>3, <3>2 DEF SaidIn
    <3>. QED BY <3>1, <3>2
  <2>. QED BY <2>2, <2>5 DEF s
<1>2. StartInv => \A p \in Processes :
        Replay(p) /\ from[p] \notin spoiled \cup {0}
        => \E kept \in Kept(from[p], SaidIn(from[p])) : shown'[p] = LastOf(kept, ReplayLimit)
  BY <1>1
<1>. QED BY <1>2, StartInvAlways, PTL DEF ReplayIsTheLastRun

===========================================================================
