--------------------------------- MODULE Memory ---------------------------------
(***************************************************************************)
(* The project's memory.db (darb-memory): the sessions, numbered as they   *)
(* are created, and the messages of all of them in the order of their      *)
(* commits.  Tool calls and decisions are rows of other tables that no     *)
(* start reads; Session has them.                                          *)
(***************************************************************************)
EXTENDS Integers, SequencesExt, FiniteSets

VARIABLES
  sessions,   \* the newest session, 0 when there is none
  messages    \* sequence of [session, role]

dbVars == <<sessions, messages>>

MemoryInit == sessions = 0 /\ messages = <<>>

\* How many of the first i messages are of session s.
Count(s, i) == Cardinality({j \in 1..i : messages[j].session = s})

\* The messages of a session, in the order of their commits: before the k-th
\* are those up to which fewer than k are of the session.
Of(s) ==
  [k \in 1..Count(s, Len(messages)) |->
    messages[Cardinality({i \in DOMAIN messages : Count(s, i) < k}) + 1]]

LastOf(seq, limit) == SubSeq(seq, IF Len(seq) > limit THEN Len(seq) - limit + 1 ELSE 1, Len(seq))

(* Mutant of RecentMessages: the query cuts the oldest rows at limit. *)
RecentOldest(s, limit) == SubSeq(Of(s), 1, IF Len(Of(s)) > limit THEN limit ELSE Len(Of(s)))

\* recent_messages: the rows of a session, newest first and cut at limit, then
\* turned round.
RecentMessages(s, limit) == LastOf(Of(s), limit)

CreateSession ==
  /\ sessions' = sessions + 1
  /\ UNCHANGED messages

\* record_message: refused when the text is blank.
RecordMessage(s, role, blank) ==
  /\ messages' = IF blank THEN messages ELSE Append(messages, [session |-> s, role |-> role])
  /\ UNCHANGED sessions
=============================================================================
