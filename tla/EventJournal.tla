---------------------------- MODULE EventJournal ----------------------------
(***************************************************************************)
(* The table execution_events and a reader of it: the client that pages    *)
(* through GET /v1/events with a cursor of its own, or the console session,*)
(* whose cursor lives in the server.  Readers do not disturb each other,   *)
(* so one at a time stands for all.  A row's cursor is its place in the    *)
(* journal: one connection writes, a rollback gives the number back, and   *)
(* no statement deletes or changes a row.                                  *)
(***************************************************************************)
EXTENDS Integers, Sequences

CONSTANT PageLimits     \* limits a page may be asked with (1 .. 500)

ASSUME PageLimitsAssumption == PageLimits \subseteq Nat \ {0}

VARIABLES
  journal,   \* execution_events: records with a subject and a kind
  reader,    \* "client", "console" or "nobody"
  cursor,    \* the client's durable cursor, or the server's for the session
  copy       \* the events the client has applied

readerVars == << reader, cursor, copy >>
journalVars == << journal, readerVars >>

Event(subject, kind) == [subject |-> subject, kind |-> kind]

JournalTypeOK ==
  /\ reader \in { "client", "console", "nobody" }
  /\ cursor \in 0 .. Len(journal)

JournalInit ==
  /\ journal = << >>
  /\ reader = "nobody" /\ cursor = 0 /\ copy = << >>

-----------------------------------------------------------------------------
\* insert_event_tx, once per event of a transaction.
Record(events) == journal' = journal \o events

\* events_after: WHERE cursor > after ORDER BY cursor LIMIT limit.
EventsAfter(after, limit) ==
  LET last == IF after + limit < Len(journal) THEN after + limit
              ELSE Len(journal)
  IN SubSeq(journal, after + 1, last)

\* The cursor of the last event of the page; an empty page returns the one
\* that was asked for.
NextCursor(after, limit) == after + Len(EventsAfter(after, limit))

-----------------------------------------------------------------------------
\* A client that starts from cursor zero, or throws away what it has and
\* starts again; a console that connects: run_console_stream.
StartReading(as) ==
  /\ reader' = as /\ cursor' = 0 /\ copy' = << >>
  /\ UNCHANGED journal

\* get_events: the client asks for the page after its cursor, applies it and
\* stores nextCursor.  A page that is lost changes nothing.
ReadPage(limit) ==
  /\ reader = "client"
  /\ copy' = copy \o EventsAfter(cursor, limit)
  /\ cursor' = NextCursor(cursor, limit)
  /\ UNCHANGED << journal, reader >>

EndSession ==
  /\ reader' = IF reader = "console" THEN "nobody" ELSE reader
  /\ cursor' = IF reader = "console" THEN 0 ELSE cursor
  /\ copy' = IF reader = "console" THEN << >> ELSE copy

\* Seeded fault: a message that cannot be sent is skipped.
SessionTickSkips(limit) ==
  /\ reader = "console"
  /\ cursor' = NextCursor(cursor, limit)
  /\ copy' \in { copy, copy \o EventsAfter(cursor, limit) }
  /\ UNCHANGED << journal, reader >>

\* One tick of the session: the cursor moves, the message is sent, and a
\* message that cannot be sent ends the session.
SessionTick(limit) ==
  /\ reader = "console"
  /\ \/ /\ cursor' = NextCursor(cursor, limit)
        /\ copy' = copy \o EventsAfter(cursor, limit)
        /\ UNCHANGED reader
     \/ EndSession
  /\ UNCHANGED journal

JournalReaderStep ==
  \/ \E as \in { "client", "console" } : StartReading(as)
  \/ \E limit \in PageLimits : ReadPage(limit) \/ SessionTick(limit)

-----------------------------------------------------------------------------
\* What a reader holds is the journal up to its cursor: no gap, no
\* repetition, no event out of order, whatever page sizes it asks with,
\* whichever messages are lost and however the journal grows in between.
CopyFollowsJournal == copy = SubSeq(journal, 1, cursor)

=============================================================================
