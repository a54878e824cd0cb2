------------------------ MODULE IntentAdmissionProofs ------------------------
(***************************************************************************)
(* Theorems about IntentAdmission and the EventJournal it writes, for every *)
(* set of intents, keys, policies and handlers.                            *)
(*                                                                         *)
(* The argument is about the tables.  Whatever the handlers checked before *)
(* it, a transaction either leaves the tables alone, adds a row, moves one *)
(* row along, or sets the kill switch: TableStep says so once, and what    *)
(* holds of rows and journal is proved of those four.  TableInv is what    *)
(* each of them keeps: no two rows share a signal or a key, every row has  *)
(* one event of its arrival, and the newest event that names a status      *)
(* names the one the row has.                                              *)
(***************************************************************************)
EXTENDS IntentAdmission, FiniteSetTheorems, SequenceTheorems, TLAPS

-----------------------------------------------------------------------------
(* The invariant.                                                          *)

RowStatuses ==
  { "awaiting_confirmation", "risk_rejected", "shadow_accepted", "approved",
    "submitting" }

Rows == [payload : Payloads, key : Keys, status : RowStatuses,
         reviewedBy : Policies, confirmBy : Nat]

StatusKinds ==
  { "intent.received", "intent.awaiting_confirmation",
    "intent.risk_rejected", "intent.shadow_accepted",
    "execution.created", "execution.entry_claimed" }

Events ==
  [subject : Ids \cup {Control},
   kind : StatusKinds \cup SwitchEvents \cup {"intent.manually_confirmed"}]

\* The places of some events in a journal.
At(j, E) == { k \in 1 .. Len(j) : j[k] \in E }

Newest(k, K) == k \in K /\ \A i \in K : i <= k

Arrival(id) == { Event(id, "intent.received") }
Announcing(id) == [subject : {id}, kind : StatusKinds]
Switching == { e \in Events : e.kind \in SwitchEvents }

\* No two rows share a signal or a key.
OneRowEach ==
  \A i, j \in Present :
    /\ SignalOf[rows[i].payload] = SignalOf[rows[j].payload] => i = j
    /\ rows[i].key = rows[j].key => i = j

RowTypes ==
  /\ rows \in [Ids -> Rows \cup {NoRow}]
  /\ \A id \in Present :
       /\ IdOf[rows[id].payload] = id
       /\ << rows[id].payload, rows[id].key >> \in Requests
       /\ rows[id].confirmBy <= ExpiresAt[rows[id].payload]

\* Each row arrived once, and its newest status is the one it has.
RowsAnnounced ==
  \A id \in Ids :
    IF id \in Present
    THEN /\ \E k \in At(journal, Arrival(id)) : At(journal, Arrival(id)) = {k}
         /\ \E k \in At(journal, Announcing(id)) :
              /\ Newest(k, At(journal, Announcing(id)))
              /\ StatusOfKind[journal[k].kind] = rows[id].status
    ELSE At(journal, Announcing(id)) = {}

SwitchAnnounced ==
  \/ At(journal, Switching) = {} /\ ~killed
  \/ \E k \in At(journal, Switching) :
       /\ Newest(k, At(journal, Switching))
       /\ killed <=> journal[k].kind = "control.kill_switch_enabled"

TableInv ==
  /\ journal \in Seq(Events) /\ killed \in BOOLEAN
  /\ RowTypes /\ OneRowEach /\ RowsAnnounced /\ SwitchAnnounced

Tasks ==
  [at : {"idle"}]
    \cup [at : {"submit"}, request : Requests, reviewedBy : Policies,
          confirmBy : Nat]
    \cup [at : {"confirm"}, id : Ids, since : Times]
    \cup [at : {"reject"}, id : Ids]

\* What a handler has established survives until its transaction.
Established(task, present) ==
  /\ task.at = "submit" => task.confirmBy <= ExpiresAt[task.request[1]]
  /\ task.at \in {"confirm", "reject"} => task.id \in present

HandlerInv ==
  /\ handler \in [Handlers -> Tasks]
  /\ \A h \in Handlers : Established(handler[h], Present)

ProcessInv ==
  /\ now \in Times /\ policy \in Policies /\ live \in BOOLEAN
  /\ outbox \in [Requests -> Knowledge]

IInv ==
  /\ TableInv /\ HandlerInv /\ ProcessInv
  /\ JournalTypeOK /\ CopyFollowsJournal /\ AnswersAreDurable

-----------------------------------------------------------------------------
(* What a transaction does to the tables.                                  *)

AddsRow(r, by, until) ==
  LET id == IdOf[r[1]]
      status == SubmitStatus(r[1], by)
  IN /\ WithKey(r[2]) = {} /\ id \notin Present /\ ~Replayed(r[1])
     /\ until <= ExpiresAt[r[1]]
     /\ rows' = [rows EXCEPT ![id] = Row(r[1], r[2], status, by, until)]
     /\ Record(<< Event(id, "intent.received"),
                  Event(id, SubmitKind(status)) >>)
     /\ UNCHANGED killed

\* The transitions of a row, and the events that announce them.
Settles(from, to) ==
  \/ /\ from = "awaiting_confirmation"
     /\ to = "risk_rejected"
  \/ /\ from = "awaiting_confirmation" /\ ~killed
     /\ to \in { "shadow_accepted", "approved" }
  \/ from = "approved" /\ to = "submitting"

Announces(id, to, events) ==
  \/ /\ to = "risk_rejected"
     /\ events = << Event(id, "intent.risk_rejected") >>
  \/ /\ to = "shadow_accepted"
     /\ events = << Event(id, "intent.manually_confirmed"),
                    Event(id, "intent.shadow_accepted") >>
  \/ /\ to = "approved"
     /\ events = << Event(id, "intent.manually_confirmed"),
                    Event(id, "execution.created") >>
  \/ /\ to = "submitting"
     /\ events = << Event(id, "execution.entry_claimed") >>

MovesRow(id, to, events) ==
  /\ id \in Present /\ Settles(rows[id].status, to)
  /\ Announces(id, to, events)
  /\ SetStatus(id, to)
  /\ Record(events)
  /\ UNCHANGED killed

SetsSwitch(enabled) ==
  /\ killed' = enabled
  /\ Record(<< Event(Control, IF enabled THEN "control.kill_switch_enabled"
                              ELSE "control.kill_switch_disabled") >>)
  /\ UNCHANGED rows

-----------------------------------------------------------------------------
(* Events at the end of a journal.                                         *)

LEMMA NoneAdded ==
  ASSUME NEW j \in Seq(Events), NEW e \in Seq(Events), NEW E,
         \A i \in 1 .. Len(e) : e[i] \notin E
  PROVE  /\ At(j \o e, E) = At(j, E)
         /\ \A k \in At(j, E) : (j \o e)[k] = j[k]
  <1>1. /\ Len(j \o e) = Len(j) + Len(e) /\ Len(j) \in Nat /\ Len(e) \in Nat
        /\ \A k \in 1 .. Len(j) : (j \o e)[k] = j[k]
        /\ \A k \in 1 .. Len(e) : (j \o e)[Len(j) + k] = e[k]
    BY ConcatProperties, LenProperties
  <1>2. ASSUME NEW k \in At(j \o e, E)
        PROVE  k \in 1 .. Len(j)
    <2>1. CASE k > Len(j)
      <3>1. k - Len(j) \in 1 .. Len(e) /\ Len(j) + (k - Len(j)) = k
        BY <1>1, <2>1 DEF At
      <3> QED BY <1>1, <3>1 DEF At
    <2> QED BY <1>1, <2>1 DEF At
  <1>3. 1 .. Len(j) \subseteq 1 .. Len(j \o e)
    BY <1>1
  <1> QED BY <1>1, <1>2, <1>3 DEF At

LEMMA LastAdded ==
  ASSUME NEW j \in Seq(Events), NEW e \in Seq(Events), NEW E,
         Len(e) > 0, e[Len(e)] \in E
  PROVE  LET k == Len(j) + Len(e)
         IN k \in Nat /\ Newest(k, At(j \o e, E)) /\ (j \o e)[k] = e[Len(e)]
  <1>1. /\ Len(j \o e) = Len(j) + Len(e) /\ Len(j) \in Nat /\ Len(e) \in Nat
        /\ \A k \in 1 .. Len(e) : (j \o e)[Len(j) + k] = e[k]
    BY ConcatProperties, LenProperties
  <1> QED BY <1>1 DEF At, Newest

LEMMA FirstAdded ==
  ASSUME NEW j \in Seq(Events), NEW e \in Seq(Events), NEW E,
         Len(e) > 0, e[1] \in E, \A i \in 2 .. Len(e) : e[i] \notin E
  PROVE  At(j \o e, E) = At(j, E) \cup {Len(j) + 1}
  <1>1. /\ Len(j \o e) = Len(j) + Len(e) /\ Len(j) \in Nat /\ Len(e) \in Nat
        /\ \A k \in 1 .. Len(j) : (j \o e)[k] = j[k]
        /\ \A k \in 1 .. Len(e) : (j \o e)[Len(j) + k] = e[k]
    BY ConcatProperties, LenProperties
  <1>2. ASSUME NEW k \in At(j \o e, E)
        PROVE  k \in At(j, E) \cup {Len(j) + 1}
    <2>1. CASE k > Len(j)
      <3>1. k - Len(j) \in 1 .. Len(e) /\ Len(j) + (k - Len(j)) = k
        BY <1>1, <2>1 DEF At
      <3> QED BY <1>1, <3>1 DEF At
    <2> QED BY <1>1, <2>1 DEF At
  <1>3. ASSUME NEW k \in At(j, E)
        PROVE  k \in At(j \o e, E)
    BY <1>1 DEF At
  <1>4. Len(j) + 1 \in At(j \o e, E)
    BY <1>1 DEF At
  <1> QED BY <1>2, <1>3, <1>4

-----------------------------------------------------------------------------
(* Every step leaves the tables alone or does one of three things.         *)

LEMMA HandlerShapes ==
  ASSUME IInv, NEW h \in Handlers
  PROVE  /\ handler[h].at = "submit" =>
              /\ handler[h].request \in Requests
              /\ handler[h].reviewedBy \in Policies
              /\ handler[h].confirmBy \in Nat
              /\ handler[h].confirmBy <= ExpiresAt[handler[h].request[1]]
         /\ handler[h].at \in {"confirm", "reject"} =>
              handler[h].id \in Present
         /\ handler[h].at = "confirm" => handler[h].since \in Times
  <1>1. handler[h] \in Tasks /\ Established(handler[h], Present)
    BY DEF IInv, HandlerInv
  <1> QED BY <1>1 DEF Tasks, Established

TableStep ==
  \/ UNCHANGED << rows, journal, killed >>
  \/ \E r \in Requests, by \in Policies, until \in Nat : AddsRow(r, by, until)
  \/ \E id \in Ids, to \in RowStatuses, events \in Seq(Events) :
       MovesRow(id, to, events)
  \/ \E enabled \in BOOLEAN : SetsSwitch(enabled)

LEMMA SubmitTables ==
  ASSUME IInv, NEW h \in Handlers, SubmitStore(h)
  PROVE  TableStep
  <1>1. CASE UNCHANGED << rows, journal >>
    BY <1>1 DEF SubmitStore, TableStep
  <1>2. CASE ~ UNCHANGED << rows, journal >>
    <2> DEFINE r == handler[h].request
               by == handler[h].reviewedBy
               until == handler[h].confirmBy
    <2>1. r \in Requests /\ by \in Policies /\ until \in Nat
          /\ until <= ExpiresAt[r[1]]
      BY HandlerShapes DEF SubmitStore
    <2>2. AddsRow(r, by, until)
      BY <1>2, <2>1 DEF SubmitStore, AddsRow
    <2> QED BY <2>1, <2>2 DEF TableStep
  <1> QED BY <1>1, <1>2

LEMMA KnownKinds ==
  /\ DOMAIN StatusOfKind = StatusKinds
  /\ StatusOfKind["intent.awaiting_confirmation"] = "awaiting_confirmation"
  /\ StatusOfKind["intent.risk_rejected"] = "risk_rejected"
  /\ StatusOfKind["intent.shadow_accepted"] = "shadow_accepted"
  /\ StatusOfKind["execution.created"] = "approved"
  /\ StatusOfKind["execution.entry_claimed"] = "submitting"
  BY DEF StatusOfKind, StatusKinds

LEMMA AnnouncedEvents ==
  ASSUME NEW id \in Ids, NEW to, NEW events, Announces(id, to, events)
  PROVE  /\ events \in Seq(Events) /\ Len(events) \in Nat /\ Len(events) > 0
         /\ \A i \in 1 .. Len(events) :
              /\ events[i].subject = id
              /\ events[i].kind \notin SwitchEvents \cup {"intent.received"}
         /\ events[Len(events)] \in Announcing(id)
         /\ StatusOfKind[events[Len(events)].kind] = to
  <1> USE KnownKinds DEF Event, SwitchEvents
  <1>1. \A kind \in StatusKinds \cup {"intent.manually_confirmed"} :
          /\ Event(id, kind) \in Events
          /\ Event(id, kind).subject = id /\ Event(id, kind).kind = kind
    BY DEF Events
  <1>2. \A kind \in StatusKinds : Event(id, kind) \in Announcing(id)
    BY DEF Announcing
  <1> HIDE DEF Event
  <1>3. ASSUME NEW k1 \in StatusKinds \ {"intent.received"},
               events = << Event(id, k1) >>, StatusOfKind[k1] = to
        PROVE  /\ events \in Seq(Events) /\ Len(events) = 1
               /\ events[1] = Event(id, k1)
    BY <1>1, <1>3
  <1>4. ASSUME NEW k1 \in StatusKinds \ {"intent.received"},
               events = << Event(id, "intent.manually_confirmed"),
                           Event(id, k1) >>
        PROVE  /\ events \in Seq(Events) /\ Len(events) = 2
               /\ events[1] = Event(id, "intent.manually_confirmed")
               /\ events[2] = Event(id, k1)
    BY <1>1, <1>4
  <1>5. ASSUME NEW k1 \in StatusKinds \ {"intent.received"},
               events = << Event(id, k1) >>, StatusOfKind[k1] = to
        PROVE  /\ events[Len(events)] = Event(id, k1)
               /\ \A i \in 1 .. Len(events) : events[i] = Event(id, k1)
    BY <1>3, <1>5
  <1>6. ASSUME NEW k1 \in StatusKinds \ {"intent.received"},
               events = << Event(id, "intent.manually_confirmed"),
                           Event(id, k1) >>
        PROVE  /\ events[Len(events)] = Event(id, k1)
               /\ \A i \in 1 .. Len(events) :
                    \/ events[i] = Event(id, "intent.manually_confirmed")
                    \/ events[i] = Event(id, k1)
    BY <1>4, <1>6
  <1> DEFINE Concluding(k1) ==
        \/ events = << Event(id, k1) >>
        \/ events = << Event(id, "intent.manually_confirmed"), Event(id, k1) >>
  <1>7. \E k1 \in StatusKinds \ {"intent.received"} :
          Concluding(k1) /\ StatusOfKind[k1] = to
    BY DEF Announces, StatusKinds
  <1>8. PICK k1 \in StatusKinds \ {"intent.received"} :
          Concluding(k1) /\ StatusOfKind[k1] = to
    BY <1>7
  <1>9. k1 \notin SwitchEvents
    BY DEF StatusKinds
  <1>10. CASE events = << Event(id, k1) >>
    <2> HIDE DEF Concluding
    <2> QED BY <1>1, <1>2, <1>3, <1>5, <1>8, <1>9, <1>10
  <1>11. CASE events = << Event(id, "intent.manually_confirmed"),
                          Event(id, k1) >>
    <2> HIDE DEF Concluding
    <2> QED BY <1>1, <1>2, <1>4, <1>6, <1>8, <1>9, <1>11
  <1> QED BY <1>8, <1>10, <1>11

LEMMA ConfirmTables ==
  ASSUME IInv, NEW h \in Handlers, ConfirmStore(h)
  PROVE  TableStep
  <1> DEFINE id == handler[h].id
  <1>1. id \in Present /\ UNCHANGED killed
    BY HandlerShapes DEF ConfirmStore
  <1>2. SUFFICES ASSUME NEW to \in RowStatuses, NEW events,
                        Announces(id, to, events), SetStatus(id, to),
                        Record(events), Settles(rows[id].status, to)
                 PROVE  TableStep
    BY <1>1 DEF ConfirmStore, ConfirmLive, ConfirmShadow, Announces, Settles,
                TableStep, RowStatuses
  <1> QED
    BY <1>1, <1>2, AnnouncedEvents DEF TableStep, MovesRow, Present

LEMMA RejectTables ==
  ASSUME IInv, NEW h \in Handlers, RejectStore(h)
  PROVE  TableStep
  <1> DEFINE id == handler[h].id
             events == << Event(id, "intent.risk_rejected") >>
  <1>1. id \in Present /\ UNCHANGED killed
    BY HandlerShapes DEF RejectStore
  <1>2. CASE UNCHANGED << rows, journal >>
    BY <1>1, <1>2 DEF TableStep
  <1>3. CASE ~ UNCHANGED << rows, journal >>
    <2>1. /\ "risk_rejected" \in TradeSuccessors(rows[id].status)
          /\ SetStatus(id, "risk_rejected") /\ Record(events)
      BY <1>3 DEF RejectStore
    <2>2. rows[id].status \in RowStatuses
      BY <1>1 DEF IInv, TableInv, RowTypes, Present, Rows
    <2>3. rows[id].status = "awaiting_confirmation"
      BY <2>1, <2>2 DEF TradeSuccessors, RowStatuses
    <2>4. MovesRow(id, "risk_rejected", events)
      BY <1>1, <2>1, <2>3 DEF MovesRow, Settles, Announces
    <2>5. id \in Ids /\ Announces(id, "risk_rejected", events)
      BY <1>1 DEF Announces, Present
    <2>6. events \in Seq(Events) /\ "risk_rejected" \in RowStatuses
      BY <2>5, AnnouncedEvents DEF RowStatuses
    <2> QED BY <2>4, <2>5, <2>6 DEF TableStep
  <1> QED BY <1>2, <1>3

LEMMA ClaimTables ==
  ASSUME IInv, NEW id \in Ids, WorkerClaims(id)
  PROVE  TableStep
  <1> DEFINE events == << Event(id, "execution.entry_claimed") >>
  <1>1. MovesRow(id, "submitting", events)
    BY DEF WorkerClaims, MovesRow, Settles, Announces
  <1>2. events \in Seq(Events) /\ "submitting" \in RowStatuses
    BY AnnouncedEvents DEF Announces, RowStatuses
  <1> QED BY <1>1, <1>2 DEF TableStep

LEMMA NextTables ==
  ASSUME IInv, [Next]_vars
  PROVE  TableStep
  <1>1. CASE UNCHANGED vars
    BY <1>1 DEF vars, journalVars, TableStep
  <1>2. ASSUME NEW enabled \in BOOLEAN, SetKillSwitch(enabled)
        PROVE  TableStep
    BY <1>2 DEF SetKillSwitch, SetsSwitch, TableStep
  <1>3. ASSUME \/ Restart \/ Tick \/ Reads
               \/ \E h \in Handlers, r \in Requests : SubmitChecked(h, r)
               \/ \E h \in Handlers, id \in Ids : ConfirmChecked(h, id)
        PROVE  UNCHANGED << rows, journal, killed >>
    BY <1>3 DEF Restart, Tick, Reads, SubmitChecked, ConfirmChecked,
                journalVars, JournalReaderStep, StartReading, ReadPage,
                SessionTick
  <1>4. UNCHANGED << rows, journal, killed >> => TableStep
    BY DEF TableStep
  <1>5. ASSUME NEW h \in Handlers,
               SubmitStore(h) \/ ConfirmStore(h) \/ RejectStore(h)
        PROVE  TableStep
    BY <1>5, SubmitTables, ConfirmTables, RejectTables
  <1>6. ASSUME NEW id \in Ids, WorkerClaims(id)
        PROVE  TableStep
    BY <1>6, ClaimTables
  <1> QED BY <1>1, <1>2, <1>3, <1>4, <1>5, <1>6 DEF Next

-----------------------------------------------------------------------------
(* The tables keep their invariant.                                        *)

LEMMA NoRowIsNoRow == NoRow \notin Rows
  BY AdmissionAssumption DEF Rows, RowStatuses, TradeStatuses

\* What the events of one row leave as it was announced.
LEMMA OthersAnnounced ==
  ASSUME TableInv, NEW id \in Ids, NEW events \in Seq(Events), Record(events),
         \A i \in 1 .. Len(events) :
           events[i].subject = id /\ events[i].kind \notin SwitchEvents
  PROVE  /\ journal' \in Seq(Events)
         /\ At(journal', Switching) = At(journal, Switching)
         /\ \A k \in At(journal, Switching) : journal'[k] = journal[k]
         /\ \A x \in Ids \ {id} :
              /\ At(journal', Arrival(x)) = At(journal, Arrival(x))
              /\ At(journal', Announcing(x)) = At(journal, Announcing(x))
              /\ \A k \in At(journal, Announcing(x)) : journal'[k] = journal[k]
  <1>1. journal' = journal \o events /\ journal \in Seq(Events)
    BY DEF Record, TableInv
  <1>2. journal' \in Seq(Events)
    BY <1>1, ConcatProperties
  <1>3. \A i \in 1 .. Len(events) : events[i] \notin Switching
    BY DEF Switching
  <1>4. ASSUME NEW x \in Ids \ {id}
        PROVE  \A i \in 1 .. Len(events) :
                 events[i] \notin Arrival(x) /\ events[i] \notin Announcing(x)
    BY <1>4 DEF Arrival, Announcing, Event
  <1>5. /\ At(journal', Switching) = At(journal, Switching)
        /\ \A k \in At(journal, Switching) : journal'[k] = journal[k]
    BY <1>1, <1>3, NoneAdded
  <1>6. ASSUME NEW x \in Ids \ {id}
        PROVE  /\ At(journal', Arrival(x)) = At(journal, Arrival(x))
               /\ At(journal', Announcing(x)) = At(journal, Announcing(x))
               /\ \A k \in At(journal, Announcing(x)) : journal'[k] = journal[k]
    BY <1>1, <1>4, NoneAdded
  <1> QED BY <1>2, <1>5, <1>6

LEMMA AddKeeps ==
  ASSUME TableInv, NEW r \in Requests, NEW by \in Policies, NEW until \in Nat,
         AddsRow(r, by, until)
  PROVE  TableInv'
  <1> DEFINE id == IdOf[r[1]]
             status == SubmitStatus(r[1], by)
             new == Row(r[1], r[2], status, by, until)
             e1 == Event(id, "intent.received")
             e2 == Event(id, SubmitKind(status))
             events == << e1, e2 >>
  <1>1. /\ r[1] \in Payloads /\ r[2] \in Keys /\ id \in Ids
        /\ r = << r[1], r[2] >>
    BY AdmissionAssumption
  <1>2. /\ status \in { "risk_rejected", "awaiting_confirmation" }
        /\ SubmitKind(status) \in
             StatusKinds \ ({"intent.received"} \cup SwitchEvents)
        /\ StatusOfKind[SubmitKind(status)] = status
    BY KnownKinds DEF SubmitStatus, SubmitKind, StatusKinds, SwitchEvents
  <1>3. new \in Rows
    BY <1>1, <1>2 DEF Row, Rows, RowStatuses
  <1>4. /\ rows' = [rows EXCEPT ![id] = new] /\ journal' = journal \o events
        /\ WithKey(r[2]) = {} /\ id \notin Present /\ ~Replayed(r[1])
        /\ until <= ExpiresAt[r[1]] /\ killed' = killed
    BY DEF AddsRow, Record
  <1>5. /\ Present' = Present \cup {id} /\ rows'[id] = new
        /\ \A x \in Ids \ {id} : rows'[x] = rows[x]
    BY <1>1, <1>3, <1>4, NoRowIsNoRow DEF Present, TableInv, RowTypes
  <1>6. /\ new.payload = r[1] /\ new.key = r[2] /\ new.status = status
        /\ new.confirmBy = until
    BY DEF Row
  <1>7. RowTypes'
    <2>1. rows' \in [Ids -> Rows \cup {NoRow}]
      BY <1>1, <1>3, <1>4 DEF TableInv, RowTypes
    <2>2. ASSUME NEW x \in Present'
          PROVE  /\ IdOf[rows'[x].payload] = x
                 /\ << rows'[x].payload, rows'[x].key >> \in Requests
                 /\ rows'[x].confirmBy <= ExpiresAt[rows'[x].payload]
      <3>1. CASE x = id
        BY <1>1, <1>4, <1>5, <1>6, <3>1
      <3>2. CASE x # id
        <4>1. x \in Present /\ rows'[x] = rows[x]
          BY <1>5, <2>2, <3>2 DEF Present
        <4> QED BY <4>1 DEF TableInv, RowTypes
      <3> QED BY <3>1, <3>2
    <2> QED BY <2>1, <2>2 DEF RowTypes
  <1>8. OneRowEach'
    <2>1. \A i \in Present :
            /\ SignalOf[rows[i].payload] # SignalOf[r[1]]
            /\ rows[i].key # r[2]
      BY <1>4 DEF WithKey, Replayed
    <2>2. \A i \in Present : rows'[i] = rows[i] /\ i \in Ids
      BY <1>4, <1>5 DEF Present
    <2> QED BY <1>5, <1>6, <2>1, <2>2 DEF TableInv, OneRowEach
  <1>9. /\ e1 \in Arrival(id) /\ e1 \in Events /\ e2 \in Events
        /\ e1 \in Announcing(id) /\ e2 \in Announcing(id)
        /\ e2 \notin Arrival(id)
        /\ e1.subject = id /\ e2.subject = id
        /\ e1.kind \notin SwitchEvents /\ e2.kind \notin SwitchEvents
        /\ e2.kind = SubmitKind(status)
    BY <1>1, <1>2
       DEF Event, Arrival, Announcing, Events, StatusKinds, SwitchEvents
  <1>10. /\ events \in Seq(Events) /\ Len(events) = 2
         /\ events[1] = e1 /\ events[2] = e2
    <2> HIDE DEF e1, e2
    <2> QED BY <1>9
  <1> HIDE DEF id, status, new, e1, e2, events
  <1>11. \A i \in 1 .. Len(events) :
           events[i].subject = id /\ events[i].kind \notin SwitchEvents
    <2>1. \A i \in 1 .. Len(events) : events[i] = e1 \/ events[i] = e2
      BY <1>10
    <2> QED BY <1>9, <2>1
  <1>12. Record(events)
    BY <1>4 DEF Record
  <1>13. /\ journal' \in Seq(Events)
         /\ At(journal', Switching) = At(journal, Switching)
         /\ \A k \in At(journal, Switching) : journal'[k] = journal[k]
         /\ \A x \in Ids \ {id} :
              /\ At(journal', Arrival(x)) = At(journal, Arrival(x))
              /\ At(journal', Announcing(x)) = At(journal, Announcing(x))
              /\ \A k \in At(journal, Announcing(x)) : journal'[k] = journal[k]
    BY <1>1, <1>10, <1>11, <1>12, OthersAnnounced
  <1>14. journal \in Seq(Events) /\ Len(journal) \in Nat
    BY DEF TableInv
  <1>15. \E k \in At(journal', Arrival(id)) : At(journal', Arrival(id)) = {k}
    <2>1. At(journal, Arrival(id)) = {}
      <3>1. At(journal, Announcing(id)) = {}
        BY <1>1, <1>4 DEF TableInv, RowsAnnounced
      <3>2. Arrival(id) \subseteq Announcing(id)
        BY DEF Arrival, Announcing, Event, StatusKinds
      <3> QED BY <3>1, <3>2 DEF At
    <2>2. At(journal', Arrival(id))
            = At(journal, Arrival(id)) \cup {Len(journal) + 1}
      <3>1. \A i \in 2 .. Len(events) : events[i] \notin Arrival(id)
        BY <1>9, <1>10
      <3>2. Len(events) > 0 /\ events[1] \in Arrival(id)
        BY <1>9, <1>10
      <3> QED BY <1>4, <1>10, <1>14, <3>1, <3>2, FirstAdded
    <2> QED BY <2>1, <2>2
  <1>16. \E k \in At(journal', Announcing(id)) :
           /\ Newest(k, At(journal', Announcing(id)))
           /\ StatusOfKind[journal'[k].kind] = status
    <2>1. LET k == Len(journal) + Len(events)
          IN /\ Newest(k, At(journal', Announcing(id)))
             /\ journal'[k] = e2
      <3>1. /\ Len(events) > 0 /\ events[Len(events)] = e2
            /\ events[Len(events)] \in Announcing(id)
        BY <1>9, <1>10
      <3> QED BY <1>4, <1>10, <1>14, <3>1, LastAdded
    <2> QED BY <1>2, <1>9, <2>1 DEF Newest
  <1>17. RowsAnnounced'
    <2> SUFFICES ASSUME NEW x \in Ids
                 PROVE  IF x \in Present'
                        THEN /\ \E k \in At(journal', Arrival(x)) :
                                  At(journal', Arrival(x)) = {k}
                             /\ \E k \in At(journal', Announcing(x)) :
                                  /\ Newest(k, At(journal', Announcing(x)))
                                  /\ StatusOfKind[journal'[k].kind]
                                       = rows'[x].status
                        ELSE At(journal', Announcing(x)) = {}
      BY DEF RowsAnnounced
    <2>1. CASE x = id
      BY <1>5, <1>6, <1>15, <1>16, <2>1
    <2>2. CASE x # id
      BY <1>5, <1>13, <2>2 DEF TableInv, RowsAnnounced
    <2> QED BY <2>1, <2>2
  <1>18. SwitchAnnounced'
    BY <1>4, <1>13 DEF TableInv, SwitchAnnounced
  <1> QED BY <1>4, <1>7, <1>8, <1>13, <1>17, <1>18 DEF TableInv

\* A row that moves changes nothing but its status.
LEMMA MovedRow ==
  ASSUME RowTypes, NEW id \in Present, NEW to \in RowStatuses,
         SetStatus(id, to)
  PROVE  /\ Present' = Present /\ RowTypes'
         /\ rows'[id].status = to
         /\ \A x \in Ids \ {id} : rows'[x] = rows[x]
         /\ \A x \in Present :
              /\ rows'[x].payload = rows[x].payload
              /\ rows'[x].key = rows[x].key
              /\ rows'[x].reviewedBy = rows[x].reviewedBy
              /\ rows'[x].confirmBy = rows[x].confirmBy
  <1>1. id \in Ids /\ rows[id] \in Rows
    BY DEF Present, RowTypes
  <1>2. /\ rows' = [rows EXCEPT ![id] = [rows[id] EXCEPT !.status = to]]
        /\ [rows[id] EXCEPT !.status = to] \in Rows
    BY <1>1 DEF SetStatus, Rows
  <1>3. /\ rows' \in [Ids -> Rows \cup {NoRow}]
        /\ rows'[id] = [rows[id] EXCEPT !.status = to]
        /\ \A x \in Ids \ {id} : rows'[x] = rows[x]
    BY <1>1, <1>2 DEF RowTypes
  <1>4. Present' = Present
    BY <1>1, <1>2, <1>3, NoRowIsNoRow DEF Present
  <1>5. /\ rows'[id].status = to
        /\ rows'[id].payload = rows[id].payload
        /\ rows'[id].key = rows[id].key
        /\ rows'[id].reviewedBy = rows[id].reviewedBy
        /\ rows'[id].confirmBy = rows[id].confirmBy
    BY <1>1, <1>3 DEF Rows
  <1>6. ASSUME NEW x \in Present
        PROVE  /\ rows'[x].payload = rows[x].payload
               /\ rows'[x].key = rows[x].key
               /\ rows'[x].reviewedBy = rows[x].reviewedBy
               /\ rows'[x].confirmBy = rows[x].confirmBy
    BY <1>3, <1>5 DEF Present
  <1>7. RowTypes'
    BY <1>3, <1>4, <1>6 DEF RowTypes
  <1> QED BY <1>3, <1>4, <1>5, <1>6, <1>7

LEMMA MoveKeeps ==
  ASSUME TableInv, NEW id \in Ids, NEW to \in RowStatuses,
         NEW events \in Seq(Events), MovesRow(id, to, events)
  PROVE  TableInv'
  <1>1. /\ id \in Present /\ Announces(id, to, events) /\ SetStatus(id, to)
        /\ Record(events) /\ killed' = killed
        /\ journal' = journal \o events
    BY DEF MovesRow, Record
  <1>2. /\ Len(events) \in Nat /\ Len(events) > 0
        /\ \A i \in 1 .. Len(events) :
             /\ events[i].subject = id
             /\ events[i].kind \notin SwitchEvents \cup {"intent.received"}
        /\ events[Len(events)] \in Announcing(id)
        /\ StatusOfKind[events[Len(events)].kind] = to
    BY <1>1, AnnouncedEvents
  <1>3. /\ Present' = Present /\ RowTypes' /\ rows'[id].status = to
        /\ \A x \in Ids \ {id} : rows'[x] = rows[x]
        /\ \A x \in Present :
             /\ rows'[x].payload = rows[x].payload
             /\ rows'[x].key = rows[x].key
    BY <1>1, MovedRow DEF TableInv
  <1>4. OneRowEach'
    BY <1>3 DEF TableInv, OneRowEach
  <1>5. /\ journal' \in Seq(Events)
        /\ At(journal', Switching) = At(journal, Switching)
        /\ \A k \in At(journal, Switching) : journal'[k] = journal[k]
        /\ \A x \in Ids \ {id} :
             /\ At(journal', Arrival(x)) = At(journal, Arrival(x))
             /\ At(journal', Announcing(x)) = At(journal, Announcing(x))
             /\ \A k \in At(journal, Announcing(x)) : journal'[k] = journal[k]
    BY <1>1, <1>2, OthersAnnounced
  <1>6. journal \in Seq(Events) /\ Len(journal) \in Nat
    BY DEF TableInv
  <1>7. At(journal', Arrival(id)) = At(journal, Arrival(id))
    <2>1. \A i \in 1 .. Len(events) : events[i] \notin Arrival(id)
      BY <1>2 DEF Arrival, Event
    <2> QED BY <1>1, <1>6, <2>1, NoneAdded
  <1>8. \E k \in At(journal', Announcing(id)) :
          /\ Newest(k, At(journal', Announcing(id)))
          /\ StatusOfKind[journal'[k].kind] = to
    <2>1. LET k == Len(journal) + Len(events)
          IN /\ Newest(k, At(journal', Announcing(id)))
             /\ journal'[k] = events[Len(events)]
      BY <1>1, <1>2, <1>6, LastAdded
    <2> QED BY <1>2, <2>1 DEF Newest
  <1>9. RowsAnnounced'
    <2> SUFFICES ASSUME NEW x \in Ids
                 PROVE  IF x \in Present'
                        THEN /\ \E k \in At(journal', Arrival(x)) :
                                  At(journal', Arrival(x)) = {k}
                             /\ \E k \in At(journal', Announcing(x)) :
                                  /\ Newest(k, At(journal', Announcing(x)))
                                  /\ StatusOfKind[journal'[k].kind]
                                       = rows'[x].status
                        ELSE At(journal', Announcing(x)) = {}
      BY DEF RowsAnnounced
    <2>1. CASE x = id
      BY <1>1, <1>3, <1>7, <1>8, <2>1 DEF TableInv, RowsAnnounced
    <2>2. CASE x # id
      BY <1>3, <1>5, <2>2 DEF TableInv, RowsAnnounced
    <2> QED BY <2>1, <2>2
  <1>10. SwitchAnnounced'
    BY <1>1, <1>5 DEF TableInv, SwitchAnnounced
  <1> QED BY <1>1, <1>3, <1>4, <1>5, <1>9, <1>10 DEF TableInv

LEMMA SwitchKeeps ==
  ASSUME TableInv, NEW enabled \in BOOLEAN, SetsSwitch(enabled)
  PROVE  TableInv'
  <1> DEFINE kind == IF enabled THEN "control.kill_switch_enabled"
                     ELSE "control.kill_switch_disabled"
             e1 == Event(Control, kind)
             events == << e1 >>
  <1>1. /\ kind \in SwitchEvents
        /\ enabled <=> kind = "control.kill_switch_enabled"
    BY DEF SwitchEvents
  <1>2. /\ killed' = enabled /\ rows' = rows /\ journal' = journal \o events
    BY DEF SetsSwitch, Record
  <1>3. e1 \in Events /\ e1.kind = kind
    BY <1>1 DEF Events, Event
  <1>4. e1 \in Switching
    BY <1>1, <1>3 DEF Switching
  <1>5. ASSUME NEW x \in Ids
        PROVE  e1 \notin Arrival(x) /\ e1 \notin Announcing(x)
    BY <1>1, <1>3 DEF Arrival, Announcing, Event, SwitchEvents, StatusKinds
  <1>6. /\ events \in Seq(Events) /\ Len(events) = 1 /\ events[1] = e1
    <2> HIDE DEF e1
    <2> QED BY <1>3
  <1> HIDE DEF kind, e1, events
  <1>7. \A i \in 1 .. Len(events) : events[i] = e1
    BY <1>6
  <1>8. journal \in Seq(Events) /\ journal' \in Seq(Events)
        /\ Len(journal) \in Nat
    BY <1>2, <1>6, ConcatProperties DEF TableInv
  <1>9. Present' = Present /\ RowTypes' /\ OneRowEach'
    BY <1>2 DEF TableInv, RowTypes, OneRowEach, Present
  <1>10. ASSUME NEW x \in Ids
         PROVE  /\ At(journal', Arrival(x)) = At(journal, Arrival(x))
                /\ At(journal', Announcing(x)) = At(journal, Announcing(x))
                /\ \A k \in At(journal, Announcing(x)) :
                     journal'[k] = journal[k]
    <2>1. \A i \in 1 .. Len(events) :
            events[i] \notin Arrival(x) /\ events[i] \notin Announcing(x)
      BY <1>5, <1>7
    <2>2. ASSUME NEW E, \A i \in 1 .. Len(events) : events[i] \notin E
          PROVE  /\ At(journal \o events, E) = At(journal, E)
                 /\ \A k \in At(journal, E) :
                      (journal \o events)[k] = journal[k]
      BY <1>6, <1>8, <2>2, NoneAdded
    <2> QED BY <1>2, <2>1, <2>2
  <1>11. RowsAnnounced'
    BY <1>2, <1>9, <1>10 DEF TableInv, RowsAnnounced
  <1>12. SwitchAnnounced'
    <2>1. LET k == Len(journal) + Len(events)
          IN Newest(k, At(journal', Switching)) /\ journal'[k] = e1
      <3>1. /\ Len(events) > 0 /\ events[Len(events)] \in Switching
            /\ events[Len(events)] = e1
        BY <1>4, <1>6
      <3> QED BY <1>2, <1>6, <1>8, <3>1, LastAdded
    <2> QED BY <1>1, <1>2, <1>3, <2>1 DEF SwitchAnnounced, Newest
  <1> QED BY <1>2, <1>8, <1>9, <1>11, <1>12 DEF TableInv

LEMMA TableKeeps ==
  ASSUME TableInv, TableStep
  PROVE  TableInv'
  <1>1. CASE UNCHANGED << rows, journal, killed >>
    BY <1>1 DEF TableInv, RowTypes, OneRowEach, RowsAnnounced,
                SwitchAnnounced, Present
  <1> QED BY <1>1, AddKeeps, MoveKeeps, SwitchKeeps DEF TableStep

-----------------------------------------------------------------------------
(* Handlers, clients and readers.                                          *)

\* A transaction never takes a row away, nor gives one another intent or key.
LEMMA RowsStay ==
  ASSUME TableInv, TableStep, NEW id \in Present
  PROVE  /\ id \in Present'
         /\ rows'[id].payload = rows[id].payload
         /\ rows'[id].key = rows[id].key
         /\ rows'[id].reviewedBy = rows[id].reviewedBy
  <1>1. CASE rows' = rows
    BY <1>1 DEF Present
  <1>2. ASSUME NEW r \in Requests, NEW by \in Policies, NEW until \in Nat,
               AddsRow(r, by, until)
        PROVE  id \in Present' /\ rows'[id] = rows[id]
    BY <1>2 DEF AddsRow, Present, TableInv, RowTypes
  <1>3. ASSUME NEW x \in Ids, NEW to \in RowStatuses,
               NEW events \in Seq(Events), MovesRow(x, to, events)
        PROVE  /\ id \in Present'
               /\ rows'[id].payload = rows[id].payload
               /\ rows'[id].key = rows[id].key
               /\ rows'[id].reviewedBy = rows[id].reviewedBy
    BY <1>3, MovedRow DEF MovesRow, TableInv
  <1>4. ASSUME NEW enabled \in BOOLEAN, SetsSwitch(enabled)
        PROVE  rows' = rows
    BY <1>4 DEF SetsSwitch
  <1> QED BY <1>1, <1>2, <1>3, <1>4 DEF TableStep

LEMMA HandlersKeep ==
  ASSUME IInv, [Next]_vars, TableStep
  PROVE  HandlerInv'
  <1>1. Present \subseteq Present'
    BY RowsStay DEF IInv
  <1>2. ASSUME NEW task, Established(task, Present)
        PROVE  Established(task, Present')
    BY <1>1, <1>2 DEF Established
  <1>3. ASSUME NEW h \in Handlers, NEW task \in Tasks,
               Established(task, Present'), Goes(h, task)
        PROVE  HandlerInv'
    <2>1. /\ handler' \in [Handlers -> Tasks]
          /\ handler'[h] = task
          /\ \A x \in Handlers \ {h} : handler'[x] = handler[x]
      BY <1>3 DEF Goes, IInv, HandlerInv
    <2>2. ASSUME NEW x \in Handlers \ {h}
          PROVE  Established(handler'[x], Present')
      BY <1>2, <2>1, <2>2 DEF IInv, HandlerInv
    <2> QED BY <1>3, <2>1, <2>2 DEF HandlerInv
  <1>4. Idle \in Tasks /\ Established(Idle, Present')
    BY DEF Idle, Tasks, Established
  <1>5. CASE UNCHANGED handler
    BY <1>2, <1>5 DEF IInv, HandlerInv
  <1>6. ASSUME NEW h \in Handlers, NEW r \in Requests, SubmitChecked(h, r)
        PROVE  HandlerInv'
    <2> DEFINE until == OfferedUntil(r[1])
               task == Submitting(r, policy, until)
    <2>1. r[1] \in Payloads /\ ExpiresAt[r[1]] \in Nat
      BY AdmissionAssumption
    <2>2. now \in Nat /\ Ttl \in Nat /\ policy \in Policies
      BY AdmissionAssumption DEF IInv, ProcessInv, Times
    <2>3. until \in Nat /\ until <= ExpiresAt[r[1]]
      BY <2>1, <2>2 DEF OfferedUntil
    <2> HIDE DEF until
    <2>4. task \in Tasks /\ Established(task, Present')
      BY <2>2, <2>3 DEF Submitting, Tasks, Established
    <2>5. Goes(h, task)
      BY <1>6 DEF SubmitChecked, until
    <2> QED BY <1>3, <2>4, <2>5
  <1>7. ASSUME NEW h \in Handlers, NEW id \in Ids, ConfirmChecked(h, id)
        PROVE  HandlerInv'
    <2>1. id \in Present' /\ now \in Times
      BY <1>1, <1>7 DEF ConfirmChecked, IInv, ProcessInv
    <2>2. /\ Confirming(id, now) \in Tasks /\ Rejecting(id) \in Tasks
          /\ Established(Confirming(id, now), Present')
          /\ Established(Rejecting(id), Present')
      BY <2>1 DEF Confirming, Rejecting, Tasks, Established
    <2>3. Goes(h, Confirming(id, now)) \/ Goes(h, Rejecting(id))
      BY <1>7 DEF ConfirmChecked
    <2> QED BY <1>3, <2>2, <2>3
  <1>8. ASSUME NEW h \in Handlers,
               SubmitStore(h) \/ ConfirmStore(h) \/ RejectStore(h)
        PROVE  HandlerInv'
    <2>1. Goes(h, Idle)
      BY <1>8 DEF SubmitStore, ConfirmStore, RejectStore
    <2> QED BY <1>3, <1>4, <2>1
  <1>9. CASE Restart
    <2>1. /\ handler' = [h \in Handlers |-> Idle]
      BY <1>9 DEF Restart
    <2>2. \A h \in Handlers : handler'[h] = Idle
      BY <2>1
    <2> QED BY <1>4, <2>1, <2>2 DEF HandlerInv
  <1>10. ASSUME \/ Tick \/ Reads
                \/ \E id \in Ids : WorkerClaims(id)
                \/ \E enabled \in BOOLEAN : SetKillSwitch(enabled)
         PROVE  UNCHANGED handler
    BY <1>10 DEF Tick, Reads, WorkerClaims, SetKillSwitch, processVars
  <1> QED
    BY <1>5, <1>6, <1>7, <1>8, <1>9, <1>10 DEF Next, vars, processVars

LEMMA ProcessKeeps ==
  ASSUME IInv, [Next]_vars
  PROVE  ProcessInv'
  <1>1. now' \in Times
    <2>1. now' = now \/ Tick
      BY DEF Next, vars, SubmitChecked, ConfirmChecked, SubmitStore,
             ConfirmStore, RejectStore, WorkerClaims, SetKillSwitch, Restart,
             Reads
    <2> QED
      BY <2>1, AdmissionAssumption DEF Tick, IInv, ProcessInv, Times
  <1>2. policy' \in Policies /\ live' \in BOOLEAN
    <2>1. UNCHANGED << policy, live >> \/ Restart
      BY DEF Next, vars, processVars, SubmitChecked, ConfirmChecked,
             SubmitStore, ConfirmStore, RejectStore, WorkerClaims,
             SetKillSwitch, Tick, Reads
    <2> QED
      BY <2>1, AdmissionAssumption DEF Restart, IInv, ProcessInv
  <1>3. outbox' \in [Requests -> Knowledge]
    <2>1. CASE UNCHANGED outbox
      BY <2>1 DEF IInv, ProcessInv
    <2>2. ASSUME NEW h \in Handlers, SubmitStore(h)
          PROVE  outbox' \in [Requests -> Knowledge]
      <3> DEFINE r == handler[h].request
      <3>1. r \in Requests
        BY <2>2, HandlerShapes DEF SubmitStore
      <3>2. \E what \in Knowledge :
              outbox' \in { outbox, [outbox EXCEPT ![r] = what] }
        BY <2>2 DEF SubmitStore, Answer, KeyAnswer, Knowledge
      <3> QED BY <3>1, <3>2 DEF IInv, ProcessInv
    <2> QED
      BY <2>1, <2>2
         DEF Next, vars, SubmitChecked, ConfirmChecked, ConfirmStore,
             RejectStore, WorkerClaims, SetKillSwitch, Restart, Tick, Reads
  <1> QED BY <1>1, <1>2, <1>3 DEF ProcessInv

LEMMA AnswersKeep ==
  ASSUME IInv, [Next]_vars, TableStep
  PROVE  AnswersAreDurable'
  <1> DEFINE Kept(r) == \E id \in Present : rows[id].payload = r[1]
                                            /\ rows[id].key = r[2]
             Told(r) == outbox[r] \in { "created", "existing" }
  <1>1. ASSUME NEW r \in Requests, Kept(r)
        PROVE  Kept(r)'
    BY <1>1, RowsStay DEF IInv
  <1>2. CASE UNCHANGED outbox
    BY <1>1, <1>2 DEF IInv, AnswersAreDurable
  <1>3. ASSUME NEW h \in Handlers, SubmitStore(h)
        PROVE  AnswersAreDurable'
    <2>0. PICK r \in Requests : r = handler[h].request
      BY <1>3, HandlerShapes DEF SubmitStore
    <2> DEFINE id == IdOf[r[1]]
    <2>1. r[1] \in Payloads /\ id \in Ids
      BY AdmissionAssumption
    <2>2. CASE WithKey(r[2]) # {}
      <3>1. outbox' = outbox \/ outbox' = [outbox EXCEPT ![r] = KeyAnswer(r)]
        BY <1>3, <2>0, <2>2 DEF SubmitStore, Answer
      <3>2. KeyAnswer(r) \in { "existing", "unanswered" }
            /\ (KeyAnswer(r) = "existing" => Kept(r))
        BY DEF KeyAnswer, WithKey
      <3>3. ASSUME NEW x \in Requests
            PROVE  /\ Told(x)' => Kept(x)
                   /\ outbox'[x] = "created" => outbox[x] = "created"
        BY <2>1, <3>1, <3>2 DEF IInv, ProcessInv, AnswersAreDurable
      <3> QED BY <1>1, <3>3 DEF IInv, AnswersAreDurable
    <2>3. CASE WithKey(r[2]) = {} /\ UNCHANGED outbox
      BY <1>2, <2>3
    <2>4. CASE WithKey(r[2]) = {} /\ ~ UNCHANGED outbox
      <3>1. /\ id \notin Present /\ ~Replayed(r[1])
            /\ outbox' = [outbox EXCEPT ![r] = "created"]
            /\ rows' = [rows EXCEPT ![id] =
                          Row(r[1], r[2],
                              SubmitStatus(r[1], handler[h].reviewedBy),
                              handler[h].reviewedBy, handler[h].confirmBy)]
        BY <1>3, <2>0, <2>4 DEF SubmitStore, Answer
      <3>2. Kept(r)'
        <4>1. /\ rows'[id].payload = r[1] /\ rows'[id].key = r[2]
          BY <2>1, <3>1 DEF IInv, TableInv, RowTypes, Row
        <4>2. rows'[id] \in Rows
          BY <2>0, <2>1, <2>4, <3>1, <1>3, HandlerShapes, AdmissionAssumption
             DEF SubmitStore, SubmitStatus, IInv, TableInv, RowTypes, Row,
                 Rows, RowStatuses
        <4>3. id \in Present'
          BY <2>1, <4>2, NoRowIsNoRow DEF Present
        <4> QED BY <4>1, <4>3
      <3>3. ASSUME NEW x \in Requests, x # r
            PROVE  outbox'[x] = outbox[x]
        BY <3>1, <3>3 DEF IInv, ProcessInv
      <3>4. ASSUME NEW x \in Requests, x # r, outbox[x] = "created"
            PROVE  SignalOf[x[1]] # SignalOf[r[1]]
        <4>1. PICK j \in Present : rows[j].payload = x[1]
          BY <3>4 DEF IInv, AnswersAreDurable
        <4> QED BY <3>1, <4>1 DEF Replayed
      <3>5. ASSUME NEW x \in Requests, Told(x)'
            PROVE  Kept(x)'
        <4>1. CASE x = r
          BY <3>2, <4>1
        <4>2. CASE x # r
          <5>1. Told(x)
            BY <3>3, <3>5, <4>2
          <5>2. Kept(x)
            BY <5>1 DEF IInv, AnswersAreDurable
          <5> QED BY <1>1, <5>2
        <4> QED BY <4>1, <4>2
      <3> HIDE DEF Told, Kept
      <3>6. \A x, y \in Requests :
              outbox'[x] = "created" /\ outbox'[y] = "created" /\ x # y
                => SignalOf[x[1]] # SignalOf[y[1]]
        BY <3>3, <3>4 DEF IInv, AnswersAreDurable
      <3> QED BY <3>5, <3>6 DEF AnswersAreDurable, Told, Kept
    <2> QED BY <2>2, <2>3, <2>4
  <1> QED
    BY <1>2, <1>3
       DEF Next, vars, SubmitChecked, ConfirmChecked, ConfirmStore,
           RejectStore, WorkerClaims, SetKillSwitch, Restart, Tick, Reads

-----------------------------------------------------------------------------
(* A journal that grows under its readers.                                 *)

LEMMA PrefixStays ==
  ASSUME NEW S, NEW j \in Seq(S), NEW e \in Seq(S), NEW c \in 0 .. Len(j)
  PROVE  SubSeq(j \o e, 1, c) = SubSeq(j, 1, c) /\ c \in 0 .. Len(j \o e)
  <1>1. Len(j) \in Nat /\ Len(e) \in Nat /\ Len(j \o e) = Len(j) + Len(e)
    BY ConcatProperties, LenProperties
  <1>2. CASE c = 0
    BY <1>2, SubSeqEmpty
  <1>3. CASE c > 0
    <2>1. c \in 1 .. Len(j) /\ 1 \in 1 .. Len(j)
      BY <1>1, <1>3
    <2> QED BY <2>1, SubSeqOfConcat1
  <1>4. c \in 0 .. Len(j \o e)
    BY <1>1
  <1> QED BY <1>1, <1>2, <1>3, <1>4

\* A page continues the prefix of the journal it was asked after.
LEMMA PageContinues ==
  ASSUME NEW S, journal \in Seq(S), NEW c \in 0 .. Len(journal),
         NEW limit \in Nat
  PROVE  /\ NextCursor(c, limit) \in 0 .. Len(journal)
         /\ SubSeq(journal, 1, c) \o EventsAfter(c, limit)
              = SubSeq(journal, 1, NextCursor(c, limit))
  <1> DEFINE last == IF c + limit < Len(journal) THEN c + limit
                     ELSE Len(journal)
  <1>1. Len(journal) \in Nat /\ c \in Nat
    BY LenProperties
  <1>2. last \in c .. Len(journal)
    BY <1>1
  <1>3. EventsAfter(c, limit) = SubSeq(journal, c + 1, last)
    BY DEF EventsAfter
  <1> HIDE DEF last
  <1>4. NextCursor(c, limit) = last
    <2>1. \A i \in c + 1 .. last : journal[i] \in S
      BY <1>1, <1>2, ElementOfSeq
    <2>2. Len(SubSeq(journal, c + 1, last))
            = IF c + 1 <= last THEN last - (c + 1) + 1 ELSE 0
      BY <1>1, <1>2, <2>1, SubSeqProperties
    <2> QED BY <1>1, <1>2, <1>3, <2>2 DEF NextCursor
  <1>5. SubSeq(journal, 1, c) \o SubSeq(journal, c + 1, last)
          = SubSeq(journal, 1, last)
    <2>1. /\ 1 \in 1 .. Len(journal) + 1 /\ c \in 1 - 1 .. Len(journal)
          /\ last \in c .. Len(journal)
      BY <1>1, <1>2
    <2> QED BY <2>1, ConcatAdjacentSubSeq
  <1> QED BY <1>1, <1>2, <1>3, <1>4, <1>5

\* Transactions only append.
LEMMA JournalGrows ==
  ASSUME TableInv, TableStep
  PROVE  \E events \in Seq(Events) : journal' = journal \o events
  <1>1. CASE journal' = journal
    <2>1. journal = journal \o << >> /\ << >> \in Seq(Events)
      BY ConcatEmptySeq, EmptySeq DEF TableInv
    <2> QED BY <1>1, <2>1
  <1>2. ASSUME NEW r \in Requests, NEW by \in Policies, NEW until \in Nat,
               AddsRow(r, by, until)
        PROVE  \E events \in Seq(Events) : journal' = journal \o events
    <2> DEFINE id == IdOf[r[1]]
               kind == SubmitKind(SubmitStatus(r[1], by))
               e1 == Event(id, "intent.received")
               e2 == Event(id, kind)
    <2>1. id \in Ids /\ kind \in StatusKinds
      BY AdmissionAssumption DEF SubmitKind, StatusKinds
    <2>2. e1 \in Events /\ e2 \in Events
      BY <2>1 DEF Event, Events, StatusKinds
    <2>3. journal' = journal \o << e1, e2 >>
      BY <1>2 DEF AddsRow, Record
    <2> HIDE DEF e1, e2
    <2>4. << e1, e2 >> \in Seq(Events)
      BY <2>2
    <2> QED BY <2>3, <2>4
  <1>3. ASSUME NEW x \in Ids, NEW to \in RowStatuses,
               NEW events \in Seq(Events), MovesRow(x, to, events)
        PROVE  journal' = journal \o events
    BY <1>3 DEF MovesRow, Record
  <1>4. ASSUME NEW enabled \in BOOLEAN, SetsSwitch(enabled)
        PROVE  \E events \in Seq(Events) : journal' = journal \o events
    <2> DEFINE e1 == Event(Control,
                           IF enabled THEN "control.kill_switch_enabled"
                           ELSE "control.kill_switch_disabled")
    <2>1. e1 \in Events
      BY DEF Event, Events, SwitchEvents
    <2>2. journal' = journal \o << e1 >>
      BY <1>4 DEF SetsSwitch, Record
    <2> HIDE DEF e1
    <2>3. << e1 >> \in Seq(Events)
      BY <2>1
    <2> QED BY <2>2, <2>3
  <1> QED BY <1>1, <1>2, <1>3, <1>4 DEF TableStep

LEMMA ReaderKeeps ==
  ASSUME IInv, [Next]_vars, TableStep
  PROVE  JournalTypeOK' /\ CopyFollowsJournal'
  <1>1. /\ journal \in Seq(Events) /\ cursor \in 0 .. Len(journal)
        /\ copy = SubSeq(journal, 1, cursor) /\ Len(journal) \in Nat
        /\ reader \in { "client", "console", "nobody" }
    BY DEF IInv, TableInv, JournalTypeOK, CopyFollowsJournal
  <1>2. SubSeq(journal, 1, 0) = << >>
    BY SubSeqEmpty
  <1>3. CASE UNCHANGED readerVars
    <2>1. PICK events \in Seq(Events) : journal' = journal \o events
      BY JournalGrows DEF IInv
    <2>2. /\ SubSeq(journal', 1, cursor) = SubSeq(journal, 1, cursor)
          /\ cursor \in 0 .. Len(journal')
      BY <1>1, <2>1, PrefixStays
    <2> QED
      BY <1>1, <1>3, <2>2
         DEF readerVars, JournalTypeOK, CopyFollowsJournal
  <1>4. ASSUME UNCHANGED journal, EndSession
        PROVE  JournalTypeOK' /\ CopyFollowsJournal'
    BY <1>1, <1>2, <1>4 DEF EndSession, JournalTypeOK, CopyFollowsJournal
  <1>5. ASSUME NEW limit \in PageLimits, UNCHANGED << journal, reader >>,
               cursor' = NextCursor(cursor, limit),
               copy' = copy \o EventsAfter(cursor, limit)
        PROVE  JournalTypeOK' /\ CopyFollowsJournal'
    <2>1. limit \in Nat
      BY PageLimitsAssumption
    <2> QED
      BY <1>1, <1>5, <2>1, PageContinues
         DEF JournalTypeOK, CopyFollowsJournal
  <1>6. CASE Reads
    <2>1. ASSUME NEW as \in { "client", "console" }, StartReading(as)
          PROVE  JournalTypeOK' /\ CopyFollowsJournal'
      <3>1. /\ cursor' = 0 /\ copy' = << >> /\ journal' = journal
            /\ reader' \in { "client", "console" }
        BY <2>1 DEF StartReading
      <3>2. /\ SubSeq(journal', 1, cursor') = << >>
            /\ cursor' \in 0 .. Len(journal')
        BY <1>1, <1>2, <3>1
      <3> QED BY <3>1, <3>2 DEF JournalTypeOK, CopyFollowsJournal
    <2>2. ASSUME NEW limit \in PageLimits,
                 ReadPage(limit) \/ SessionTick(limit)
          PROVE  JournalTypeOK' /\ CopyFollowsJournal'
      BY <1>4, <1>5, <2>2 DEF ReadPage, SessionTick
    <2> QED BY <1>6, <2>1, <2>2 DEF Reads, JournalReaderStep
  <1>7. CASE Restart
    BY <1>4, <1>7 DEF Restart
  <1> QED
    BY <1>3, <1>6, <1>7
       DEF Next, vars, journalVars, SubmitChecked, ConfirmChecked,
           SubmitStore, ConfirmStore, RejectStore, WorkerClaims,
           SetKillSwitch, Tick

-----------------------------------------------------------------------------
(* The theorems.                                                           *)

LEMMA InitIInv ==
  ASSUME Init
  PROVE  IInv
  <1>1. Present = {}
    BY DEF Init, Present
  <1>2. journal = << >> /\ Len(journal) = 0 /\ journal \in Seq(Events)
    BY DEF Init, JournalInit
  <1>3. \A E : At(journal, E) = {}
    BY <1>2 DEF At
  <1>4. TableInv
    BY <1>1, <1>2, <1>3
       DEF Init, TableInv, RowTypes, OneRowEach, RowsAnnounced,
           SwitchAnnounced
  <1>5. HandlerInv
    BY DEF Init, HandlerInv, Tasks, Established, Idle
  <1>6. ProcessInv
    BY AdmissionAssumption DEF Init, ProcessInv, Times, Knowledge
  <1>7. JournalTypeOK /\ CopyFollowsJournal
    BY <1>2, SubSeqEmpty
       DEF Init, JournalInit, JournalTypeOK, CopyFollowsJournal
  <1>8. AnswersAreDurable
    BY DEF Init, AnswersAreDurable
  <1> QED BY <1>4, <1>5, <1>6, <1>7, <1>8 DEF IInv

\* The tables, the handlers, the clients and the readers stay in step.
THEOREM InductiveInvariant == Spec => []IInv
  <1>1. ASSUME IInv, [Next]_vars
        PROVE  IInv'
    <2>1. TableStep
      BY <1>1, NextTables
    <2> QED
      BY <1>1, <2>1, TableKeeps, HandlersKeep, ProcessKeeps, ReaderKeeps,
         AnswersKeep
         DEF IInv
  <1> QED BY <1>1, InitIInv, PTL DEF Spec

\* The rows of trade_intents, the tasks of the handlers and what the clients
\* know keep their types, and no row is confirmable after it expires.
THEOREM TypeCorrect == Spec => []TypeOK
  <1>1. IInv => TypeOK
    BY AdmissionAssumption
       DEF IInv, TableInv, HandlerInv, ProcessInv, RowTypes, Tasks, TypeOK,
           Present, Rows, RowStatuses
  <1> QED BY <1>1, InductiveInvariant, PTL

\* submit_shadow_intent gives a signal one row, a key one row and a row one
\* arrival, however requests repeat and overlap.
THEOREM Admission == Spec => []AdmittedOnce
  <1>1. ASSUME IInv
        PROVE  AdmittedOnce
    <2>1. \A S, x : S \subseteq {x} => Cardinality(S) <= 1
      <3>1. ASSUME NEW S, NEW x, S \subseteq {x}
            PROVE  Cardinality(S) <= 1
        <4>1. S = {} \/ S = {x}
          BY <3>1
        <4>2. Cardinality({}) = 0 /\ Cardinality({x}) = 1
          BY FS_EmptySet, FS_Singleton
        <4> QED BY <4>1, <4>2
      <3> QED BY <3>1
    <2>2. ASSUME NEW s \in Signals
          PROVE  Cardinality(RowsOf(s)) <= 1
      <3>1. \A i, j \in RowsOf(s) : i = j
        BY <1>1 DEF IInv, TableInv, OneRowEach, RowsOf
      <3>2. \E x : RowsOf(s) \subseteq {x}
        BY <3>1
      <3> QED BY <2>1, <3>2
    <2>3. ASSUME NEW key \in Keys
          PROVE  Cardinality(WithKey(key)) <= 1
      <3>1. \A i, j \in WithKey(key) : i = j
        BY <1>1 DEF IInv, TableInv, OneRowEach, WithKey
      <3>2. \E x : WithKey(key) \subseteq {x}
        BY <3>1
      <3> QED BY <2>1, <3>2
    <2>4. ASSUME NEW id \in Ids
          PROVE  Cardinality({ k \in 1 .. Len(journal) :
                                 journal[k] = Event(id, "intent.received") })
                   = (IF id \in Present THEN 1 ELSE 0)
      <3>1. { k \in 1 .. Len(journal) :
                journal[k] = Event(id, "intent.received") }
              = At(journal, Arrival(id))
        BY DEF At, Arrival
      <3>2. CASE id \in Present
        <4>1. PICK k \in At(journal, Arrival(id)) :
                At(journal, Arrival(id)) = {k}
          BY <1>1, <3>2 DEF IInv, TableInv, RowsAnnounced
        <4> QED BY <3>1, <3>2, <4>1, FS_Singleton
      <3>3. CASE id \notin Present
        <4>1. At(journal, Announcing(id)) = {}
          BY <1>1, <3>3 DEF IInv, TableInv, RowsAnnounced
        <4>2. Arrival(id) \subseteq Announcing(id)
          BY DEF Arrival, Announcing, Event, StatusKinds
        <4>3. At(journal, Arrival(id)) = {}
          BY <4>1, <4>2 DEF At
        <4> QED BY <3>1, <3>3, <4>3, FS_EmptySet
      <3> QED BY <3>2, <3>3
    <2> QED BY <2>2, <2>3, <2>4 DEF AdmittedOnce
  <1> QED BY <1>1, InductiveInvariant, PTL

\* What create_intent answered stays true of the table.
THEOREM DurableAnswers == Spec => []AnswersAreDurable
  BY InductiveInvariant, PTL DEF IInv

\* get_events and the console session never skip, repeat or reorder an event.
THEOREM CopyIsPrefix == Spec => []CopyFollowsJournal
  BY InductiveInvariant, PTL DEF IInv

\* execution_events, read from cursor zero, gives every status of
\* trade_intents and the kill switch.
THEOREM JournalSuffices == Spec => []JournalRebuildsRows
  <1>1. ASSUME IInv
        PROVE  JournalRebuildsRows
    <2>1. ASSUME NEW K \in SUBSET Nat, NEW k, Newest(k, K)
          PROVE  LastOf(K) = k
      <3>1. \A i \in K : (\A j \in K : j <= i) => i = k
        BY <2>1 DEF Newest
      <3>2. /\ LastOf(K) \in K
            /\ \A j \in K : j <= LastOf(K)
        BY <2>1 DEF Newest, LastOf
      <3> QED BY <3>1, <3>2
    <2>2. \A k \in 1 .. Len(journal) : journal[k] \in Events
      BY <1>1, ElementOfSeq DEF IInv, TableInv
    <2>3. ASSUME NEW E
          PROVE  At(journal, E) \in SUBSET Nat
      BY DEF At
    <2>4. ASSUME NEW id \in Ids
          PROVE  IF id \in Present
                 THEN rows[id].status
                        = StatusOfKind[journal[LastOf(StatusEvents(id))].kind]
                 ELSE StatusEvents(id) = {}
      <3>1. StatusEvents(id) = At(journal, Announcing(id))
        BY <2>2, KnownKinds DEF StatusEvents, At, Announcing, Events
      <3> QED
        BY <1>1, <2>1, <2>3, <3>1 DEF IInv, TableInv, RowsAnnounced
    <2>5. killed <=>
            /\ Switches # {}
            /\ journal[LastOf(Switches)].kind = "control.kill_switch_enabled"
      <3>1. Switches = At(journal, Switching)
        BY <2>2 DEF Switches, At, Switching
      <3> QED
        BY <1>1, <2>1, <2>3, <3>1 DEF IInv, TableInv, SwitchAnnounced
    <2> QED BY <2>4, <2>5 DEF JournalRebuildsRows
  <1> QED BY <1>1, InductiveInvariant, PTL

-----------------------------------------------------------------------------
(* The tables implement AdmissionContract.                                 *)

FateAt(s) == IF RowsOf(s) = {} THEN "unseen" ELSE FateOf(RowOf(s).status)
GrantAt(s) == IF RowsOf(s) = {} THEN 0 ELSE Granted(RowOf(s))

LEMMA Fates ==
  /\ FateOf("awaiting_confirmation") = "proposed"
  /\ FateOf("risk_rejected") = "refused"
  /\ FateOf("shadow_accepted") = "simulated"
  /\ FateOf("approved") = "accepted"
  /\ FateOf("submitting") = "entered"
  BY DEF FateOf

\* A signal with a row has the fate and the terms of that row.
LEMMA RowDecides ==
  ASSUME OneRowEach, NEW id \in Present, NEW s,
         s = SignalOf[rows[id].payload]
  PROVE  /\ RowsOf(s) = {id} /\ RowOf(s) = rows[id]
         /\ FateAt(s) = FateOf(rows[id].status)
         /\ GrantAt(s) = Granted(rows[id])
  <1>1. RowsOf(s) = {id}
    BY DEF RowsOf, OneRowEach
  <1>2. RowOf(s) = rows[id]
    BY <1>1 DEF RowOf
  <1> QED BY <1>1, <1>2 DEF FateAt, GrantAt

\* A signal whose rows are what they were keeps its fate and its terms.
LEMMA SameRows ==
  ASSUME NEW s, RowsOf(s)' = RowsOf(s),
         \A x \in RowsOf(s) : rows'[x] = rows[x]
  PROVE  FateAt(s)' = FateAt(s) /\ GrantAt(s)' = GrantAt(s)
  <1>1. RowsOf(s) # {} => RowOf(s)' = RowOf(s)
    BY DEF RowOf
  <1> QED BY <1>1 DEF FateAt, GrantAt, Granted

\* What the contract sees of a step that concerns one signal.
LEMMA OneSignal ==
  ASSUME NEW s \in Signals, NEW f, NEW n,
         FateAt(s)' = f, GrantAt(s)' = n, UNCHANGED killed,
         \A x \in Signals \ {s} :
           FateAt(x)' = FateAt(x) /\ GrantAt(x)' = GrantAt(x)
  PROVE  Contract!Becomes(s, f, n)
  <1> DEFINE fate == [x \in Signals |-> FateAt(x)]
             grant == [x \in Signals |-> GrantAt(x)]
  <1>1. fate' = [fate EXCEPT ![s] = f] /\ grant' = [grant EXCEPT ![s] = n]
    OBVIOUS
  <1> QED BY <1>1 DEF Contract!Becomes, FateAt, GrantAt

LEMMA AddDecides ==
  ASSUME TableInv, TableInv', NEW r \in Requests, NEW by \in Policies,
         NEW until \in Nat, AddsRow(r, by, until)
  PROVE  Contract!ContractNext
  <1> DEFINE id == IdOf[r[1]]
             s == SignalOf[r[1]]
             status == SubmitStatus(r[1], by)
             n == Approves[by][r[1]]
  <1>1. r[1] \in Payloads /\ r[2] \in Keys /\ id \in Ids /\ s \in Signals
        /\ n \in Grants
    BY AdmissionAssumption DEF Grants
  <1>2. /\ rows' = [rows EXCEPT ![id] = Row(r[1], r[2], status, by, until)]
        /\ id \notin Present /\ ~Replayed(r[1]) /\ killed' = killed
    BY DEF AddsRow
  <1>3. /\ rows'[id].payload = r[1] /\ rows'[id].reviewedBy = by
        /\ rows'[id].status = status /\ rows'[id] \in Rows
    BY <1>1, <1>2 DEF TableInv, RowTypes, Row, SubmitStatus, Rows, RowStatuses
  <1>4. \A x \in Ids \ {id} : rows'[x] = rows[x]
    BY <1>2 DEF TableInv, RowTypes
  <1>5. Present' = Present \cup {id}
    BY <1>1, <1>3, <1>4, NoRowIsNoRow DEF Present
  <1>6. FateAt(s)' = FateOf(status) /\ GrantAt(s)' = n
    <2>1. id \in Present' /\ s = SignalOf[rows'[id].payload] /\ OneRowEach'
      BY <1>3, <1>5 DEF TableInv
    <2> HIDE DEF id, s, status, n
    <2>2. /\ RowsOf(s)' = {id}
      BY <2>1 DEF RowsOf, OneRowEach
    <2>3. RowOf(s)' = rows'[id]
      BY <2>2 DEF RowOf
    <2> QED BY <1>3, <2>2, <2>3 DEF FateAt, GrantAt, Granted, n
  <1>7. ASSUME NEW x \in Signals \ {s}
        PROVE  FateAt(x)' = FateAt(x) /\ GrantAt(x)' = GrantAt(x)
    <2>1. RowsOf(x)' = RowsOf(x)
      BY <1>2, <1>3, <1>4, <1>5 DEF RowsOf, Present
    <2>2. \A y \in RowsOf(x) : rows'[y] = rows[y]
      BY <1>2, <1>4 DEF RowsOf, Present
    <2> QED BY <2>1, <2>2, SameRows
  <1>8. FateAt(s) = "unseen"
    BY <1>2 DEF FateAt, RowsOf, Replayed
  <1>9. Contract!Becomes(s, FateOf(status), n)
    <2> HIDE DEF s, status, n
    <2> QED BY <1>1, <1>2, <1>6, <1>7, OneSignal
  <1>10. \/ status = "risk_rejected"
         \/ status = "awaiting_confirmation" /\ ~killed /\ n # 0
    BY DEF SubmitStatus
  <1>11. Contract!Decide(s)
    <2> HIDE DEF s, status, n
    <2> QED
      BY <1>1, <1>8, <1>9, <1>10, Fates DEF Contract!Decide, FateAt
  <1> QED BY <1>1, <1>11 DEF Contract!ContractNext

LEMMA MoveSettles ==
  ASSUME TableInv, NEW id \in Ids, NEW to \in RowStatuses,
         NEW events \in Seq(Events), MovesRow(id, to, events)
  PROVE  Contract!ContractNext
  <1>0. PICK s \in Signals : s = SignalOf[rows[id].payload]
    BY AdmissionAssumption DEF MovesRow, TableInv, RowTypes, Present, Rows
  <1>1. /\ id \in Present /\ Settles(rows[id].status, to)
        /\ SetStatus(id, to) /\ killed' = killed
    BY DEF MovesRow
  <1>2. /\ Present' = Present /\ rows'[id].status = to
        /\ \A x \in Ids \ {id} : rows'[x] = rows[x]
        /\ \A x \in Present :
             /\ rows'[x].payload = rows[x].payload
             /\ rows'[x].key = rows[x].key
             /\ rows'[x].reviewedBy = rows[x].reviewedBy
    BY <1>1, MovedRow DEF TableInv
  <1>3. \A x : RowsOf(x)' = RowsOf(x)
    BY <1>2 DEF RowsOf
  <1>4. /\ RowsOf(s) = {id} /\ FateAt(s) = FateOf(rows[id].status)
        /\ GrantAt(s) = Granted(rows[id])
    BY <1>0, <1>1, RowDecides DEF TableInv
  <1>5. FateAt(s)' = FateOf(to) /\ GrantAt(s)' = GrantAt(s)
    <2>1. RowsOf(s)' = {id} /\ RowOf(s)' = rows'[id]
      BY <1>3, <1>4 DEF RowOf
    <2>2. Granted(rows[id])' = Granted(rows[id])
      BY <1>1, <1>2 DEF Granted
    <2> QED BY <1>2, <1>4, <2>1, <2>2 DEF FateAt, GrantAt, Granted
  <1>6. ASSUME NEW x \in Signals \ {s}
        PROVE  FateAt(x)' = FateAt(x) /\ GrantAt(x)' = GrantAt(x)
    <2>1. \A y \in RowsOf(x) : rows'[y] = rows[y]
      BY <1>0, <1>2 DEF RowsOf, Present
    <2> QED BY <1>3, <2>1, SameRows
  <1>7. Contract!Becomes(s, FateOf(to), GrantAt(s))
    BY <1>1, <1>5, <1>6, OneSignal
  <1>8. Contract!Settle(s) \/ Contract!Enter(s)
    <2>1. CASE rows[id].status = "approved" /\ to = "submitting"
      BY <1>4, <1>7, <2>1, Fates DEF Contract!Enter, FateAt, GrantAt
    <2>2. CASE rows[id].status = "awaiting_confirmation"
               /\ to = "risk_rejected"
      BY <1>4, <1>7, <2>2, Fates DEF Contract!Settle, FateAt, GrantAt
    <2>3. CASE /\ rows[id].status = "awaiting_confirmation" /\ ~killed
               /\ to \in { "shadow_accepted", "approved" }
      BY <1>4, <1>7, <2>3, Fates DEF Contract!Settle, FateAt, GrantAt
    <2> QED BY <1>1, <2>1, <2>2, <2>3 DEF Settles
  <1> QED BY <1>8 DEF Contract!ContractNext

\* Requests that overlap, are repeated, refused, answered late or cut off by a
\* restart move a signal only as AdmissionContract says.
THEOREM Refinement == Spec => ImplementsContract
  <1>1. ASSUME Init
        PROVE  Contract!ContractInit
    <2>1. \A s : RowsOf(s) = {}
      BY <1>1 DEF Init, RowsOf, Present
    <2> QED BY <1>1, <2>1 DEF Init, Contract!ContractInit
  <1>2. ASSUME IInv, IInv', [Next]_vars
        PROVE  [Contract!ContractNext]_(Contract!contractVars)
    <2>1. TableStep /\ TableInv /\ TableInv'
      BY <1>2, NextTables DEF IInv
    <2>2. CASE UNCHANGED << rows, killed >>
      BY <2>2 DEF Contract!contractVars, RowsOf, RowOf, Present, Granted
    <2>3. ASSUME NEW r \in Requests, NEW by \in Policies, NEW until \in Nat,
                 AddsRow(r, by, until)
          PROVE  Contract!ContractNext
      BY <2>1, <2>3, AddDecides
    <2>4. ASSUME NEW x \in Ids, NEW to \in RowStatuses,
                 NEW events \in Seq(Events), MovesRow(x, to, events)
          PROVE  Contract!ContractNext
      BY <2>1, <2>4, MoveSettles
    <2>5. ASSUME NEW enabled \in BOOLEAN, SetsSwitch(enabled),
                 ~ UNCHANGED << rows, killed >>
          PROVE  Contract!ContractNext
      <3>1. rows' = rows /\ killed' = ~killed
        BY <2>1, <2>5 DEF SetsSwitch, TableInv
      <3> QED
        BY <3>1 DEF Contract!ContractNext, Contract!Switch, RowsOf, RowOf,
                    Present, Granted
    <2> QED BY <2>1, <2>2, <2>3, <2>4, <2>5 DEF TableStep
  <1> QED
    BY <1>1, <1>2, InductiveInvariant, PTL
       DEF Spec, ImplementsContract, Contract!ContractSpec

=============================================================================
