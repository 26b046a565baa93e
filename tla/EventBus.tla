------------------------------ MODULE EventBus ------------------------------
(***************************************************************************)
(* The ecosystem event bus: the append-only event_log of the core ledger,  *)
(* its producers (the transition audit row of the same commit, the rich    *)
(* events of the emitter after it, the publish ingress of other products)  *)
(* and its consumers (the SSE tail and the operator page).  A row's seq is *)
(* its index: rows are never deleted and an ignored insert takes no seq.   *)
(***************************************************************************)
EXTENDS Naturals, Sequences, SequencesExt, FiniteSetsExt
CONSTANTS Observed,     \* the subtasks whose transitions are reported
          ObservedTier, \* their privacy tiers
          PublishId,    \* event ids a foreign publisher chooses and may repeat
          PublishTier, \* the tiers it declares
          HealthStatus, \* the classifications a component's checks return here
          MaxLog, MaxMoves, MaxRestarts, Page \* bounds; Page is the read limit (200)
VARIABLES moved, log, emitter, stream, page, restarts
busVars == <<moved, log, emitter, stream, page, restarts>>

Strictness == [public |-> 0, repo_sensitive |-> 2, local_only |-> 3, secret_sensitive |-> 4]
\* the names that tell the rows of the model apart are different names
ASSUME BusTypes ==
  /\ ObservedTier \in [Observed -> DOMAIN Strictness] /\ Page \in Nat \ {0}
  /\ HealthStatus \cap {"state", "subtask", "publish"} = {}
  /\ Observed \cap (PublishTier \cup {"orphan", "local_only", "unparseable"}) = {}
FreshEmitter == [seq |-> 0, todo |-> {}, sending |-> {}, health |-> "unknown"]
BusInit == /\ moved = [o \in Observed |-> 0] /\ log = <<>> /\ restarts = 0
           /\ emitter = FreshEmitter
           /\ stream = [on |-> FALSE, start |-> 0, cursor |-> 0, batch |-> <<>>, got |-> <<>>]
           /\ page \in [phase : {"poll", "closed"}, last : {0}, rows : {<<>>}, ticks : {<<>>}, tree : {moved}]

(***************************************************************************)
(* Privacy at write and at read time.                                      *)
(***************************************************************************)
TierGatedFreeText(o) == IF Strictness[ObservedTier[o]] >= 3 THEN "withheld" ELSE "text"
SafeTier(tier) == IF tier \in DOMAIN Strictness THEN tier ELSE "secret_sensitive"
RedactIngestedPayload(tier) == IF Strictness[SafeTier(tier)] >= 3 THEN "withheld" ELSE "text"
RedactText(o, redactorOk) ==
  IF Strictness[SafeTier(ObservedTier[o])] >= 3 \/ ~redactorOk THEN "withheld" ELSE "text"

(***************************************************************************)
(* The log.  INSERT OR IGNORE on the event id.                             *)
(***************************************************************************)
LatestBusSeq == Len(log)
Row(id, about, dst, text, source) ==
  [id |-> id, about |-> about, dst |-> dst, text |-> text, source |-> source]
InsertEventRow(row) ==
  IF \E i \in DOMAIN log : log[i].id = row.id THEN log ELSE Append(log, row)
AppendBusEvent(row) == log' = InsertEventRow(row) \* in a transaction of its own
ListBusEventsFrom(since) == \* Slip: since is inclusive
  LET first == Max({since, 1}) IN
  [i \in 1 .. Min({Page, IF Len(log) >= first THEN Len(log) + 1 - first ELSE 0}) |-> first + i - 1]
ListBusEvents(since) == \* the seqs of the rows after since, oldest first, at most Page of them
  [i \in 1 .. Min({Page, IF Len(log) > since THEN Len(log) - since ELSE 0}) |-> since + i]

(***************************************************************************)
(* Path 1: an applied transition and its state.changed row are one commit. *)
(* The rich sibling is handed to the emitter after it.                     *)
(***************************************************************************)
Rich(o) == [kind |-> "subtask", anchor |-> o, text |-> TierGatedFreeText(o)]
InsertTransitionAudit(o) ==
  log' = InsertEventRow(Row(<<"state", o, Len(log) + 1>>, o, moved[o] + 1, "none", "agentconnect"))
Transition(o) ==
  /\ moved[o] < MaxMoves /\ Len(log) < MaxLog
  /\ moved' = [moved EXCEPT ![o] = @ + 1]
  /\ InsertTransitionAudit(o)
  /\ emitter' = [emitter EXCEPT !.todo = @ \cup {Rich(o)}]
  /\ UNCHANGED <<stream, page, restarts>>

(***************************************************************************)
(* Path 2: observe numbers and dedupes an event, then the provider appends *)
(* it in a transaction of its own; a provider's failure is swallowed.      *)
(***************************************************************************)
ObserveEvent(e) ==
  LET n == emitter.seq + 1
      id == <<e.kind, e.anchor, n>>
  IN /\ e \in emitter.todo /\ n <= MaxLog
     /\ emitter' = [emitter EXCEPT !.seq = n, !.todo = @ \ {e},
          !.sending = @ \cup {[id |-> id, event |-> e]}]
     /\ UNCHANGED <<moved, log, stream, page, restarts>>
\* _isolate: a provider that raises has written nothing, and nobody hears of it
Isolated(s, ok) ==
  IF ok THEN AppendBusEvent(Row(s.id, s.event.anchor, 0, s.event.text, "agentconnect")) ELSE UNCHANGED log
AppendEvent(s, ok) ==
  /\ s \in emitter.sending /\ Len(log) < MaxLog
  /\ emitter' = [emitter EXCEPT !.sending = @ \ {s}]
  /\ Isolated(s, ok)
  /\ UNCHANGED <<moved, stream, page, restarts>>

\* _note_component_health: only a change of classification is reported
NoteComponentHealth(status) ==
  LET news == emitter.health # status /\ ~(emitter.health = "unknown" /\ status = "ok") IN
  /\ emitter.health # status \* a repeated check changes nothing
  /\ emitter' = [emitter EXCEPT !.health = status,
       !.todo = IF news THEN @ \cup {[kind |-> status, anchor |-> "orphan", text |-> "none"]} ELSE @]
  /\ UNCHANGED <<moved, log, stream, page, restarts>>

\* A restart loses everything the process had not written; seq starts again.
Restart == /\ restarts < MaxRestarts /\ restarts' = restarts + 1 /\ emitter' = FreshEmitter
           /\ stream' = [stream EXCEPT !.on = FALSE, !.batch = <<>>]
           /\ page' = IF page.phase = "closed" THEN page ELSE [page EXCEPT !.phase = "poll", !.rows = <<>>]
           /\ UNCHANGED <<moved, log>>

\* The payload is redacted again, whatever the publisher did to it.
Ingested(id, tier) == Row(<<"publish", id, 0>>, tier, 0, RedactIngestedPayload(tier), "brainconnect")
Ingest(id, tier) == AppendBusEvent(Ingested(id, tier))
\* POST /events with a token bound to one product; a retry repeats the id
PublishEvent(id, tier) ==
  /\ Len(log) < MaxLog
  /\ Ingest(id, tier)
  /\ UNCHANGED <<moved, emitter, stream, page, restarts>>

(***************************************************************************)
(* GET /events/stream: a subscriber resumes with the last id it received,  *)
(* a fresh one starts at the tail.  Consumers share nothing but the log,   *)
(* so a behaviour has either a subscriber or an open page.                 *)
(***************************************************************************)
StreamEvents ==
  /\ ~stream.on /\ page.phase = "closed"
  /\ stream' = IF stream.got # <<>>
               THEN [stream EXCEPT !.on = TRUE, !.cursor = Last(stream.got)]
               ELSE [stream EXCEPT !.on = TRUE, !.cursor = LatestBusSeq, !.start = LatestBusSeq]
  /\ UNCHANGED <<moved, log, emitter, page, restarts>>
SseFetch == /\ stream.on /\ stream.batch = <<>> /\ ListBusEvents(stream.cursor) # <<>>
            /\ stream' = [stream EXCEPT !.batch = ListBusEvents(stream.cursor)]
            /\ UNCHANGED <<moved, log, emitter, page, restarts>>
Framed == [stream EXCEPT !.cursor = Head(stream.batch), !.batch = Tail(@)]
SseYield == /\ stream.on /\ stream.batch # <<>>
            /\ stream' = [Framed EXCEPT !.got = Append(@, Head(stream.batch))]
            /\ UNCHANGED <<moved, log, emitter, page, restarts>>
Disconnect == \* with whatever the server had fetched or sent and the client not received
  /\ stream.on /\ stream' = [stream EXCEPT !.on = FALSE, !.batch = <<>>]
  /\ UNCHANGED <<moved, log, emitter, page, restarts>>

(***************************************************************************)
(* The operator page: GET /events reads the rows and then the latest seq,  *)
(* GET /observe/tree the ledger and then the latest seq.                   *)
(***************************************************************************)
PageStep(p) == page' = p /\ UNCHANGED <<moved, log, emitter, stream, restarts>>
PollList == page.phase = "poll"
  /\ PageStep([page EXCEPT !.phase = "listed", !.rows = ListBusEvents(page.last)])
Refreshes == \E i \in DOMAIN page.rows : log[page.rows[i]].id[1] \in {"state", "subtask"}
Caught == Max({page.last, LatestBusSeq})
PollLatest == page.phase = "listed"
  /\ PageStep([page EXCEPT !.last = Caught, !.ticks = @ \o page.rows, !.rows = <<>>,
                           !.phase = IF Refreshes THEN "tree" ELSE "poll"])
TreeRead == page.phase = "tree" /\ PageStep([page EXCEPT !.phase = "shown", !.tree = moved])
TreeLatest == page.phase = "shown" /\ PageStep([page EXCEPT !.phase = "poll", !.last = Caught])
PollFails == page.phase \in {"listed", "tree"} /\ PageStep([page EXCEPT !.phase = "poll", !.rows = <<>>])

BusNext == \/ \E o \in Observed : Transition(o)
           \/ \E e \in emitter.todo : ObserveEvent(e)
           \/ \E s \in emitter.sending, ok \in BOOLEAN : AppendEvent(s, ok)
           \/ \E status \in HealthStatus : NoteComponentHealth(status)
           \/ \E id \in PublishId, tier \in PublishTier :
                PublishEvent(id, tier)
           \/ Restart \/ StreamEvents \/ SseFetch \/ SseYield \/ Disconnect
           \/ PollList \/ PollLatest \/ TreeRead \/ TreeLatest \/ PollFails
BusSpec == BusInit /\ [][BusNext]_busVars

(***************************************************************************)
(* Properties.                                                             *)
(***************************************************************************)
Increasing(s) == \A i, j \in DOMAIN s : i < j => s[i] < s[j]
\* A subscriber that resumes with the last id it received has been sent every row
\* since it first subscribed, once and in order, whatever the disconnections,
\* restarts and inserts between its reads; the operator page shows no row twice.
StreamsFaithful ==
  /\ stream.got # <<>> =>
       stream.got = [i \in 1 .. Last(stream.got) - stream.start |-> stream.start + i]
  /\ Increasing(page.ticks)

\* The state.changed rows alone rebuild the ledger: whatever crashed, the rows of
\* a subtask are its transitions in order and the last one is the state it is in;
\* and every rich row of a subtask comes after a transition of it.
SkeletonRebuilds ==
  /\ \A o \in Observed :
       LET rows == {i \in DOMAIN log : log[i].about = o /\ log[i].id[1] = "state"} IN
       /\ \A n \in 1 .. moved[o] : \E i \in rows : log[i].dst = n
       /\ \A i \in rows : log[i].dst \in 1 .. moved[o]
       /\ \A i, j \in rows : i < j => log[i].dst < log[j].dst
  /\ \A i \in DOMAIN log : log[i].id[1] = "subtask" =>
       \E j \in 1 .. i - 1 : log[j].id[1] = "state" /\ log[j].about = log[i].about

\* Nothing a reader of the bus or of the tree is given carries the text of a
\* local_only subtask, nor that of a foreign event whose tier is local_only or
\* cannot be read.
ContentWithheld ==
  /\ \A i \in DOMAIN log :
       /\ log[i].about \in Observed /\ Strictness[ObservedTier[log[i].about]] >= 3
            => log[i].text # "text"
       /\ log[i].about \in {"local_only", "unparseable"} => log[i].text # "text"
  /\ \A o \in Observed, ok \in BOOLEAN :
       Strictness[ObservedTier[o]] >= 3 => RedactText(o, ok) # "text"

\* What the event bus promises its readers (emitter.py, storage.py, routes_events.py):
\* gapless streams, a skeleton that rebuilds the ledger, and no withheld content.
BusSafe == StreamsFaithful /\ SkeletonRebuilds /\ ContentWithheld
=============================================================================
