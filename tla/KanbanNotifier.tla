--------------------------- MODULE KanbanNotifier ---------------------------
(***************************************************************************)
(* The Kanban notification bridge, scripts/devkit_kanban_notifier.py.      *)
(*                                                                         *)
(* A board is an SQLite file whose task_events are numbered from 1.  The   *)
(* notifier keeps one durable cursor per board, and in every round reads a *)
(* batch of events after the cursor, sends a message for each of those     *)
(* that deserve one and commits the cursor after each event.  A message    *)
(* may arrive although the send was reported as failed (a timeout), and    *)
(* the process may die between a send and the commit; s6 starts it again.  *)
(*                                                                         *)
(* Abstracted: an event is whether should_notify accepts it; the wording,  *)
(* the sleeps and the backoff between rounds are left out; the boards of a *)
(* round are visited in any order (the code sorts them by name).           *)
(***************************************************************************)
EXTENDS Integers, Sequences, FiniteSetsExt

CONSTANTS
  Board,         \* names of boards
  Unsound,       \* boards whose file may be unreadable, or deleted and made anew
  Modes,         \* the settings the service may be started with
  Batch,         \* DEFAULT_BATCH_SIZE
  MaxEvents,     \* bound: events in all board files together
  MaxFaults      \* bound: crashes and sends that succeed but report failure

ASSUME BoardAssumption == IsFiniteSet(Board) /\ Unsound \subseteq Board
ASSUME ModesAssumption == Modes \subseteq {"delivery", "cursor-only", "no-target"}
ASSUME BatchAssumption == Batch \in Nat \ {0}
ASSUME BoundAssumption == MaxEvents \in Nat /\ MaxFaults \in Nat

Sound == Board \ Unsound

VARIABLES
  exists,       \* whether the board's kanban.db is there
  log,          \* its task_events: whether each is to be notified
  initialized,  \* durable: metadata.initialized
  cursor,       \* durable: board_cursors.last_event_id, NoCursor without a row
  pc,           \* "down", "init", "idle", "round", "board", "advance", "waiting"
  mode,         \* the setting of this run, Off while the service is down
  todo,         \* boards left in this round
  board,        \* the board being processed
  batch,        \* the last id of its batch
  next,         \* the event of the batch being processed
  delivered,    \* history: ids delivered per board, in order
  passed,       \* history: ids passed over by design
  past,         \* history: ids that were there when the notifier was set up
  misread,      \* history: boards that could not be read at the set-up
  faults,       \* crashes and lost acknowledgements so far
  recreated     \* boards deleted and made anew so far

process == <<pc, mode, todo, board, batch, next>>
durable == <<initialized, cursor>>
boards  == <<exists, log>>
seen    == <<delivered, passed, past, misread>>
bounds  == <<faults, recreated>>
vars    == <<process, durable, boards, seen, bounds>>

NoCursor == -1
NoBoard  == "none"
Off      == "off"

\* The values of the notifier's variables: a cursor is an event id, and in the
\* middle of a round the notifier is at a board, within its batch.
TypeOK ==
  /\ exists \in [Board -> BOOLEAN]
  /\ log \in [Board -> Seq(BOOLEAN)]
  /\ initialized \in BOOLEAN
  /\ cursor \in [Board -> Nat \union {NoCursor}]
  /\ pc \in {"down", "init", "idle", "round", "board", "advance", "waiting"}
  /\ mode \in Modes \union {Off} /\ (mode = Off <=> pc = "down")
  /\ todo \in SUBSET Board
  /\ board \in Board \union {NoBoard}
  /\ batch \in Nat /\ next \in Nat
  /\ pc \in {"board", "advance"} => board \in Board /\ next \in 1 .. batch + 1
  /\ delivered \in [Board -> Seq(Nat)]
  /\ passed \in [Board -> SUBSET Nat] /\ past \in [Board -> Nat]
  /\ misread \subseteq Board
  /\ faults \in 0..MaxFaults /\ recreated \subseteq Board

-----------------------------------------------------------------------------
(* The boards: other programs create them and add events *)

CreateBoard(b) ==
  /\ ~exists[b]
  /\ exists' = [exists EXCEPT ![b] = TRUE]
  /\ UNCHANGED <<log, process, durable, seen, bounds>>

EventCount == MapThenSumSet(LAMBDA b : Len(log[b]), Board)

AddEvent(b) ==
  /\ exists[b] /\ EventCount < MaxEvents
  /\ \E notify \in BOOLEAN : log' = [log EXCEPT ![b] = Append(@, notify)]
  /\ UNCHANGED <<exists, process, durable, seen, bounds>>

\* The file is removed and made anew, between two turns of the board: its
\* events are numbered from 1 again.  (Bound: once for each board.)
RecreateBoard(b) ==
  /\ exists[b] /\ log[b] # <<>> /\ board # b
  /\ b \in Unsound \ recreated
  /\ recreated' = recreated \union {b}
  /\ log' = [log EXCEPT ![b] = <<>>]
  /\ delivered' = [delivered EXCEPT ![b] = <<>>]
  /\ passed' = [passed EXCEPT ![b] = {}]
  /\ past' = [past EXCEPT ![b] = 0]
  /\ UNCHANGED <<exists, process, durable, misread, faults>>

-----------------------------------------------------------------------------
(* The service *)

\* s6 starts the service, with the settings of the container.
StartService ==
  /\ pc = "down"
  /\ pc' = "init" /\ mode' \in Modes
  /\ UNCHANGED <<todo, board, batch, next, durable, boards, seen, bounds>>

\* initialize_state: on the very first start every board there is counts as
\* read, in one transaction.  board_max_event_id is 0 for an unreadable board.
AtEndMutant(b) == cursor'[b] = 0 /\ b \notin misread'  \* mutant: the first start counts nothing as read
AtEnd(b) == cursor'[b] = Len(log[b]) /\ b \notin misread'
ReadAsEmpty(b) == b \in Unsound /\ cursor'[b] = 0 /\ b \in misread'

InitializeState ==
  /\ pc = "init"
  /\ pc' = IF mode = "no-target" THEN "waiting" ELSE "idle"
  /\ initialized' = TRUE
  /\ IF initialized THEN UNCHANGED <<cursor, past, misread>>
     ELSE /\ cursor' \in [Board -> 0..MaxEvents \union {NoCursor}]
          /\ misread' \in SUBSET {b \in Board : exists[b]}
          /\ \A b \in Board : IF exists[b] THEN AtEnd(b) \/ ReadAsEmpty(b)
                              ELSE cursor'[b] = NoCursor
          /\ past' = [b \in Board |-> Len(log[b])]
  /\ UNCHANGED <<mode, todo, board, batch, next, boards, delivered, passed, bounds>>

\* discover_boards, at the top of the loop.
StartRound ==
  /\ pc = "idle"
  /\ todo' = {b \in Board : exists[b]}
  /\ pc' = "round"
  /\ UNCHANGED <<mode, board, batch, next, durable, boards, seen, bounds>>

EndRound ==
  /\ pc = "round" /\ todo = {}
  /\ pc' = "idle"
  /\ UNCHANGED <<mode, todo, board, batch, next, durable, boards, seen, bounds>>

\* cursor_for_board: a board first met later has all its events ahead of it.
CursorOf(b) == IF cursor[b] = NoCursor THEN 0 ELSE cursor[b]
EndOfBatch(b) == Max({CursorOf(b)} \union {id \in DOMAIN log[b] : id <= CursorOf(b) + Batch})

FetchEvents(b) ==
  /\ pc = "round" /\ b \in todo
  /\ cursor' = [cursor EXCEPT ![b] = CursorOf(b)]
  /\ board' = b
  /\ batch' = EndOfBatch(b) /\ next' = CursorOf(b) + 1
  /\ pc' = "board"
  /\ UNCHANGED <<mode, todo, initialized, boards, seen, bounds>>

\* A failed read ends the board's turn; the other boards still have theirs.
FetchFails(b) ==
  /\ pc = "round" /\ b \in todo
  /\ cursor' = [cursor EXCEPT ![b] = CursorOf(b)]
  /\ todo' = todo \ {b}
  /\ UNCHANGED <<pc, mode, board, batch, next, initialized, boards, seen, bounds>>

InBatch == pc = "board" /\ next <= batch

\* deliver_enabled, and format_message returns a message.
MustSend == mode = "delivery" /\ log[board][next]

EndBoard ==
  /\ pc = "board" /\ next > batch
  /\ todo' = todo \ {board}
  /\ pc' = "round" /\ board' = NoBoard /\ batch' = 0 /\ next' = 0
  /\ UNCHANGED <<mode, durable, boards, seen, bounds>>

Delivered == delivered' = [delivered EXCEPT ![board] = Append(@, next)]

SendSucceeds ==
  /\ InBatch /\ MustSend
  /\ Delivered
  /\ pc' = "advance"
  /\ UNCHANGED <<mode, todo, board, batch, next, durable, boards, passed, past, misread, bounds>>

\* The board's turn ends and the event is tried again in a later round.
SendFailsMutant ==  \* mutant: gives up on the event
  /\ InBatch /\ MustSend
  /\ pc' = "advance"
  /\ UNCHANGED <<mode, todo, board, batch, next, durable, boards, seen, bounds>>

SendFails ==
  /\ InBatch /\ MustSend
  /\ \/ UNCHANGED <<delivered, faults>>
     \/ Delivered /\ faults < MaxFaults /\ faults' = faults + 1
  /\ todo' = todo \ {board}
  /\ pc' = "round" /\ board' = NoBoard /\ batch' = 0 /\ next' = 0
  /\ UNCHANGED <<mode, durable, boards, passed, past, misread, recreated>>

PassOver ==
  /\ InBatch /\ ~MustSend
  /\ passed' = [passed EXCEPT ![board] = @ \union {next}]
  /\ pc' = "advance"
  /\ UNCHANGED <<mode, todo, board, batch, next, durable, boards, delivered, past, misread, bounds>>

\* advance_cursor, an upsert committed for each event.
AdvanceCursorMutant ==  \* mutant: the cursor is committed once per batch
  /\ pc = "advance"
  /\ cursor' = IF next = batch THEN [cursor EXCEPT ![board] = next] ELSE cursor
  /\ next' = next + 1
  /\ pc' = "board"
  /\ UNCHANGED <<mode, todo, board, batch, initialized, boards, seen, bounds>>

AdvanceCursor ==
  /\ pc = "advance"
  /\ cursor' = [cursor EXCEPT ![board] = next]
  /\ next' = next + 1
  /\ pc' = "board"
  /\ UNCHANGED <<mode, todo, board, batch, initialized, boards, seen, bounds>>

\* A kill, or an sqlite3 error of the state database, which nothing catches.
Crash ==
  /\ pc # "down" /\ faults < MaxFaults
  /\ faults' = faults + 1
  /\ pc' = "down" /\ mode' = Off
  /\ todo' = {} /\ board' = NoBoard /\ batch' = 0 /\ next' = 0
  /\ UNCHANGED <<durable, boards, seen, recreated>>

\* SIGTERM is honoured between rounds only.
StopService ==
  /\ pc \in {"idle", "waiting"}
  /\ pc' = "down" /\ mode' = Off
  /\ UNCHANGED <<todo, board, batch, next, durable, boards, seen, bounds>>

-----------------------------------------------------------------------------
ServiceStep ==
  \/ StartService \/ InitializeState \/ StartRound \/ EndRound
  \/ \E b \in Board : FetchEvents(b) \/ FetchFails(b)
  \/ EndBoard \/ SendSucceeds \/ SendFails \/ PassOver \/ AdvanceCursor

Next ==
  \/ ServiceStep \/ Crash \/ StopService
  \/ \E b \in Board : CreateBoard(b) \/ AddEvent(b) \/ RecreateBoard(b)

Init ==
  /\ exists \in [Board -> BOOLEAN]
  /\ log = [b \in Board |-> <<>>]
  /\ initialized = FALSE
  /\ cursor = [b \in Board |-> NoCursor]
  /\ pc = "down" /\ mode = Off
  /\ todo = {} /\ board = NoBoard /\ batch = 0 /\ next = 0
  /\ delivered = [b \in Board |-> <<>>]
  /\ passed = [b \in Board |-> {}] /\ past = [b \in Board |-> 0]
  /\ misread = {}
  /\ faults = 0 /\ recreated = {}

Spec == Init /\ [][Next]_vars

\* The service runs, the loop is not stopped every time before its first
\* round, and neither reads of a sound board nor its sends fail for ever.
Fairness ==
  /\ WF_vars(ServiceStep) /\ SF_vars(StartRound)
  /\ \A b \in Sound : SF_vars(FetchEvents(b)) /\ SF_vars(SendSucceeds /\ board = b)
FairSpec == Spec /\ Fairness

-----------------------------------------------------------------------------
(* Properties *)

IsDelivered(b, id) == \E i \in DOMAIN delivered[b] : delivered[b][i] = id

\* The cursor never outruns the deliveries: an event behind it that deserves a
\* message was delivered, unless the service ran with notifications off.  (The
\* cursor of a board made anew under an old name is that of the old board.)
NoEventSkipped ==
  \A b \in Board \ recreated : \A id \in DOMAIN log[b] :
    /\ past[b] < id /\ id <= cursor[b]
    /\ log[b][id]
    => IsDelivered(b, id) \/ id \in passed[b]

\* Messages of a board arrive in the order of its events, repeats included.
DeliveredInOrder ==
  \A b \in Board : \A i, j \in DOMAIN delivered[b] :
    i <= j => delivered[b][i] <= delivered[b][j]

Repeats == {p \in Board \X (1 .. MaxEvents + MaxFaults) :
              /\ p[2] + 1 \in DOMAIN delivered[p[1]]
              /\ delivered[p[1]][p[2]] = delivered[p[1]][p[2] + 1]}

\* Every repeated message is owed to a crash of its own between the send and
\* the commit, or to a send of its own that arrived but reported failure.
RepeatsNeedFaults == Cardinality(Repeats) <= faults

\* Nothing from before the notifier was set up is sent, on a board that could
\* be read then, whatever settings and crashes follow.
PastNotSent ==
  \A b \in Board \ misread : \A i \in DOMAIN delivered[b] : past[b] < delivered[b][i]

\* docs/kanban-notifications.md promises the same of every board: past events
\* are not sent again.
PastNeverSent ==
  \A b \in Board : \A i \in DOMAIN delivered[b] : past[b] < delivered[b][i]

\* Every new event of a sound board is delivered in the end, or passed over
\* because notifications are off, whatever crashes, failed reads and failed sends
\* come first and however broken other boards are; unless the service is started
\* without a target again and again.
EventuallyDelivered ==
  <>[](mode # "no-target") =>
    \A b \in Sound : \A id \in 1..MaxEvents :
      (initialized /\ past[b] < id /\ id <= Len(log[b]) /\ log[b][id])
        ~> IsDelivered(b, id) \/ id \in passed[b]
=============================================================================
