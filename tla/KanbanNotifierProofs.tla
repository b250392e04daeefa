------------------------ MODULE KanbanNotifierProofs ------------------------
(***************************************************************************)
(* What the notification bridge promises, for any boards, batches, events, *)
(* crashes and lost acknowledgements.                                      *)
(***************************************************************************)
EXTENDS KanbanNotifierRefinement, FiniteSetTheorems, TLAPS

(* The inductive invariant, in parts *)

AtBoard == pc \in {"board", "advance"}

\* Before the set-up nothing is counted as read and nothing is sent.
Fresh ==
  ~initialized => /\ cursor = [b \in Board |-> NoCursor]
                  /\ delivered = [b \in Board |-> <<>>]
                  /\ past = [b \in Board |-> 0]
                  /\ pc \in {"down", "init"}

\* At a board, the events up to the current one are behind the cursor, and the
\* batch is there: a board is made anew only between two of its turns.
InStep ==
  AtBoard => /\ cursor[board] = next - 1
             /\ next <= batch => batch <= Len(log[board])
             /\ pc = "advance" => next <= batch

\* Between the send and the commit: a message that is due was the last sent.
Sent(b, id) == delivered[b] # <<>> /\ delivered[b][Len(delivered[b])] = id
Dealt == pc = "advance" => IF MustSend THEN Sent(board, next) ELSE next \in passed[board]

\* A cursor stays within the events of its board.
CursorWithin ==
  \A b \in Board : /\ ~exists[b] => log[b] = <<>>
                   /\ b \notin recreated => cursor[b] <= Len(log[b])
                   /\ past[b] <= Len(log[b])

\* What was sent is not ahead of the cursor by more than one event, nor, on a
\* board that could be read at the set-up, from before it.
SentWithin ==
  \A b \in Board : /\ \A i \in DOMAIN delivered[b] : delivered[b][i] <= cursor[b] + 1
                   /\ b \notin misread => past[b] <= CursorOf(b)

\* Boards whose last message the cursor does not know of yet.
Owed == {b \in Board : Sent(b, cursor[b] + 1) /\ ~(pc = "advance" /\ board = b)}
Numbered == \A b \in Board : \A i \in DOMAIN delivered[b] : delivered[b][i] > 0
RepeatsPaid == Cardinality(Repeats) + Cardinality(Owed) <= faults

Inv ==
  /\ TypeOK /\ Fresh /\ InStep /\ Dealt /\ CursorWithin /\ SentWithin
  /\ NoEventSkipped /\ PastNotSent /\ DeliveredInOrder

-----------------------------------------------------------------------------
\* The last event of a batch is one of the board, or the cursor itself.
LEMMA BatchEnds ==
  ASSUME TypeOK, NEW b \in Board
  PROVE  /\ CursorOf(b) \in Nat /\ EndOfBatch(b) \in Nat
         /\ EndOfBatch(b) >= CursorOf(b)
         /\ EndOfBatch(b) > CursorOf(b) => EndOfBatch(b) <= Len(log[b])
<1> DEFINE c == CursorOf(b)
           n == Len(log[b])
           S == {c} \union {id \in DOMAIN log[b] : id <= c + Batch}
           m == IF n <= c THEN c ELSE IF n <= c + Batch THEN n ELSE c + Batch
<1>1. c \in Nat /\ n \in Nat /\ DOMAIN log[b] = 1 .. n /\ Batch \in Nat \ {0}
  BY BatchAssumption DEF TypeOK, CursorOf, NoCursor
<1> HIDE DEF c, n
<1>2. S \subseteq Nat /\ m \in S /\ \A y \in S : m >= y
  BY <1>1
<1>3. Max(S) \in S /\ \A y \in S : Max(S) >= y
  BY <1>2 DEF Max
<1>4. EndOfBatch(b) = Max(S)
  BY DEF EndOfBatch, c, n
<1> QED
  BY <1>1, <1>2, <1>3, <1>4 DEF c, n

\* The initial values have their types.
LEMMA TypeInit == Init => TypeOK
<1> SUFFICES ASSUME Init PROVE TypeOK
  OBVIOUS
<1>1. initialized \in BOOLEAN /\ exists \in [Board -> BOOLEAN]
  BY Zenon DEF Init
<1>2. log \in [Board -> Seq(BOOLEAN)] /\ delivered \in [Board -> Seq(Nat)]
  BY DEF Init
<1>3. mode \in Modes \union {Off} /\ (mode = Off <=> pc = "down")
  BY DEF Init
<1> QED
  BY <1>1, <1>2, <1>3, BoundAssumption DEF Init, TypeOK, NoCursor, NoBoard

\* The actions of the service that move between boards and rounds.
LEMMA TypeStep == TypeOK /\ InStep /\ [Next]_vars => TypeOK'
<1> SUFFICES ASSUME TypeOK, InStep, [Next]_vars PROVE TypeOK'
  OBVIOUS
<1> USE DEF TypeOK, process, durable, boards, seen, bounds, NoCursor, NoBoard, Off
<1>1. CASE StartService
  BY <1>1, ModesAssumption DEF StartService
<1>2. CASE InitializeState
  <2>1. cursor' \in [Board -> Nat \union {NoCursor}] /\ past' \in [Board -> Nat] /\ misread' \subseteq Board
    BY <1>2, BoundAssumption DEF InitializeState
  <2> QED
    BY <1>2, <2>1 DEF InitializeState
<1>3. CASE StartRound
  BY <1>3 DEF StartRound
<1>4. CASE EndRound
  BY <1>4 DEF EndRound
<1>5. ASSUME NEW b \in Board, FetchEvents(b) PROVE TypeOK'
  <2>1. cursor' \in [Board -> Nat \union {NoCursor}] /\ batch' \in Nat /\ next' \in 1 .. batch' + 1
    BY <1>5, BatchEnds DEF FetchEvents
  <2> QED
    BY <1>5, <2>1 DEF FetchEvents
<1>6. ASSUME NEW b \in Board, FetchFails(b) PROVE TypeOK'
  BY <1>6, BatchEnds DEF FetchFails
<1>7. CASE EndBoard
  BY <1>7 DEF EndBoard
<1>8. CASE SendSucceeds
  BY <1>8 DEF SendSucceeds, Delivered, InBatch
<1>9. CASE SendFails
  <2>1. CASE UNCHANGED <<delivered, faults>>
    BY <1>9, <2>1 DEF SendFails, InBatch
  <2>2. CASE Delivered /\ faults < MaxFaults /\ faults' = faults + 1
    BY <1>9, <2>2, BoundAssumption DEF SendFails, Delivered, InBatch
  <2> QED
    BY <1>9, <2>1, <2>2 DEF SendFails
<1>10. CASE PassOver
  BY <1>10 DEF PassOver, InBatch
<1>11. CASE AdvanceCursor
  BY <1>11 DEF AdvanceCursor, InStep, AtBoard
<1>12. CASE Crash
  BY <1>12, BoundAssumption DEF Crash
<1>13. CASE StopService
  BY <1>13 DEF StopService
<1>14. ASSUME NEW b \in Board, CreateBoard(b) PROVE TypeOK'
  BY <1>14 DEF CreateBoard
<1>15. ASSUME NEW b \in Board, AddEvent(b) PROVE TypeOK'
  BY <1>15 DEF AddEvent
<1>16. ASSUME NEW b \in Board, RecreateBoard(b) PROVE TypeOK'
  BY <1>16 DEF RecreateBoard
<1>17. CASE UNCHANGED vars
  BY <1>17 DEF vars
<1> QED
  BY <1>1, <1>2, <1>3, <1>4, <1>5, <1>6, <1>7, <1>8, <1>9, <1>10, <1>11, <1>12,
     <1>13, <1>14, <1>15, <1>16, <1>17 DEF Next, ServiceStep

-----------------------------------------------------------------------------
\* The invariant holds before the set-up.
LEMMA InvInit == Init => Inv
<1> SUFFICES ASSUME Init PROVE Inv
  OBVIOUS
<1>1. TypeOK
  BY TypeInit
<1>2. ~AtBoard /\ pc # "advance"
  BY DEF Init, AtBoard
<1>3. \A b \in Board : DOMAIN log[b] = {} /\ DOMAIN delivered[b] = {} /\ Len(log[b]) = 0
  BY DEF Init
<1> QED
  BY <1>1, <1>2, <1>3 DEF Init, Inv, Fresh, InStep, Dealt, CursorWithin, SentWithin,
     NoEventSkipped, PastNotSent, DeliveredInOrder, CursorOf, NoCursor

\* A step that leaves the boards, the cursors and what was sent as they are, and
\* ends or does not begin the turn of a board.
LEMMA InvAside ==
  ASSUME Inv, TypeOK', UNCHANGED <<durable, boards, seen, recreated>>,
         ~AtBoard', initialized \/ pc' \in {"down", "init"}
  PROVE  Inv'
  BY DEF Inv, durable, boards, seen, AtBoard, Fresh, InStep, Dealt, CursorWithin, SentWithin,
     NoEventSkipped, PastNotSent, DeliveredInOrder, CursorOf, IsDelivered

\* The set-up: what is there counts as read, unless it cannot be read.
LEMMA InvSetUp == Inv /\ TypeOK' /\ InitializeState => Inv'
<1> SUFFICES ASSUME Inv, TypeOK', InitializeState PROVE Inv'
  OBVIOUS
<1> USE DEF Inv, InitializeState, boards, bounds
<1>1. CASE initialized
  BY <1>1 DEF AtBoard, Fresh, InStep, Dealt, CursorWithin, SentWithin,
     NoEventSkipped, PastNotSent, DeliveredInOrder, CursorOf, IsDelivered
<1>2. CASE ~initialized
  <2>1. \A b \in Board : delivered[b] = <<>> /\ delivered'[b] = <<>>
    BY <1>2 DEF Fresh
  <2>2. \A b \in Board : Len(log[b]) \in Nat /\ DOMAIN log[b] = 1 .. Len(log[b])
    BY DEF TypeOK
  <2>3. \A b \in Board : past'[b] = Len(log[b]) /\ log'[b] = log[b]
    BY <1>2
  <2>4. ASSUME NEW b \in Board
        PROVE  /\ cursor'[b] <= Len(log[b])
               /\ b \notin misread' => past'[b] <= CursorOf(b)'
    BY <1>2, <2>2, <2>3, <2>4 DEF AtEnd, ReadAsEmpty, CursorWithin, CursorOf, NoCursor
  <2>5. ~AtBoard' /\ pc' # "advance"
    BY DEF AtBoard
  <2>6. Fresh' /\ InStep' /\ Dealt'
    BY <2>5 DEF Fresh, InStep, Dealt
  <2>7. CursorWithin' /\ SentWithin'
    BY <2>1, <2>2, <2>3, <2>4 DEF CursorWithin, SentWithin
  <2>8. NoEventSkipped' /\ PastNotSent' /\ DeliveredInOrder'
    BY <2>1, <2>2, <2>3, <2>4 DEF NoEventSkipped, PastNotSent, DeliveredInOrder, TypeOK
  <2> QED
    BY <2>6, <2>7, <2>8
<1> QED
  BY <1>1, <1>2

\* A board first met gets its row; nothing of the rest is touched.
LEMMA InvRow ==
  ASSUME Inv, TypeOK', initialized, NEW c \in Board,
         cursor' = [cursor EXCEPT ![c] = CursorOf(c)],
         UNCHANGED <<initialized, boards, seen, recreated>>
  PROVE  Fresh' /\ CursorWithin' /\ SentWithin' /\ NoEventSkipped' /\ PastNotSent' /\ DeliveredInOrder'
<1> USE DEF Inv, boards, seen
<1>0. cursor \in [Board -> Nat \union {-1}]
  BY DEF TypeOK, NoCursor
<1>1. \A b \in Board : cursor[b] <= cursor'[b] /\ (cursor'[b] # cursor[b] => cursor'[b] = 0)
  BY ONLY <1>0, cursor' = [cursor EXCEPT ![c] = CursorOf(c)], c \in Board DEF CursorOf, NoCursor
<1>2. \A b \in Board : CursorOf(b)' = CursorOf(b)
  BY DEF TypeOK, CursorOf, NoCursor
<1>3. \A b \in Board : Len(log[b]) \in Nat /\ DOMAIN log[b] = 1 .. Len(log[b]) /\ past[b] \in Nat /\ cursor[b] \in Int
  BY DEF TypeOK, NoCursor
<1>4. CursorWithin'
  BY <1>1, <1>3 DEF CursorWithin
<1>5. \A b \in Board : \A i \in DOMAIN delivered[b] : delivered[b][i] \in Nat
  BY DEF TypeOK
<1>6. SentWithin'
  BY <1>1, <1>2, <1>3, <1>5 DEF SentWithin
<1>7. NoEventSkipped'
  BY <1>1, <1>3 DEF NoEventSkipped, IsDelivered
<1> QED
  BY <1>4, <1>6, <1>7 DEF Fresh, PastNotSent, DeliveredInOrder

\* Reading a batch, or failing to, begins or ends the turn of a board.
LEMMA InvFetch ==
  ASSUME Inv, TypeOK', NEW b \in Board, FetchEvents(b) \/ FetchFails(b)
  PROVE  Inv'
<1> USE DEF Inv
<1>1. initialized /\ cursor' = [cursor EXCEPT ![b] = CursorOf(b)]
      /\ UNCHANGED <<initialized, boards, seen, recreated>>
  BY DEF FetchEvents, FetchFails, Fresh, bounds
<1>2. Fresh' /\ CursorWithin' /\ SentWithin' /\ NoEventSkipped' /\ PastNotSent' /\ DeliveredInOrder'
  BY <1>1, InvRow
<1>3. CASE FetchFails(b)
  BY <1>2, <1>3 DEF FetchFails, InStep, Dealt, AtBoard
<1>4. CASE FetchEvents(b)
  <2>1. pc' = "board" /\ board' = b /\ batch' = EndOfBatch(b) /\ next' = CursorOf(b) + 1 /\ log' = log
    BY <1>4 DEF FetchEvents, boards
  <2>2. cursor'[b] = CursorOf(b) /\ CursorOf(b) \in Nat /\ EndOfBatch(b) \in Nat
    BY <1>1, BatchEnds DEF TypeOK
  <2>3. EndOfBatch(b) > CursorOf(b) => EndOfBatch(b) <= Len(log[b])
    BY BatchEnds
  <2>4. InStep'
    BY <2>1, <2>2, <2>3 DEF InStep
  <2> QED
    BY <1>2, <2>1, <2>4 DEF Dealt
<1> QED
  BY <1>3, <1>4

\* A message that arrives: whether the send is reported as failed or not.
LEMMA InvMessage ==
  ASSUME Inv, InBatch, Delivered, UNCHANGED <<durable, boards, passed, past, misread, recreated>>
  PROVE  /\ Fresh' /\ CursorWithin' /\ SentWithin' /\ NoEventSkipped' /\ PastNotSent' /\ DeliveredInOrder'
         /\ delivered'[board] # <<>> /\ delivered'[board][Len(delivered'[board])] = next
<1> USE DEF Inv, durable, boards
<1> DEFINE s == delivered[board]
           t == delivered'[board]
           n == Len(s)
<1>1. /\ board \in Board /\ next \in Nat \ {0} /\ cursor[board] = next - 1
      /\ s \in Seq(Nat) /\ n \in Nat /\ DOMAIN s = 1 .. n /\ initialized
  BY DEF InBatch, InStep, AtBoard, TypeOK, Fresh
<1>2. /\ t \in Seq(Nat) /\ t = Append(s, next) /\ Len(t) = n + 1 /\ DOMAIN t = 1 .. n + 1
      /\ t[n + 1] = next /\ \A i \in 1 .. n : t[i] = s[i]
  BY <1>1 DEF Delivered, TypeOK
<1>3. \A b \in Board : b # board => delivered'[b] = delivered[b]
  BY DEF Delivered, TypeOK
<1>4. \A i \in 1 .. n : s[i] <= next /\ s[i] \in Nat
  BY <1>1 DEF SentWithin
<1>5. board \notin misread => past[board] \in Nat /\ past[board] < next
  <2>1. past[board] \in Nat /\ CursorOf(board) = next - 1
    BY <1>1 DEF CursorOf, NoCursor, TypeOK
  <2> QED
    BY <1>1, <2>1 DEF SentWithin
<1> HIDE DEF s, t, n
<1>6. Fresh' /\ CursorWithin'
  BY <1>1 DEF Fresh, CursorWithin
<1>7. SentWithin'
  <2>1. \A b \in Board : CursorOf(b)' = CursorOf(b)
    BY DEF CursorOf
  <2>2. \A i \in DOMAIN t : t[i] <= cursor[board] + 1
    BY <1>1, <1>2, <1>4
  <2> QED
    BY <1>3, <2>1, <2>2 DEF SentWithin, t
<1>8. PastNotSent'
  <2>1. board \notin misread => \A i \in DOMAIN t : past[board] < t[i]
    BY <1>1, <1>2, <1>5 DEF PastNotSent, s
  <2> QED
    BY <1>3, <2>1 DEF PastNotSent, t
<1>9. DeliveredInOrder'
  <2>1. \A i, j \in DOMAIN t : i <= j => t[i] <= t[j]
    BY <1>1, <1>2, <1>4 DEF DeliveredInOrder, s
  <2> QED
    BY <1>3, <2>1 DEF DeliveredInOrder, t
<1>10. ASSUME NEW b \in Board, NEW id, IsDelivered(b, id) PROVE IsDelivered(b, id)'
  <2>1. CASE b = board
    <3>1. PICK i \in 1 .. n : s[i] = id
      BY <1>1, <1>10, <2>1 DEF IsDelivered, s
    <3>2. i \in DOMAIN t /\ t[i] = id
      BY <1>1, <1>2, <3>1
    <3> QED
      BY <2>1, <3>2 DEF IsDelivered, t
  <2>2. CASE b # board
    BY <1>3, <1>10, <2>2 DEF IsDelivered
  <2> QED
    BY <2>1, <2>2
<1>11. NoEventSkipped'
  BY <1>10 DEF NoEventSkipped
<1>12. t # <<>> /\ t[Len(t)] = next
  BY <1>1, <1>2
<1> QED
  BY <1>6, <1>7, <1>8, <1>9, <1>11, <1>12 DEF t

\* A send adds the current event to what was delivered, or nothing.
LEMMA InvSend == ASSUME Inv, TypeOK', SendSucceeds \/ SendFails PROVE Inv'
<1> USE DEF Inv
<1>1. CASE SendSucceeds
  <2>1. /\ Fresh' /\ CursorWithin' /\ SentWithin' /\ NoEventSkipped' /\ PastNotSent' /\ DeliveredInOrder'
        /\ delivered'[board] # <<>> /\ delivered'[board][Len(delivered'[board])] = next
    BY <1>1, InvMessage DEF SendSucceeds, bounds
  <2>2. UNCHANGED <<mode, board, batch, next, cursor, log>> /\ pc = "board" /\ pc' = "advance" /\ next <= batch
    BY <1>1 DEF SendSucceeds, durable, boards, InBatch
  <2>3. InStep'
    BY <2>2 DEF InStep, AtBoard
  <2>4. Dealt'
    BY <1>1, <2>1, <2>2 DEF Dealt, MustSend, Sent, SendSucceeds
  <2> QED
    BY <2>1, <2>3, <2>4
<1>2. CASE SendFails
  <2>1. ~AtBoard' /\ pc' # "advance" /\ pc' = "round"
    BY <1>2 DEF SendFails, AtBoard
  <2>2. CASE UNCHANGED <<delivered, faults>>
    <3>1. initialized
      BY <1>2 DEF SendFails, InBatch, Fresh
    <3> QED
      BY <1>2, <2>1, <2>2, <3>1, InvAside DEF SendFails, seen
  <2>3. CASE Delivered
    <3>1. Fresh' /\ CursorWithin' /\ SentWithin' /\ NoEventSkipped' /\ PastNotSent' /\ DeliveredInOrder'
      BY <1>2, <2>3, InvMessage DEF SendFails
    <3> QED
      BY <2>1, <3>1 DEF InStep, Dealt
  <2> QED
    BY <1>2, <2>2, <2>3 DEF SendFails
<1> QED
  BY <1>1, <1>2

\* An event that is passed over is noted as such before the cursor moves.
LEMMA InvPassOver == Inv /\ TypeOK' /\ PassOver => Inv'
<1> SUFFICES ASSUME Inv, TypeOK', PassOver PROVE Inv'
  OBVIOUS
<1> USE DEF Inv, durable, boards
<1>1. /\ pc = "board" /\ pc' = "advance" /\ next <= batch /\ ~MustSend /\ board \in Board
      /\ UNCHANGED <<mode, board, batch, next, initialized, cursor, exists, log, delivered, past, misread, recreated>>
  BY DEF PassOver, InBatch, bounds, TypeOK
<1>2. /\ passed' = [passed EXCEPT ![board] = @ \union {next}]
      /\ \A b \in Board : passed[b] \subseteq passed'[b]
  BY DEF PassOver, TypeOK
<1>3. InStep' /\ Fresh' /\ CursorWithin'
  BY <1>1 DEF InStep, AtBoard, Fresh, CursorWithin
<1>4. Dealt'
  BY <1>1, <1>2 DEF Dealt, MustSend, TypeOK
<1>5. SentWithin' /\ PastNotSent' /\ DeliveredInOrder'
  BY <1>1 DEF SentWithin, PastNotSent, DeliveredInOrder, CursorOf
<1>6. NoEventSkipped'
  BY <1>1, <1>2 DEF NoEventSkipped, IsDelivered
<1> QED
  BY <1>3, <1>4, <1>5, <1>6

\* The commit of the cursor: the event it now covers has been dealt with.
LEMMA InvAdvance == Inv /\ TypeOK' /\ AdvanceCursor => Inv'
<1> SUFFICES ASSUME Inv, TypeOK', AdvanceCursor PROVE Inv'
  OBVIOUS
<1> USE DEF Inv, boards, seen, bounds
<1>1. /\ pc = "advance" /\ pc' = "board" /\ next <= batch /\ batch <= Len(log[board])
      /\ board \in Board /\ next \in Nat \ {0} /\ cursor[board] = next - 1 /\ initialized
      /\ next' = next + 1 /\ cursor' = [cursor EXCEPT ![board] = next]
      /\ UNCHANGED <<mode, board, batch, initialized, exists, log, delivered, passed, past, misread, recreated>>
  BY DEF AdvanceCursor, InStep, AtBoard, TypeOK, Fresh
<1>2. cursor'[board] = next /\ \A b \in Board : b # board => cursor'[b] = cursor[b]
  BY <1>1 DEF TypeOK
<1>3. /\ batch \in Nat
      /\ \A b \in Board : /\ Len(log[b]) \in Nat /\ DOMAIN log[b] = 1 .. Len(log[b]) /\ past[b] \in Nat
                          /\ \A i \in DOMAIN delivered[b] : delivered[b][i] \in Nat
  <2>1. \A b \in Board : log[b] \in Seq(BOOLEAN) /\ delivered[b] \in Seq(Nat)
    BY DEF TypeOK
  <2>2. batch \in Nat /\ \A b \in Board : past[b] \in Nat
    BY DEF TypeOK
  <2> QED
    BY ONLY <2>1, <2>2
<1>4. InStep' /\ Dealt' /\ Fresh'
  BY <1>1, <1>2, <1>3 DEF InStep, Dealt, Fresh
<1>5. CursorWithin'
  BY <1>1, <1>2, <1>3 DEF CursorWithin
<1>6. SentWithin'
  <2>1. \A b \in Board : b # board => CursorOf(b)' = CursorOf(b)
    BY <1>2 DEF CursorOf
  <2>2. CursorOf(board) = next - 1 /\ CursorOf(board)' = next
    BY <1>1, <1>2 DEF CursorOf, NoCursor
  <2> QED
    BY <1>1, <1>2, <1>3, <2>1, <2>2 DEF SentWithin
<1>7. NoEventSkipped'
  <2>1. log[board][next] => IsDelivered(board, next) \/ next \in passed[board]
    BY <1>1, <1>3 DEF Dealt, Sent, IsDelivered, MustSend, TypeOK
  <2> QED
    BY <1>1, <1>2, <1>3, <2>1 DEF NoEventSkipped, IsDelivered
<1> QED
  BY <1>1, <1>4, <1>5, <1>6, <1>7 DEF PastNotSent, DeliveredInOrder

\* The other programs: a new board, a new event, a board made anew.
LEMMA InvBoards ==
  ASSUME Inv, TypeOK', NEW c \in Board, CreateBoard(c) \/ AddEvent(c) \/ RecreateBoard(c)
  PROVE  Inv'
<1> USE DEF Inv, process, durable, seen, bounds
<1>1. CASE CreateBoard(c)
  <2>1. \A b \in Board : exists[b] => exists'[b]
    BY <1>1 DEF CreateBoard, TypeOK
  <2>2. UNCHANGED <<process, log, durable, seen, bounds>>
    BY <1>1 DEF CreateBoard
  <2> QED
    BY <2>1, <2>2 DEF Fresh, InStep, Dealt, CursorWithin, SentWithin, NoEventSkipped,
       PastNotSent, DeliveredInOrder, AtBoard, MustSend, Sent, CursorOf, IsDelivered
<1>2. CASE AddEvent(c)
  <2>1. PICK notify \in BOOLEAN : log' = [log EXCEPT ![c] = Append(@, notify)]
    BY <1>2 DEF AddEvent
  <2>2. exists[c] /\ UNCHANGED <<exists, process, durable, seen, bounds>>
    BY <1>2 DEF AddEvent
  <2> DEFINE n == Len(log[c])
  <2>3. /\ n \in Nat /\ Len(log'[c]) = n + 1 /\ DOMAIN log[c] = 1 .. n /\ DOMAIN log'[c] = 1 .. n + 1
        /\ \A i \in 1 .. n : log'[c][i] = log[c][i]
    BY <2>1 DEF TypeOK
  <2>4. \A b \in Board : b # c => log'[b] = log[b]
    BY <2>1 DEF TypeOK
  <2>5. /\ cursor[c] \in Int /\ past[c] \in Nat /\ past[c] <= n
        /\ c \notin recreated => cursor[c] <= n
    <3>1. cursor[c] \in Int /\ past[c] \in Nat
      BY DEF TypeOK, NoCursor
    <3> QED
      BY <3>1 DEF CursorWithin
  <2>6. AtBoard => board \in Board /\ batch \in Nat /\ next \in Nat \ {0}
    BY DEF AtBoard, TypeOK
  <2> HIDE DEF n
  <2>7. CursorWithin'
    <3>1. ASSUME NEW b \in Board, b # c
          PROVE  /\ ~exists'[b] => log'[b] = <<>>
                 /\ b \notin recreated' => cursor'[b] <= Len(log'[b])
                 /\ past'[b] <= Len(log'[b])
      BY <2>2, <2>4, <3>1 DEF CursorWithin
    <3>2. /\ exists'[c] /\ (c \notin recreated' => cursor'[c] <= Len(log'[c]))
          /\ past'[c] <= Len(log'[c])
      BY <2>2, <2>3, <2>5
    <3> QED
      BY <3>1, <3>2 DEF CursorWithin
  <2>8. InStep'
    BY <2>2, <2>3, <2>4, <2>6 DEF InStep, AtBoard, n
  <2>9. Dealt'
    <3>1. ASSUME pc = "advance" PROVE log'[board][next] = log[board][next]
      BY <2>3, <2>4, <2>6, <3>1 DEF InStep, AtBoard, n
    <3> QED
      BY <2>2, <3>1 DEF Dealt, MustSend, Sent
  <2>10. NoEventSkipped'
    <3>1. ASSUME NEW b \in Board \ recreated, NEW id \in DOMAIN log'[b], id <= cursor[b]
          PROVE  id \in DOMAIN log[b] /\ log'[b][id] = log[b][id]
      <4>1. CASE b = c
        BY <2>3, <2>5, <3>1, <4>1
      <4>2. CASE b # c
        BY <2>4, <4>2
      <4> QED
        BY <4>1, <4>2
    <3> QED
      BY <2>2, <3>1 DEF NoEventSkipped, IsDelivered
  <2> QED
    BY <2>2, <2>7, <2>8, <2>9, <2>10 DEF Fresh, SentWithin, CursorOf, PastNotSent, DeliveredInOrder
<1>3. CASE RecreateBoard(c)
  <2>1. /\ recreated' = recreated \union {c} /\ board # c /\ exists[c]
        /\ UNCHANGED <<exists, process, durable, misread>>
        /\ log'[c] = <<>> /\ delivered'[c] = <<>> /\ past'[c] = 0
    BY <1>3 DEF RecreateBoard, TypeOK
  <2>2. \A b \in Board : b # c => /\ log'[b] = log[b] /\ delivered'[b] = delivered[b]
                                  /\ past'[b] = past[b] /\ passed'[b] = passed[b]
    BY <1>3 DEF RecreateBoard, TypeOK
  <2>3. AtBoard => board \in Board
    BY DEF AtBoard, TypeOK
  <2>4. InStep' /\ Dealt'
    BY <2>1, <2>2, <2>3 DEF InStep, Dealt, MustSend, Sent, AtBoard
  <2>5. CursorWithin'
    BY <2>1, <2>2 DEF CursorWithin
  <2>6. CursorOf(c)' \in Nat /\ \A b \in Board : CursorOf(b)' = CursorOf(b)
    BY <2>1 DEF CursorOf, TypeOK, NoCursor
  <2>7. SentWithin'
    BY <2>1, <2>2, <2>6 DEF SentWithin
  <2>8. Fresh'
    <3>1. /\ delivered' = [delivered EXCEPT ![c] = <<>>] /\ past' = [past EXCEPT ![c] = 0]
          /\ UNCHANGED <<initialized, cursor, pc>>
      BY <1>3 DEF RecreateBoard
    <3> QED
      BY <3>1 DEF Fresh
  <2> QED
    BY <2>1, <2>2, <2>4, <2>5, <2>7, <2>8 DEF NoEventSkipped, IsDelivered, PastNotSent, DeliveredInOrder
<1> QED
  BY <1>1, <1>2, <1>3

\* Every step keeps the invariant.
LEMMA InvStep == Inv /\ [Next]_vars => Inv'
<1> SUFFICES ASSUME Inv, [Next]_vars PROVE Inv'
  OBVIOUS
<1>0. TypeOK'
  BY TypeStep DEF Inv
<1>1. CASE StartService \/ StartRound \/ EndRound \/ EndBoard \/ Crash \/ StopService
  <2>1. UNCHANGED <<durable, boards, seen, recreated>> /\ ~AtBoard'
    BY <1>1 DEF StartService, StartRound, EndRound, EndBoard, Crash, StopService, bounds, AtBoard
  <2>2. initialized \/ pc' \in {"down", "init"}
    BY <1>1 DEF StartService, StartRound, EndRound, EndBoard, Crash, StopService, Inv, Fresh
  <2> QED
    BY <1>0, <2>1, <2>2, InvAside
<1>2. CASE InitializeState
  BY <1>0, <1>2, InvSetUp
<1>3. ASSUME NEW b \in Board, FetchEvents(b) \/ FetchFails(b) PROVE Inv'
  BY <1>0, <1>3, InvFetch
<1>4. CASE SendSucceeds \/ SendFails
  BY <1>0, <1>4, InvSend
<1>5. CASE PassOver
  BY <1>0, <1>5, InvPassOver
<1>6. CASE AdvanceCursor
  BY <1>0, <1>6, InvAdvance
<1>7. ASSUME NEW b \in Board, CreateBoard(b) \/ AddEvent(b) \/ RecreateBoard(b) PROVE Inv'
  BY <1>0, <1>7, InvBoards
<1>8. CASE UNCHANGED vars
  BY <1>8 DEF vars, process, durable, boards, seen, bounds, Inv, TypeOK, Fresh, InStep, Dealt,
     CursorWithin, SentWithin, NoEventSkipped, PastNotSent, DeliveredInOrder, AtBoard, MustSend,
     Sent, CursorOf, IsDelivered
<1> QED
  BY <1>1, <1>2, <1>3, <1>4, <1>5, <1>6, <1>7, <1>8 DEF Next, ServiceStep

\* The invariant of the notifier holds throughout.
LEMMA InvHolds == Spec => []Inv
<1> QED
  BY InvInit, InvStep, PTL DEF Spec

\* A crash, a failed send or a restart never makes the notifier forget an event:
\* the cursor moves past it only once it was delivered or passed over by design.
THEOREM NothingSkipped == Spec => []NoEventSkipped
<1>1. Inv => NoEventSkipped
  BY DEF Inv
<1> QED
  BY <1>1, InvHolds, PTL

\* What was there when the notifier was first started is never sent, on a board
\* that could be read then.
THEOREM PastIsNotSent == Spec => []PastNotSent
<1>1. Inv => PastNotSent
  BY DEF Inv
<1> QED
  BY <1>1, InvHolds, PTL

\* The messages of a board come in the order of its events.
THEOREM InOrder == Spec => []DeliveredInOrder
<1>1. Inv => DeliveredInOrder
  BY DEF Inv
<1> QED
  BY <1>1, InvHolds, PTL

-----------------------------------------------------------------------------
(* Repeats: each one was owed when it was sent, and only a fault runs up a debt *)

\* A set that gains at most one element grows by at most one.
LEMMA AtMostOneMore ==
  ASSUME NEW S, NEW T, NEW x, IsFiniteSet(S), T \subseteq S \union {x}
  PROVE  IsFiniteSet(T) /\ Cardinality(T) <= Cardinality(S) + 1
<1>1. IsFiniteSet(S \union {x}) /\ Cardinality(S \union {x}) <= Cardinality(S) + 1
  <2>1. /\ IsFiniteSet(S \union {x}) /\ Cardinality(S) \in Nat
        /\ Cardinality(S \union {x}) = IF x \in S THEN Cardinality(S) ELSE Cardinality(S) + 1
    BY FS_AddElement, FS_CardinalityType
  <2> QED
    BY <2>1
<1>2. IsFiniteSet(T) /\ Cardinality(T) <= Cardinality(S \union {x})
  BY <1>1, FS_Subset
<1> QED
  BY <1>1, <1>2, FS_CardinalityType

\* A set that loses an element shrinks by at least one.
LEMMA AtLeastOneLess ==
  ASSUME NEW S, NEW T, NEW x \in S, IsFiniteSet(S), T \subseteq S \ {x}
  PROVE  Cardinality(T) <= Cardinality(S) - 1
<1>1. IsFiniteSet(S \ {x}) /\ Cardinality(S \ {x}) = Cardinality(S) - 1
  BY FS_RemoveElement
<1> QED
  BY <1>1, FS_Subset

\* There are finitely many boards, hence finitely many repeats and debts to count.
LEMMA DebtsFinite ==
  /\ IsFiniteSet(Owed) /\ Cardinality(Owed) \in Nat
  /\ IsFiniteSet(Repeats) /\ Cardinality(Repeats) \in Nat
<1>1. IsFiniteSet(Owed)
  BY FS_Subset, BoardAssumption DEF Owed
<1>2. IsFiniteSet(1 .. MaxEvents + MaxFaults)
  BY FS_Interval, BoundAssumption
<1>3. IsFiniteSet(Board \X (1 .. MaxEvents + MaxFaults))
  BY <1>2, FS_Product, BoardAssumption
<1>4. IsFiniteSet(Repeats)
  BY <1>3, FS_Subset DEF Repeats
<1> QED
  BY <1>1, <1>4, FS_CardinalityType

\* Less is owed and no more is repeated.
LEMMA PaidAside ==
  ASSUME TypeOK, TypeOK', RepeatsPaid, Repeats' \subseteq Repeats, Owed' \subseteq Owed, faults' >= faults
  PROVE  RepeatsPaid'
<1>1. Cardinality(Repeats') <= Cardinality(Repeats) /\ Cardinality(Owed') <= Cardinality(Owed)
  BY DebtsFinite, FS_Subset
<1>2. Cardinality(Repeats') \in Nat /\ Cardinality(Owed') \in Nat
  BY DebtsFinite, FS_Subset, FS_CardinalityType
<1> QED
  BY <1>1, <1>2, DebtsFinite DEF RepeatsPaid, TypeOK

\* A message repeats the one before it only if that was owed.
LEMMA RepeatOwed ==
  ASSUME Inv, InBatch, Delivered
  PROVE  /\ Repeats' \subseteq Repeats \union {<<board, Len(delivered[board])>>}
         /\ board \notin Owed => Repeats' \subseteq Repeats
<1> DEFINE s == delivered[board]
           t == delivered'[board]
           n == Len(s)
<1>1. /\ board \in Board /\ next \in Nat /\ cursor[board] = next - 1 /\ s \in Seq(Nat)
      /\ n \in Nat /\ DOMAIN s = 1 .. n /\ pc = "board" /\ (s = <<>> => n = 0)
  BY DEF Inv, InBatch, InStep, AtBoard, TypeOK
<1>2. DOMAIN t = 1 .. n + 1 /\ t[n + 1] = next /\ \A i \in 1 .. n : t[i] = s[i]
  BY <1>1 DEF Delivered, Inv, TypeOK
<1>3. \A b \in Board : b # board => delivered'[b] = delivered[b]
  BY DEF Delivered, Inv, TypeOK
<1>4. board \notin Owed => n = 0 \/ s[n] # next
  BY <1>1 DEF Owed, Sent
<1> HIDE DEF s, t, n
<1>5. ASSUME NEW b \in Board, NEW i \in 1 .. MaxEvents + MaxFaults, <<b, i>> \in Repeats'
      PROVE  <<b, i>> \in Repeats \/ (b = board /\ i = n /\ board \in Owed)
  <2>1. i \in Nat /\ i > 0
    BY BoundAssumption
  <2>2. i + 1 \in DOMAIN delivered'[b] /\ delivered'[b][i] = delivered'[b][i + 1]
    BY <1>5 DEF Repeats
  <2>3. CASE b # board
    BY <1>3, <2>2, <2>3 DEF Repeats
  <2>4. CASE b = board
    <3>1. i + 1 \in 1 .. n + 1 /\ t[i] = t[i + 1]
      BY <1>2, <2>2, <2>4 DEF t
    <3>2. CASE i = n
      BY <1>1, <1>2, <1>4, <2>1, <2>4, <3>1, <3>2
    <3>3. CASE i # n
      <4>1. i + 1 \in DOMAIN s /\ s[i] = s[i + 1]
        BY <1>1, <1>2, <2>1, <3>1, <3>3
      <4> QED
        BY <2>4, <4>1 DEF Repeats, s
    <3> QED
      BY <3>2, <3>3
  <2> QED
    BY <2>3, <2>4
<1>6. Repeats' \subseteq Board \X (1 .. MaxEvents + MaxFaults)
  BY DEF Repeats
<1> QED
  BY <1>5, <1>6 DEF n, s

\* A repeat takes a debt away, and a debt is only made by a fault.
LEMMA PaidStep ==
  ASSUME Inv, Inv', Numbered, RepeatsPaid, [Next]_vars
  PROVE  Numbered' /\ RepeatsPaid'
<1> USE DEF Inv, process, durable, boards, seen, bounds
<1>0. faults \in Nat /\ TypeOK /\ TypeOK'
  <2>1. TypeOK /\ TypeOK'
    OBVIOUS
  <2>2. faults \in 0 .. MaxFaults
    BY DEF TypeOK
  <2> QED
    BY <2>1, <2>2, BoundAssumption
<1>1. ASSUME UNCHANGED <<delivered, cursor>>, pc # "advance" \/ UNCHANGED <<pc, board>>, faults' >= faults
      PROVE  Numbered' /\ RepeatsPaid'
  <2>1. Repeats' \subseteq Repeats /\ Owed' \subseteq Owed
    BY <1>1 DEF Repeats, Owed, Sent
  <2> QED
    BY <1>0, <1>1, <2>1, PaidAside DEF Numbered
<1>2. CASE StartService \/ StartRound \/ EndRound \/ EndBoard \/ PassOver \/ StopService \/ UNCHANGED vars
  BY <1>0, <1>1, <1>2 DEF StartService, StartRound, EndRound, EndBoard, PassOver, StopService, InBatch, vars
<1>3. CASE InitializeState
  <2>1. CASE initialized
    BY <1>0, <1>1, <1>3, <2>1 DEF InitializeState
  <2>2. CASE ~initialized
    <3>1. (\A b \in Board : delivered'[b] = <<>>) /\ faults' = faults /\ delivered' = delivered
      BY <1>3, <2>2 DEF InitializeState, Fresh
    <3>2. Repeats' \subseteq Repeats /\ Owed' \subseteq Owed
      BY <3>1 DEF Repeats, Owed, Sent
    <3> QED
      BY <1>0, <3>1, <3>2, PaidAside DEF Numbered
  <2> QED
    BY <2>1, <2>2
<1>4. ASSUME NEW c \in Board, FetchEvents(c) \/ FetchFails(c) PROVE Numbered' /\ RepeatsPaid'
  <2>1. /\ UNCHANGED <<delivered, faults>> /\ pc # "advance" /\ cursor' = [cursor EXCEPT ![c] = CursorOf(c)]
    BY <1>4 DEF FetchEvents, FetchFails
  <2>2. cursor'[c] = cursor[c] \/ delivered[c] = <<>>
    <3>1. CASE cursor[c] = NoCursor
      <4>1. delivered[c] \in Seq(Nat) /\ \A i \in DOMAIN delivered[c] : delivered[c][i] > 0 /\ delivered[c][i] <= 0
        BY <3>1 DEF TypeOK, Numbered, SentWithin, NoCursor
      <4>2. DOMAIN delivered[c] = {}
        BY <4>1
      <4>3. Len(delivered[c]) = 0
        <5>1. Len(delivered[c]) \in Nat /\ DOMAIN delivered[c] = 1 .. Len(delivered[c])
          BY <4>1
        <5>2. 1 \notin 1 .. Len(delivered[c])
          BY <4>2, <5>1
        <5> QED
          BY <5>1, <5>2
      <4> QED
        BY <4>1, <4>3
    <3>2. CASE cursor[c] # NoCursor
      BY <2>1, <3>2 DEF CursorOf, TypeOK
    <3> QED
      BY <3>1, <3>2
  <2>3. \A b \in Board : b # c => cursor'[b] = cursor[b]
    BY <2>1 DEF TypeOK
  <2>4. Repeats' \subseteq Repeats /\ Owed' \subseteq Owed
    BY <2>1, <2>2, <2>3 DEF Repeats, Owed, Sent
  <2> QED
    BY <1>0, <2>1, <2>4, PaidAside DEF Numbered
<1>5. CASE AdvanceCursor
  <2>1. /\ pc = "advance" /\ board \in Board /\ next \in Nat /\ pc' = "board"
        /\ UNCHANGED <<delivered, faults, board>> /\ cursor' = [cursor EXCEPT ![board] = next]
        /\ cursor[board] + 1 = next
    BY <1>5 DEF AdvanceCursor, TypeOK, InStep, AtBoard
  <2>2. cursor'[board] = next /\ \A b \in Board : b # board => cursor'[b] = cursor[b]
    BY <2>1 DEF TypeOK
  <2>3. ~Sent(board, cursor[board] + 1)'
    <3>1. /\ delivered[board] \in Seq(Nat)
          /\ \A i \in DOMAIN delivered[board] : delivered[board][i] \in Nat /\ delivered[board][i] <= next
      BY <2>1 DEF TypeOK, SentWithin
    <3>2. delivered[board] # <<>> => Len(delivered[board]) \in DOMAIN delivered[board]
      BY <3>1
    <3> QED
      BY <2>1, <2>2, <3>1, <3>2 DEF Sent
  <2>4. board \notin Owed'
    BY <2>1, <2>3 DEF Owed
  <2>5. Repeats' \subseteq Repeats /\ Owed' \subseteq Owed
    BY <2>1, <2>2, <2>4 DEF Repeats, Owed, Sent
  <2> QED
    BY <1>0, <2>1, <2>5, PaidAside DEF Numbered
<1>6. CASE Crash
  <2>1. UNCHANGED <<delivered, cursor>> /\ faults' = faults + 1 /\ pc' = "down"
    BY <1>6 DEF Crash
  <2>2. Owed' \subseteq Owed \union {board} /\ Repeats' = Repeats
    BY <2>1 DEF Owed, Sent, Repeats
  <2>3. Cardinality(Owed') <= Cardinality(Owed) + 1 /\ Cardinality(Owed') \in Nat
    BY <2>2, DebtsFinite, AtMostOneMore, FS_CardinalityType
  <2> QED
    BY <1>0, <2>1, <2>2, <2>3, DebtsFinite DEF RepeatsPaid, Numbered
<1>7. CASE SendSucceeds \/ (SendFails /\ Delivered /\ faults' = faults + 1)
  <2>1. /\ InBatch /\ Delivered /\ cursor' = cursor /\ pc = "board" /\ board \in Board /\ next \in Nat \ {0}
    BY <1>7 DEF SendSucceeds, SendFails, InBatch, TypeOK
  <2>2. \A b \in Board : b # board => delivered'[b] = delivered[b]
    BY <2>1 DEF Delivered, TypeOK
  <2>3. Numbered'
    <3>1. delivered[board] \in Seq(Nat) /\ delivered'[board] = Append(delivered[board], next)
      BY <2>1 DEF Delivered, TypeOK
    <3>2. \A i \in DOMAIN delivered'[board] : delivered'[board][i] > 0
      BY <2>1, <3>1 DEF Numbered
    <3> QED
      BY <2>2, <3>2 DEF Numbered
  <2>4. Owed' \subseteq Owed \union {board}
    BY <2>1, <2>2 DEF Owed, Sent
  <2>5. Cardinality(Repeats') \in Nat /\ Cardinality(Owed') \in Nat
    BY <2>1, <2>4, RepeatOwed, DebtsFinite, AtMostOneMore, FS_CardinalityType
  <2>6. CASE SendSucceeds
    <3>1. board \notin Owed' /\ faults' = faults
      BY <2>6 DEF Owed, SendSucceeds
    <3>2. CASE board \in Owed
      <4>1. Cardinality(Owed') <= Cardinality(Owed) - 1
        BY <2>4, <3>1, <3>2, AtLeastOneLess, DebtsFinite
      <4>2. Cardinality(Repeats') <= Cardinality(Repeats) + 1
        BY <2>1, RepeatOwed, DebtsFinite, AtMostOneMore
      <4> QED
        BY <1>0, <2>3, <2>5, <3>1, <4>1, <4>2, DebtsFinite DEF RepeatsPaid
    <3>3. CASE board \notin Owed
      BY <1>0, <2>1, <2>3, <2>4, <3>1, <3>3, RepeatOwed, PaidAside
    <3> QED
      BY <3>2, <3>3
  <2>7. CASE faults' = faults + 1
    <3>1. CASE board \in Owed
      <4>1. Cardinality(Owed') <= Cardinality(Owed)
        BY <2>4, <3>1, FS_Subset, DebtsFinite
      <4>2. Cardinality(Repeats') <= Cardinality(Repeats) + 1
        BY <2>1, RepeatOwed, DebtsFinite, AtMostOneMore
      <4> QED
        BY <1>0, <2>3, <2>5, <2>7, <4>1, <4>2, DebtsFinite DEF RepeatsPaid
    <3>2. CASE board \notin Owed
      <4>1. Cardinality(Owed') <= Cardinality(Owed) + 1
        BY <2>4, DebtsFinite, AtMostOneMore
      <4>2. Cardinality(Repeats') <= Cardinality(Repeats)
        BY <2>1, <3>2, RepeatOwed, DebtsFinite, FS_Subset
      <4> QED
        BY <1>0, <2>3, <2>5, <2>7, <4>1, <4>2, DebtsFinite DEF RepeatsPaid
    <3> QED
      BY <3>1, <3>2
  <2> QED
    BY <1>7, <2>6, <2>7
<1>8. CASE SendFails /\ UNCHANGED <<delivered, faults>>
  BY <1>0, <1>1, <1>8 DEF SendFails, InBatch
<1>9. ASSUME NEW c \in Board, CreateBoard(c) \/ AddEvent(c) PROVE Numbered' /\ RepeatsPaid'
  BY <1>0, <1>1, <1>9 DEF CreateBoard, AddEvent
<1>10. ASSUME NEW c \in Board, RecreateBoard(c) PROVE Numbered' /\ RepeatsPaid'
  <2>1. /\ UNCHANGED <<cursor, faults, pc, board>> /\ delivered'[c] = <<>>
        /\ \A b \in Board : b # c => delivered'[b] = delivered[b]
    BY <1>10 DEF RecreateBoard, TypeOK
  <2>2. Repeats' \subseteq Repeats /\ Owed' \subseteq Owed
    BY <2>1 DEF Repeats, Owed, Sent
  <2>3. Numbered'
    BY <2>1 DEF Numbered
  <2> QED
    BY <1>0, <2>1, <2>2, <2>3, PaidAside
<1> QED
  BY <1>2, <1>3, <1>4, <1>5, <1>6, <1>7, <1>8, <1>9, <1>10 DEF Next, ServiceStep, SendFails

\* However the notifier is killed and however its sends time out, a message is
\* repeated at most once for each kill and each lost acknowledgement.
THEOREM RepeatsArePaidFor == Spec => []RepeatsNeedFaults
<1>1. Init => Numbered /\ RepeatsPaid
  <2> SUFFICES ASSUME Init PROVE Numbered /\ RepeatsPaid
    OBVIOUS
  <2>1. (\A b \in Board : delivered[b] = <<>>) /\ faults = 0
    BY DEF Init
  <2>2. Owed = {} /\ Repeats = {}
    BY <2>1 DEF Owed, Sent, Repeats
  <2> QED
    BY <2>1, <2>2, FS_EmptySet DEF Numbered, RepeatsPaid
<1>2. Inv /\ RepeatsPaid => RepeatsNeedFaults
  BY DebtsFinite, BoundAssumption DEF RepeatsPaid, RepeatsNeedFaults, Inv, TypeOK
<1> QED
  BY <1>1, <1>2, InvHolds, PaidStep, PTL DEF Spec

-----------------------------------------------------------------------------
(* The refinement of OrderedDelivery *)

\* The notifier is at a board only in a run with a target.
AtWork == pc \in {"idle", "round", "board", "advance"} => mode # "no-target"

\* A run without a target never starts a round.
LEMMA AtWorkStep == Inv /\ AtWork /\ [Next]_vars => AtWork'
<1> SUFFICES ASSUME Inv, AtWork, [Next]_vars PROVE AtWork'
  OBVIOUS
<1> USE DEF AtWork, process
<1>1. CASE ServiceStep
  <2>1. ASSUME NEW b \in Board, FetchEvents(b) \/ FetchFails(b) PROVE AtWork'
    BY <2>1 DEF FetchEvents, FetchFails
  <2>2. CASE SendSucceeds \/ SendFails \/ PassOver \/ AdvanceCursor
    BY <2>2 DEF SendSucceeds, SendFails, PassOver, AdvanceCursor, InBatch
  <2>3. CASE StartService \/ InitializeState \/ StartRound \/ EndRound \/ EndBoard
    BY <2>3 DEF StartService, InitializeState, StartRound, EndRound, EndBoard
  <2> QED
    BY <1>1, <2>1, <2>2, <2>3 DEF ServiceStep
<1>2. CASE Crash \/ StopService
  BY <1>2 DEF Crash, StopService
<1>3. CASE UNCHANGED vars \/ \E b \in Board : CreateBoard(b) \/ AddEvent(b) \/ RecreateBoard(b)
  BY <1>3 DEF vars, CreateBoard, AddEvent, RecreateBoard
<1> QED
  BY <1>1, <1>2, <1>3 DEF Next

\* What the abstraction does not see: everything but logs, deliveries, cursors
\* and the switch; and what happens on boards that cannot be relied on.
LEMMA OrderedStutters ==
  ASSUME UNCHANGED <<initialized, mode>>,
         \A b \in Sound : log'[b] = log[b] /\ delivered'[b] = delivered[b] /\ CursorOf(b)' = CursorOf(b)
  PROVE  UNCHANGED Ordered!vars
BY DEF Ordered!vars

\* A start or an end of the process turns the abstract switch, or nothing.
LEMMA ProcessSwitches ==
  ASSUME UNCHANGED <<log, delivered, initialized, cursor>>
  PROVE  [Ordered!Next]_(Ordered!vars)
<1>1. \A b \in Sound : CursorOf(b)' = CursorOf(b)
  BY DEF CursorOf
<1>2. CASE (mode' = "cursor-only") = (mode = "cursor-only")
  BY <1>1, <1>2 DEF Ordered!vars
<1>3. CASE (mode' = "cursor-only") # (mode = "cursor-only")
  BY <1>1, <1>3 DEF Ordered!Next, Ordered!Switch
<1> QED
  BY <1>2, <1>3

\* The set-up is the subscription: what is there counts as settled.
LEMMA SetUpSubscribes ==
  ASSUME Inv, InitializeState
  PROVE  [Ordered!Next]_(Ordered!vars)
<1>1. CASE initialized
  BY <1>1, OrderedStutters DEF InitializeState, boards, CursorOf
<1>2. CASE ~initialized
  <2>1. ASSUME NEW b \in Sound PROVE CursorOf(b)' = Len(log[b])
    <3>1. CASE exists[b]
      <4>1. Len(log[b]) \in Nat
        BY DEF Inv, TypeOK, Sound
      <4> QED
        BY <1>2, <2>1, <3>1, <4>1 DEF InitializeState, AtEnd, ReadAsEmpty, CursorOf, NoCursor, Sound
    <3>2. CASE ~exists[b]
      BY <1>2, <2>1, <3>2 DEF InitializeState, CursorOf, NoCursor, Sound, Inv, CursorWithin
    <3> QED
      BY <3>1, <3>2
  <2>2. initialized' = TRUE /\ UNCHANGED <<log, delivered, mode>>
    BY DEF InitializeState, boards
  <2>3. Ordered!Subscribe
    BY <1>2, <2>1, <2>2 DEF Ordered!Subscribe
  <2> QED
    BY <2>3 DEF Ordered!Next
<1> QED
  BY <1>1, <1>2

\* Where the notifier is, there is the abstraction's first unsettled event.
LEMMA FirstIsNext ==
  ASSUME Inv, AtBoard, board \in Sound, next <= batch
  PROVE  /\ initialized /\ next \in DOMAIN log[board]
         /\ CursorOf(board) = next - 1 /\ next \in Nat
         /\ Ordered!First(board) = next /\ Ordered!Waiting(board)
<1>1. /\ board \in Board /\ initialized /\ next \in Nat \ {0} /\ batch \in Nat
      /\ cursor[board] = next - 1 /\ batch <= Len(log[board])
  BY DEF Inv, AtBoard, TypeOK, InStep, Fresh, Sound
<1>2. DOMAIN log[board] = 1 .. Len(log[board]) /\ Len(log[board]) \in Nat
  BY <1>1 DEF Inv, TypeOK
<1>3. CursorOf(board) = next - 1 /\ next \in DOMAIN log[board]
  BY <1>1, <1>2 DEF CursorOf, NoCursor
<1>4. Ordered!First(board) = next
  BY <1>1, <1>3 DEF Ordered!First
<1> QED
  BY <1>1, <1>3, <1>4 DEF Ordered!Waiting

\* A message that arrives is a delivery of the first event that is not settled, or
\* nothing on an unsound board.
LEMMA SendDelivers ==
  ASSUME Inv, InBatch, MustSend, Delivered, UNCHANGED <<log, initialized, cursor, mode>>
  PROVE  [Ordered!Next]_(Ordered!vars)
<1>1. board \in Board /\ AtBoard /\ next <= batch
  BY DEF InBatch, AtBoard, Inv, TypeOK
<1>2. \A b \in Sound : CursorOf(b)' = CursorOf(b)
  BY DEF CursorOf
<1>3. CASE board \in Sound
  <2>1. Ordered!First(board) = next /\ Ordered!Waiting(board)
    BY <1>1, <1>3, FirstIsNext
  <2>2. mode = "delivery" /\ log[board][next]
    BY DEF MustSend
  <2>3. \E c \in Sound : Ordered!Deliver(c)
    BY <1>2, <1>3, <2>1, <2>2 DEF Ordered!Deliver, Delivered, Inv, TypeOK, Sound
  <2> QED
    BY <2>3 DEF Ordered!Next
<1>4. CASE board \notin Sound
  <2>1. \A b \in Sound : delivered'[b] = delivered[b]
    BY <1>4 DEF Delivered, Inv, TypeOK, Sound
  <2> QED
    BY <1>2, <2>1, OrderedStutters
<1> QED
  BY <1>3, <1>4

\* A commit settles that event.
LEMMA AdvanceSettles ==
  ASSUME Inv, AtWork, AdvanceCursor
  PROVE  [Ordered!Next]_(Ordered!vars)
<1>1. /\ AtBoard /\ next <= batch /\ board \in Board /\ next \in Nat
      /\ mode \in {"delivery", "cursor-only"}
  BY ModesAssumption DEF AdvanceCursor, AtBoard, Inv, InStep, AtWork, TypeOK, Off
<1>2. UNCHANGED <<log, delivered, initialized, board, mode>> /\ CursorOf(board)' = next
  BY <1>1 DEF AdvanceCursor, boards, seen, CursorOf, NoCursor, Inv, TypeOK
<1>3. \A b \in Sound : b # board => CursorOf(b)' = CursorOf(b)
  BY <1>1 DEF AdvanceCursor, CursorOf, NoCursor, Inv, TypeOK, Sound
<1>4. CASE board \in Sound
  <2>1. initialized /\ Ordered!First(board) = next /\ Ordered!Waiting(board)
    BY <1>1, <1>4, FirstIsNext
  <2>2. log[board][next] => Ordered!Arrived(board) \/ mode = "cursor-only"
    BY <1>1, <1>4, <2>1 DEF Inv, Dealt, MustSend, Sent, Ordered!Arrived, AdvanceCursor
  <2>3. [b \in Sound |-> IF initialized' THEN CursorOf(b)' ELSE Len(log'[b])]
        = [[b \in Sound |-> IF initialized THEN CursorOf(b) ELSE Len(log[b])] EXCEPT ![board] = next]
    BY <1>2, <1>3, <1>4, <2>1
  <2>4. \E c \in Sound : Ordered!Settle(c)
    BY <1>2, <1>4, <2>1, <2>2, <2>3 DEF Ordered!Settle
  <2> QED
    BY <2>4 DEF Ordered!Next
<1>5. CASE board \notin Sound
  BY <1>2, <1>3, <1>5, OrderedStutters
<1> QED
  BY <1>4, <1>5

\* An event that is written to a board is published.
LEMMA EventPublishes ==
  ASSUME Inv, NEW c \in Board, AddEvent(c)
  PROVE  [Ordered!Next]_(Ordered!vars)
<1>1. PICK notify \in BOOLEAN : log' = [log EXCEPT ![c] = Append(@, notify)]
  BY DEF AddEvent
<1>2. /\ UNCHANGED <<delivered, initialized, cursor, mode>>
      /\ \A b \in Sound : CursorOf(b)' = CursorOf(b)
  BY DEF AddEvent, durable, seen, process, CursorOf
<1>3. CASE c \in Sound
  <2>1. [b \in Sound |-> log'[b]] = [[b \in Sound |-> log[b]] EXCEPT ![c] = Append(@, notify)]
    BY <1>1, <1>3 DEF Inv, TypeOK, Sound
  <2>2. Len(log'[c]) = Len(log[c]) + 1 /\ \A b \in Sound : b # c => log'[b] = log[b]
    BY <1>1 DEF Inv, TypeOK, Sound
  <2>3. [b \in Sound |-> IF initialized' THEN CursorOf(b)' ELSE Len(log'[b])]
        = IF initialized THEN [b \in Sound |-> IF initialized THEN CursorOf(b) ELSE Len(log[b])]
          ELSE [[b \in Sound |-> IF initialized THEN CursorOf(b) ELSE Len(log[b])] EXCEPT ![c] = @ + 1]
    BY <1>2, <1>3, <2>2
  <2>4. Ordered!Publish(c)
    BY <1>2, <2>1, <2>3 DEF Ordered!Publish
  <2> QED
    BY <1>3, <2>4 DEF Ordered!Next
<1>4. CASE c \notin Sound
  <2>1. \A b \in Sound : log'[b] = log[b]
    BY <1>1, <1>4 DEF Inv, TypeOK, Sound
  <2> QED
    BY <1>2, <2>1, OrderedStutters
<1> QED
  BY <1>3, <1>4

\* Every step of the notifier is a step of the abstract delivery, or none.
LEMMA StepOrdered ==
  ASSUME Inv, AtWork, [Next]_vars
  PROVE  [Ordered!Next]_(Ordered!vars)
<1> USE DEF process, durable, boards, seen, bounds
<1>1. CASE InitializeState
  BY <1>1, SetUpSubscribes
<1>2. CASE SendSucceeds \/ (SendFails /\ Delivered)
  <2>1. InBatch /\ MustSend /\ Delivered /\ UNCHANGED <<log, initialized, cursor, mode>>
    BY <1>2 DEF SendSucceeds, SendFails
  <2> QED
    BY <2>1, SendDelivers
<1>3. CASE AdvanceCursor
  BY <1>3, AdvanceSettles
<1>4. ASSUME NEW b \in Board, AddEvent(b) PROVE [Ordered!Next]_(Ordered!vars)
  BY <1>4, EventPublishes
<1>5. ASSUME NEW c \in Board, FetchEvents(c) \/ FetchFails(c) PROVE UNCHANGED Ordered!vars
  <2>1. /\ UNCHANGED <<log, delivered, initialized, mode>>
        /\ cursor' = [cursor EXCEPT ![c] = CursorOf(c)]
    BY <1>5 DEF FetchEvents, FetchFails
  <2>2. \A b \in Sound : CursorOf(b)' = CursorOf(b)
    BY <2>1 DEF CursorOf, NoCursor, Inv, TypeOK, Sound
  <2> QED
    BY <2>1, <2>2, OrderedStutters
<1>6. CASE \/ StartService \/ StartRound \/ EndRound \/ EndBoard \/ PassOver \/ Crash \/ StopService
           \/ (SendFails /\ delivered' = delivered) \/ UNCHANGED vars
           \/ \E b \in Board : CreateBoard(b)
  <2>1. UNCHANGED <<log, delivered, initialized, cursor>>
    BY <1>6 DEF StartService, StartRound, EndRound, EndBoard, PassOver, Crash, StopService, SendFails,
       vars, CreateBoard
  <2> QED
    BY <2>1, ProcessSwitches
<1>7. ASSUME NEW c \in Board, RecreateBoard(c) PROVE UNCHANGED Ordered!vars
  <2>1. /\ c \notin Sound /\ UNCHANGED <<initialized, mode, cursor>>
        /\ \A b \in Sound : log'[b] = log[b] /\ delivered'[b] = delivered[b]
    BY <1>7 DEF RecreateBoard, Inv, TypeOK, Sound
  <2> QED
    BY <2>1, OrderedStutters DEF CursorOf
<1> QED
  BY <1>1, <1>2, <1>3, <1>4, <1>5, <1>6, <1>7 DEF Next, ServiceStep, SendFails

\* The notifier implements the abstract delivery for every board that stays one
\* readable file, whatever happens to the other boards: its process, rounds,
\* batches, crashes and failed sends disappear, and the events of each board are
\* settled one by one, none before it has arrived or notifications were off.
THEOREM DeliveryImplemented == Spec => ImplementsOrderedDelivery
<1>1. Init => Ordered!Init /\ AtWork
  <2> SUFFICES ASSUME Init PROVE Ordered!Init /\ AtWork
    OBVIOUS
  <2>1. AtWork
    BY DEF Init, AtWork
  <2>2. /\ initialized = FALSE /\ mode # "cursor-only"
        /\ \A b \in Sound : log[b] = <<>> /\ delivered[b] = <<>> /\ Len(log[b]) = 0
    BY DEF Init, Sound, Off
  <2> QED
    BY <2>1, <2>2 DEF Ordered!Init
<1>2. Inv /\ AtWork /\ [Next]_vars => [Ordered!Next]_(Ordered!vars)
  BY StepOrdered
<1> QED
  BY <1>1, <1>2, AtWorkStep, InvHolds, PTL DEF Spec, ImplementsOrderedDelivery, Ordered!Spec
=============================================================================
