---------------------- MODULE KanbanNotifierRefinement ----------------------
(***************************************************************************)
(* The notifier implements OrderedDelivery for the boards that can be      *)
(* relied on, whatever happens to the others: the process, its batches and *)
(* its crashes disappear, and the cursor is the number of settled events.  *)
(***************************************************************************)
EXTENDS KanbanNotifier

Ordered == INSTANCE OrderedDelivery WITH
  Board      <- Sound,
  log        <- [b \in Sound |-> log[b]],
  delivered  <- [b \in Sound |-> delivered[b]],
  subscribed <- initialized,
  muted      <- mode = "cursor-only",
  settled    <- [b \in Sound |-> IF initialized THEN CursorOf(b) ELSE Len(log[b])]

\* Each board's events are settled in order, none before it has arrived.
ImplementsOrderedDelivery == Ordered!Spec
=============================================================================
