--------------------------- MODULE OrderedDelivery ---------------------------
(***************************************************************************)
(* What the notification bridge promises for each board: the events that   *)
(* come after the subscription are settled one by one in their order, and  *)
(* one that deserves a message is settled only after it was delivered, at  *)
(* least once, with no other message of the board in between, or while the *)
(* notifications are switched off.                                         *)
(***************************************************************************)
EXTENDS Integers, Sequences

CONSTANT Board

VARIABLES
  log,         \* the events of each board: whether each is to be notified
  subscribed,  \* events from before the subscription are nobody's concern
  muted,       \* whether the notifications are switched off
  settled,     \* the number of settled events
  delivered    \* the ids delivered, in order

vars == <<log, subscribed, muted, settled, delivered>>

Init ==
  /\ log = [b \in Board |-> <<>>]
  /\ subscribed = FALSE /\ muted = FALSE
  /\ settled = [b \in Board |-> 0]
  /\ delivered = [b \in Board |-> <<>>]

Publish(b) ==
  /\ \E notify \in BOOLEAN : log' = [log EXCEPT ![b] = Append(@, notify)]
  /\ settled' = IF subscribed THEN settled ELSE [settled EXCEPT ![b] = @ + 1]
  /\ UNCHANGED <<subscribed, muted, delivered>>

Subscribe ==
  /\ ~subscribed /\ subscribed' = TRUE
  /\ UNCHANGED <<log, muted, settled, delivered>>

Switch == muted' = ~muted /\ UNCHANGED <<log, subscribed, settled, delivered>>

First(b)   == settled[b] + 1
Waiting(b) == subscribed /\ First(b) \in DOMAIN log[b]

Deliver(b) ==
  /\ Waiting(b) /\ ~muted /\ log[b][First(b)]
  /\ delivered' = [delivered EXCEPT ![b] = Append(@, First(b))]
  /\ UNCHANGED <<log, subscribed, muted, settled>>

Arrived(b) == delivered[b] # <<>> /\ delivered[b][Len(delivered[b])] = First(b)

Settle(b) ==
  /\ Waiting(b) /\ (log[b][First(b)] => Arrived(b) \/ muted)
  /\ settled' = [settled EXCEPT ![b] = First(b)]
  /\ UNCHANGED <<log, subscribed, muted, delivered>>

Next == Subscribe \/ Switch \/ \E b \in Board : Publish(b) \/ Deliver(b) \/ Settle(b)
Spec == Init /\ [][Next]_vars
=============================================================================
