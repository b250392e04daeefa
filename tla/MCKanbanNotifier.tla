-------------------------- MODULE MCKanbanNotifier --------------------------
(* Model checking of KanbanNotifier, and of its refinement of              *)
(* OrderedDelivery, on small instances.                                    *)
EXTENDS KanbanNotifierRefinement
=============================================================================
