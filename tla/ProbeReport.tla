---------------------------- MODULE ProbeReport ----------------------------
(***************************************************************************)
(* What a browser probe writes into its result file, and the verdict that  *)
(* is drawn from it: scripts/managed_dialog_evidence.py for the probe of   *)
(* native dialogs, scripts/ui_runtime/suite.py for a suite of UI checks.   *)
(*                                                                         *)
(* Abstracted: the items of a report are numbered in the order of the      *)
(* plan, and all of them are required.  A status other than these three is *)
(* "OTHER" (BLOCKED, BLOCKED_ENV, INCONCLUSIVE, UNSUPPORTED).  A dialog    *)
(* case that says PASS carries all the evidence that summarize asks for.   *)
(* The older format of browser_dialog_trace.py is left out: no probe of    *)
(* this repository writes it.                                              *)
(***************************************************************************)
EXTENDS Naturals, Sequences

CONSTANT Items  \* the number of dialog cases, or of UI checks, in the plan

ASSUME ItemsAssumption == Items \in Nat \ {0}

Item == 1..Items

\* An item: its status; for a dialog, whether it was closed before the response,
\* and whether the response was accepted.
Entry == [status : {"PASS", "FAIL", "NOT_RUN", "OTHER"}, early : BOOLEAN, answered : BOOLEAN]

\* A result file: nothing yet, the last words of a probe that was interrupted, or
\* the entries so far with complete_matrix (dialogs) and the cleanup (UI suite).
Report == [schema : {"none", "blocked", "dialog", "ui"}, entries : Seq(Entry),
           complete : BOOLEAN, cleaned : BOOLEAN]

Blank(schema) == [schema |-> schema, entries |-> <<>>, complete |-> TRUE, cleaned |-> FALSE]
Blocked       == [schema |-> "blocked", entries |-> <<>>, complete |-> FALSE, cleaned |-> FALSE]

Verdict == {"PASS", "FAIL", "BLOCKED_ENV", "INCONCLUSIVE"}

AllPassed(r) == Len(r.entries) = Items /\ \A i \in DOMAIN r.entries : r.entries[i].status = "PASS"

-----------------------------------------------------------------------------
(* managed_dialog_evidence.summarize *)

\* Only an assertion that was executed after an accepted response is a failure.
AssertedFailure(c) == c.status = "FAIL" /\ c.answered /\ ~c.early

\* The first case that settles the verdict alone ends the scan.
Settles(c) == c.early \/ c.status = "OTHER" \/ AssertedFailure(c)
Settling(r, i) ==
  /\ i \in DOMAIN r.entries /\ Settles(r.entries[i])
  /\ \A j \in 1 .. i - 1 : ~Settles(r.entries[j])

Summarize(r) ==
  CASE \E i \in DOMAIN r.entries : Settling(r, i) /\ r.entries[i].early -> "BLOCKED_ENV"
    [] \E i \in DOMAIN r.entries : Settling(r, i) /\ AssertedFailure(r.entries[i]) -> "FAIL"
    [] r.complete /\ AllPassed(r) /\ \A i \in DOMAIN r.entries : ~Settles(r.entries[i]) -> "PASS"
    [] OTHER -> "INCONCLUSIVE"

-----------------------------------------------------------------------------
(* ui_runtime.suite *)

\* Suite.check: the browser with its page first, and everything else on that page.
Depends(i) == IF i = 1 THEN {} ELSE {1}

Outstanding(r, dep) == dep \notin DOMAIN r.entries \/ r.entries[dep].status # "PASS"
MayRun(r, i) == \A dep \in Depends(i) : ~Outstanding(r, dep)

\* aggregate: every required check, and the cleanup, must be confirmed.
Aggregate(r) ==
  CASE \E i \in DOMAIN r.entries : r.entries[i].status = "FAIL" -> "FAIL"
    [] AllPassed(r) /\ r.cleaned -> "PASS"
    [] OTHER -> "INCONCLUSIVE"

-----------------------------------------------------------------------------
\* browser_runtime_adapter._diagnose, and the evidence that it cannot use.
Diagnose(r) ==
  CASE r.schema = "dialog" -> Summarize(r)
    [] r.schema = "ui"     -> Aggregate(r)
    [] OTHER               -> "BLOCKED_ENV"
=============================================================================
