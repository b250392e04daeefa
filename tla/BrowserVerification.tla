------------------------ MODULE BrowserVerification ------------------------
(***************************************************************************)
(* The browser verification adapter, scripts/browser_runtime_adapter.py,   *)
(* and the two probes it runs: scripts/probe_managed_dialog.py (native     *)
(* dialogs) and scripts/ui_runtime/smoke.py (a suite of UI checks).        *)
(*                                                                         *)
(* An attempt makes a directory of its own, starts a fixture server and a  *)
(* probe, each in a process group of its own, waits for the probe with a   *)
(* limit, stops its group, judges the file that the probe wrote, stops the *)
(* server and publishes a report, in its directory and as the latest one   *)
(* of the artifact directory.  The probe opens a browser, which is in no   *)
(* process group of the adapter.                                           *)
(*                                                                         *)
(* Any process may be killed at any point, and the adapter may be          *)
(* interrupted: SIGTERM is an exception in it and in the probe of dialogs, *)
(* and kills the probe of the UI.  What a killed adapter leaves behind     *)
(* goes on beside the next attempt.                                        *)
(*                                                                         *)
(* Abstracted: what a page does is a choice of outcome; hermes mode only,  *)
(* where a success of browser_dialog means that the response reached the   *)
(* pending dialog; fingerprints, next actions and wording are left out.    *)
(***************************************************************************)
EXTENDS ProbeReport

CONSTANTS
  Attempts,   \* bound: attempts in one artifact directory
  MaxSignals  \* bound: kills and interrupts that no program of this code sends

ASSUME BrowserAssumption == Attempts \in Nat \ {0} /\ MaxSignals \in Nat

Attempt == 1..Attempts

VARIABLES
  pc,       \* where the adapter of the attempt is, "dead" when it was killed
  kind,     \* the probe it was asked to run
  status,   \* report["execution_status"]
  errors,   \* whether a process group could not be stopped
  exit,     \* report["probe_exit_code"], "none" while there is none
  step,     \* where the probe is; "passed" and "failed" are its exits, 0 and 2
  entry,    \* the dialog case it is at
  record,   \* the report in its memory
  termed,   \* whether SIGTERM has reached it (CANCELLED)
  raw,      \* durable: browser-dialog-raw.json of each attempt directory
  live,     \* the processes of the attempt that are alive
  report,   \* durable: browser-runtime-report.json in the attempt directory
  root,     \* durable: the attempt whose report is the latest at the root
  held,     \* history: the items whose assertion was observed to hold
  broken,   \* history: the items whose assertion was observed to fail
  signals   \* kills and interrupts so far

adapter == <<pc, status, errors, exit, report, root>>
probe   == <<step, entry, record, termed, raw, held, broken>>
vars    == <<adapter, probe, kind, live, signals>>

NoReport == "none"
Points == {"idle", "server", "waiting", "probe", "probing", "stopping", "killing", "judging",
           "closing", "publishing", "latest", "done", "dead"}
Steps  == {"none", "case", "respond", "outcome", "clean", "finish", "exit", "passed", "failed", "killed"}

\* The values of the variables; a process that has ended is at an end of its own.
TypeOK ==
  /\ pc \in [Attempt -> Points] /\ kind \in [Attempt -> {"dialog", "ui"}]
  /\ status \in [Attempt -> Verdict] /\ errors \in [Attempt -> BOOLEAN]
  /\ exit \in [Attempt -> {"none", "zero", "nonzero"}]
  /\ step \in [Attempt -> Steps] /\ entry \in [Attempt -> Entry]
  /\ record \in [Attempt -> Report] /\ raw \in [Attempt -> Report]
  /\ termed \in [Attempt -> BOOLEAN]
  /\ live \in [Attempt -> SUBSET {"server", "probe", "browser"}]
  /\ report \in [Attempt -> Verdict \union {NoReport}] /\ root \in 0..Attempts
  /\ held \in [Attempt -> SUBSET Item] /\ broken \in [Attempt -> SUBSET Item]
  /\ signals \in 0..MaxSignals

Goto(a, where) == pc' = [pc EXCEPT ![a] = where]
Gains(a, p) == live' = [live EXCEPT ![a] = @ \union {p}]
Loses(a, p) == live' = [live EXCEPT ![a] = @ \ {p}]
Over(a) == pc[a] \in {"done", "dead"}
Fresh   == [status |-> "OTHER", early |-> FALSE, answered |-> FALSE]

\* A probe that has ended, its memory with it.
Ends(a, how) ==
  /\ step' = [step EXCEPT ![a] = how]
  /\ record' = [record EXCEPT ![a] = Blank("none")]
  /\ entry' = [entry EXCEPT ![a] = Fresh]
  /\ termed' = [termed EXCEPT ![a] = FALSE]
Stays == UNCHANGED <<step, record, entry, termed>>

-----------------------------------------------------------------------------
(* The adapter: run *)

\* attempt_directory, _port.  Nothing keeps two adapters from running at once.
Begin(a) ==
  /\ pc[a] = "idle"
  /\ \E k \in {"dialog", "ui"} : kind' = [kind EXCEPT ![a] = k]
  /\ Goto(a, "server")
  /\ UNCHANGED <<status, errors, exit, report, root, probe, live, signals>>

StartServer(a) ==
  /\ pc[a] = "server"
  /\ \/ Goto(a, "waiting") /\ Gains(a, "server")
     \/ Goto(a, "closing") /\ UNCHANGED live
  /\ UNCHANGED <<status, errors, exit, report, root, probe, kind, signals>>

\* _ready: the server is alive and answers, or the limit is over.
AwaitServer(a) ==
  /\ pc[a] = "waiting"
  /\ \/ "server" \in live[a] /\ Goto(a, "probe")
     \/ Goto(a, "closing")
  /\ UNCHANGED <<status, errors, exit, report, root, probe, kind, live, signals>>

StartProbe(a) ==
  /\ pc[a] = "probe"
  /\ \/ /\ Goto(a, "probing") /\ Gains(a, "probe")
        /\ step' = [step EXCEPT ![a] = "case"]
        /\ record' = [record EXCEPT ![a] = Blank(kind[a])]
     \/ Goto(a, "closing") /\ UNCHANGED <<live, step, record>>
  /\ UNCHANGED <<status, errors, exit, report, root, entry, termed, raw, held, broken, kind, signals>>

ProbeEnds(a) ==
  /\ pc[a] = "probing" /\ "probe" \notin live[a]
  /\ exit' = [exit EXCEPT ![a] = IF step[a] = "passed" THEN "zero" ELSE "nonzero"]
  /\ Goto(a, "stopping")
  /\ UNCHANGED <<status, errors, report, root, probe, kind, live, signals>>

ProbeTimesOut(a) ==
  /\ pc[a] = "probing"
  /\ Goto(a, "stopping")
  /\ UNCHANGED <<status, errors, exit, report, root, probe, kind, live, signals>>

\* The evidence is read only when the probe ended by itself.
AfterProbe(a) == Goto(a, IF exit[a] = "none" THEN "closing" ELSE "judging")

\* terminate_process_group: SIGTERM is an exception in the probe of dialogs and
\* the end of the other one.
TerminateProbe(a) ==
  /\ pc[a] = "stopping"
  /\ IF "probe" \notin live[a]
     THEN AfterProbe(a) /\ Stays /\ UNCHANGED live
     ELSE /\ Goto(a, "killing")
          /\ IF kind[a] = "dialog"
             THEN termed' = [termed EXCEPT ![a] = TRUE] /\ UNCHANGED <<step, record, entry, live>>
             ELSE Ends(a, "killed") /\ Loses(a, "probe")
  /\ UNCHANGED <<status, errors, exit, report, root, raw, held, broken, kind, signals>>

\* After the grace period whoever is left is killed; live_group then looks again.
KillProbe(a) ==
  /\ pc[a] = "killing"
  /\ AfterProbe(a)
  /\ IF "probe" \notin live[a] THEN Stays /\ UNCHANGED <<live, errors>>
     ELSE /\ Ends(a, "killed")
          /\ \/ Loses(a, "probe") /\ UNCHANGED errors
             \/ errors' = [errors EXCEPT ![a] = TRUE] /\ UNCHANGED live
  /\ UNCHANGED <<status, exit, report, root, raw, held, broken, kind, signals>>

\* The result file is in the directory of the attempt.
RawOfMutant(a) == 1  \* mutant: one file for all attempts
RawOf(a) == a

\* A PASS in the file does not count when the probe did not exit with 0.
JudgedMutant(a) == Diagnose(raw[RawOf(a)])  \* mutant: whatever the exit code
Judged(a) ==
  LET diagnosed == Diagnose(raw[RawOf(a)])
  IN IF exit[a] # "zero" /\ diagnosed = "PASS" THEN "INCONCLUSIVE" ELSE diagnosed

Judge(a) ==
  /\ pc[a] = "judging"
  /\ status' = [status EXCEPT ![a] = Judged(a)]
  /\ Goto(a, "closing")
  /\ UNCHANGED <<errors, exit, report, root, probe, kind, live, signals>>

StopServer(a) ==
  /\ pc[a] = "closing"
  /\ \/ Loses(a, "server") /\ UNCHANGED errors
     \/ "server" \in live[a] /\ errors' = [errors EXCEPT ![a] = TRUE] /\ UNCHANGED live
  /\ Goto(a, "publishing")
  /\ UNCHANGED <<status, exit, report, root, probe, kind, signals>>

Publish(a) ==
  /\ pc[a] = "publishing"
  /\ report' = [report EXCEPT ![a] =
                  IF errors[a] /\ status[a] = "PASS" THEN "INCONCLUSIVE" ELSE status[a]]
  /\ Goto(a, "latest")
  /\ UNCHANGED <<status, errors, exit, root, probe, kind, live, signals>>

PublishLatest(a) ==
  /\ pc[a] = "latest"
  /\ root' = a
  /\ Goto(a, "done")
  /\ UNCHANGED <<status, errors, exit, report, probe, kind, live, signals>>

AdapterStep(a) ==
  \/ Begin(a) \/ StartServer(a) \/ AwaitServer(a) \/ StartProbe(a) \/ ProbeEnds(a) \/ ProbeTimesOut(a)
  \/ TerminateProbe(a) \/ KillProbe(a) \/ Judge(a) \/ StopServer(a) \/ Publish(a) \/ PublishLatest(a)

\* SIGTERM: KeyboardInterrupt where the adapter is.  The probe is stopped on the
\* way out of the wait for it, but not when the interrupt comes while it is being
\* stopped; in the outer finally it leaves the rest of that undone.
Interrupt(a) ==
  /\ signals < MaxSignals /\ signals' = signals + 1
  /\ \/ /\ pc[a] \in {"server", "waiting", "probe", "stopping", "killing", "judging"}
        /\ Goto(a, "closing") /\ status' = [status EXCEPT ![a] = "INCONCLUSIVE"]
     \/ /\ pc[a] = "probing"
        /\ Goto(a, "stopping") /\ status' = [status EXCEPT ![a] = "INCONCLUSIVE"]
     \/ /\ pc[a] \in {"closing", "publishing", "latest"}
        /\ Goto(a, "done") /\ UNCHANGED status
  /\ UNCHANGED <<errors, exit, report, root, probe, kind, live>>

\* SIGKILL, or SIGTERM under verify_*_runtime.py, which install no handler.
KillAdapter(a) ==
  /\ pc[a] # "idle" /\ ~Over(a)
  /\ signals < MaxSignals /\ signals' = signals + 1
  /\ Goto(a, "dead")
  /\ UNCHANGED <<status, errors, exit, report, root, probe, kind, live>>

ServerDies(a) ==
  /\ "server" \in live[a]
  /\ signals < MaxSignals /\ signals' = signals + 1
  /\ Loses(a, "server")
  /\ UNCHANGED <<adapter, probe, kind>>

-----------------------------------------------------------------------------
(* The probe *)

At(a, where) == step' = [step EXCEPT ![a] = where]
Active(a)    == "probe" \in live[a] /\ step[a] # "killed"
Number(a)    == Len(record[a].entries) + 1

Observe(a, i, holds) ==
  IF holds THEN held' = [held EXCEPT ![a] = @ \union {i}] /\ UNCHANGED broken
           ELSE broken' = [broken EXCEPT ![a] = @ \union {i}] /\ UNCHANGED held

\* HermesBrowser: one browser for the probe's own session; a cleanup of it that is
\* confirmed is believed.
OpenBrowser(a) == Gains(a, "browser")
CloseBrowser(a, done) == IF done THEN Loses(a, "browser") ELSE UNCHANGED live

\* one_case, up to the opening of the dialog and the look at whether it is still
\* open: the browser may have closed it by itself.
OpenDialog(a) ==
  /\ Active(a) /\ kind[a] = "dialog" /\ step[a] = "case"
  /\ OpenBrowser(a)
  /\ \E early \in BOOLEAN : entry' = [entry EXCEPT ![a] = [Fresh EXCEPT !.early = early]]
  /\ At(a, "respond")
  /\ UNCHANGED <<adapter, record, termed, raw, held, broken, kind, signals>>

Respond(a) ==
  /\ Active(a) /\ step[a] = "respond"
  /\ IF entry[a].early THEN UNCHANGED entry
     ELSE \E accepted \in BOOLEAN : entry' = [entry EXCEPT ![a].answered = accepted]
  /\ At(a, "outcome")
  /\ UNCHANGED <<adapter, record, termed, raw, held, broken, kind, live, signals>>

\* The final state of the page is compared with what the response should lead to.
CompareOutcome(a) ==
  LET explicit == entry[a].answered /\ ~entry[a].early
  IN /\ Active(a) /\ step[a] = "outcome"
     /\ \E asExpected \in BOOLEAN :
          /\ entry' = [entry EXCEPT ![a].status = IF explicit /\ asExpected THEN "PASS" ELSE "FAIL"]
          /\ IF explicit THEN Observe(a, Number(a), asExpected) ELSE UNCHANGED <<held, broken>>
     /\ At(a, "clean")
     /\ UNCHANGED <<adapter, record, termed, raw, kind, live, signals>>

\* Anything may fail, or be interrupted, before the outcome is known; before the
\* dialog is open the browser may be there already.
CaseFails(a) ==
  /\ Active(a) /\ kind[a] = "dialog" /\ step[a] \in {"case", "respond", "outcome"}
  /\ UNCHANGED live \/ (step[a] = "case" /\ OpenBrowser(a))
  /\ At(a, "clean")
  /\ UNCHANGED <<adapter, entry, record, termed, raw, held, broken, kind, signals>>

\* The cleanup of the case; one that is not confirmed costs the PASS.  Then the
\* report is saved, and the matrix goes on only after a PASS.
EndCase(a) ==
  /\ Active(a) /\ step[a] = "clean"
  /\ \E done \in BOOLEAN :
       LET case == [entry[a] EXCEPT !.status = IF ~done /\ @ = "PASS" THEN "OTHER" ELSE @]
       IN /\ CloseBrowser(a, done)
          /\ record' = [record EXCEPT ![a].entries = Append(@, case)]
          /\ At(a, IF termed[a] \/ case.status # "PASS" \/ Number(a) = Items THEN "finish" ELSE "case")
  /\ entry' = [entry EXCEPT ![a] = Fresh]
  /\ raw' = [raw EXCEPT ![RawOf(a)] = record'[a]]
  /\ UNCHANGED <<adapter, termed, held, broken, kind, signals>>

\* The end of run: complete_matrix is cleared when the loop was left early.
FinishMatrix(a) ==
  /\ Active(a) /\ kind[a] = "dialog" /\ step[a] = "finish"
  /\ record' = [record EXCEPT ![a].complete = ~termed[a] /\ AllPassed(record[a])]
  /\ raw' = [raw EXCEPT ![RawOf(a)] = record'[a]]
  /\ At(a, "exit")
  /\ UNCHANGED <<adapter, entry, termed, held, broken, kind, live, signals>>

\* stop_signal raises wherever the main thread is.  Inside a case CaseFails shows
\* what follows; outside, main writes a report that holds no case at all.
Cancelled(a) ==
  /\ Active(a) /\ kind[a] = "dialog" /\ termed[a]
  /\ raw' = [raw EXCEPT ![RawOf(a)] = Blocked]
  /\ \E left \in SUBSET (live[a] \intersect {"browser"}) :
       live' = [live EXCEPT ![a] = (@ \intersect {"server"}) \union left]
  /\ Ends(a, "failed")
  /\ UNCHANGED <<adapter, held, broken, kind, signals>>

\* Suite.check and the save of smoke.probe: a check whose prerequisite is not
\* confirmed does not run.  The first check asserts nothing; the browser may be
\* there whatever comes of it.
RunCheck(a) ==
  LET i == Number(a)
  IN /\ Active(a) /\ kind[a] = "ui" /\ step[a] = "case" /\ i <= Items
     /\ \E outcome \in IF ~MayRun(record[a], i) THEN {"NOT_RUN"}
                       ELSE {"PASS", "OTHER"} \union IF i > 1 THEN {"FAIL"} ELSE {} :
          /\ record' = [record EXCEPT ![a].entries = Append(@, [Fresh EXCEPT !.status = outcome])]
          /\ IF outcome \in {"PASS", "FAIL"} THEN Observe(a, i, outcome = "PASS")
                                             ELSE UNCHANGED <<held, broken>>
          /\ IF i = 1 THEN OpenBrowser(a) ELSE UNCHANGED live
     /\ raw' = [raw EXCEPT ![RawOf(a)] = record'[a]]
     /\ UNCHANGED <<adapter, step, entry, termed, kind, signals>>

\* Suite.finish with the cleanup of the browser, and the last save.
FinishSuite(a) ==
  /\ Active(a) /\ kind[a] = "ui" /\ step[a] = "case" /\ Number(a) > Items
  /\ \E done \in BOOLEAN :
       /\ CloseBrowser(a, done)
       /\ record' = [record EXCEPT ![a].cleaned = done]
  /\ raw' = [raw EXCEPT ![RawOf(a)] = record'[a]]
  /\ At(a, "exit")
  /\ UNCHANGED <<adapter, entry, termed, held, broken, kind, signals>>

\* main: 0 only for a report that says PASS itself.
ProbeExits(a) ==
  /\ Active(a) /\ step[a] = "exit"
  /\ Ends(a, IF Diagnose(record[a]) = "PASS" THEN "passed" ELSE "failed")
  /\ Loses(a, "probe")
  /\ UNCHANGED <<adapter, raw, held, broken, kind, signals>>

ProbeDies(a) ==
  /\ Active(a)
  /\ signals < MaxSignals /\ signals' = signals + 1
  /\ Ends(a, "killed") /\ Loses(a, "probe")
  /\ UNCHANGED <<adapter, raw, held, broken, kind>>

ProbeStep(a) ==
  \/ OpenDialog(a) \/ Respond(a) \/ CompareOutcome(a) \/ CaseFails(a) \/ EndCase(a) \/ FinishMatrix(a)
  \/ Cancelled(a) \/ RunCheck(a) \/ FinishSuite(a) \/ ProbeExits(a)

-----------------------------------------------------------------------------
Next ==
  \E a \in Attempt :
    AdapterStep(a) \/ ProbeStep(a) \/ Interrupt(a) \/ KillAdapter(a) \/ ServerDies(a) \/ ProbeDies(a)

Init ==
  /\ pc = [a \in Attempt |-> "idle"] /\ kind = [a \in Attempt |-> "ui"]
  /\ status = [a \in Attempt |-> "BLOCKED_ENV"] /\ errors = [a \in Attempt |-> FALSE]
  /\ exit = [a \in Attempt |-> "none"]
  /\ step = [a \in Attempt |-> "none"] /\ entry = [a \in Attempt |-> Fresh]
  /\ record = [a \in Attempt |-> Blank("none")] /\ raw = [a \in Attempt |-> Blank("none")]
  /\ termed = [a \in Attempt |-> FALSE]
  /\ live = [a \in Attempt |-> {}]
  /\ report = [a \in Attempt |-> NoReport] /\ root = 0
  /\ held = [a \in Attempt |-> {}] /\ broken = [a \in Attempt |-> {}]
  /\ signals = 0

Spec == Init /\ [][Next]_vars

-----------------------------------------------------------------------------
(* Properties *)

\* A published PASS is that of a probe of this very attempt, which ended by itself
\* and in time with exit code 0, which saw every item of the plan hold, and of
\* which nothing is left: no server, no probe and no browser.
PassIsConfirmed ==
  \A a \in Attempt : report[a] = "PASS" =>
    exit[a] = "zero" /\ step[a] = "passed" /\ held[a] = Item /\ live[a] = {}

\* A published FAIL is about an assertion that this attempt's probe did execute
\* and saw fail: neither a tool that failed, nor a dialog that closed by itself or
\* was never answered, nor a probe of another attempt makes the product fail.
FailIsObserved == \A a \in Attempt : report[a] = "FAIL" => broken[a] # {}
=============================================================================
