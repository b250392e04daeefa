---------------------- MODULE BrowserVerificationProofs ----------------------
(***************************************************************************)
(* What a published verdict of the browser verification adapter is worth,  *)
(* for any number of items, of attempts beside each other, of kills and of *)
(* interrupts.                                                             *)
(***************************************************************************)
EXTENDS BrowserVerification, TLAPS

-----------------------------------------------------------------------------
(* The inductive invariant *)

\* What an entry of a report says was observed: the items h held, the items b failed.
Earned(i, c, schema, h, b) ==
  /\ c.status = "PASS" => i \in h
  /\ AssertedFailure(c) \/ (schema = "ui" /\ c.status = "FAIL") => b # {}

Truthful(r, h, b) ==
  /\ Len(r.entries) <= Items
  /\ \A i \in DOMAIN r.entries : Earned(i, r.entries[i], r.schema, h, b)

AllPass(r) == \A i \in DOMAIN r.entries : r.entries[i].status = "PASS"

\* Where the probe is in its program, and what that says about the entry at hand,
\* about the browser and about the report it has in its memory.
ProbeInv(a) ==
  /\ Truthful(record[a], held[a], broken[a]) /\ Truthful(raw[a], held[a], broken[a])
  /\ pc[a] \in {"idle", "server", "waiting", "probe"} => step[a] = "none"
  /\ step[a] = "none" => live[a] \subseteq {"server"}
  /\ step[a] \in {"respond", "outcome", "clean", "finish"} => kind[a] = "dialog"
  /\ step[a] \in {"case", "respond", "outcome", "clean", "finish", "exit"} => record[a].schema = kind[a]
  /\ kind[a] = "dialog" /\ step[a] \in {"case", "respond", "outcome", "clean"} => Number(a) <= Items
  /\ step[a] # "clean" => entry[a].status = "OTHER"
  /\ step[a] = "clean" => Earned(Number(a), entry[a], "dialog", held[a], broken[a])
  /\ kind[a] = "dialog" /\ step[a] \in {"case", "finish", "exit"} /\ AllPass(record[a]) => "browser" \notin live[a]
  /\ record[a].cleaned => step[a] = "exit" /\ "browser" \notin live[a]
  /\ step[a] = "passed" => held[a] = Item /\ live[a] \subseteq {"server"}

\* What the adapter knows when it publishes.
AdapterInv(a) ==
  /\ exit[a] = "zero" => step[a] = "passed"
  /\ status[a] = "PASS" => exit[a] = "zero"
  /\ status[a] = "FAIL" => broken[a] # {}
  /\ pc[a] = "publishing" /\ ~errors[a] => "server" \notin live[a]
  /\ report[a] = "PASS" => pc[a] \in {"latest", "done", "dead"} /\ exit[a] = "zero" /\ live[a] = {}
  /\ report[a] = "FAIL" => broken[a] # {}

VerdictInv == TypeOK /\ \A a \in Attempt : ProbeInv(a) /\ AdapterInv(a)

-----------------------------------------------------------------------------
(* Types *)

\* The reports that a probe starts with, and that a cancelled one leaves, are
\* reports.
LEMMA BlankReports ==
  /\ Blank("none") \in Report /\ Blank("dialog") \in Report /\ Blank("ui") \in Report
  /\ Blocked \in Report
  BY DEF Blank, Blocked, Report

\* A dialog case starts as an entry.
LEMMA FreshEntry == Fresh \in Entry
  BY DEF Fresh, Entry

\* Whatever is in a result file, the diagnosis is one of the verdicts.
LEMMA DiagnoseType == ASSUME NEW r PROVE Diagnose(r) \in Verdict
  BY DEF Diagnose, Summarize, Aggregate, Verdict

\* A report that has got another entry, or another word about its completeness or
\* its cleanup.
LEMMA ReportUpdates ==
  ASSUME NEW r \in Report, NEW c \in Entry, NEW b \in BOOLEAN
  PROVE  /\ [r EXCEPT !.entries = Append(@, c)] \in Report
         /\ [r EXCEPT !.complete = b] \in Report /\ [r EXCEPT !.cleaned = b] \in Report
  BY DEF Report

\* The initial values have their types.
LEMMA TypeInit == Init => TypeOK
  BY BlankReports, FreshEntry, BrowserAssumption DEF Init, TypeOK, Attempt, Points, Steps, Verdict, NoReport

\* The items that are observed are items of the plan: that takes the invariant.
LEMMA TypeStep == VerdictInv /\ [Next]_vars => TypeOK'
<1> SUFFICES ASSUME VerdictInv, [Next]_vars PROVE TypeOK'
  OBVIOUS
<1> TypeOK
  BY DEF VerdictInv
<1> USE BrowserAssumption DEF TypeOK
<1>1. ASSUME NEW a \in Attempt, Begin(a) PROVE TypeOK'
  BY <1>1, BlankReports, FreshEntry, DiagnoseType DEF Begin, adapter, probe, Points, Steps, Verdict, NoReport, Goto, Gains, Loses, At
<1>2. ASSUME NEW a \in Attempt, StartServer(a) PROVE TypeOK'
  BY <1>2, BlankReports, FreshEntry, DiagnoseType DEF StartServer, adapter, probe, Points, Steps, Verdict, NoReport, Goto, Gains, Loses, At
<1>3. ASSUME NEW a \in Attempt, AwaitServer(a) PROVE TypeOK'
  BY <1>3, BlankReports, FreshEntry, DiagnoseType DEF AwaitServer, adapter, probe, Points, Steps, Verdict, NoReport, Goto, Gains, Loses, At
<1>4. ASSUME NEW a \in Attempt, StartProbe(a) PROVE TypeOK'
  BY <1>4, BlankReports, FreshEntry, DiagnoseType DEF StartProbe, adapter, probe, Points, Steps, Verdict, NoReport, Goto, Gains, Loses, At
<1>5. ASSUME NEW a \in Attempt, ProbeEnds(a) PROVE TypeOK'
  BY <1>5, BlankReports, FreshEntry, DiagnoseType DEF ProbeEnds, adapter, probe, Points, Steps, Verdict, NoReport, Goto, Gains, Loses, At
<1>6. ASSUME NEW a \in Attempt, ProbeTimesOut(a) PROVE TypeOK'
  BY <1>6, BlankReports, FreshEntry, DiagnoseType DEF ProbeTimesOut, adapter, probe, Points, Steps, Verdict, NoReport, Goto, Gains, Loses, At
<1>7. ASSUME NEW a \in Attempt, TerminateProbe(a) PROVE TypeOK'
  <2>1. pc' \in [Attempt -> Points]
    BY <1>7 DEF TerminateProbe, AfterProbe, Goto, Points
  <2>2. live' \in [Attempt -> SUBSET {"server", "probe", "browser"}]
    BY <1>7 DEF TerminateProbe, Loses
  <2>3. step' \in [Attempt -> Steps] /\ termed' \in [Attempt -> BOOLEAN]
    BY <1>7 DEF TerminateProbe, Stays, Ends, Steps
  <2>4. record' \in [Attempt -> Report] /\ entry' \in [Attempt -> Entry]
    BY <1>7, BlankReports, FreshEntry DEF TerminateProbe, Stays, Ends
  <2> QED
    BY <1>7, <2>1, <2>2, <2>3, <2>4 DEF TerminateProbe
<1>8. ASSUME NEW a \in Attempt, KillProbe(a) PROVE TypeOK'
  <2>1. pc' \in [Attempt -> Points]
    BY <1>8 DEF KillProbe, AfterProbe, Goto, Points
  <2>2. live' \in [Attempt -> SUBSET {"server", "probe", "browser"}]
    BY <1>8 DEF KillProbe, Loses
  <2>5. errors' = errors \/ errors' = [errors EXCEPT ![a] = TRUE]
    BY <1>8 DEF KillProbe
  <2>3. step' \in [Attempt -> Steps] /\ termed' \in [Attempt -> BOOLEAN]
    BY <1>8 DEF KillProbe, Stays, Ends, Steps
  <2>4. record' \in [Attempt -> Report] /\ entry' \in [Attempt -> Entry]
    BY <1>8, BlankReports, FreshEntry DEF KillProbe, Stays, Ends
  <2> QED
    BY <1>8, <2>1, <2>2, <2>3, <2>4, <2>5 DEF KillProbe
<1>9. ASSUME NEW a \in Attempt, Judge(a) PROVE TypeOK'
  <2>1. Judged(a) \in Verdict
    BY DiagnoseType DEF Judged, Verdict
  <2> QED
    BY <1>9, <2>1 DEF Judge, Goto, Points, probe
<1>10. ASSUME NEW a \in Attempt, StopServer(a) PROVE TypeOK'
  BY <1>10, BlankReports, FreshEntry, DiagnoseType DEF StopServer, adapter, probe, Points, Steps, Verdict, NoReport, Goto, Gains, Loses, At
<1>11. ASSUME NEW a \in Attempt, Publish(a) PROVE TypeOK'
  BY <1>11, BlankReports, FreshEntry, DiagnoseType DEF Publish, adapter, probe, Points, Steps, Verdict, NoReport, Goto, Gains, Loses, At
<1>12. ASSUME NEW a \in Attempt, PublishLatest(a) PROVE TypeOK'
  BY <1>12 DEF PublishLatest, Goto, Points, probe, Attempt
<1>13. ASSUME NEW a \in Attempt, Interrupt(a) PROVE TypeOK'
  BY <1>13, BlankReports, FreshEntry, DiagnoseType DEF Interrupt, adapter, probe, Points, Steps, Verdict, NoReport, Goto, Gains, Loses, At
<1>14. ASSUME NEW a \in Attempt, KillAdapter(a) PROVE TypeOK'
  BY <1>14, BlankReports, FreshEntry, DiagnoseType DEF KillAdapter, adapter, probe, Points, Steps, Verdict, NoReport, Goto, Gains, Loses, At
<1>15. ASSUME NEW a \in Attempt, ServerDies(a) PROVE TypeOK'
  BY <1>15, BlankReports, FreshEntry, DiagnoseType DEF ServerDies, adapter, probe, Points, Steps, Verdict, NoReport, Goto, Gains, Loses, At
<1>16. ASSUME NEW a \in Attempt, OpenDialog(a) PROVE TypeOK'
  <2>3. \A early \in BOOLEAN : [Fresh EXCEPT !.early = early] \in Entry
    BY DEF Fresh, Entry
  <2>1. entry' \in [Attempt -> Entry]
    BY <1>16, <2>3 DEF OpenDialog
  <2>2. live' \in [Attempt -> SUBSET {"server", "probe", "browser"}]
    BY <1>16 DEF OpenDialog, OpenBrowser, Gains
  <2> QED
    BY <1>16, <2>1, <2>2 DEF OpenDialog, At, adapter, Steps
<1>17. ASSUME NEW a \in Attempt, Respond(a) PROVE TypeOK'
  <2>1. \A accepted \in BOOLEAN : [entry[a] EXCEPT !.answered = accepted] \in Entry
    BY DEF Entry
  <2>2. entry' \in [Attempt -> Entry]
    BY <1>17, <2>1 DEF Respond
  <2> QED
    BY <1>17, <2>2 DEF Respond, At, adapter, Steps
<1>18. ASSUME NEW a \in Attempt, CompareOutcome(a) PROVE TypeOK'
  <2>1. entry' \in [Attempt -> Entry]
    BY <1>18 DEF CompareOutcome, Entry
  <2>2. Number(a) \in Item
    BY <1>18 DEF VerdictInv, ProbeInv, CompareOutcome, Number, Item, Report
  <2>3. held' \in [Attempt -> SUBSET Item] /\ broken' \in [Attempt -> SUBSET Item]
    BY <1>18, <2>2 DEF CompareOutcome, Observe
  <2> QED
    BY <1>18, <2>1, <2>3 DEF CompareOutcome, At, adapter, Steps
<1>19. ASSUME NEW a \in Attempt, CaseFails(a) PROVE TypeOK'
  <2>1. live' \in [Attempt -> SUBSET {"server", "probe", "browser"}]
    BY <1>19 DEF CaseFails, OpenBrowser, Gains
  <2> QED
    BY <1>19, <2>1 DEF CaseFails, At, adapter, Steps
<1>20. ASSUME NEW a \in Attempt, EndCase(a) PROVE TypeOK'
  <2> PICK done \in BOOLEAN :
        LET case == [entry[a] EXCEPT !.status = IF ~done /\ @ = "PASS" THEN "OTHER" ELSE @]
        IN /\ CloseBrowser(a, done)
           /\ record' = [record EXCEPT ![a].entries = Append(@, case)]
           /\ At(a, IF termed[a] \/ case.status # "PASS" \/ Number(a) = Items THEN "finish" ELSE "case")
    BY <1>20 DEF EndCase
  <2> DEFINE case == [entry[a] EXCEPT !.status = IF ~done /\ @ = "PASS" THEN "OTHER" ELSE @]
  <2>1. case \in Entry
    BY DEF Entry
  <2>2. record' \in [Attempt -> Report]
    BY <2>1, ReportUpdates
  <2>3. raw' \in [Attempt -> Report]
    BY <1>20, <2>2 DEF EndCase, RawOf
  <2>4. live' \in [Attempt -> SUBSET {"server", "probe", "browser"}] /\ step' \in [Attempt -> Steps]
    BY DEF Loses, OpenBrowser, CloseBrowser, At, Steps
  <2> QED
    BY <1>20, <2>2, <2>3, <2>4, FreshEntry DEF EndCase, adapter
<1>21. ASSUME NEW a \in Attempt, FinishMatrix(a) PROVE TypeOK'
  <2>1. record' \in [Attempt -> Report]
    BY <1>21, ReportUpdates DEF FinishMatrix, AllPassed
  <2>2. raw' \in [Attempt -> Report]
    BY <1>21, <2>1 DEF FinishMatrix, RawOf
  <2> QED
    BY <1>21, <2>1, <2>2 DEF FinishMatrix, At, adapter, Steps
<1>22. ASSUME NEW a \in Attempt, Cancelled(a) PROVE TypeOK'
  <2>1. live' \in [Attempt -> SUBSET {"server", "probe", "browser"}]
    <3> PICK left \in SUBSET (live[a] \intersect {"browser"}) :
          live' = [live EXCEPT ![a] = (@ \intersect {"server"}) \union left]
      BY <1>22 DEF Cancelled
    <3>1. (live[a] \intersect {"server"}) \union left \in SUBSET {"server", "probe", "browser"}
      OBVIOUS
    <3> QED
      BY <3>1
  <2>2. raw' \in [Attempt -> Report]
    BY <1>22, BlankReports DEF Cancelled
  <2> QED
    BY <1>22, <2>1, <2>2, BlankReports, FreshEntry DEF Cancelled, Ends, adapter, Steps
<1>23. ASSUME NEW a \in Attempt, RunCheck(a) PROVE TypeOK'
  <2> PICK outcome \in {"PASS", "FAIL", "OTHER", "NOT_RUN"} :
        /\ record' = [record EXCEPT ![a].entries = Append(@, [Fresh EXCEPT !.status = outcome])]
        /\ IF outcome \in {"PASS", "FAIL"} THEN Observe(a, Number(a), outcome = "PASS")
                                           ELSE UNCHANGED <<held, broken>>
        /\ IF Number(a) = 1 THEN OpenBrowser(a) ELSE UNCHANGED live
    BY <1>23 DEF RunCheck
  <2>1. [Fresh EXCEPT !.status = outcome] \in Entry
    BY DEF Fresh, Entry
  <2>2. record' \in [Attempt -> Report]
    BY <2>1, ReportUpdates
  <2>3. raw' \in [Attempt -> Report]
    BY <1>23, <2>2 DEF RunCheck, RawOf
  <2>4. live' \in [Attempt -> SUBSET {"server", "probe", "browser"}]
    BY DEF OpenBrowser, Gains
  <2>5. Number(a) \in Item
    BY <1>23 DEF RunCheck, Number, Item, Report
  <2>6. held' \in [Attempt -> SUBSET Item] /\ broken' \in [Attempt -> SUBSET Item]
    BY <2>5 DEF Observe
  <2> QED
    BY <1>23, <2>2, <2>3, <2>4, <2>6 DEF RunCheck, adapter
<1>24. ASSUME NEW a \in Attempt, FinishSuite(a) PROVE TypeOK'
  <2>1. record' \in [Attempt -> Report]
    <3> PICK done \in BOOLEAN : record' = [record EXCEPT ![a].cleaned = done]
      BY <1>24 DEF FinishSuite
    <3> QED
      BY ReportUpdates
  <2>2. raw' \in [Attempt -> Report]
    BY <1>24, <2>1 DEF FinishSuite, RawOf
  <2>3. live' \in [Attempt -> SUBSET {"server", "probe", "browser"}]
    BY <1>24 DEF FinishSuite, CloseBrowser, Loses
  <2> QED
    BY <1>24, <2>1, <2>2, <2>3 DEF FinishSuite, At, adapter, Steps
<1>25. ASSUME NEW a \in Attempt, ProbeExits(a) PROVE TypeOK'
  BY <1>25, BlankReports, FreshEntry, DiagnoseType DEF ProbeExits, adapter, probe, Points, Steps, Verdict, NoReport, Goto, Gains, Loses, OpenBrowser, CloseBrowser, At, Ends, Fresh, Entry
<1>26. ASSUME NEW a \in Attempt, ProbeDies(a) PROVE TypeOK'
  BY <1>26, BlankReports, FreshEntry, DiagnoseType DEF ProbeDies, adapter, probe, Points, Steps, Verdict, NoReport, Goto, Gains, Loses, OpenBrowser, CloseBrowser, At, Ends, Fresh, Entry
<1>27. CASE UNCHANGED vars
  BY <1>27 DEF vars, adapter, probe
<1> QED
  BY <1>1, <1>2, <1>3, <1>4, <1>5, <1>6, <1>7, <1>8, <1>9, <1>10, <1>11, <1>12, <1>13, <1>14, <1>15, <1>16, <1>17, <1>18, <1>19, <1>20, <1>21, <1>22, <1>23, <1>24, <1>25, <1>26, <1>27 DEF Next, AdapterStep, ProbeStep

-----------------------------------------------------------------------------
(* Reports that say only what was observed *)

\* Observing more never makes a report say too much.
LEMMA ObserveMore ==
  ASSUME NEW r, NEW h, NEW h2, NEW b, NEW b2, Truthful(r, h, b), h \subseteq h2, b \subseteq b2
  PROVE  Truthful(r, h2, b2)
  BY DEF Truthful, Earned

\* A report without entries claims nothing.
LEMMA BlankIsTruthful ==
  ASSUME NEW schema, NEW h, NEW b PROVE Truthful(Blank(schema), h, b) /\ Truthful(Blocked, h, b)
  BY ItemsAssumption DEF Truthful, Blank, Blocked

\* An entry that is earned may be added to a truthful report.
LEMMA AppendTruth ==
  ASSUME NEW r \in Report, NEW c \in Entry, NEW h, NEW b, Truthful(r, h, b),
         Len(r.entries) + 1 <= Items, Earned(Len(r.entries) + 1, c, r.schema, h, b)
  PROVE  Truthful([r EXCEPT !.entries = Append(@, c)], h, b)
<1> DEFINE q == [r EXCEPT !.entries = Append(@, c)]
<1>1. q.schema = r.schema /\ q.entries = Append(r.entries, c) /\ r.entries \in Seq(Entry)
  BY DEF Report
<1>2. Len(q.entries) <= Items
  BY <1>1
<1>3. ASSUME NEW i \in DOMAIN q.entries PROVE Earned(i, q.entries[i], q.schema, h, b)
  <2>1. CASE i = Len(r.entries) + 1
    BY <1>1, <2>1
  <2>2. CASE i # Len(r.entries) + 1
    <3>1. i \in DOMAIN r.entries /\ q.entries[i] = r.entries[i]
      BY <1>1, <1>3, <2>2
    <3> QED
      BY <1>1, <3>1 DEF Truthful
  <2> QED
    BY <2>1, <2>2
<1> QED
  BY <1>2, <1>3 DEF Truthful

\* The last words of a report, complete_matrix and the cleanup, claim nothing
\* about an item.
LEMMA LastWordTruth ==
  ASSUME NEW r \in Report, NEW v \in BOOLEAN, NEW h, NEW b, Truthful(r, h, b)
  PROVE  Truthful([r EXCEPT !.complete = v], h, b) /\ Truthful([r EXCEPT !.cleaned = v], h, b)
  BY DEF Truthful, Report

\* A verdict of PASS is about every item of the plan, and for a suite about the cleanup.
LEMMA PassIsAboutAll ==
  ASSUME NEW r \in Report, NEW h \in SUBSET Item, NEW b, Truthful(r, h, b), Diagnose(r) = "PASS"
  PROVE  h = Item /\ AllPass(r) /\ r.schema \in {"dialog", "ui"} /\ (r.schema = "ui" => r.cleaned)
<1>1. AllPassed(r) /\ r.schema \in {"dialog", "ui"} /\ (r.schema = "ui" => r.cleaned)
  BY DEF Diagnose, Summarize, Aggregate, Report
<1>2. DOMAIN r.entries = Item /\ AllPass(r)
  BY <1>1 DEF AllPassed, AllPass, Item, Report
<1> QED
  BY <1>1, <1>2 DEF Truthful, Earned, AllPass

\* A verdict of FAIL rests on an assertion that was seen to fail.
LEMMA FailHasCause ==
  ASSUME NEW r \in Report, NEW h, NEW b, Truthful(r, h, b), Diagnose(r) = "FAIL"
  PROVE  b # {}
<1>1. \E i \in DOMAIN r.entries :
        AssertedFailure(r.entries[i]) \/ (r.schema = "ui" /\ r.entries[i].status = "FAIL")
  <2>1. CASE r.schema = "dialog"
    BY <2>1 DEF Diagnose, Summarize
  <2>2. CASE r.schema = "ui"
    BY <2>2 DEF Diagnose, Aggregate
  <2> QED
    BY <2>1, <2>2 DEF Diagnose
<1> QED
  BY <1>1 DEF Truthful, Earned

-----------------------------------------------------------------------------
(* An attempt has its own directory, processes and report *)

ActionOf(b) == AdapterStep(b) \/ ProbeStep(b) \/ Interrupt(b) \/ KillAdapter(b) \/ ServerDies(b) \/ ProbeDies(b)

AdapterStays(a) ==
  /\ pc'[a] = pc[a] /\ status'[a] = status[a] /\ errors'[a] = errors[a]
  /\ exit'[a] = exit[a] /\ report'[a] = report[a]

ProbeStays(a) ==
  /\ kind'[a] = kind[a] /\ step'[a] = step[a] /\ entry'[a] = entry[a] /\ record'[a] = record[a]
  /\ raw'[a] = raw[a] /\ held'[a] = held[a] /\ broken'[a] = broken[a]

\* A step of one attempt leaves the others as they are.
LEMMA Elsewhere ==
  ASSUME TypeOK, NEW b \in Attempt, ActionOf(b), NEW a \in Attempt, a # b
  PROVE  AdapterStays(a) /\ ProbeStays(a) /\ live'[a] = live[a]
<1> USE DEF TypeOK, AdapterStays, ProbeStays, adapter, probe, Goto, Gains, Loses, OpenBrowser, CloseBrowser, At, RawOf
<1>1. CASE Begin(b)
  BY <1>1 DEF Begin
<1>2. CASE StartServer(b)
  BY <1>2 DEF StartServer
<1>3. CASE AwaitServer(b)
  BY <1>3 DEF AwaitServer
<1>4. CASE StartProbe(b)
  BY <1>4 DEF StartProbe
<1>5. CASE ProbeEnds(b)
  BY <1>5 DEF ProbeEnds
<1>6. CASE ProbeTimesOut(b)
  BY <1>6 DEF ProbeTimesOut
<1>7. CASE TerminateProbe(b)
  BY <1>7 DEF TerminateProbe, AfterProbe, Stays, Ends
<1>8. CASE KillProbe(b)
  BY <1>8 DEF KillProbe, AfterProbe, Stays, Ends
<1>9. CASE Judge(b)
  BY <1>9 DEF Judge
<1>10. CASE StopServer(b)
  BY <1>10 DEF StopServer
<1>11. CASE Publish(b)
  BY <1>11 DEF Publish
<1>12. CASE PublishLatest(b)
  BY <1>12 DEF PublishLatest
<1>13. CASE Interrupt(b)
  BY <1>13 DEF Interrupt
<1>14. CASE KillAdapter(b)
  BY <1>14 DEF KillAdapter
<1>15. CASE ServerDies(b)
  BY <1>15 DEF ServerDies
<1>16. CASE OpenDialog(b)
  BY <1>16 DEF OpenDialog
<1>17. CASE Respond(b)
  BY <1>17 DEF Respond
<1>18. CASE CompareOutcome(b)
  BY <1>18 DEF CompareOutcome, Observe
<1>19. CASE CaseFails(b)
  BY <1>19 DEF CaseFails
<1>20. CASE EndCase(b)
  BY <1>20 DEF EndCase
<1>21. CASE FinishMatrix(b)
  BY <1>21 DEF FinishMatrix
<1>22. CASE Cancelled(b)
  BY <1>22 DEF Cancelled, Ends
<1>23. CASE RunCheck(b)
  BY <1>23 DEF RunCheck, Observe
<1>24. CASE FinishSuite(b)
  BY <1>24 DEF FinishSuite
<1>25. CASE ProbeExits(b)
  BY <1>25 DEF ProbeExits, Ends
<1>26. CASE ProbeDies(b)
  BY <1>26 DEF ProbeDies, Ends
<1> QED
  BY <1>1, <1>2, <1>3, <1>4, <1>5, <1>6, <1>7, <1>8, <1>9, <1>10, <1>11, <1>12, <1>13, <1>14, <1>15, <1>16, <1>17, <1>18, <1>19, <1>20, <1>21, <1>22, <1>23, <1>24, <1>25, <1>26 DEF ActionOf, AdapterStep, ProbeStep

\* An attempt to which nothing happens keeps what is known of it.
LEMMA NothingHappens ==
  ASSUME NEW a \in Attempt, AdapterStays(a), ProbeStays(a), live'[a] = live[a], ProbeInv(a), AdapterInv(a)
  PROVE  ProbeInv(a)' /\ AdapterInv(a)'
  BY DEF AdapterStays, ProbeStays, ProbeInv, AdapterInv, Number

-----------------------------------------------------------------------------
(* The steps of one attempt *)

\* A probe that ended without success leaves nothing that the invariant speaks of.
LEMMA ProbeGone ==
  ASSUME TypeOK, TypeOK', NEW a \in Attempt, ProbeInv(a), "probe" \in live[a],
         NEW how \in {"failed", "killed"}, Ends(a, how),
         live'[a] \subseteq live[a], pc'[a] \notin {"idle", "server", "waiting", "probe"},
         raw'[a] \in {raw[a], Blocked}, UNCHANGED <<held, broken, kind>>
  PROVE  ProbeInv(a)'
<1>1. step'[a] = how /\ record'[a] = Blank("none") /\ entry'[a] = Fresh
  BY DEF Ends, TypeOK
<1>2. Truthful(record'[a], held[a], broken[a]) /\ Truthful(raw'[a], held[a], broken[a])
  BY <1>1, BlankIsTruthful DEF ProbeInv
<1>3. ~record'[a].cleaned /\ entry'[a].status = "OTHER"
  BY <1>1 DEF Blank, Fresh
<1> QED
  BY <1>1, <1>2, <1>3 DEF ProbeInv

\* Each step of an attempt keeps what is known of it: one step of the proof per
\* action.
LEMMA OwnStep ==
  ASSUME VerdictInv, TypeOK', NEW a \in Attempt, ActionOf(a)
  PROVE  ProbeInv(a)' /\ AdapterInv(a)'
<1> TypeOK /\ ProbeInv(a) /\ AdapterInv(a)
  BY DEF VerdictInv
<1> USE DEF TypeOK, ProbeInv, AdapterInv, adapter, probe, Goto, Gains, Loses, OpenBrowser, CloseBrowser, At, Active, Number, Over
<1>1. CASE Begin(a)
  BY <1>1, BlankIsTruthful, ObserveMore DEF Begin
<1>2. CASE StartServer(a)
  BY <1>2, BlankIsTruthful, ObserveMore DEF StartServer
<1>3. CASE AwaitServer(a)
  BY <1>3, BlankIsTruthful, ObserveMore DEF AwaitServer
<1>4. CASE StartProbe(a)
  <2>1. CASE "probe" \in live'[a]
    <3>1. pc'[a] = "probing" /\ step'[a] = "case" /\ record'[a] = Blank(kind[a]) /\ live'[a] \subseteq {"server", "probe"}
      BY <1>4, <2>1 DEF StartProbe
    <3>2. Truthful(record'[a], held[a], broken[a])
      BY <3>1, BlankIsTruthful
    <3>3. record'[a].schema = kind[a] /\ ~record'[a].cleaned /\ Len(record'[a].entries) = 0
      BY <3>1 DEF Blank
    <3>4. Number(a)' <= Items
      BY <3>3, ItemsAssumption
    <3> QED
      BY <1>4, <3>1, <3>2, <3>3, <3>4 DEF StartProbe
  <2>2. CASE "probe" \notin live'[a]
    BY <1>4, <2>2 DEF StartProbe
  <2> QED
    BY <2>1, <2>2
<1>5. CASE ProbeEnds(a)
  BY <1>5, BlankIsTruthful, ObserveMore DEF ProbeEnds
<1>6. CASE ProbeTimesOut(a)
  BY <1>6, BlankIsTruthful, ObserveMore DEF ProbeTimesOut
<1>7. CASE TerminateProbe(a)
  <2>1. CASE "probe" \notin live[a] \/ kind[a] = "dialog"
    BY <1>7, <2>1 DEF TerminateProbe, AfterProbe, Stays
  <2>2. CASE "probe" \in live[a] /\ kind[a] # "dialog"
    <3>1. Ends(a, "killed") /\ live'[a] \subseteq live[a] /\ pc'[a] = "killing"
      BY <1>7, <2>2 DEF TerminateProbe
    <3> QED
      BY <1>7, <2>2, <3>1, ProbeGone DEF TerminateProbe
  <2> QED
    BY <2>1, <2>2
<1>8. CASE KillProbe(a)
  <2>1. CASE "probe" \notin live[a]
    BY <1>8, <2>1 DEF KillProbe, AfterProbe, Stays
  <2>2. CASE "probe" \in live[a]
    <3>1. Ends(a, "killed") /\ live'[a] \subseteq live[a] /\ pc'[a] \in {"closing", "judging"}
      BY <1>8, <2>2 DEF KillProbe, AfterProbe
    <3>2. errors[a] => errors'[a]
      BY <1>8, <2>2 DEF KillProbe
    <3> QED
      BY <1>8, <2>2, <3>1, <3>2, ProbeGone DEF KillProbe
  <2> QED
    BY <2>1, <2>2
<1>9. CASE Judge(a)
  <2>1. Judged(a) = "PASS" => exit[a] = "zero"
    BY DEF Judged
  <2>2. Judged(a) = "FAIL" => broken[a] # {}
    BY FailHasCause DEF Judged, RawOf
  <2> QED
    BY <1>9, <2>1, <2>2 DEF Judge
<1>10. CASE StopServer(a)
  BY <1>10, BlankIsTruthful, ObserveMore DEF StopServer
<1>11. CASE Publish(a)
  BY <1>11, BlankIsTruthful, ObserveMore DEF Publish
<1>12. CASE PublishLatest(a)
  BY <1>12, BlankIsTruthful, ObserveMore DEF PublishLatest
<1>13. CASE Interrupt(a)
  BY <1>13, BlankIsTruthful, ObserveMore DEF Interrupt
<1>14. CASE KillAdapter(a)
  BY <1>14, BlankIsTruthful, ObserveMore DEF KillAdapter
<1>15. CASE ServerDies(a)
  BY <1>15, BlankIsTruthful, ObserveMore DEF ServerDies
<1>16. CASE OpenDialog(a)
  <2>1. step'[a] = "respond" /\ entry'[a].status = "OTHER" /\ "probe" \in live[a]
    BY <1>16 DEF OpenDialog, Fresh
  <2>2. ProbeInv(a)'
    BY <1>16, <2>1 DEF OpenDialog
  <2> QED
    BY <1>16, <2>1, <2>2 DEF OpenDialog
<1>17. CASE Respond(a)
  <2>1. step'[a] = "outcome" /\ entry'[a].status = entry[a].status
    BY <1>17 DEF Respond, Entry
  <2>2. ProbeInv(a)'
    BY <1>17, <2>1 DEF Respond
  <2> QED
    BY <1>17, <2>1, <2>2 DEF Respond
<1>18. CASE CompareOutcome(a)
  <2> PICK asExpected \in BOOLEAN :
        /\ entry' = [entry EXCEPT ![a].status = IF entry[a].answered /\ ~entry[a].early /\ asExpected THEN "PASS" ELSE "FAIL"]
        /\ IF entry[a].answered /\ ~entry[a].early THEN Observe(a, Number(a), asExpected) ELSE UNCHANGED <<held, broken>>
    BY <1>18 DEF CompareOutcome
  <2>1. held[a] \subseteq held'[a] /\ broken[a] \subseteq broken'[a]
    BY DEF Observe
  <2>2. Earned(Number(a), entry'[a], "dialog", held'[a], broken'[a])
    <3>1. CASE entry[a].answered /\ ~entry[a].early
      <4>1. asExpected => Number(a) \in held'[a]
        BY <3>1 DEF Observe
      <4>2. ~asExpected => Number(a) \in broken'[a]
        BY <3>1 DEF Observe
      <4> QED
        BY <3>1, <4>1, <4>2 DEF Earned, AssertedFailure, Entry
    <3>2. CASE ~(entry[a].answered /\ ~entry[a].early)
      BY <3>2 DEF Earned, AssertedFailure, Entry
    <3> QED
      BY <3>1, <3>2
  <2>3. Truthful(record[a], held'[a], broken'[a]) /\ Truthful(raw[a], held'[a], broken'[a])
    BY <2>1, ObserveMore
  <2>4. step[a] = "outcome" /\ "probe" \in live[a] /\ step'[a] = "clean" /\ UNCHANGED <<kind, live, record, raw>>
    BY <1>18 DEF CompareOutcome
  <2>5. ProbeInv(a)'
    BY <1>18, <2>2, <2>3, <2>4 DEF CompareOutcome
  <2>6. AdapterInv(a)'
    BY <1>18, <2>1, <2>4 DEF CompareOutcome
  <2> QED
    BY <2>5, <2>6
<1>19. CASE CaseFails(a)
  <2>1. Earned(Number(a), entry[a], "dialog", held[a], broken[a])
    BY <1>19 DEF CaseFails, Earned, AssertedFailure
  <2> QED
    BY <1>19, <2>1 DEF CaseFails
<1>20. CASE EndCase(a)
  <2> PICK done \in BOOLEAN :
        LET case == [entry[a] EXCEPT !.status = IF ~done /\ @ = "PASS" THEN "OTHER" ELSE @]
        IN /\ CloseBrowser(a, done)
           /\ record' = [record EXCEPT ![a].entries = Append(@, case)]
           /\ At(a, IF termed[a] \/ case.status # "PASS" \/ Number(a) = Items THEN "finish" ELSE "case")
    BY <1>20 DEF EndCase
  <2> DEFINE case == [entry[a] EXCEPT !.status = IF ~done /\ @ = "PASS" THEN "OTHER" ELSE @]
  <2>1. case \in Entry /\ (case.status = "PASS" => done /\ entry[a].status = "PASS")
    <3>1. entry[a] \in Entry
      OBVIOUS
    <3>2. case.status = IF ~done /\ entry[a].status = "PASS" THEN "OTHER" ELSE entry[a].status
      BY <3>1 DEF Entry
    <3>3. case \in Entry
      BY <3>1 DEF Entry
    <3> QED
      BY <3>2, <3>3
  <2>2. Earned(Number(a), case, "dialog", held[a], broken[a])
    BY <1>20 DEF EndCase, Earned, AssertedFailure, Entry
  <2>3. "probe" \in live[a] /\ step[a] = "clean" /\ entry'[a] = Fresh /\ UNCHANGED <<adapter, held, broken, kind>>
    BY <1>20 DEF EndCase
  <2>4. record'[a] = [record[a] EXCEPT !.entries = Append(@, case)] /\ raw'[a] = record'[a]
    BY <1>20 DEF EndCase, RawOf
  <2> HIDE DEF case
  <2>5. Truthful(record'[a], held[a], broken[a])
    <3>1. record[a] \in Report /\ Truthful(record[a], held[a], broken[a])
      OBVIOUS
    <3>2. Earned(Len(record[a].entries) + 1, case, record[a].schema, held[a], broken[a])
      BY <2>2, <2>3
    <3>3. Len(record[a].entries) + 1 <= Items
      BY <2>3
    <3> HIDE DEF TypeOK, ProbeInv, AdapterInv
    <3> QED
      BY <2>1, <2>4, <3>1, <3>2, <3>3, AppendTruth
  <2>6. /\ record'[a].schema = record[a].schema /\ record'[a].cleaned = record[a].cleaned
        /\ record'[a].entries = Append(record[a].entries, case) /\ record[a].entries \in Seq(Entry)
    BY <2>4 DEF Report
  <2>7. AllPass(record'[a]) => case.status = "PASS"
    <3>1. Number(a) \in DOMAIN record'[a].entries /\ record'[a].entries[Number(a)] = case
      BY <2>6
    <3> QED
      BY <3>1, Zenon DEF AllPass
  <2>8. AllPass(record'[a]) => "browser" \notin live'[a]
    <3>1. done => "browser" \notin live'[a]
      BY DEF CloseBrowser, Loses
    <3> QED
      BY <2>1, <2>7, <3>1
  <2>9. live'[a] \subseteq live[a] /\ step'[a] \in {"case", "finish"}
    BY DEF CloseBrowser, Loses, At
  <2>10. step'[a] = "case" => Number(a)' <= Items
    <3>1. step'[a] = "case" => Number(a) # Items
      BY DEF At
    <3>2. Number(a)' = Number(a) + 1 /\ Number(a) \in Nat
      BY <2>6
    <3> QED
      BY <2>3, <3>1, <3>2, ItemsAssumption
  <2>11. ProbeInv(a)'
    BY <2>3, <2>4, <2>5, <2>6, <2>8, <2>9, <2>10 DEF Fresh
  <2>12. AdapterInv(a)'
    BY <2>3, <2>9
  <2> QED
    BY <2>11, <2>12
<1>21. CASE FinishMatrix(a)
  <2>1. PICK v \in BOOLEAN : record' = [record EXCEPT ![a].complete = v]
    BY <1>21 DEF FinishMatrix, AllPassed
  <2>2. record'[a] = [record[a] EXCEPT !.complete = v]
    BY <2>1
  <2>3. Truthful(record'[a], held[a], broken[a])
    <3>1. record[a] \in Report /\ Truthful(record[a], held[a], broken[a])
      OBVIOUS
    <3> HIDE DEF TypeOK, ProbeInv, AdapterInv
    <3>2. v \in BOOLEAN
      BY <2>1
    <3>3. Truthful([record[a] EXCEPT !.complete = v], held[a], broken[a])
      BY <3>1, <3>2, LastWordTruth, Zenon
    <3> QED
      BY <2>2, <3>3
  <2>4. record'[a].schema = record[a].schema /\ record'[a].entries = record[a].entries /\ record'[a].cleaned = record[a].cleaned
    BY <2>2 DEF Report
  <2>5. AllPass(record'[a]) <=> AllPass(record[a])
    BY <2>4 DEF AllPass
  <2>6. raw'[a] = record'[a] /\ step'[a] = "exit" /\ UNCHANGED <<kind, live, entry, held, broken>>
    BY <1>21 DEF FinishMatrix, RawOf
  <2>7. ProbeInv(a)'
    BY <1>21, <2>3, <2>4, <2>5, <2>6 DEF FinishMatrix
  <2>8. AdapterInv(a)'
    BY <1>21, <2>6 DEF FinishMatrix
  <2> QED
    BY <2>7, <2>8
<1>22. CASE Cancelled(a)
  <2>1. live'[a] \subseteq live[a]
    <3> PICK left \in SUBSET (live[a] \intersect {"browser"}) :
          live' = [live EXCEPT ![a] = (@ \intersect {"server"}) \union left]
      BY <1>22 DEF Cancelled
    <3>1. live'[a] = (live[a] \intersect {"server"}) \union left
      OBVIOUS
    <3> QED
      BY <3>1
  <2>2. raw'[a] = Blocked /\ Ends(a, "failed") /\ "probe" \in live[a]
    BY <1>22 DEF Cancelled, RawOf
  <2> QED
    BY <1>22, <2>1, <2>2, ProbeGone DEF Cancelled
<1>23. CASE RunCheck(a)
  <2> PICK outcome \in {"PASS", "FAIL", "OTHER", "NOT_RUN"} :
        /\ record' = [record EXCEPT ![a].entries = Append(@, [Fresh EXCEPT !.status = outcome])]
        /\ IF outcome \in {"PASS", "FAIL"} THEN Observe(a, Number(a), outcome = "PASS")
                                           ELSE UNCHANGED <<held, broken>>
        /\ IF Number(a) = 1 THEN OpenBrowser(a) ELSE UNCHANGED live
    BY <1>23 DEF RunCheck
  <2> DEFINE c == [Fresh EXCEPT !.status = outcome]
  <2>1. c \in Entry /\ c.status = outcome
    BY DEF Fresh, Entry
  <2>2. held[a] \subseteq held'[a] /\ broken[a] \subseteq broken'[a]
    BY DEF Observe
  <2>3. Earned(Number(a), c, "ui", held'[a], broken'[a])
    <3>1. (outcome = "PASS" => Number(a) \in held'[a]) /\ (outcome = "FAIL" => Number(a) \in broken'[a])
      BY DEF Observe
    <3> QED
      BY <2>1, <3>1 DEF Earned, AssertedFailure
  <2>4. /\ "probe" \in live[a] /\ kind[a] = "ui" /\ step[a] = "case" /\ Number(a) <= Items
        /\ UNCHANGED <<adapter, step, entry, kind>>
    BY <1>23 DEF RunCheck
  <2>5. record'[a] = [record[a] EXCEPT !.entries = Append(@, c)] /\ raw'[a] = record'[a]
    BY <1>23 DEF RunCheck, RawOf
  <2>6. Truthful(record[a], held'[a], broken'[a])
    BY <2>2, ObserveMore
  <2>7. Truthful(record'[a], held'[a], broken'[a])
    <3>1. record[a] \in Report
      OBVIOUS
    <3>2. Earned(Len(record[a].entries) + 1, c, record[a].schema, held'[a], broken'[a])
      BY <2>3, <2>4
    <3>3. Len(record[a].entries) + 1 <= Items
      BY <2>4
    <3> HIDE DEF TypeOK, ProbeInv, AdapterInv, c
    <3> QED
      BY <2>1, <2>5, <2>6, <3>1, <3>2, <3>3, AppendTruth
  <2>8. record'[a].schema = record[a].schema /\ record'[a].cleaned = record[a].cleaned
    BY <2>5 DEF Report
  <2>9. ProbeInv(a)'
    BY <2>4, <2>5, <2>7, <2>8
  <2>10. AdapterInv(a)'
    BY <2>2, <2>4
  <2> QED
    BY <2>9, <2>10
<1>24. CASE FinishSuite(a)
  <2> PICK done \in BOOLEAN :
        /\ CloseBrowser(a, done)
        /\ record' = [record EXCEPT ![a].cleaned = done]
    BY <1>24 DEF FinishSuite
  <2>1. record'[a] = [record[a] EXCEPT !.cleaned = done] /\ raw'[a] = record'[a]
    BY <1>24 DEF FinishSuite, RawOf
  <2>2. Truthful(record'[a], held[a], broken[a])
    BY <2>1, LastWordTruth
  <2>3. record'[a].schema = record[a].schema /\ record'[a].cleaned = done
    BY <2>1 DEF Report
  <2>4. live'[a] \subseteq live[a] /\ (done => "browser" \notin live'[a])
    BY DEF CloseBrowser, Loses
  <2>5. /\ "probe" \in live[a] /\ kind[a] = "ui" /\ step[a] = "case" /\ step'[a] = "exit"
        /\ UNCHANGED <<adapter, entry, held, broken, kind>>
    BY <1>24 DEF FinishSuite
  <2>6. ProbeInv(a)'
    BY <2>1, <2>2, <2>3, <2>4, <2>5
  <2>7. AdapterInv(a)'
    BY <2>4, <2>5
  <2> QED
    BY <2>6, <2>7
<1>25. CASE ProbeExits(a)
  <2>1. live'[a] = live[a] \ {"probe"} /\ "probe" \in live[a] /\ step[a] = "exit" /\ UNCHANGED <<adapter, raw, held, broken, kind>>
    BY <1>25 DEF ProbeExits
  <2>2. record'[a] = Blank("none") /\ entry'[a] = Fresh /\ step'[a] \in {"passed", "failed"}
    BY <1>25 DEF ProbeExits, Ends
  <2>3. step'[a] = "passed" => Diagnose(record[a]) = "PASS"
    BY <1>25 DEF ProbeExits, Ends
  <2>4. step'[a] = "passed" => held[a] = Item /\ "browser" \notin live[a]
    BY <2>1, <2>3, PassIsAboutAll
  <2>5. Truthful(record'[a], held[a], broken[a]) /\ ~record'[a].cleaned /\ entry'[a].status = "OTHER"
    BY <2>2, BlankIsTruthful DEF Blank, Fresh
  <2>6. ProbeInv(a)'
    BY <2>1, <2>2, <2>4, <2>5
  <2>7. AdapterInv(a)'
    BY <2>1, <2>2
  <2> QED
    BY <2>6, <2>7
<1>26. CASE ProbeDies(a)
  <2>1. live'[a] \subseteq live[a] /\ Ends(a, "killed") /\ "probe" \in live[a]
    BY <1>26 DEF ProbeDies
  <2> QED
    BY <1>26, <2>1, ProbeGone DEF ProbeDies
<1> QED
  BY <1>1, <1>2, <1>3, <1>4, <1>5, <1>6, <1>7, <1>8, <1>9, <1>10, <1>11, <1>12, <1>13, <1>14, <1>15, <1>16, <1>17, <1>18, <1>19, <1>20, <1>21, <1>22, <1>23, <1>24, <1>25, <1>26 DEF ActionOf, AdapterStep, ProbeStep

-----------------------------------------------------------------------------
(* The theorems *)

\* The invariant holds before the first attempt.
LEMMA VerdictStart == Init => VerdictInv
<1> SUFFICES ASSUME Init PROVE VerdictInv
  OBVIOUS
<1>1. ASSUME NEW a \in Attempt PROVE ProbeInv(a)
  BY BlankIsTruthful DEF Init, ProbeInv, Blank, Fresh
<1>2. ASSUME NEW a \in Attempt PROVE AdapterInv(a)
  BY DEF Init, AdapterInv, NoReport
<1> QED
  BY <1>1, <1>2, TypeInit DEF VerdictInv

\* Every step keeps the invariant: the attempt that acts by OwnStep, the others by
\* Elsewhere.
LEMMA VerdictKept == VerdictInv /\ [Next]_vars => VerdictInv'
<1> SUFFICES ASSUME VerdictInv, [Next]_vars PROVE VerdictInv'
  OBVIOUS
<1>1. TypeOK /\ TypeOK'
  BY TypeStep DEF VerdictInv
<1>2. CASE Next
  <2> PICK b \in Attempt : ActionOf(b)
    BY <1>2 DEF Next, ActionOf
  <2>1. ASSUME NEW a \in Attempt PROVE ProbeInv(a)' /\ AdapterInv(a)'
    <3>1. CASE a = b
      BY <1>1, <3>1, OwnStep
    <3>2. CASE a # b
      <4>1. AdapterStays(a) /\ ProbeStays(a) /\ live'[a] = live[a]
        BY <1>1, <3>2, Elsewhere
      <4> QED
        BY <4>1, NothingHappens DEF VerdictInv
    <3> QED
      BY <3>1, <3>2
  <2> QED
    BY <1>1, <2>1 DEF VerdictInv
<1>3. CASE UNCHANGED vars
  <2>1. ASSUME NEW a \in Attempt PROVE ProbeInv(a)' /\ AdapterInv(a)'
    <3>1. AdapterStays(a) /\ ProbeStays(a) /\ live'[a] = live[a]
      BY <1>3 DEF vars, adapter, probe, AdapterStays, ProbeStays
    <3> QED
      BY <3>1, NothingHappens DEF VerdictInv
  <2> QED
    BY <1>1, <2>1 DEF VerdictInv
<1> QED
  BY <1>2, <1>3

\* The invariant of the verdicts holds throughout.
LEMMA VerdictHolds == Spec => []VerdictInv
  BY VerdictStart, VerdictKept, PTL DEF Spec

\* A published PASS (browser_runtime_adapter.run) is about this attempt: its probe
\* ended by itself with exit code 0, saw every item hold, and left nothing behind.
THEOREM PassConfirmed == Spec => []PassIsConfirmed
<1>1. VerdictInv => PassIsConfirmed
  BY DEF VerdictInv, PassIsConfirmed, ProbeInv, AdapterInv
<1> QED
  BY <1>1, VerdictHolds, PTL

\* A published FAIL (managed_dialog_evidence.summarize, ui_runtime.suite.aggregate)
\* rests on an assertion that this attempt's own probe executed and saw fail.
THEOREM FailObserved == Spec => []FailIsObserved
<1>1. VerdictInv => FailIsObserved
  BY DEF VerdictInv, FailIsObserved, AdapterInv
<1> QED
  BY <1>1, VerdictHolds, PTL

=============================================================================
