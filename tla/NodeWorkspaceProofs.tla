-------------------------- MODULE NodeWorkspaceProofs --------------------------
(***************************************************************************)
(* What the isolated Node workspace promises, for any number of sessions,  *)
(* edits and failures: modules that are called ready were restored for the *)
(* files beside them, and a command runs on what the gate has seen, except *)
(* where the properties say that others come between.                      *)
(***************************************************************************)
EXTENDS NodeWorkspace, TLAPS

Job == [op: Ops \union {"none"}, left: SUBSET File, lockfile: BOOLEAN,
        plan: 0..MaxEdits, ready: BOOLEAN, edited: BOOLEAN, crossed: BOOLEAN]

\* A session without a job has the empty one.
LEMMA NoJobTyped == NoJob \in Job
  BY EditAssumption DEF NoJob, Job

\* Noting that sessions crossed keeps the jobs well formed.
LEMMA CrossingTyped ==
  ASSUME NEW s \in Session, NEW jobs \in [Session -> Job], NEW disturbs \in BOOLEAN
  PROVE  Crossing(s, jobs, disturbs) \in [Session -> Job]
  BY DEF Crossing, Job

\* Whatever happens to the modules, what is noted of it is well formed.
LEMMA MishapTyped ==
  ASSUME TypeOK, NEW m \in Mishaps
  PROVE  Mishap(m) \in SUBSET Mishaps
  BY DEF Mishap, Mishaps, TypeOK

\* Removing modules keeps the types.
LEMMA RemovalTyped ==
  ASSUME TypeOK, NEW s \in Session, NEW rest \in {NoModules, Partial}, Removes(s, rest)
  PROVE  /\ job' \in [Session -> Job] /\ astray' \in SUBSET Mishaps
         /\ modules' \in {NoModules, Partial} \union [state: {"whole"}, of: Package]
         /\ UNCHANGED <<source, isolated, marker, lock, edits>>
<1>1. PICK disturbs \in BOOLEAN : job' = Crossing(s, job, disturbs)
  BY DEF Removes
<1>2. job' \in [Session -> Job]
  BY <1>1, CrossingTyped DEF TypeOK, Job
<1>3. "crossed" \in Mishaps /\ "lost" \in Mishaps
  BY DEF Mishaps
<1>4. Mishap("crossed") \in SUBSET Mishaps /\ Mishap("lost") \in SUBSET Mishaps
  BY <1>3, MishapTyped
<1>5. astray' \in {astray, Mishap("crossed"), Mishap("lost")}
  BY DEF Removes
<1> QED
  BY <1>2, <1>4, <1>5 DEF Removes, TypeOK

\* A new version of one file.
LEMMA Rewritten ==
  ASSUME TypeOK, NEW f \in File, NEW t \in Package, NEW c \in Content(f)
  PROVE  [t EXCEPT ![f] = c] \in Package
<1>1. c \in UNION {Content(g) : g \in File}
  OBVIOUS
<1> QED
  BY <1>1 DEF Package

\* The package as it is at first is one.
LEMMA InitialTyped == [f \in File |-> Initial(f)] \in Package
<1>1. ASSUME NEW f \in File PROVE Initial(f) \in Content(f)
  BY EditAssumption DEF Initial, Content, Usual, Kinds, File
<1> QED
  BY <1>1 DEF Package

\* Every step keeps the types and the order of the steps.
LEMMA TypeStep == TypeOK /\ [Next]_vars => TypeOK'
<1> SUFFICES ASSUME TypeOK, [Next]_vars PROVE TypeOK'
  OBVIOUS
<1>0. pc \in [Session -> Where] /\ job \in [Session -> Job]
  BY DEF TypeOK, Job
<1> USE DEF Goto, Looks
<1>1. ASSUME NEW s \in Session, End(s) PROVE pc' \in [Session -> Where] /\ job' \in [Session -> Job] /\ lock' \in Session \union {NoSession}
  BY <1>0, <1>1, NoJobTyped DEF End, Where, TypeOK
<1>2. ASSUME NEW s \in Session, NEW op \in Ops, Begin(s, op) PROVE TypeOK'
  <2>1. PICK left \in SUBSET File : job' = [job EXCEPT ![s].op = op, ![s].left = left]
    BY <1>2 DEF Begin
  <2>2. job' \in [Session -> Job]
    <3>1. [job[s] EXCEPT !.op = op, !.left = left] \in Job
      BY <1>0 DEF Job
    <3>2. job' = [job EXCEPT ![s] = [job[s] EXCEPT !.op = op, !.left = left]]
      BY <1>0, <2>1 DEF Job
    <3> QED
      BY <1>0, <3>1, <3>2
  <2>3. pc' \in [Session -> Where]
    BY <1>0, <1>2 DEF Begin, Where
  <2> QED
    BY <1>2, <2>2, <2>3 DEF Begin, TypeOK, Job
<1>3. ASSUME NEW s \in Session, PassGate(s) PROVE TypeOK'
  <2>1. (job[s].op = "preflight" /\ LockfilePresent(source)) \in BOOLEAN
    BY DEF LockfilePresent
  <2>2. job' \in [Session -> Job]
    BY <1>0, <1>3, <2>1 DEF PassGate, Job
  <2>3. pc' \in [Session -> Where]
    BY <1>0, <1>3 DEF PassGate, Where
  <2> QED
    BY <1>3, <2>2, <2>3 DEF PassGate, TypeOK, Job
<1>4. ASSUME NEW s \in Session, \/ Blocked(s) \/ LockTimesOut(s) \/ BuildsRefused(s)
                                \/ PreflightEnds(s) \/ SyncEnds(s) \/ Refuse(s) PROVE TypeOK'
  BY <1>4, <1>1 DEF Blocked, LockTimesOut, BuildsRefused, PreflightEnds, SyncEnds, Refuse, TypeOK, Job
<1>5. ASSUME NEW s \in Session, MarkRestored(s) \/ MarkRefused(s) PROVE TypeOK'
  BY <1>5, <1>1 DEF MarkRestored, MarkRefused, TypeOK, Job, Mishaps
<1>6. ASSUME NEW s \in Session, CommandEnds(s) \/ CommandTimesOut(s) \/ Abandon(s) PROVE TypeOK'
  BY <1>6, <1>1 DEF CommandEnds, CommandTimesOut, Abandon, TypeOK, Job
<1>7. ASSUME NEW s \in Session, LockWorkspace(s) \/ Allow(s) PROVE TypeOK'
  BY <1>7 DEF LockWorkspace, Allow, TypeOK, Where
<1>8. ASSUME NEW s \in Session, NEW f \in File, CopyFile(s, f) PROVE TypeOK'
  <2>1. source[f] \in Content(f)
    BY DEF TypeOK, Package
  <2>2. isolated' \in Package
    BY <1>8, <2>1, Rewritten DEF CopyFile, TypeOK
  <2>3. [job EXCEPT ![s].left = @ \ {f}] \in [Session -> Job]
    BY <1>0 DEF Job
  <2>4. job' \in [Session -> Job]
    BY <1>8, <2>3, CrossingTyped DEF CopyFile
  <2> QED
    BY <1>8, <2>2, <2>4 DEF CopyFile, TypeOK, Job
<1>9. ASSUME NEW s \in Session, RemoveSome(s) \/ RemoveRest(s) PROVE TypeOK'
  <2>1. PICK rest \in {NoModules, Partial} : Removes(s, rest)
    BY <1>9 DEF RemoveSome, RemoveRest
  <2>2. pc' \in [Session -> Where]
    BY <1>0, <1>9 DEF RemoveSome, RemoveRest, Where
  <2> QED
    BY <2>1, <2>2, RemovalTyped DEF TypeOK, Job
<1>10. ASSUME NEW s \in Session, Assess(s) \/ AskForInstall(s) \/ AskForRestore(s) \/ RunCommand(s) PROVE TypeOK'
  <2>1. Ready \in BOOLEAN
    BY DEF Ready
  <2>2. ASSUME Assess(s) PROVE job' \in [Session -> Job]
    BY <1>0, <2>1, <2>2 DEF Assess, Job
  <2>3. ASSUME AskForInstall(s) \/ AskForRestore(s) PROVE job' \in [Session -> Job]
    <3>1. [job[s] EXCEPT !.ready = FALSE, !.lockfile = FALSE] \in Job /\ [job[s] EXCEPT !.lockfile = FALSE] \in Job
      BY <1>0 DEF Job
    <3>2. \/ job' = [job EXCEPT ![s] = [job[s] EXCEPT !.ready = FALSE, !.lockfile = FALSE]]
          \/ job' = [job EXCEPT ![s] = [job[s] EXCEPT !.lockfile = FALSE]]
      BY <1>0, <2>3 DEF AskForInstall, AskForRestore, Job
    <3> QED
      BY <1>0, <3>1, <3>2
  <2>4. ASSUME RunCommand(s) PROVE job' \in [Session -> Job]
    <3>1. [NoJob EXCEPT !.op = "verify"] \in Job
      BY NoJobTyped DEF Job, Ops
    <3> QED
      BY <1>0, <2>4, <3>1 DEF RunCommand
  <2>5. pc' \in [Session -> Where]
    BY <1>0, <1>10 DEF Assess, AskForInstall, AskForRestore, RunCommand, Where
  <2> QED
    BY <1>10, <2>2, <2>3, <2>4, <2>5 DEF Assess, AskForInstall, AskForRestore, RunCommand, TypeOK, Job
<1>11. ASSUME NEW s \in Session, Scan(s) PROVE TypeOK'
  <2>1. pc' \in [Session -> Where] /\ job' \in [Session -> Job] /\ lock' \in Session \union {NoSession}
    BY <1>0, <1>1, <1>11 DEF Scan, TypeOK, Where
  <2> QED
    BY <1>11, <2>1 DEF Scan, TypeOK, Job
<1>12. ASSUME NEW jobs \in [Session -> Job], NEW back \in BOOLEAN, Unseen(jobs, back)
       PROVE  job' \in [Session -> Job] /\ astray' \in SUBSET Mishaps
  <2>1. job' \in [Session -> Job]
    BY <1>12 DEF Unseen, Job
  <2>2. Mishap("back") \in SUBSET Mishaps
    BY MishapTyped DEF Mishaps
  <2> QED
    BY <1>12, <2>1, <2>2 DEF Unseen, TypeOK
<1>13. ASSUME NEW s \in Session, AddPackage(s) PROVE TypeOK'
  <2>1. edits' \in 0..MaxEdits
    BY <1>13, EditAssumption DEF AddPackage, TypeOK
  <2>2. [job EXCEPT ![s] = NoJob] \in [Session -> Job]
    BY <1>0, NoJobTyped
  <2>3. job' \in [Session -> Job] /\ astray' \in SUBSET Mishaps
    BY <1>12, <1>13, <2>2 DEF AddPackage
  <2>4. source' \in Package
    <3> DEFINE m == [id |-> edits', kind |-> IF DeclaresToolchain(source) THEN "dependent" ELSE "undeclared"]
               l == [id |-> edits', kind |-> "present"]
    <3>1. m \in Content("manifest") /\ l \in Content("lockfile")
      BY <2>1 DEF Content, Kinds, File
    <3>2. "manifest" \in File /\ "lockfile" \in File /\ source \in Package
      BY DEF File, TypeOK
    <3>3. source' = [source EXCEPT !["manifest"] = m, !["lockfile"] = l]
      BY <1>13 DEF AddPackage
    <3> HIDE DEF m, l
    <3>4. [source EXCEPT !["manifest"] = m] \in Package
      BY <3>1, <3>2, Rewritten
    <3>5. [[source EXCEPT !["manifest"] = m] EXCEPT !["lockfile"] = l] \in Package
      BY <3>1, <3>2, <3>4, Rewritten
    <3> QED
      BY <3>3, <3>5
  <2> QED
    BY <1>13, <2>1, <2>3, <2>4 DEF AddPackage, Unseen, TypeOK, Job, Where
<1>14. ASSUME NEW s \in Session, PlanBuilds(s) PROVE TypeOK'
  <2>1. source["policy"].id \in 0..MaxEdits
    BY DEF TypeOK, Package, Content, File
  <2>2. job' \in [Session -> Job]
    BY <1>0, <1>14, <2>1 DEF PlanBuilds, Job
  <2> QED
    BY <1>14, <2>2 DEF PlanBuilds, TypeOK, Job, Where
<1>15. ASSUME NEW s \in Session, DecideBuilds(s) PROVE TypeOK'
  <2>1. [job EXCEPT ![s] = NoJob] \in [Session -> Job] /\ job[s].plan \in 0..MaxEdits
    BY <1>0, NoJobTyped DEF Job
  <2>2. job' \in [Session -> Job] /\ astray' \in SUBSET Mishaps
    BY <1>12, <1>15, <2>1 DEF DecideBuilds
  <2>3. [id |-> job[s].plan, kind |-> "reviewed"] \in Content("policy") /\ "policy" \in File
    BY <2>1 DEF Content, Kinds, File
  <2>4. source' \in Package
    BY <1>15, <2>3, Rewritten DEF DecideBuilds, TypeOK
  <2> QED
    BY <1>15, <2>2, <2>4 DEF DecideBuilds, Unseen, TypeOK, Job, Where
<1>16. ASSUME NEW s \in Session, StartInstall(s) PROVE TypeOK'
  <2>1. PICK alone \in BOOLEAN :
          /\ job' = Crossing(s, [job EXCEPT ![s].crossed = ~alone], TRUE)
          /\ astray' = IF alone THEN astray ELSE Mishap("crossed")
    BY <1>16 DEF StartInstall
  <2>2. [job EXCEPT ![s].crossed = ~alone] \in [Session -> Job]
    BY <1>0 DEF Job
  <2>3. job' \in [Session -> Job]
    BY <2>1, <2>2, CrossingTyped
  <2>4. astray' \in SUBSET Mishaps
    BY <2>1, MishapTyped DEF Mishaps, TypeOK
  <2> QED
    BY <1>16, <2>3, <2>4 DEF StartInstall, TypeOK, Job, Where
<1>17. ASSUME NEW s \in Session, InstallSucceeds(s) PROVE TypeOK'
  BY <1>17 DEF InstallSucceeds, Whole, TypeOK, Where
<1>18. ASSUME NEW f \in File, Edit(f) PROVE TypeOK'
  <2>0. Unseen(job, FALSE)
    BY <1>18 DEF Edit
  <2>1. /\ edits' \in 0..MaxEdits
        /\ job' \in [Session -> Job] /\ astray' \in SUBSET Mishaps
    <3>1. edits' \in 0..MaxEdits
      BY <1>18, EditAssumption DEF Edit, TypeOK
    <3> QED
      BY <1>0, <1>12, <2>0, <3>1
  <2>2. PICK k \in Kinds[f] : source' = [source EXCEPT ![f] = [id |-> edits', kind |-> k]]
    BY <1>18 DEF Edit
  <2>3. [id |-> edits', kind |-> k] \in Content(f)
    BY <2>1 DEF Content
  <2>4. source' \in Package
    BY <2>2, <2>3, Rewritten DEF TypeOK
  <2> QED
    BY <1>18, <2>1, <2>4 DEF Edit, Unseen, TypeOK, Job
<1>19. CASE Revert
  <2>1. job' \in [Session -> Job] /\ astray' \in SUBSET Mishaps
    BY <1>0, <1>12, <1>19 DEF Revert
  <2> QED
    BY <1>19, <2>1, InitialTyped DEF Revert, Unseen, TypeOK, Job
<1>20. CASE UNCHANGED vars
  BY <1>20 DEF vars, TypeOK
<1> QED
  BY <1>2, <1>3, <1>4, <1>5, <1>6, <1>7, <1>8, <1>9, <1>10, <1>11, <1>13, <1>14, <1>15, <1>16,
     <1>17, <1>18, <1>19, <1>20 DEF Next, SessionStep, Ops

\* The initial values have their types.
LEMMA TypeInit == Init => TypeOK
<1> SUFFICES ASSUME Init PROVE TypeOK
  OBVIOUS
<1>1. source \in Package /\ isolated \in Package
  BY InitialTyped DEF Init
<1>2. pc \in [Session -> Where] /\ job \in [Session -> Job]
  BY NoJobTyped DEF Init, Where
<1>3. edits \in 0..MaxEdits
  BY EditAssumption DEF Init
<1> HIDE DEF Package, Job
<1>4. marker \in Package \union {NoPrint} /\ modules = NoModules /\ lock = NoSession /\ astray \in SUBSET Mishaps
  BY DEF Init
<1> QED
  BY <1>1, <1>2, <1>3, <1>4 DEF TypeOK, Job

\* Every value of the directories, the marker and the sessions' variables is one
\* of those listed.
THEOREM TypeCorrect == Spec => []TypeOK
  BY TypeInit, TypeStep, PTL DEF Spec

-----------------------------------------------------------------------------
(* The modules and their marker *)

\* A content that has come after another one, or after which builds were decided.
Later(c, d) == c.id > d.id \/ (c.id = d.id /\ (c = d \/ c.kind = "reviewed"))

\* A marker whose modules nobody has touched since speaks of exactly these, ...
Vouched ==
  marker # NoPrint /\ RequiresModules(marker) /\ astray \intersect {"lost", "crossed"} = {} =>
    modules = Whole(marker)

\* ... one that has lost them speaks of another copy until the source goes back, ...
Strayed ==
  marker # NoPrint /\ "lost" \in astray /\ astray \intersect {"back", "crossed"} = {} =>
    marker # isolated

\* ... because without that the contents only go on.
Onward ==
  marker # NoPrint /\ astray \intersect {"back", "crossed"} = {} =>
    \A f \in File : Later(isolated[f], marker[f]) /\ Later(source[f], isolated[f])

Counted == /\ \A f \in File : source[f].id <= edits
           /\ \A s \in Session : job[s].plan <= edits

\* An install that was never crossed is alone with its own modules until it is marked.
Alone(s) ==
  /\ pc[s] = "install" => modules \in {NoModules, Partial}
  /\ pc[s] \in {"install", "mark"} /\ ~job[s].crossed =>
       /\ modules = IF pc[s] = "install" THEN Partial ELSE Whole(isolated)
       /\ \A q \in Session : q # s => pc[q] # "install"

ReadyInv == Vouched /\ Strayed /\ Onward /\ Counted /\ \A s \in Session : Alone(s)

\* What a file of a package is.
LEMMA Contents ==
  ASSUME NEW t \in Package, NEW f \in File
  PROVE  t[f] \in Content(f) /\ t[f].id \in Int /\ t[f].id >= 0 /\ t[f].id <= MaxEdits
<1>1. t[f] \in Content(f)
  BY DEF Package
<1> QED
  BY <1>1, EditAssumption DEF Content

\* Two packages with the same files are the same.
LEMMA SameFiles ==
  ASSUME NEW t \in Package, NEW u \in Package, \A f \in File : t[f] = u[f]
  PROVE  t = u
  BY DEF Package

\* The absent fingerprint is of no package.
LEMMA NoPrintIsNone == ASSUME NEW t \in Package PROVE t # NoPrint
<1>1. "manifest" \in File
  BY DEF File
<1>2. t["manifest"].id # -1
  BY <1>1, Contents
<1>3. NoPrint["manifest"].id = -1
  BY <1>1 DEF NoPrint
<1> QED
  BY <1>2, <1>3

\* The three kinds of modules differ.
LEMMA KindsOfModules ==
  NoModules # Partial /\ \A t : Whole(t) # NoModules /\ Whole(t) # Partial
<1>1. NoModules.state = "absent" /\ Partial.state = "partial" /\ \A t : Whole(t).state = "whole"
  BY DEF NoModules, Partial, Whole
<1> QED
  BY <1>1

\* What comes after what comes after comes after, ...
LEMMA LaterLater ==
  ASSUME NEW c, NEW d, NEW e, c.id \in Int, d.id \in Int, e.id \in Int, Later(c, d), Later(d, e)
  PROVE  Later(c, e)
  BY DEF Later

\* ... and no two contents of a file come after each other.
LEMMA LaterBoth ==
  ASSUME NEW f \in File, NEW c \in Content(f), NEW d \in Content(f), Later(c, d), Later(d, c)
  PROVE  c = d
<1>1. c.id = d.id /\ (c = d \/ c.kind = d.kind)
  BY EditAssumption DEF Later, Content
<1> QED
  BY <1>1 DEF Content

\* The places and jobs after the end of a session.
LEMMA Ended ==
  ASSUME TypeOK, NEW s \in Session, End(s)
  PROVE  /\ pc'[s] = "idle" /\ job'[s] = NoJob
         /\ \A q \in Session : q # s => pc'[q] = pc[q] /\ job'[q] = job[q]
  BY DEF TypeOK, End, Goto

\* Sessions that a step disturbs know it.
LEMMA Crossed ==
  ASSUME TypeOK, NEW s \in Session, NEW jobs \in [Session -> Job], NEW disturbs \in BOOLEAN,
         job' = Crossing(s, jobs, disturbs)
  PROVE  \A q \in Session : /\ job'[q].op = jobs[q].op /\ job'[q].left = jobs[q].left
                            /\ job'[q].plan = jobs[q].plan
                            /\ job'[q].ready = jobs[q].ready /\ job'[q].edited = jobs[q].edited
                            /\ disturbs /\ q # s /\ Exposed(q) => job'[q].crossed
                            /\ jobs[q].crossed => job'[q].crossed
                            /\ q = s => job'[q] = jobs[q]
<1> SUFFICES ASSUME NEW q \in Session
             PROVE  /\ job'[q].op = jobs[q].op /\ job'[q].left = jobs[q].left
                    /\ job'[q].plan = jobs[q].plan
                    /\ job'[q].ready = jobs[q].ready /\ job'[q].edited = jobs[q].edited
                    /\ disturbs /\ q # s /\ Exposed(q) => job'[q].crossed
                    /\ jobs[q].crossed => job'[q].crossed
                    /\ q = s => job'[q] = jobs[q]
  OBVIOUS
<1>1. job'[q] = IF disturbs /\ q # s /\ Exposed(q)
                THEN [jobs[q] EXCEPT !.crossed = TRUE] ELSE jobs[q]
  BY DEF Crossing
<1>2. jobs[q] \in Job
  OBVIOUS
<1> QED
  BY <1>1, <1>2 DEF Job

\* A step that leaves the files, the modules and what speaks of them alone.
LEMMA Untouched ==
  ASSUME ReadyInv, UNCHANGED <<source, isolated, modules, marker, edits, astray>>,
         \A q \in Session : /\ pc'[q] \in {"install", "mark"} =>
                                 pc'[q] = pc[q] /\ job'[q].crossed = job[q].crossed
                            /\ pc'[q] = pc[q] \/ pc'[q] # "install"
                            /\ job'[q].plan <= edits
  PROVE  ReadyInv'
<1>1. Vouched' /\ Strayed' /\ Onward' /\ Counted'
  BY DEF ReadyInv, Vouched, Strayed, Onward, Counted
<1>2. ASSUME NEW s \in Session PROVE Alone(s)'
  BY DEF ReadyInv, Alone
<1> QED
  BY <1>1, <1>2 DEF ReadyInv

\* A file is copied: the copy goes on, and under the modules of another session it
\* makes them crossed.
LEMMA CopyKeeps ==
  ASSUME TypeOK, ReadyInv, NEW s \in Session, NEW f \in File, CopyFile(s, f)
  PROVE  ReadyInv'
<1> DEFINE jobs == [job EXCEPT ![s].left = @ \ {f}]
<1>1. /\ pc[s] = "copy" /\ UNCHANGED <<source, modules, marker, pc, edits, astray>>
      /\ isolated' = [isolated EXCEPT ![f] = source[f]]
      /\ job' = Crossing(s, jobs, isolated' # isolated)
  BY DEF CopyFile
<1>2. jobs \in [Session -> Job] /\ \A q \in Session : /\ q # s => jobs[q] = job[q]
                                                     /\ jobs[q].plan = job[q].plan
  BY DEF TypeOK, Job
<1>3. (isolated' # isolated) \in BOOLEAN
  OBVIOUS
<1> HIDE DEF jobs
<1>4. \A q \in Session : /\ isolated' # isolated /\ q # s /\ Exposed(q) => job'[q].crossed
                         /\ jobs[q].crossed => job'[q].crossed
                         /\ job'[q].plan = job[q].plan
  <2>1. PICK disturbs \in BOOLEAN : disturbs <=> isolated' # isolated
    BY <1>3
  <2>2. job' = Crossing(s, jobs, disturbs)
    BY <1>1, <2>1 DEF Crossing
  <2> QED
    BY <1>2, <2>1, <2>2, Crossed
<1>5. ASSUME NEW q \in Session PROVE Alone(q)'
  <2>1. pc[q] \in {"install", "mark"} => q # s /\ Exposed(q)
    BY <1>1 DEF Exposed
  <2> QED
    BY <1>1, <1>2, <1>4, <2>1 DEF ReadyInv, Alone
<1>6. /\ isolated'[f] = source[f]
      /\ \A g \in File : g # f => isolated'[g] = isolated[g]
  BY <1>1 DEF TypeOK, Package
<1>7. ASSUME marker # NoPrint, astray \intersect {"back", "crossed"} = {}
      PROVE  /\ \A g \in File : Later(isolated'[g], marker[g]) /\ Later(source[g], isolated'[g])
             /\ marker # isolated => marker # isolated'
  <2>1. marker \in Package /\ source \in Package /\ isolated \in Package
    BY <1>7 DEF TypeOK
  <2>2. \A g \in File : Later(isolated[g], marker[g]) /\ Later(source[g], isolated[g])
    BY <1>7 DEF ReadyInv, Onward
  <2>3. Later(source[f], marker[f]) /\ Later(source[f], source[f])
    <3>1. Later(source[f], marker[f])
      BY <2>1, <2>2, Contents, LaterLater
    <3> QED
      BY <3>1 DEF Later
  <2>4. \A g \in File : Later(isolated'[g], marker[g]) /\ Later(source[g], isolated'[g])
    BY <1>6, <2>2, <2>3
  <2>5. ASSUME marker # isolated, marker = isolated' PROVE FALSE
    <3>1. \A g \in File : g # f => marker[g] = isolated[g]
      BY <1>6, <2>5
    <3>2. marker[f] = isolated[f]
      <4>1. marker[f] = source[f]
        BY <1>6, <2>5
      <4>2. Later(isolated[f], marker[f]) /\ Later(marker[f], isolated[f])
        BY <2>2, <4>1
      <4> QED
        BY <2>1, <4>2, Contents, LaterBoth
    <3> QED
      BY <2>1, <2>5, <3>1, <3>2, SameFiles
  <2> QED
    BY <2>4, <2>5
<1>8. Vouched' /\ Counted'
  BY <1>1, <1>4 DEF ReadyInv, Vouched, Counted
<1>9. Strayed' /\ Onward'
  BY <1>1, <1>7 DEF ReadyInv, Strayed, Onward
<1> QED
  BY <1>5, <1>8, <1>9 DEF ReadyInv

\* Modules that are removed, some or all, are vouched for by nobody.
LEMMA RemovalKeeps ==
  ASSUME TypeOK, ReadyInv, NEW s \in Session, pc[s] \in {"drop", "dropping"},
         NEW rest \in {NoModules, Partial}, Removes(s, rest),
         pc'[s] \in {"dropping", "judge"}, \A q \in Session : q # s => pc'[q] = pc[q]
  PROVE  ReadyInv'
<1>1. PICK removed \in BOOLEAN :
        /\ removed <=> modules # NoModules
        /\ modules' = IF removed THEN rest ELSE modules
        /\ astray' = IF ~removed \/ marker = NoPrint THEN astray
                     ELSE Mishap(IF marker = isolated THEN "crossed" ELSE "lost")
        /\ job' = Crossing(s, job, removed)
        /\ UNCHANGED <<source, isolated, marker, edits>>
  BY DEF Removes
<1>2. \A q \in Session : /\ removed /\ q # s /\ Exposed(q) => job'[q].crossed
                         /\ job[q].crossed => job'[q].crossed
                         /\ job'[q].plan = job[q].plan
  <2>1. job \in [Session -> Job]
    BY DEF TypeOK, Job
  <2> QED
    BY <1>1, <2>1, Crossed
<1>3. ASSUME NEW q \in Session PROVE Alone(q)'
  <2>1. CASE q = s
    BY <2>1 DEF Alone
  <2>2. CASE q # s
    <3>1. pc'[q] = pc[q] /\ (pc[q] \in {"install", "mark"} => Exposed(q))
      BY <2>2 DEF Exposed
    <3>2. CASE removed
      BY <1>1, <1>2, <2>2, <3>1, <3>2 DEF Alone
    <3>3. CASE ~removed
      BY <1>1, <1>2, <2>2, <3>1, <3>3 DEF ReadyInv, Alone
    <3> QED
      BY <3>2, <3>3
  <2> QED
    BY <2>1, <2>2
<1>4. Counted'
  BY <1>1, <1>2 DEF ReadyInv, Counted
<1>5. Vouched' /\ Strayed' /\ Onward'
  <2>1. CASE ~removed \/ marker = NoPrint
    BY <1>1, <2>1 DEF ReadyInv, Vouched, Strayed, Onward
  <2>2. CASE removed /\ marker # NoPrint
    <3>1. \/ "crossed" \in astray'
          \/ astray' = astray \union {"lost"} /\ marker # isolated
      BY <1>1, <2>2 DEF Mishap
    <3> QED
      BY <1>1, <3>1 DEF ReadyInv, Vouched, Strayed, Onward
  <2> QED
    BY <2>1, <2>2
<1> QED
  BY <1>3, <1>4, <1>5 DEF ReadyInv

\* An install begins: alone only if there are no modules, and then nothing vouches
\* for any.
LEMMA StartKeeps ==
  ASSUME TypeOK, ReadyInv, NEW s \in Session, StartInstall(s)
  PROVE  ReadyInv'
<1>1. PICK alone \in BOOLEAN :
        /\ alone <=> (modules = NoModules /\ \A q \in Session : pc[q] # "install")
        /\ job' = Crossing(s, [job EXCEPT ![s].crossed = ~alone], TRUE)
        /\ astray' = IF alone THEN astray ELSE Mishap("crossed")
  BY DEF StartInstall
<1>2. /\ pc[s] = "restore" /\ pc' = [pc EXCEPT ![s] = "install"]
      /\ modules' = Partial /\ UNCHANGED <<source, isolated, marker, edits>>
  BY DEF StartInstall, Goto
<1> DEFINE jobs == [job EXCEPT ![s].crossed = ~alone]
<1>3. /\ jobs \in [Session -> Job] /\ jobs[s].crossed = ~alone
      /\ \A q \in Session : jobs[q].plan = job[q].plan
      /\ job' = Crossing(s, jobs, TRUE)
  BY <1>1 DEF TypeOK, Job
<1> HIDE DEF jobs
<1>4. \A q \in Session : /\ q # s /\ Exposed(q) => job'[q].crossed
                         /\ q = s => job'[q] = jobs[q]
                         /\ job'[q].plan = job[q].plan
  <2>1. \A q \in Session : jobs[q] \in Job
    BY <1>3
  <2>2. \A q \in Session : job'[q] = IF q # s /\ Exposed(q) THEN [jobs[q] EXCEPT !.crossed = TRUE] ELSE jobs[q]
    BY <1>3 DEF Crossing
  <2> QED
    BY <1>3, <2>1, <2>2 DEF Job
<1>5. /\ pc'[s] = "install" /\ \A q \in Session : q # s => pc'[q] = pc[q]
  BY <1>2 DEF TypeOK
<1>6. ASSUME NEW q \in Session PROVE Alone(q)'
  <2>1. CASE q = s
    BY <1>1, <1>2, <1>3, <1>4, <1>5, <2>1 DEF Alone
  <2>2. CASE q # s
    BY <1>2, <1>4, <1>5, <2>2 DEF Alone, Exposed
  <2> QED
    BY <2>1, <2>2
<1>7. Counted'
  BY <1>2, <1>4 DEF ReadyInv, Counted
<1>8. Vouched' /\ Strayed' /\ Onward'
  <2>1. CASE alone
    <3>1. modules = NoModules /\ astray' = astray /\ modules # Whole(marker)
      BY <1>1, <2>1, KindsOfModules
    <3> QED
      BY <1>2, <3>1 DEF ReadyInv, Vouched, Strayed, Onward
  <2>2. CASE ~alone
    <3>1. "crossed" \in astray'
      BY <1>1, <2>2 DEF Mishap
    <3> QED
      BY <3>1 DEF Vouched, Strayed, Onward
  <2> QED
    BY <2>1, <2>2
<1> QED
  BY <1>6, <1>7, <1>8 DEF ReadyInv

\* A restore that ends leaves whole modules, unless it was crossed.
LEMMA SuccessKeeps ==
  ASSUME TypeOK, ReadyInv, NEW s \in Session, InstallSucceeds(s)
  PROVE  ReadyInv'
<1>1. /\ pc[s] = "install" /\ pc' = [pc EXCEPT ![s] = "mark"]
      /\ modules' = IF job[s].crossed THEN Partial ELSE Whole(isolated)
      /\ UNCHANGED <<source, isolated, marker, job, edits, astray>>
  BY DEF InstallSucceeds, Goto
<1>2. /\ pc'[s] = "mark" /\ \A q \in Session : q # s => pc'[q] = pc[q]
  BY <1>1 DEF TypeOK
<1>3. modules # Whole(marker)
  BY <1>1, KindsOfModules DEF ReadyInv, Alone
<1>4. ASSUME NEW q \in Session PROVE Alone(q)'
  <2>1. CASE q = s
    BY <1>1, <1>2, <2>1 DEF ReadyInv, Alone
  <2>2. CASE q # s
    <3>1. pc[q] = "install" => job[s].crossed
      BY <1>1, <2>2 DEF ReadyInv, Alone
    <3>2. pc[q] \in {"install", "mark"} => job[q].crossed
      BY <1>1, <2>2 DEF ReadyInv, Alone
    <3> QED
      BY <1>1, <1>2, <2>2, <3>1, <3>2 DEF Alone
  <2> QED
    BY <2>1, <2>2
<1>5. Vouched' /\ Strayed' /\ Onward' /\ Counted'
  BY <1>1, <1>3 DEF ReadyInv, Vouched, Strayed, Onward, Counted
<1> QED
  BY <1>4, <1>5 DEF ReadyInv

\* A mark vouches for the whole modules of the very files, or says that the session
\* was crossed.
LEMMA MarkKeeps ==
  ASSUME TypeOK, ReadyInv, NEW s \in Session, MarkRestored(s)
  PROVE  ReadyInv'
<1>1. /\ pc[s] = "mark" /\ source = isolated /\ marker' = isolated
      /\ astray' = IF job[s].crossed THEN {"crossed"} ELSE {}
      /\ End(s) /\ UNCHANGED <<source, isolated, modules, edits>>
  BY DEF MarkRestored
<1>2. /\ pc'[s] = "idle" /\ job'[s] = NoJob
      /\ \A q \in Session : q # s => pc'[q] = pc[q] /\ job'[q] = job[q]
  BY <1>1, Ended
<1>3. ASSUME NEW q \in Session PROVE Alone(q)'
  BY <1>1, <1>2 DEF ReadyInv, Alone
<1>4. Counted'
  <2>1. NoJob.plan <= edits
    BY EditAssumption DEF NoJob, TypeOK
  <2> QED
    BY <1>1, <1>2, <2>1 DEF ReadyInv, Counted
<1>5. Vouched'
  BY <1>1 DEF ReadyInv, Alone, Vouched
<1>6. Strayed' /\ Onward'
  BY <1>1 DEF Strayed, Onward, Later
<1> QED
  BY <1>3, <1>4, <1>5, <1>6 DEF ReadyInv

\* The source is written: with something later, or it is noted that it goes back.
LEMMA WriteKeeps ==
  ASSUME TypeOK, ReadyInv, NEW jobs \in [Session -> Job], NEW back \in BOOLEAN, Unseen(jobs, back),
         edits' >= edits, edits' \in Int,
         \A f \in File : source'[f].id \in Int /\ source'[f].id <= edits',
         ~back => \A f \in File : Later(source'[f], source[f]),
         \A q \in Session : jobs[q].plan <= edits,
         \A q \in Session : /\ pc'[q] = "idle" \/ (pc'[q] = pc[q] /\ jobs[q] = job[q])
  PROVE  ReadyInv'
<1>1. UNCHANGED <<isolated, modules, marker, lock>>
  BY DEF Unseen
<1>2. \A q \in Session : job'[q].crossed = jobs[q].crossed /\ job'[q].plan = jobs[q].plan
  BY DEF Unseen, Job
<1>3. ASSUME NEW q \in Session PROVE Alone(q)'
  BY <1>1, <1>2 DEF ReadyInv, Alone
<1>4. Counted'
  <2>1. \A q \in Session : jobs[q].plan \in Int
    BY EditAssumption DEF Job
  <2>2. edits \in Int
    BY EditAssumption DEF TypeOK
  <2> QED
    BY <1>2, <2>1, <2>2 DEF Counted
<1>5. \/ marker = NoPrint
      \/ back /\ ("crossed" \in astray' \/ astray' = astray \union {"back"})
      \/ ~back /\ astray' = astray
  BY DEF Unseen, Mishap
<1>6. Vouched' /\ Strayed'
  BY <1>1, <1>5 DEF ReadyInv, Vouched, Strayed
<1>7. Onward'
  <2> SUFFICES ASSUME marker # NoPrint, astray' \intersect {"back", "crossed"} = {}, NEW f \in File
               PROVE  Later(isolated[f], marker[f]) /\ Later(source'[f], isolated[f])
    BY <1>1 DEF Onward
  <2>1. ~back /\ astray' = astray
    BY <1>5
  <2>2. Later(isolated[f], marker[f]) /\ Later(source[f], isolated[f])
    BY <2>1 DEF ReadyInv, Onward
  <2>3. source[f].id \in Int /\ isolated[f].id \in Int /\ source'[f].id \in Int
    BY Contents DEF TypeOK
  <2> QED
    BY <2>1, <2>2, <2>3, LaterLater
<1> QED
  BY <1>3, <1>4, <1>6, <1>7 DEF ReadyInv

\* Every step keeps what the marker vouches for.
LEMMA ReadyStep == TypeOK /\ ReadyInv /\ [Next]_vars => ReadyInv'
<1> SUFFICES ASSUME TypeOK, ReadyInv, [Next]_vars PROVE ReadyInv'
  OBVIOUS
<1>0. pc \in [Session -> Where] /\ job \in [Session -> Job] /\ edits \in Int /\ edits >= 0
  BY EditAssumption DEF TypeOK, Job
<1> USE DEF Goto, Looks
<1>1. ASSUME NEW s \in Session, UNCHANGED <<source, isolated, modules, marker, edits, astray>>,
             \A q \in Session : q # s => pc'[q] = pc[q] /\ job'[q] = job[q],
             pc'[s] \notin {"install", "mark"}, job'[s].plan <= edits
      PROVE  ReadyInv'
  <2>1. \A q \in Session : /\ pc'[q] \in {"install", "mark"} =>
                                 pc'[q] = pc[q] /\ job'[q].crossed = job[q].crossed
                           /\ pc'[q] = pc[q] \/ pc'[q] # "install"
                           /\ job'[q].plan <= edits
    BY <1>1 DEF ReadyInv, Counted
  <2> QED
    BY <1>1, <2>1, Untouched
<1>2. \A q \in Session : job[q].plan <= edits
  BY DEF ReadyInv, Counted
<1>3. ASSUME NEW s \in Session,
             \/ \E op \in Ops : Begin(s, op)
             \/ PassGate(s) \/ LockWorkspace(s) \/ Assess(s) \/ AskForInstall(s)
             \/ AskForRestore(s) \/ Allow(s)
      PROVE  ReadyInv'
  <2>1. /\ \A q \in Session : q # s => pc'[q] = pc[q] /\ job'[q] = job[q]
        /\ pc'[s] \notin {"install", "mark"}
    BY <1>0, <1>3 DEF Begin, PassGate, LockWorkspace, Assess, AskForInstall, AskForRestore, Allow
  <2>2. job'[s].plan = job[s].plan
    <3>1. ASSUME NEW op \in Ops, Begin(s, op) PROVE job'[s].plan = job[s].plan
      BY <1>0, <3>1 DEF Begin, Job
    <3>2. ASSUME PassGate(s) \/ LockWorkspace(s) \/ Assess(s) PROVE job'[s].plan = job[s].plan
      BY <1>0, <3>2 DEF PassGate, LockWorkspace, Assess, Job
    <3>3. ASSUME AskForInstall(s) \/ AskForRestore(s) \/ Allow(s) PROVE job'[s].plan = job[s].plan
      BY <1>0, <3>3 DEF AskForInstall, AskForRestore, Allow, Job
    <3> QED
      BY <1>3, <3>1, <3>2, <3>3
  <2>3. UNCHANGED <<source, isolated, modules, marker, edits, astray>>
    BY <1>3 DEF Begin, PassGate, LockWorkspace, Assess, AskForInstall, AskForRestore, Allow
  <2> QED
    BY <1>1, <1>2, <2>1, <2>2, <2>3
<1>4. ASSUME NEW s \in Session, End(s), UNCHANGED <<source, isolated, modules, marker, edits, astray>> PROVE ReadyInv'
  <2>1. NoJob.plan <= edits
    BY <1>0 DEF NoJob
  <2> QED
    BY <1>1, <1>4, <2>1, Ended
<1>5. ASSUME NEW s \in Session, \/ Blocked(s) \/ LockTimesOut(s) \/ BuildsRefused(s) \/ PreflightEnds(s)
                                \/ SyncEnds(s) \/ Refuse(s) \/ MarkRefused(s) \/ CommandTimesOut(s)
                                \/ CommandEnds(s) \/ Abandon(s)
      PROVE  ReadyInv'
  BY <1>4, <1>5 DEF Blocked, LockTimesOut, BuildsRefused, PreflightEnds, SyncEnds, Refuse, MarkRefused,
                    CommandTimesOut, CommandEnds, Abandon
<1>6. ASSUME NEW s \in Session, RunCommand(s) PROVE ReadyInv'
  <2>1. /\ pc'[s] = "run" /\ job'[s] = [NoJob EXCEPT !.op = "verify"]
        /\ \A q \in Session : q # s => pc'[q] = pc[q] /\ job'[q] = job[q]
    BY <1>0, <1>6 DEF RunCommand
  <2>2. job'[s].plan <= edits
    BY <1>0, <2>1 DEF NoJob
  <2> QED
    BY <1>1, <1>6, <2>1, <2>2 DEF RunCommand
<1>7. ASSUME NEW s \in Session, Scan(s) PROVE ReadyInv'
  <2>1. CASE End(s)
    BY <1>4, <1>7, <2>1 DEF Scan
  <2>2. CASE pc' = [pc EXCEPT ![s] = "add"] /\ UNCHANGED <<lock, job>>
    BY <1>0, <1>1, <1>2, <1>7, <2>2 DEF Scan
  <2> QED
    BY <1>7, <2>1, <2>2 DEF Scan
<1>8. ASSUME NEW s \in Session, PlanBuilds(s) PROVE ReadyInv'
  <2>1. /\ pc'[s] = "decide" /\ job'[s].plan = source["policy"].id
        /\ \A q \in Session : q # s => pc'[q] = pc[q] /\ job'[q] = job[q]
    BY <1>0, <1>8 DEF PlanBuilds, Job
  <2>2. source["policy"].id <= edits
    BY DEF ReadyInv, Counted, File
  <2> QED
    BY <1>1, <1>8, <2>1, <2>2 DEF PlanBuilds
<1>9. ASSUME NEW s \in Session, NEW f \in File, CopyFile(s, f) PROVE ReadyInv'
  BY <1>9, CopyKeeps
<1>10. ASSUME NEW s \in Session, RemoveSome(s) \/ RemoveRest(s) PROVE ReadyInv'
  <2>1. /\ pc[s] \in {"drop", "dropping"} /\ pc'[s] \in {"dropping", "judge"}
        /\ \A q \in Session : q # s => pc'[q] = pc[q]
    BY <1>0, <1>10 DEF RemoveSome, RemoveRest
  <2>2. PICK rest \in {NoModules, Partial} : Removes(s, rest)
    BY <1>10 DEF RemoveSome, RemoveRest
  <2> QED
    BY <2>1, <2>2, RemovalKeeps
<1>11. ASSUME NEW s \in Session, StartInstall(s) \/ InstallSucceeds(s) \/ MarkRestored(s) PROVE ReadyInv'
  BY <1>11, StartKeeps, SuccessKeeps, MarkKeeps
<1>12. ASSUME NEW s \in Session
       PROVE  /\ [job EXCEPT ![s] = NoJob] \in [Session -> Job]
              /\ \A q \in Session : [job EXCEPT ![s] = NoJob][q].plan <= edits
              /\ \A q \in Session : q # s => [job EXCEPT ![s] = NoJob][q] = job[q]
  <2>1. NoJob \in Job /\ NoJob.plan <= edits
    BY <1>0, NoJobTyped DEF NoJob
  <2> QED
    BY <1>0, <1>2, <2>1
<1>13. \A f \in File : source[f].id \in Int /\ source[f].id <= edits
  BY Contents DEF TypeOK, ReadyInv, Counted
<1>14. ASSUME NEW s \in Session, AddPackage(s) PROVE ReadyInv'
  <2> DEFINE jobs == [job EXCEPT ![s] = NoJob]
  <2>1. /\ Unseen(jobs, FALSE) /\ edits' = edits + 1
        /\ \A q \in Session : pc'[q] = "idle" \/ (pc'[q] = pc[q] /\ jobs[q] = job[q])
    BY <1>0, <1>12, <1>14 DEF AddPackage
  <2>2. \A f \in File : source'[f] = source[f] \/ source'[f].id = edits'
    BY <1>14 DEF AddPackage, TypeOK, Package
  <2>3. \A f \in File : /\ source'[f].id \in Int /\ source'[f].id <= edits'
                        /\ Later(source'[f], source[f])
    BY <1>0, <1>13, <2>1, <2>2 DEF Later
  <2> HIDE DEF jobs
  <2>4. jobs \in [Session -> Job] /\ \A q \in Session : jobs[q].plan <= edits
    BY <1>12 DEF jobs
  <2>5. PICK back \in BOOLEAN : ~back /\ Unseen(jobs, back)
    BY <2>1
  <2> QED
    BY <1>0, <2>1, <2>3, <2>4, <2>5, WriteKeeps
<1>15. ASSUME NEW s \in Session, DecideBuilds(s) PROVE ReadyInv'
  <2> DEFINE jobs == [job EXCEPT ![s] = NoJob]
  <2>1. /\ Unseen(jobs, job[s].plan # source["policy"].id) /\ edits' = edits
        /\ \A q \in Session : pc'[q] = "idle" \/ (pc'[q] = pc[q] /\ jobs[q] = job[q])
    BY <1>0, <1>12, <1>15 DEF DecideBuilds
  <2>2. \A f \in File : \/ source'[f] = source[f]
                        \/ f = "policy" /\ source'[f] = [id |-> job[s].plan, kind |-> "reviewed"]
    BY <1>15 DEF DecideBuilds, TypeOK, Package
  <2>3. job[s].plan \in Int
    BY <1>0, EditAssumption DEF Job
  <2>4. \A f \in File : source'[f].id \in Int /\ source'[f].id <= edits'
    BY <1>2, <1>13, <2>1, <2>2, <2>3
  <2> HIDE DEF jobs
  <2>5. PICK back \in BOOLEAN : Unseen(jobs, back) /\ (back <=> job[s].plan # source["policy"].id)
    BY <2>1
  <2>6. ~back => \A f \in File : Later(source'[f], source[f])
    BY <2>2, <2>5 DEF Later
  <2>7. jobs \in [Session -> Job] /\ \A q \in Session : jobs[q].plan <= edits
    BY <1>12 DEF jobs
  <2> QED
    BY <1>0, <2>1, <2>4, <2>5, <2>6, <2>7, WriteKeeps
<1>16. ASSUME NEW f \in File, Edit(f) PROVE ReadyInv'
  <2>1. Unseen(job, FALSE) /\ edits' = edits + 1 /\ pc' = pc
    BY <1>16 DEF Edit
  <2>2. \A g \in File : source'[g] = source[g] \/ source'[g].id = edits'
    BY <1>16 DEF Edit, TypeOK, Package
  <2>3. \A g \in File : /\ source'[g].id \in Int /\ source'[g].id <= edits'
                        /\ Later(source'[g], source[g])
    BY <1>0, <1>13, <2>1, <2>2 DEF Later
  <2>4. PICK back \in BOOLEAN : ~back /\ Unseen(job, back)
    BY <2>1
  <2> QED
    BY <1>0, <1>2, <2>1, <2>3, <2>4, WriteKeeps
<1>17. CASE Revert
  <2>1. Unseen(job, TRUE) /\ edits' = edits /\ pc' = pc
    BY <1>17 DEF Revert
  <2>2. \A g \in File : source'[g].id = 0
    BY <1>17 DEF Revert, Initial
  <2>3. PICK back \in BOOLEAN : back /\ Unseen(job, back)
    BY <2>1
  <2>4. /\ edits' >= edits /\ edits' \in Int
        /\ \A g \in File : source'[g].id \in Int /\ source'[g].id <= edits'
    BY <1>0, <2>1, <2>2
  <2>5. \A q \in Session : pc'[q] = "idle" \/ (pc'[q] = pc[q] /\ job[q] = job[q])
    BY <2>1
  <2> QED
    BY <1>0, <1>2, <2>3, <2>4, <2>5, WriteKeeps
<1>18. CASE UNCHANGED vars
  BY <1>2, <1>18, Untouched DEF vars
<1> QED
  BY <1>3, <1>5, <1>6, <1>7, <1>8, <1>9, <1>10, <1>11, <1>14, <1>15, <1>16, <1>17, <1>18 DEF Next, SessionStep

\* At first there are no modules and no marker.
LEMMA ReadyInit == Init => ReadyInv
  BY DEF Init, ReadyInv, Vouched, Strayed, Onward, Counted, Alone, Initial, NoJob

\* Dependencies that are called ready are a complete restore of the very files
\* beside them, whatever failed, was killed half way or was edited before: for any
\* number of sessions and edits, unless two sessions wrote at once or the source
\* went back to a content whose modules had been removed.
THEOREM ReadyMeansRestored == Spec => []ReadyIsRestored
<1>1. TypeOK /\ ReadyInv => ReadyIsRestored
  <2> SUFFICES ASSUME TypeOK, ReadyInv, Ready, RequiresModules(isolated), "crossed" \notin astray,
                      ~({"lost", "back"} \subseteq astray)
               PROVE  modules = Whole(isolated)
    BY DEF ReadyIsRestored
  <2>1. marker = isolated /\ marker # NoPrint
    BY NoPrintIsNone DEF Ready, TypeOK
  <2>2. "lost" \notin astray
    BY <2>1 DEF ReadyInv, Strayed
  <2> QED
    BY <2>1, <2>2 DEF ReadyInv, Vouched
<1> QED
  BY <1>1, TypeInit, TypeStep, ReadyInit, ReadyStep, PTL DEF Spec

-----------------------------------------------------------------------------
(* The gate, the lock and the command *)

Inside == {"copy", "drop", "dropping", "judge", "start", "run"}

\* What a session is there for at each place, and whose the lock is.
Placed(s) ==
  /\ pc[s] = "gate" => job[s].op \in {"preflight", "decide", "verify"}
  /\ pc[s] = "lock" => job[s].op = "verify" /\ job[s].left = File
  /\ pc[s] \in {"copy", "drop", "dropping", "judge"} => job[s].op \in {"preflight", "verify", "sync"}
  /\ pc[s] \in {"drop", "dropping"} => ~job[s].ready
  /\ pc[s] \in {"scan", "add", "restore", "install", "mark"} => job[s].op = "preflight"
  /\ pc[s] \in {"start", "run"} => job[s].op = "verify"
  /\ pc[s] \in Inside /\ job[s].op = "verify" => lock = s

\* A copy that was found ready, with what the gate has seen of it.
Looked(s) == Ready /\ (job[s].edited \/ (LockfilePresent(isolated) /\ BuildsReviewed(isolated)))

\* A verification whose source nobody has edited since its gate: the source still
\* passes, and what has been copied is the source.  Once it has looked at its copy
\* that stays so, unless the verification was crossed.
Gated(s) ==
  /\ pc[s] \in {"lock", "copy"} /\ job[s].op = "verify" /\ ~job[s].edited =>
       /\ GateAccepts("verify")
       /\ pc[s] = "copy" => \A f \in File \ job[s].left : isolated[f] = source[f]
  /\ pc[s] = "judge" /\ job[s].op = "verify" /\ job[s].ready /\ ~job[s].crossed => Looked(s)
  /\ pc[s] = "start" /\ ~job[s].crossed => Looked(s) /\ DeclaresToolchain(isolated)

GateInv == \A s \in Session : Placed(s) /\ Gated(s)

\* A step that is not this session's own.
LEMMA Elsewhere ==
  ASSUME NEW q \in Session, Placed(q), Gated(q),
         pc'[q] = pc[q], job'[q].op = job[q].op, job'[q].left = job[q].left,
         job'[q].ready = job[q].ready,
         job[q].edited => job'[q].edited, job[q].crossed => job'[q].crossed,
         \/ source' = source
         \/ pc[q] \in {"lock", "copy"} /\ job[q].op = "verify" => job'[q].edited,
         \A f \in File : isolated'[f] \in {isolated[f], source[f]},
         \/ isolated' = isolated /\ (Ready => Ready')
         \/ Exposed(q) => job'[q].crossed,
         lock = q => lock' = q
  PROVE  Placed(q)' /\ Gated(q)'
<1>1. Placed(q)'
  BY DEF Placed
<1>2. /\ GateAccepts("verify") /\ source' = source => GateAccepts("verify")'
      /\ isolated' = isolated /\ Ready' /\ Looked(q) => Looked(q)'
      /\ isolated' = isolated /\ DeclaresToolchain(isolated) => DeclaresToolchain(isolated)'
  BY DEF GateAccepts, DeclaresToolchain, BuildsReviewed, LockfilePresent, Looked
<1>3. Looked(q) => Ready
  BY DEF Looked
<1>4. /\ pc[q] = "judge" /\ job[q].op = "verify" => Exposed(q)
      /\ pc[q] = "start" => Exposed(q)
  BY DEF Exposed
<1>5. Gated(q)'
  <2>1. (pc[q] \in {"lock", "copy"} /\ job[q].op = "verify" /\ ~job[q].edited =>
          /\ GateAccepts("verify")
          /\ pc[q] = "copy" => \A f \in File \ job[q].left : isolated[f] = source[f])'
    BY <1>2 DEF Gated
  <2>2. (pc[q] = "judge" /\ job[q].op = "verify" /\ job[q].ready /\ ~job[q].crossed => Looked(q))'
    BY <1>2, <1>3, <1>4 DEF Gated
  <2>3. (pc[q] = "start" /\ ~job[q].crossed => Looked(q) /\ DeclaresToolchain(isolated))'
    BY <1>2, <1>3, <1>4 DEF Gated
  <2> QED
    BY <2>1, <2>2, <2>3 DEF Gated
<1> QED
  BY <1>1, <1>5

\* A step of a session that changes none but its own variables.
LEMMA OwnStep ==
  ASSUME GateInv, NEW s \in Session, UNCHANGED <<source, isolated>>, Ready => Ready',
         \A q \in Session : q # s => pc'[q] = pc[q] /\ job'[q] = job[q] /\ (lock = q => lock' = q),
         Placed(s)' /\ Gated(s)'
  PROVE  GateInv'
<1>1. ASSUME NEW q \in Session, q # s PROVE Placed(q)' /\ Gated(q)'
  <2>1. \A f \in File : isolated'[f] \in {isolated[f], source[f]}
    OBVIOUS
  <2> QED
    BY <1>1, <2>1, Elsewhere DEF GateInv
<1> QED
  BY <1>1 DEF GateInv

\* A session that ends gives its lock back, and nobody relies on it any more.
LEMMA EndKeeps ==
  ASSUME TypeOK, GateInv, NEW s \in Session, End(s), UNCHANGED <<source, isolated>>, Ready => Ready'
  PROVE  GateInv'
<1>1. /\ pc'[s] = "idle" /\ \A q \in Session : q # s => pc'[q] = pc[q] /\ job'[q] = job[q]
  BY Ended
<1>2. \A q \in Session : q # s /\ lock = q => lock' = q
  BY DEF End
<1>3. Placed(s)' /\ Gated(s)'
  BY <1>1 DEF Placed, Gated, Inside
<1> QED
  BY <1>1, <1>2, <1>3, OwnStep

\* The source is written: every verification under way between its gate and the end
\* of its copy is marked.
LEMMA UnseenKeeps ==
  ASSUME TypeOK, GateInv, NEW jobs \in [Session -> Job], NEW back, Unseen(jobs, back),
         \A q \in Session : pc'[q] = "idle" \/ (pc'[q] = pc[q] /\ jobs[q] = job[q])
  PROVE  GateInv'
<1> SUFFICES ASSUME NEW q \in Session PROVE Placed(q)' /\ Gated(q)'
  BY DEF GateInv
<1>1. CASE pc'[q] = "idle"
  BY <1>1 DEF Placed, Gated, Inside
<1>2. CASE jobs[q] = job[q] /\ pc'[q] = pc[q]
  <2>1. /\ job'[q] = IF job[q].op = "verify" /\ pc[q] \in {"lock", "copy"}
                     THEN [job[q] EXCEPT !.edited = TRUE] ELSE job[q]
        /\ job[q] \in Job
        /\ UNCHANGED <<isolated, modules, marker, lock>>
    BY <1>2 DEF Unseen
  <2>2. /\ job'[q].op = job[q].op /\ job'[q].left = job[q].left /\ job'[q].ready = job[q].ready
        /\ job[q].edited => job'[q].edited
        /\ job[q].crossed => job'[q].crossed
        /\ pc[q] \in {"lock", "copy"} /\ job[q].op = "verify" => job'[q].edited
    BY <2>1 DEF Job
  <2>3. Ready => Ready'
    BY <2>1 DEF Ready, HaveModules, RequiresModules
  <2>4. \A f \in File : isolated'[f] \in {isolated[f], source[f]}
    BY <2>1
  <2> QED
    BY <1>2, <2>1, <2>2, <2>3, <2>4, Elsewhere DEF GateInv
<1> QED
  BY <1>1, <1>2

\* A step that perhaps crosses others, and is noted there.
LEMMA CrossingKeeps ==
  ASSUME TypeOK, GateInv, NEW s \in Session, NEW jobs \in [Session -> Job], NEW disturbs \in BOOLEAN,
         \A q \in Session : q # s => pc'[q] = pc[q] /\ jobs[q] = job[q],
         job' = Crossing(s, jobs, disturbs),
         disturbs \/ (isolated' = isolated /\ (Ready => Ready')),
         \A f \in File : isolated'[f] \in {isolated[f], source[f]},
         UNCHANGED <<source, lock>>,
         Placed(s)' /\ Gated(s)'
  PROVE  GateInv'
<1> SUFFICES ASSUME NEW q \in Session, q # s PROVE Placed(q)' /\ Gated(q)'
  BY DEF GateInv
<1>1. /\ job'[q].op = jobs[q].op /\ job'[q].left = jobs[q].left
      /\ job'[q].ready = jobs[q].ready /\ job'[q].edited = jobs[q].edited
      /\ disturbs /\ Exposed(q) => job'[q].crossed
      /\ jobs[q].crossed => job'[q].crossed
  BY Crossed
<1> QED
  BY <1>1, Elsewhere DEF GateInv

\* Every step keeps what has passed the gate.
LEMMA GateStep == TypeOK /\ GateInv /\ [Next]_vars => GateInv'
<1> SUFFICES ASSUME TypeOK, GateInv, [Next]_vars PROVE GateInv'
  OBVIOUS
<1>0. pc \in [Session -> Where] /\ job \in [Session -> Job]
  BY DEF TypeOK, Job
<1> USE DEF Goto, Looks
<1>r. ASSUME UNCHANGED <<isolated, modules, marker>> PROVE Ready => Ready'
  BY <1>r DEF Ready, HaveModules, RequiresModules
<1>1. ASSUME NEW s \in Session, NEW op \in Ops, Begin(s, op) PROVE GateInv'
  <2>1. /\ pc'[s] = IF op = "sync" THEN "copy" ELSE "gate"
        /\ job'[s].op = op
        /\ \A q \in Session : q # s => pc'[q] = pc[q] /\ job'[q] = job[q]
    BY <1>0, <1>1 DEF Begin, Job
  <2>2. Placed(s)' /\ Gated(s)'
    BY <2>1 DEF Placed, Gated, Inside, Ops
  <2>3. UNCHANGED <<source, isolated, modules, marker, lock>>
    BY <1>1 DEF Begin
  <2> QED
    BY <1>r, <2>1, <2>2, <2>3, OwnStep
<1>2. ASSUME NEW s \in Session, PassGate(s) PROVE GateInv'
  <2>1. /\ pc[s] = "gate" /\ job[s].op # "decide" /\ GateAccepts(job[s].op)
        /\ pc'[s] = IF job[s].op = "verify" THEN "lock" ELSE "copy"
        /\ job'[s].op = job[s].op /\ job'[s].left = File
        /\ UNCHANGED <<source, isolated, modules, marker, lock>>
        /\ \A q \in Session : q # s => pc'[q] = pc[q] /\ job'[q] = job[q]
    BY <1>0, <1>2 DEF PassGate, Job
  <2>2. job[s].op \in {"preflight", "verify"}
    BY <2>1 DEF GateInv, Placed
  <2>3. Placed(s)'
    BY <2>1, <2>2 DEF Placed, Inside
  <2>4. Gated(s)'
    BY <2>1, <2>2 DEF Gated, GateAccepts, DeclaresToolchain, BuildsReviewed, LockfilePresent
  <2> QED
    BY <1>r, <2>1, <2>3, <2>4, OwnStep
<1>3. ASSUME NEW s \in Session, LockWorkspace(s) PROVE GateInv'
  <2>1. /\ pc[s] = "lock" /\ lock = NoSession /\ lock' = s /\ pc'[s] = "copy"
        /\ UNCHANGED <<source, isolated, modules, marker, job>>
        /\ \A q \in Session : q # s => pc'[q] = pc[q]
    BY <1>0, <1>3 DEF LockWorkspace
  <2>2. \A q \in Session : lock # q
    BY <2>1, SessionAssumption
  <2>3. Placed(s)'
    BY <2>1 DEF GateInv, Placed
  <2>4. Gated(s)'
    BY <2>1 DEF GateInv, Placed, Gated, GateAccepts, DeclaresToolchain, BuildsReviewed, LockfilePresent
  <2> QED
    BY <1>r, <2>1, <2>2, <2>3, <2>4, OwnStep
<1>4. ASSUME NEW s \in Session, \/ Blocked(s) \/ LockTimesOut(s) \/ BuildsRefused(s) \/ PreflightEnds(s)
                                \/ SyncEnds(s) \/ Refuse(s) \/ MarkRefused(s) \/ CommandTimesOut(s)
                                \/ CommandEnds(s) \/ Abandon(s)
      PROVE  GateInv'
  <2>1. End(s) /\ UNCHANGED <<source, isolated, modules, marker>>
    BY <1>4 DEF Blocked, LockTimesOut, BuildsRefused, PreflightEnds, SyncEnds, Refuse, MarkRefused,
                CommandTimesOut, CommandEnds, Abandon
  <2> QED
    BY <1>r, <2>1, EndKeeps
<1>5. ASSUME NEW s \in Session, MarkRestored(s) PROVE GateInv'
  <2>1. End(s) /\ source = isolated /\ marker' = source /\ UNCHANGED <<source, isolated, modules>>
    BY <1>5 DEF MarkRestored
  <2>2. Ready => Ready'
    BY <2>1 DEF Ready, HaveModules, RequiresModules
  <2> QED
    BY <2>1, <2>2, EndKeeps
<1>6. ASSUME NEW s \in Session, Scan(s) PROVE GateInv'
  <2>0. UNCHANGED <<source, isolated, modules, marker>>
    BY <1>6 DEF Scan
  <2>1. CASE End(s)
    BY <1>r, <2>0, <2>1, EndKeeps
  <2>2. CASE pc' = [pc EXCEPT ![s] = "add"] /\ UNCHANGED <<lock, job>>
    <3>1. pc[s] = "scan" /\ pc'[s] = "add" /\ \A q \in Session : q # s => pc'[q] = pc[q]
      BY <1>0, <1>6, <2>2 DEF Scan
    <3>2. Placed(s)' /\ Gated(s)'
      BY <2>2, <3>1 DEF GateInv, Placed, Gated, Inside
    <3> QED
      BY <1>r, <2>0, <2>2, <3>1, <3>2, OwnStep
  <2> QED
    BY <1>6, <2>1, <2>2 DEF Scan
<1>7. ASSUME NEW s \in Session, NEW f \in File, CopyFile(s, f) PROVE GateInv'
  <2> DEFINE jobs == [job EXCEPT ![s].left = @ \ {f}]
  <2>1. /\ pc[s] = "copy" /\ f \in job[s].left /\ UNCHANGED <<source, modules, marker, lock, pc>>
        /\ isolated' = [isolated EXCEPT ![f] = source[f]] /\ isolated \in [File -> UNION {Content(g) : g \in File}]
        /\ job' = Crossing(s, jobs, isolated' # isolated)
    BY <1>7 DEF CopyFile, TypeOK, Package
  <2>2. /\ jobs \in [Session -> Job] /\ \A q \in Session : q # s => jobs[q] = job[q]
        /\ jobs[s].op = job[s].op /\ jobs[s].left = job[s].left \ {f} /\ jobs[s].edited = job[s].edited
    BY <1>0 DEF Job
  <2> HIDE DEF jobs
  <2>3. PICK disturbs \in BOOLEAN : disturbs <=> isolated' # isolated
    OBVIOUS
  <2>4. job' = Crossing(s, jobs, disturbs)
    BY <2>1, <2>3 DEF Crossing
  <2>5. job'[s] = jobs[s]
    BY <2>2, <2>4, Crossed
  <2>6. /\ isolated'[f] = source[f]
        /\ \A g \in File : g # f => isolated'[g] = isolated[g]
    BY <2>1
  <2>7. Placed(s)'
    BY <2>1, <2>2, <2>5 DEF GateInv, Placed
  <2>8. Gated(s)'
    <3> SUFFICES ASSUME job[s].op = "verify", ~job[s].edited
                 PROVE  GateAccepts("verify") /\ \A g \in File \ (job[s].left \ {f}) : isolated'[g] = source[g]
      BY <2>1, <2>2, <2>5 DEF Gated, GateAccepts, DeclaresToolchain, BuildsReviewed, LockfilePresent
    <3>1. GateAccepts("verify") /\ \A g \in File \ job[s].left : isolated[g] = source[g]
      BY <2>1 DEF GateInv, Gated
    <3> QED
      BY <2>6, <3>1
  <2>9. disturbs \/ (isolated' = isolated /\ (Ready => Ready'))
    BY <1>r, <2>1, <2>3
  <2>10. \A g \in File : isolated'[g] \in {isolated[g], source[g]}
    BY <2>6
  <2> QED
    BY <2>1, <2>2, <2>4, <2>7, <2>8, <2>9, <2>10, CrossingKeeps
<1>8. ASSUME NEW s \in Session, Assess(s) PROVE GateInv'
  <2>1. /\ pc[s] = "copy" /\ job[s].left = {}
        /\ job'[s] = [job[s] EXCEPT !.ready = Ready]
        /\ pc'[s] = IF modules # NoModules /\ ~Ready THEN "drop" ELSE "judge"
        /\ \A q \in Session : q # s => pc'[q] = pc[q] /\ job'[q] = job[q]
        /\ UNCHANGED <<source, isolated, modules, marker, lock>>
    BY <1>0, <1>8 DEF Assess
  <2>2. /\ job'[s].op = job[s].op /\ job'[s].ready = Ready /\ job'[s].edited = job[s].edited
    BY <1>0, <2>1 DEF Job
  <2>3. Placed(s)'
    BY <2>1, <2>2 DEF GateInv, Placed, Inside
  <2>4. job[s].op = "verify" => job[s].edited \/ (LockfilePresent(isolated) /\ BuildsReviewed(isolated))
    BY <2>1 DEF GateInv, Gated, GateAccepts, LockfilePresent, BuildsReviewed, File
  <2>5. Ready => Ready'
    BY <1>r, <2>1
  <2>6. Gated(s)'
    BY <2>1, <2>2, <2>4, <2>5 DEF Gated, Looked, LockfilePresent, BuildsReviewed
  <2> QED
    BY <2>1, <2>3, <2>5, <2>6, OwnStep
<1>9. ASSUME NEW s \in Session, RemoveSome(s) \/ RemoveRest(s) PROVE GateInv'
  <2>1. PICK rest \in {NoModules, Partial} : Removes(s, rest)
    BY <1>9 DEF RemoveSome, RemoveRest
  <2>2. PICK removed \in BOOLEAN :
          /\ removed <=> modules # NoModules
          /\ modules' = IF removed THEN rest ELSE modules
          /\ job' = Crossing(s, job, removed) /\ UNCHANGED <<source, isolated, marker, lock>>
    BY <2>1 DEF Removes
  <2>3. /\ pc[s] \in {"drop", "dropping"} /\ pc'[s] \in {"dropping", "judge"}
        /\ \A q \in Session : q # s => pc'[q] = pc[q]
    BY <1>0, <1>9 DEF RemoveSome, RemoveRest
  <2>4. job'[s] = job[s]
    BY <1>0, <2>2, Crossed
  <2>5. Placed(s)' /\ Gated(s)'
    BY <2>2, <2>3, <2>4 DEF GateInv, Placed, Gated, Inside
  <2>6. removed \/ (isolated' = isolated /\ (Ready => Ready'))
    BY <1>r, <2>2
  <2> QED
    BY <1>0, <2>2, <2>3, <2>5, <2>6, CrossingKeeps
<1>10. ASSUME NEW s \in Session, AskForInstall(s) \/ AskForRestore(s) PROVE GateInv'
  <2>1. /\ pc'[s] \in {"scan", "restore"} /\ job[s].op = "preflight"
        /\ \A q \in Session : q # s => pc'[q] = pc[q] /\ job'[q] = job[q]
        /\ UNCHANGED <<source, isolated, modules, marker, lock>>
    BY <1>0, <1>10 DEF AskForInstall, AskForRestore
  <2>2. job'[s].op = job[s].op
    <3>1. CASE AskForInstall(s)
      BY <1>0, <3>1 DEF AskForInstall, Job
    <3>2. CASE AskForRestore(s)
      BY <1>0, <3>2 DEF AskForRestore, Job
    <3> QED
      BY <1>10, <3>1, <3>2
  <2>3. Placed(s)' /\ Gated(s)'
    BY <2>1, <2>2 DEF Placed, Gated, Inside
  <2> QED
    BY <1>r, <2>1, <2>3, OwnStep
<1>11. ASSUME NEW s \in Session, Allow(s) PROVE GateInv'
  <2>1. /\ pc[s] = "judge" /\ job[s].op = "verify" /\ pc'[s] = "start"
        /\ job[s].ready /\ DeclaresToolchain(isolated)
        /\ \A q \in Session : q # s => pc'[q] = pc[q]
        /\ UNCHANGED <<source, isolated, modules, marker, lock, job>>
    BY <1>0, <1>11 DEF Allow, MayRun
  <2>2. Ready => Ready'
    BY <1>r, <2>1
  <2>3. Placed(s)'
    BY <2>1 DEF GateInv, Placed, Inside
  <2>4. Gated(s)'
    BY <2>1, <2>2 DEF GateInv, Gated, Looked, LockfilePresent, BuildsReviewed, DeclaresToolchain
  <2> QED
    BY <2>1, <2>2, <2>3, <2>4, OwnStep
<1>12. ASSUME NEW s \in Session, RunCommand(s) PROVE GateInv'
  <2>1. /\ pc[s] = "start" /\ pc'[s] = "run" /\ job'[s] = [NoJob EXCEPT !.op = "verify"]
        /\ \A q \in Session : q # s => pc'[q] = pc[q] /\ job'[q] = job[q]
        /\ UNCHANGED <<source, isolated, modules, marker, lock>>
    BY <1>0, <1>12 DEF RunCommand
  <2>2. job'[s].op = "verify"
    BY <2>1 DEF NoJob
  <2>3. Placed(s)' /\ Gated(s)'
    BY <2>1, <2>2 DEF GateInv, Placed, Gated, Inside
  <2> QED
    BY <1>r, <2>1, <2>3, OwnStep
<1>13. ASSUME NEW s \in Session, PlanBuilds(s) PROVE GateInv'
  <2>1. /\ pc'[s] = "decide" /\ UNCHANGED <<source, isolated, modules, marker, lock>>
        /\ \A q \in Session : q # s => pc'[q] = pc[q] /\ job'[q] = job[q]
    BY <1>0, <1>13 DEF PlanBuilds
  <2>2. Placed(s)' /\ Gated(s)'
    BY <2>1 DEF Placed, Gated, Inside
  <2> QED
    BY <1>r, <2>1, <2>2, OwnStep
<1>14. ASSUME NEW s \in Session, AddPackage(s) \/ DecideBuilds(s) PROVE GateInv'
  <2>1. [job EXCEPT ![s] = NoJob] \in [Session -> Job]
    BY <1>0, NoJobTyped
  <2>2. \A q \in Session : pc'[q] = "idle" \/ (pc'[q] = pc[q] /\ [job EXCEPT ![s] = NoJob][q] = job[q])
    BY <1>0, <1>14 DEF AddPackage, DecideBuilds
  <2>3. PICK back : Unseen([job EXCEPT ![s] = NoJob], back)
    BY <1>14 DEF AddPackage, DecideBuilds
  <2> QED
    BY <2>1, <2>2, <2>3, UnseenKeeps
<1>15. ASSUME NEW s \in Session, StartInstall(s) PROVE GateInv'
  <2>1. PICK alone \in BOOLEAN : job' = Crossing(s, [job EXCEPT ![s].crossed = ~alone], TRUE)
    BY <1>15 DEF StartInstall
  <2>2. PICK disturbs \in BOOLEAN : disturbs /\ job' = Crossing(s, [job EXCEPT ![s].crossed = ~alone], disturbs)
    BY <2>1
  <2> DEFINE jobs == [job EXCEPT ![s].crossed = ~alone]
  <2>3. jobs \in [Session -> Job] /\ jobs[s].op = job[s].op /\ \A q \in Session : q # s => jobs[q] = job[q]
    BY <1>0 DEF Job
  <2>4. disturbs /\ job' = Crossing(s, jobs, disturbs)
    BY <2>2
  <2> HIDE DEF jobs
  <2>5. job'[s].op = job[s].op
    BY <2>3, <2>4 DEF Crossing
  <2>6. /\ pc[s] = "restore" /\ pc'[s] = "install" /\ UNCHANGED <<source, isolated, lock>>
        /\ \A q \in Session : q # s => pc'[q] = pc[q]
    BY <1>0, <1>15 DEF StartInstall
  <2>7. Placed(s)' /\ Gated(s)'
    BY <2>5, <2>6 DEF GateInv, Placed, Gated, Inside
  <2>8. \A f \in File : isolated'[f] \in {isolated[f], source[f]}
    BY <2>6
  <2> QED
    BY <2>3, <2>4, <2>6, <2>7, <2>8, CrossingKeeps
<1>16. ASSUME NEW s \in Session, InstallSucceeds(s) PROVE GateInv'
  <2>1. /\ pc[s] = "install" /\ pc'[s] = "mark" /\ UNCHANGED <<source, isolated, marker, lock, job>>
        /\ \A q \in Session : q # s => pc'[q] = pc[q]
        /\ modules' # NoModules
    BY <1>0, <1>16, KindsOfModules DEF InstallSucceeds
  <2>2. Placed(s)' /\ Gated(s)'
    BY <2>1 DEF GateInv, Placed, Gated, Inside
  <2>3. Ready => Ready'
    BY <2>1 DEF Ready, HaveModules
  <2> QED
    BY <2>1, <2>2, <2>3, OwnStep
<1>17. ASSUME NEW f \in File, Edit(f) PROVE GateInv'
  <2>1. pc' = pc /\ \E back : Unseen(job, back)
    BY <1>17 DEF Edit
  <2> QED
    BY <1>0, <2>1, UnseenKeeps
<1>18. CASE Revert
  <2>1. pc' = pc /\ \E back : Unseen(job, back)
    BY <1>18 DEF Revert
  <2> QED
    BY <1>0, <2>1, UnseenKeeps
<1>19. CASE UNCHANGED vars
  <2>1. UNCHANGED <<source, isolated, modules, marker, lock, pc, job>>
    BY <1>19 DEF vars
  <2> QED
    BY <1>r, <2>1 DEF GateInv, Placed, Gated, Looked, GateAccepts, DeclaresToolchain, BuildsReviewed, LockfilePresent
<1> QED
  BY <1>1, <1>2, <1>3, <1>4, <1>5, <1>6, <1>7, <1>8, <1>9, <1>10, <1>11, <1>12, <1>13, <1>14, <1>15,
     <1>16, <1>17, <1>18, <1>19 DEF Next, SessionStep

\* At first no session is past the gate.
LEMMA GateInit == Init => GateInv
  BY DEF Init, GateInv, Placed, Gated, NoJob, Inside

\* A command starts only on a ready copy that declares its toolchain, under a lockfile
\* and a build policy that pass the gate unless they were edited while the runtime
\* waited or copied: for any number of sessions that copy, restore and edit, unless a
\* session without the lock changed the copy or the modules after the last look.
THEOREM CommandsAreGated == Spec => RunsAsGated
<1>1. TypeOK /\ GateInv /\ [Next]_vars =>
        [\A s \in Session : pc[s] # "run" /\ pc'[s] = "run" /\ ~job[s].crossed =>
           /\ Ready /\ DeclaresToolchain(isolated)
           /\ job[s].edited \/ (LockfilePresent(isolated) /\ BuildsReviewed(isolated))]_vars
  <2> SUFFICES ASSUME TypeOK, GateInv, Next, NEW s \in Session, pc[s] # "run", pc'[s] = "run", ~job[s].crossed
               PROVE  /\ Ready /\ DeclaresToolchain(isolated)
                      /\ job[s].edited \/ (LockfilePresent(isolated) /\ BuildsReviewed(isolated))
    BY DEF vars
  <2>1. pc[s] = "start"
    <3> USE DEF Goto, End, TypeOK
    <3>1. \A q \in Session, op \in Ops : ~Begin(q, op)
      BY DEF Begin
    <3>2. \A q \in Session : ~(PassGate(q) \/ Blocked(q) \/ LockWorkspace(q) \/ LockTimesOut(q) \/ SyncEnds(q))
      BY DEF PassGate, Blocked, LockWorkspace, LockTimesOut, SyncEnds
    <3>3. \A q \in Session : ~((\E f \in File : CopyFile(q, f)) \/ Assess(q) \/ RemoveSome(q) \/ RemoveRest(q))
      BY DEF CopyFile, Assess, RemoveSome, RemoveRest
    <3>4. \A q \in Session : ~(PreflightEnds(q) \/ AskForInstall(q) \/ AskForRestore(q) \/ Refuse(q) \/ Allow(q))
      BY DEF PreflightEnds, AskForInstall, AskForRestore, Refuse, Allow
    <3>5. \A q \in Session : ~(Scan(q) \/ PlanBuilds(q) \/ BuildsRefused(q) \/ MarkRestored(q) \/ MarkRefused(q) \/ CommandTimesOut(q))
      BY DEF Scan, PlanBuilds, BuildsRefused, MarkRestored, MarkRefused, CommandTimesOut
    <3>6. \A q \in Session : ~(AddPackage(q) \/ DecideBuilds(q) \/ StartInstall(q) \/ InstallSucceeds(q) \/ CommandEnds(q) \/ Abandon(q))
      BY DEF AddPackage, DecideBuilds, StartInstall, InstallSucceeds, CommandEnds, Abandon
    <3>7. ~Revert /\ \A f \in File : ~Edit(f)
      BY DEF Revert, Edit
    <3>8. PICK q \in Session : RunCommand(q)
      BY <3>1, <3>2, <3>3, <3>4, <3>5, <3>6, <3>7 DEF Next, SessionStep
    <3> QED
      BY <3>8 DEF RunCommand
  <2> QED
    BY <2>1 DEF GateInv, Gated, Looked
<1> QED
  BY <1>1, TypeInit, TypeStep, GateInit, GateStep, PTL DEF Spec, RunsAsGated

\* From its last look at the copy to the end of its command a verification is disturbed
\* by nobody who takes the lock, whatever runs concurrently: the copy and the modules
\* are then only changed by a preflight or a plain sync.
THEOREM OnlyUnlockedDisturb == Spec => RunIsUndisturbed
<1>1. TypeOK /\ GateInv /\ [Next]_vars =>
        [\A s \in Session :
           /\ job[s].op = "verify" /\ pc[s] \in {"judge", "start", "run"}
           /\ <<isolated, modules>>' # <<isolated, modules>>
           => \E q \in Session : /\ job[q].op \in {"preflight", "sync"}
                                 /\ <<pc[q], job[q]>>' # <<pc[q], job[q]>>]_vars
  <2> SUFFICES ASSUME TypeOK, GateInv, Next, NEW s \in Session, job[s].op = "verify",
                      pc[s] \in {"judge", "start", "run"}, <<isolated, modules>>' # <<isolated, modules>>
               PROVE  \E q \in Session : job[q].op \in {"preflight", "sync"} /\ <<pc[q], job[q]>>' # <<pc[q], job[q]>>
    BY DEF vars
  <2>0. pc \in [Session -> Where] /\ job \in [Session -> Job]
    BY DEF TypeOK, Job
  <2> USE DEF Goto, Looks, Unseen
  <2>1. ~(Revert \/ \E f \in File : Edit(f))
    BY DEF Revert, Edit
  <2>2. \A q \in Session : ~(AddPackage(q) \/ DecideBuilds(q) \/ CommandEnds(q) \/ Abandon(q) \/ Assess(q)
                             \/ \E op \in Ops : Begin(q, op))
    BY DEF AddPackage, DecideBuilds, CommandEnds, Abandon, Begin, Assess
  <2>3. \A q \in Session : ~(\/ PassGate(q) \/ Blocked(q) \/ LockWorkspace(q) \/ LockTimesOut(q)
                             \/ Allow(q) \/ Refuse(q) \/ RunCommand(q) \/ Scan(q) \/ PlanBuilds(q))
    BY DEF PassGate, Blocked, LockWorkspace, LockTimesOut, Allow, Refuse, RunCommand, Scan, PlanBuilds
  <2>4. \A q \in Session : ~(\/ PreflightEnds(q) \/ SyncEnds(q) \/ AskForInstall(q) \/ AskForRestore(q)
                             \/ BuildsRefused(q) \/ MarkRestored(q) \/ MarkRefused(q) \/ CommandTimesOut(q))
    BY DEF PreflightEnds, SyncEnds, AskForInstall, AskForRestore, BuildsRefused, MarkRestored, MarkRefused,
           CommandTimesOut
  <2>5. PICK q \in Session :
          \/ \E f \in File : CopyFile(q, f)
          \/ RemoveSome(q) \/ RemoveRest(q) \/ StartInstall(q) \/ InstallSucceeds(q)
    BY <2>1, <2>2, <2>3, <2>4 DEF Next, SessionStep
  <2>6. ASSUME pc[q] \in {"copy", "drop", "dropping"} PROVE job[q].op \in {"preflight", "sync"}
    <3>1. lock = s /\ q # s
      BY <2>6 DEF GateInv, Placed, Inside
    <3> QED
      BY <2>6, <3>1 DEF GateInv, Placed, Inside
  <2>7. ASSUME NEW f \in File, CopyFile(q, f) PROVE job[q].op \in {"preflight", "sync"} /\ job'[q] # job[q]
    <3>1. job[q].op \in {"preflight", "sync"} /\ f \in job[q].left
      BY <2>6, <2>7 DEF CopyFile
    <3> DEFINE jobs == [job EXCEPT ![q].left = @ \ {f}]
    <3>2. jobs \in [Session -> Job] /\ jobs[q].left = job[q].left \ {f}
      BY <2>0 DEF Job
    <3>3. job'[q] = jobs[q]
      BY <2>7 DEF CopyFile, Crossing
    <3> QED
      BY <3>1, <3>2, <3>3
  <2>8. ASSUME RemoveSome(q) \/ RemoveRest(q) PROVE job[q].op \in {"preflight", "sync"} /\ pc'[q] # pc[q]
    BY <2>0, <2>6, <2>8 DEF RemoveSome, RemoveRest
  <2>9. ASSUME StartInstall(q) \/ InstallSucceeds(q) PROVE job[q].op = "preflight" /\ pc'[q] # pc[q]
    <3>1. pc[q] \in {"restore", "install"} /\ pc'[q] # pc[q]
      BY <2>0, <2>9 DEF StartInstall, InstallSucceeds
    <3> QED
      BY <3>1 DEF GateInv, Placed
  <2> QED
    BY <2>5, <2>7, <2>8, <2>9
<1> QED
  BY <1>1, TypeInit, TypeStep, GateInit, GateStep, PTL DEF Spec, RunIsUndisturbed
=============================================================================
