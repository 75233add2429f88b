---------------------------- MODULE ToolsProofs ----------------------------
(***************************************************************************)
(* Proofs about the tools that share nothing with one another: the state   *)
(* file of MatrixMerge, the pin promotion of PinHeads, the engine job of   *)
(* EngineCache, the waiting calls of RateLimit, the packages and the gate  *)
(* of PackageChain, and what SourceNormalize visits.                       *)
(***************************************************************************)
EXTENDS MCTools, MatrixCellsProofs

-----------------------------------------------------------------------------
(* MatrixMerge *)

LEMMA MergeInductive == IInv /\ [Next]_<<state, seen>> => IInv'
<1> SUFFICES ASSUME IInv, [Next]_<<state, seen>> PROVE IInv'
  OBVIOUS
<1> USE DEF IInv, TypeOK, NewestConclusionShown, InterruptionKept
<1>1. ASSUME NEW c \in Cell, Merge(c) PROVE IInv'
  <2>1. state' = MergeCell(state, c) /\ seen' = seen \cup {c}
    BY <1>1 DEF Merge
  <2> QED BY <2>1, MergeTells DEF Tells
<1>2. CASE UNCHANGED <<state, seen>>
  BY <1>2
<1> QED BY <1>1, <1>2 DEF Next

LEMMA MergeInitially == Init => IInv
  BY EmptyTells DEF Init, IInv, TypeOK, NewestConclusionShown, InterruptionKept, Tells

\* The invariant holds of every file that merges can leave.
THEOREM MergeInvariance == Spec => []IInv
  BY MergeInitially, MergeInductive, PTL DEF Spec

\* The state file keeps its shape: every record stands under its own key.
THEOREM MergeTypes == Spec => []TypeOK
  BY MergeInvariance, PTL DEF IInv

\* Whatever is merged, how often and in which order, the file shows for each
\* key the newest conclusion ever merged.
THEOREM NewestWins == Spec => []NewestConclusionShown
  BY MergeInvariance, PTL DEF IInv

\* ... and keeps beside it exactly the newest interruption since.
THEOREM InterruptionsKept == Spec => []InterruptionKept
  BY MergeInvariance, PTL DEF IInv

\* No merge takes a conclusion back.
THEOREM MergeMonotone == Spec => NeverRegresses
<1>1. IInv /\ IInv' /\ [Next]_<<state, seen>> =>
        \/ UNCHANGED <<state, seen>>
        \/ \A k \in DOMAIN state.cells : state.cells[k].status # Infra =>
              /\ k \in DOMAIN state'.cells
              /\ state'.cells[k].status # Infra
              /\ state'.cells[k].time >= state.cells[k].time
  <2> SUFFICES ASSUME IInv, IInv', [Next]_<<state, seen>>,
                      NEW k \in DOMAIN state.cells, state.cells[k].status # Infra
               PROVE  \/ UNCHANGED <<state, seen>>
                      \/ /\ k \in DOMAIN state'.cells
                         /\ state'.cells[k].status # Infra
                         /\ state'.cells[k].time >= state.cells[k].time
    OBVIOUS
  <2>1. k \in Keys /\ state.cells[k] \in Cell
    BY MapShape DEF IInv, TypeOK, State
  <2>2. state.cells[k] \in Concluded(seen, k)
    BY <2>1 DEF IInv, NewestConclusionShown, ShowsNewest, ShowsAt, Newest, Interrupted
  <2>3. seen \subseteq seen'
    BY DEF Next, Merge
  <2>4. state.cells[k] \in Concluded(seen', k)
    BY <2>2, <2>3 DEF Concluded
  <2>5. k \in DOMAIN state'.cells /\ Newest(state'.cells[k], Concluded(seen', k))
    BY <2>1, <2>4 DEF IInv, NewestConclusionShown, ShowsNewest, ShowsAt
  <2>6. state'.cells[k] \in Cell /\ \A d \in Cell : d.time \in Nat
    BY <2>5, MapShape, CellAssumption DEF IInv, TypeOK, State, Cell
  <2> QED BY <2>1, <2>4, <2>5, <2>6 DEF Newest, Concluded
<1> QED BY <1>1, MergeInvariance, PTL DEF Spec, NeverRegresses

-----------------------------------------------------------------------------
(* PinHeads *)

\* The saved state claims no pass that was not one.
Truthful ==
    \A cell \in TrunkCells :
        saved[cell].status = "pass" => <<cell, saved[cell].commit>> \in passed

\* While the remotes are asked, the pins are those of the files and nothing is
\* judged yet.
Reading ==
    pc = "resolving" =>
        /\ \A p \in pins : file[p.vmod][p.slot] = p.commit
        /\ green = {} /\ exit = "none"

\* What was judged green has a head, another one than its pin, and the head has
\* passed wherever it is expected to.
Judged ==
    \A p \in green :
        /\ RemoteOf[p.vmod] \in DOMAIN heads
        /\ HeadOf(p) \in Commits /\ HeadOf(p) # p.commit
        /\ \A cell \in ExpectedCells(p.vmod) : <<cell, HeadOf(p)>> \in passed

OnePerEntry ==
    \A p, q \in pins : p.vmod = q.vmod /\ p.slot = q.slot => p = q

PinInv == PinTypeOK /\ Truthful /\ Reading /\ Judged /\ OnePerEntry /\ AppliedInOrder

LEMMA PinFacts ==
    /\ \A p \in Pin : p.vmod \in Rows /\ p.slot \in Entries /\ p.commit \in Commits
                      /\ RemoteOf[p.vmod] \in Remotes
    /\ \A p, q \in Pin : p.vmod = q.vmod /\ p.slot = q.slot /\ p.commit = q.commit => p = q
    /\ NoCommit \notin Commits
    /\ \A cell \in TrunkCells : RemoteOf[cell[1]] \in Remotes
  BY PinAssumption DEF Pin, Remotes, NoCommit, Commits

LEMMA PinInitial ==
    ASSUME PinInit
    PROVE  PinInv
  <1>1. PinTypeOK
    BY PinAssumption DEF PinInit, PinTypeOK, Commits, NoCommit, Exits
  <1>. QED
    BY <1>1 DEF PinInit, PinInv, Truthful, Reading, Judged, OnePerEntry, AppliedInOrder

LEMMA MoveHeadPreserves ==
    ASSUME PinInv, NEW r \in Remotes, MoveHead(r)
    PROVE  PinInv'
  <1>1. PinTypeOK'
    BY PinAssumption DEF PinInv, PinTypeOK, MoveHead, Commits
  <1>. QED
    BY <1>1
    DEF PinInv, MoveHead, Truthful, Reading, Judged, OnePerEntry, AppliedInOrder, HeadOf

LEMMA ReportPreserves ==
    ASSUME PinInv, NEW cell \in TrunkCells, Report(cell)
    PROVE  PinInv'
  <1>1. PICK c \in 1..head[RemoteOf[cell[1]]], status \in {"pass", "red"} :
          /\ saved' = [saved EXCEPT ![cell] = [status |-> status, commit |-> c]]
          /\ passed' = IF status = "pass" THEN passed \cup {<<cell, c>>} ELSE passed
          /\ UNCHANGED <<file, head, pc, pins, heads, green, todo, exit, calls, errors>>
    BY DEF Report
  <1>2. c \in Commits
    BY PinFacts, PinAssumption DEF PinInv, PinTypeOK, Commits
  <1>3. PinTypeOK'
    BY <1>1, <1>2 DEF PinInv, PinTypeOK
  <1>4. passed \subseteq passed'
    BY <1>1
  <1>5. Truthful'
    BY <1>1, <1>4 DEF PinInv, PinTypeOK, Truthful
  <1>6. Judged'
    BY <1>1, <1>4 DEF PinInv, Judged, HeadOf
  <1>. QED
    BY <1>1, <1>3, <1>5, <1>6 DEF PinInv, Reading, OnePerEntry, AppliedInOrder, HeadOf

LEMMA LoadPreserves ==
    ASSUME PinInv, Load
    PROVE  PinInv'
  <1>1. /\ pins' = Pins(file)
        /\ heads' = [r \in {} |-> NoCommit] /\ green' = {} /\ todo' = {} /\ exit' = "none"
        /\ pc' = "resolving" /\ calls < MaxCalls /\ calls' = calls + 1
        /\ UNCHANGED <<file, head, saved, passed, errors>>
    BY DEF Load, upstream
  <1>2. pins' \subseteq Pin /\ \A p \in pins' : file[p.vmod][p.slot] = p.commit
    BY <1>1 DEF Pins
  <1>3. PinTypeOK'
    BY <1>1, <1>2, PinAssumption DEF PinInv, PinTypeOK, Exits
  <1>4. OnePerEntry'
    BY <1>2, PinFacts DEF OnePerEntry
  <1>. QED
    BY <1>1, <1>2, <1>3, <1>4
    DEF PinInv, Truthful, Reading, Judged, AppliedInOrder

LEMMA ResolvePreserves ==
    ASSUME PinInv, NEW r \in Remotes, Resolve(r)
    PROVE  PinInv'
  <1>1. /\ pc = "resolving" /\ green = {} /\ todo = {}
        /\ UNCHANGED <<file, head, saved, passed, pc, pins, green, todo, exit, calls>>
    BY DEF Resolve, upstream, PinInv, Reading, PinTypeOK
  <1>2. DOMAIN heads' = DOMAIN heads \cup {r}
        /\ heads' \in [DOMAIN heads \cup {r} -> Commits \cup {NoCommit}]
    BY DEF Resolve, PinInv, PinTypeOK
  <1>3. errors' \in 0..MaxErrors
    BY PinAssumption DEF Resolve, PinInv, PinTypeOK
  <1>4. PinTypeOK'
    BY <1>1, <1>2, <1>3 DEF PinInv, PinTypeOK
  <1>. QED
    BY <1>1, <1>4 DEF PinInv, Truthful, Reading, Judged, OnePerEntry, AppliedInOrder

LEMMA JudgePreserves ==
    ASSUME PinInv, Judge
    PROVE  PinInv'
  <1>1. /\ pc = "resolving" /\ Asked = DOMAIN heads
        /\ UNCHANGED <<file, head, saved, passed, pins, heads, calls>>
    BY DEF Judge, upstream
  <1>2. CASE /\ todo' = {p \in pins : IsGreen(p)} /\ green' = todo' /\ pc' = "applying"
             /\ UNCHANGED <<exit, errors>>
    <2>1. PinTypeOK'
      BY <1>1, <1>2 DEF PinInv, PinTypeOK
    <2>2. ASSUME NEW p \in green'
          PROVE  /\ p \in pins /\ p \in Pin /\ RemoteOf[p.vmod] \in DOMAIN heads
                 /\ HeadOf(p) \in Commits /\ HeadOf(p) # p.commit /\ Proven(p)
      <3>1. p \in pins /\ IsGreen(p)
        BY <1>2
      <3>2. RemoteOf[p.vmod] \in DOMAIN heads
        BY <3>1, <1>1 DEF Asked
      <3>. QED
        BY <3>1, <3>2 DEF IsGreen, HeadOf, PinInv, PinTypeOK
    <2>3. ASSUME NEW p \in green', NEW cell \in ExpectedCells(p.vmod)
          PROVE  <<cell, HeadOf(p)>> \in passed
      <3>1. cell \in TrunkCells /\ saved[cell] = [status |-> "pass", commit |-> HeadOf(p)]
        BY <2>2 DEF Proven, ExpectedCells
      <3>. QED
        BY <3>1 DEF PinInv, Truthful
    <2>4. Judged'
      BY <2>2, <2>3, <1>1 DEF Judged, HeadOf
    <2>5. AppliedInOrder'
      BY <1>1, <1>2, <2>2 DEF PinInv, Reading, AppliedInOrder
    <2>. QED
      BY <1>1, <1>2, <2>1, <2>4, <2>5 DEF PinInv, Truthful, Reading, OnePerEntry
  <1>3. CASE /\ errors < MaxErrors /\ errors' = errors + 1
             /\ exit' = "refused" /\ pc' = "idle" /\ UNCHANGED <<todo, green>>
    <2>1. PinTypeOK'
      BY <1>1, <1>3, PinAssumption DEF PinInv, PinTypeOK, Exits
    <2>. QED
      BY <1>1, <1>3, <2>1
      DEF PinInv, Truthful, Reading, Judged, OnePerEntry, AppliedInOrder, HeadOf
  <1>. QED
    BY <1>2, <1>3 DEF Judge

\* A pin that can be told apart is the only line of its manifest with its
\* commit, so that writing it touches no other entry.
LEMMA OneLine ==
    ASSUME PinInv, NEW p \in todo, Rewritable(p)
    PROVE  LinesWith(p.vmod, p.commit) = {p.slot}
  <1>1. p \in Pin /\ p \in green /\ file[p.vmod][p.slot] = p.commit
    BY DEF PinInv, PinTypeOK, AppliedInOrder
  <1>2. p.slot \in LinesWith(p.vmod, p.commit)
    BY <1>1, PinFacts DEF LinesWith
  <1>3. IsFiniteSet(LinesWith(p.vmod, p.commit))
    BY PinAssumption, FS_Subset DEF LinesWith
  <1>. QED
    BY <1>2, <1>3, FS_Singleton DEF Rewritable

LEMMA ApplyPreserves ==
    ASSUME PinInv, NEW p \in todo, Apply(p)
    PROVE  PinInv'
  <1>1. /\ pc = "applying" /\ \A q \in todo \ {p} : Before(p, q)
        /\ UNCHANGED <<head, saved, passed, pins, heads, green, calls, errors>>
    BY DEF Apply, upstream
  <1>2. p \in Pin /\ p \in green /\ p \in pins
    BY DEF PinInv, PinTypeOK
  <1>3. CASE Rewritable(p) /\ file' = Rewritten(p) /\ todo' = todo \ {p}
             /\ UNCHANGED <<pc, exit>>
    <2>1. HeadOf(p) \in Commits /\ p.vmod \in Rows
      BY <1>2, PinFacts DEF PinInv, Judged
    <2>2. file' \in [Rows -> [Entries -> Commits \cup {NoCommit}]]
      BY <1>3, <2>1 DEF PinInv, PinTypeOK, Rewritten
    <2>3. \A v \in Rows, s \in Entries :
             file'[v][s] = IF v = p.vmod /\ s = p.slot THEN HeadOf(p) ELSE file[v][s]
      <3>1. LinesWith(p.vmod, p.commit) = {p.slot}
        BY <1>3, OneLine
      <3>2. \A s \in Entries : file[p.vmod][s] = p.commit <=> s = p.slot
        BY <3>1 DEF LinesWith
      <3>. QED
        BY <1>3, <2>1, <3>2 DEF PinInv, PinTypeOK, Rewritten
    <2>4. PinTypeOK'
      BY <1>1, <1>3, <2>2 DEF PinInv, PinTypeOK
    <2>5. AppliedInOrder'
      <3>1. ASSUME NEW q \in green
            PROVE  file'[q.vmod][q.slot] = IF q \in todo' THEN q.commit ELSE HeadOf(q)
        <4>1. q \in pins /\ q.vmod \in Rows /\ q.slot \in Entries
          BY PinFacts DEF PinInv, PinTypeOK
        <4>2. q.vmod = p.vmod /\ q.slot = p.slot <=> q = p
          BY <1>2, <4>1 DEF PinInv, OnePerEntry
        <4>. QED
          BY <1>3, <2>3, <4>1, <4>2 DEF PinInv, AppliedInOrder
      <3>2. \A q \in green \ todo', r \in todo' : Before(q, r)
        BY <1>1, <1>3 DEF PinInv, AppliedInOrder
      <3>3. exit' \in {"ok", "unresolved"} => todo' = {}
        BY <1>3 DEF PinInv, AppliedInOrder
      <3>. QED
        BY <1>1, <3>1, <3>2, <3>3 DEF AppliedInOrder, HeadOf
    <2>. QED
      BY <1>1, <1>3, <2>4, <2>5 DEF PinInv, Truthful, Reading, Judged, OnePerEntry, HeadOf
  <1>4. CASE exit' = "refused" /\ pc' = "idle" /\ UNCHANGED <<todo, file>>
    <2>1. PinTypeOK'
      BY <1>1, <1>4 DEF PinInv, PinTypeOK, Exits
    <2>. QED
      BY <1>1, <1>4, <2>1
      DEF PinInv, Truthful, Reading, Judged, OnePerEntry, AppliedInOrder, HeadOf
  <1>. QED
    BY <1>3, <1>4 DEF Apply, AfterRefusal

LEMMA FinishPreserves ==
    ASSUME PinInv, Finish
    PROVE  PinInv'
  <1>1. PinTypeOK'
    BY DEF Finish, upstream, PinInv, PinTypeOK, Exits
  <1>. QED
    BY <1>1
    DEF Finish, upstream, PinInv, Truthful, Reading, Judged, OnePerEntry, AppliedInOrder, HeadOf

LEMMA PinStep ==
    ASSUME PinInv, [PinNext]_pinVars
    PROVE  PinInv'
  <1>1. CASE UNCHANGED pinVars
    BY <1>1
    DEF pinVars, upstream, PinInv, PinTypeOK, Truthful, Reading, Judged, OnePerEntry,
        AppliedInOrder, HeadOf
  <1>. QED
    BY <1>1, MoveHeadPreserves, ReportPreserves, LoadPreserves, ResolvePreserves,
       JudgePreserves, ApplyPreserves, FinishPreserves
    DEF PinNext

LEMMA PinAlways == PinSpec => []PinInv
  BY PinInitial, PinStep, PTL DEF PinSpec

\* The state of the pin promotion is well formed, at any time.
THEOREM PinTypes == PinSpec => []PinTypeOK
  <1>1. PinInv => PinTypeOK
    BY DEF PinInv
  <1>. QED
    BY <1>1, PinAlways, PTL

\* For any manifests, branches and catalog, and however many calls are made over
\* what earlier ones have left: the pins before a refusal are written, those
\* behind it are not, and a call that succeeds has written them all.
THEOREM PinsInOrder == PinSpec => []AppliedInOrder
  <1>1. PinInv => AppliedInOrder
    BY DEF PinInv
  <1>. QED
    BY <1>1, PinAlways, PTL

\* Whatever moves between the lookups, the judgement and the writing, a commit
\* that gets into a manifest has itself passed in every trunk cell the catalog
\* expects of its VMOD.
THEOREM PinsProven == PinSpec => OnlyProven
  <1>. DEFINE Write == \A v \in Rows, s \in Entries : file'[v][s] # file[v][s] =>
                          \A cell \in ExpectedCells(v) : <<cell, file'[v][s]>> \in passed
  <1>1. ASSUME PinInv, [PinNext]_pinVars
        PROVE  Write
    <2>1. CASE UNCHANGED file
      BY <2>1
    <2>2. ASSUME NEW p \in todo, Apply(p), file' = Rewritten(p)
          PROVE  Write
      <3>1. /\ p.vmod \in Rows
            /\ \A cell \in ExpectedCells(p.vmod) : <<cell, HeadOf(p)>> \in passed
        <4>1. p \in green /\ p \in Pin
          BY <1>1 DEF PinInv, PinTypeOK
        <4>. QED
          BY <1>1, <4>1, PinFacts DEF PinInv, Judged
      <3>2. \A v \in Rows, s \in Entries :
               file'[v][s] # file[v][s] => v = p.vmod /\ file'[v][s] = HeadOf(p)
        BY <1>1, <2>2, <3>1 DEF Rewritten, PinInv, PinTypeOK
      <3>. QED
        BY <3>1, <3>2
    <2>. QED
      BY <1>1, <2>1, <2>2
      DEF PinNext, pinVars, MoveHead, Report, Load, Resolve, Judge, Apply, Finish
  <1>2. ASSUME PinInv, [PinNext]_pinVars
        PROVE  [Write]_pinVars
    BY <1>1, <1>2
  <1>. QED
    BY <1>2, PinAlways, PTL DEF PinSpec, OnlyProven

-----------------------------------------------------------------------------
(* EngineCache *)

Needed(e) == Early(e) \cup {"commit", "result"}

Right(item, tr) ==
    [commit |-> item.commit, contract |-> tr, whole |-> TRUE, status |-> "pass"]

\* All files of an item are of one build, of its commit and by one checkout.
Sound(files, item, tr) ==
    \A kind \in Needed(item.engine) : files[item.engine][kind] = Right(item, tr)

Passing(files, e) == files[e]["result"].whole /\ files[e]["result"].status = "pass"

LastPasses == Passing(work, batch[Len(batch)])

\* How far a job has come.
Progress ==
    /\ step # "idle" => batch \in Batches
    /\ step = "resolve" => turn = Len(items) + 1 /\ work = NoWork /\ ~hit
    /\ step \in {"validate", "build", "conclude"} => Len(items) = Len(batch)
    /\ step \in {"resolve", "validate", "build"} => ~cut

\* One branch, one commit; a release has none.
OneCommit ==
    /\ \A i \in DOMAIN items : BranchOf[items[i].engine] = NoBranch => items[i].commit = NoSource
    /\ \A i, j \in DOMAIN items :
          BranchOf[items[i].engine] = BranchOf[items[j].engine] => items[i].commit = items[j].commit

\* Wherever its files come from, an item whose result passes is of this job.
WorkFits ==
    step \in {"validate", "build", "conclude"} =>
        \A i \in DOMAIN items : Passing(work, items[i].engine) =>
            /\ work[items[i].engine]["result"] = Right(items[i], tree)
            /\ ~cut => Sound(work, items[i], tree)

\* A snapshot that came in part is short of its last result, and so is a job
\* that runs out of time: neither can be taken for a whole one.
LastIsLast ==
    /\ step = "validate" => (\A i \in DOMAIN items : Sound(work, items[i], tree)) \/ ~LastPasses
    /\ step = "build" /\ turn <= Len(items) => ~LastPasses
    /\ step = "conclude" /\ cut => ~LastPasses

\* What the last job to upload handed on.
UploadFits ==
    \A i \in DOMAIN uploaded.items :
        LET item == uploaded.items[i] IN
        Passing(uploaded.work, item.engine) =>
            /\ uploaded.work[item.engine]["result"] = Right(item, uploaded.tree)
            /\ ~uploaded.cut => Sound(uploaded.work, item, uploaded.tree)

EngineInv ==
    /\ EngineTypeOK /\ Progress /\ OneCommit /\ WorkFits /\ LastIsLast
    /\ EngineSnapshotsWhole /\ UploadFits

LEMMA WorkFacts ==
    /\ NoWork \in Work /\ \A e \in Engines : ~Passing(NoWork, e)
    /\ \A files \in Work, e \in Engines, kind \in Kinds :
          /\ files[e][kind].commit \in 0..MaxTip
          /\ files[e][kind].contract \in 0..MaxContract
          /\ files[e][kind].whole \in BOOLEAN
          /\ files[e][kind].status \in {"pass", "red", "infra", "absent"}
    /\ \A e : Needed(e) \subseteq Kinds
  BY EngineAssumption
  DEF NoWork, NoFiles, Absent, NoSource, AnyFile, Work, Passing, Kinds, Needed, Early

LEMMA NoItems == <<>> \in Seq(Item) /\ Len(<<>>) = 0 /\ DOMAIN <<>> = {}
  OBVIOUS

LEMMA EngineInitial ==
    ASSUME EngineInit
    PROVE  EngineInv
  <1>1. uploaded.items = <<>> /\ uploaded.work = NoWork
    BY DEF EngineInit, NoUpload
  <1>2. store \in [DOMAIN store -> Work] /\ DOMAIN store = {}
    BY DEF EngineInit
  <1>3. EngineTypeOK
    <2>1. batch \in Batches \cup {<<>>} /\ items = <<>> /\ Len(items) = 0 /\ Len(batch) = 0
          /\ DOMAIN items = {}
      BY NoItems DEF EngineInit
    <2>2. tip \in [Branches -> 1..MaxTip] /\ contract \in 1..MaxContract /\ tree \in 1..MaxContract
      BY EngineAssumption DEF EngineInit
    <2>3. turn \in 1..(Len(batch) + 1) /\ jobs \in 0..MaxJobs /\ mishaps \in 0..MaxMishaps
      BY <2>1, EngineAssumption DEF EngineInit
    <2>. QED
      <3>1. uploaded.items \in Seq(Item) /\ uploaded.work \in Work
        BY <1>1, NoItems, WorkFacts
      <3>2. items \in Seq(Item) /\ Len(items) <= Len(batch)
        BY <2>1, NoItems
      <3>3. work \in Work /\ hit \in BOOLEAN /\ cut \in BOOLEAN
            /\ step \in {"idle", "resolve", "validate", "build", "conclude"}
        BY WorkFacts DEF EngineInit
      <3>. QED
        BY <1>2, <2>1, <2>2, <2>3, <3>1, <3>2, <3>3 DEF EngineTypeOK
  <1>. QED
    BY <1>1, <1>2, <1>3, NoItems
    DEF EngineInit, EngineInv, Progress, OneCommit, WorkFits, LastIsLast,
        EngineSnapshotsWhole, UploadFits

\* The items of a job that has resolved them all.
LEMMA ItemFacts ==
    ASSUME EngineTypeOK
    PROVE  /\ \A i \in DOMAIN items : /\ items[i] \in Item /\ items[i].engine \in Engines
                                      /\ items[i].commit \in 0..MaxTip
                                      /\ items[i].engine = batch[i] /\ i \in DOMAIN batch
           /\ batch \in Seq(Engines)
           /\ DOMAIN items = 1..Len(items) /\ Len(items) \in Nat
           /\ DOMAIN batch = 1..Len(batch) /\ Len(batch) \in Nat
           /\ \A i, j \in DOMAIN items : items[i].engine = items[j].engine => i = j
           /\ batch \in Batches => Len(batch) > 0
  <1>1. batch \in Seq(Engines)
    BY EngineAssumption DEF EngineTypeOK
  <1>2. \A i, j \in DOMAIN batch : batch[i] = batch[j] => i = j
    BY EngineAssumption DEF EngineTypeOK
  <1>3. items \in Seq(Item) /\ Len(items) <= Len(batch)
    BY DEF EngineTypeOK
  <1>4. DOMAIN items = 1..Len(items) /\ Len(items) \in Nat
        /\ DOMAIN batch = 1..Len(batch) /\ Len(batch) \in Nat
    BY <1>1, <1>3
  <1>5. \A i \in DOMAIN items : items[i] \in Item /\ i \in DOMAIN batch
    BY <1>3, <1>4
  <1>6. \A i \in DOMAIN items : items[i].engine = batch[i]
    BY DEF EngineTypeOK
  <1>7. batch \in Batches => Len(batch) > 0
    BY <1>1, EngineAssumption
  <1>. QED
    BY <1>1, <1>2, <1>4, <1>5, <1>6, <1>7 DEF Item

LEMMA MishapCounts ==
    ASSUME EngineTypeOK, Mishap
    PROVE  mishaps' \in 0..MaxMishaps
  <1>1. mishaps \in 0..MaxMishaps
    BY DEF EngineTypeOK
  <1>. QED
    BY <1>1, EngineAssumption DEF Mishap

\* A snapshot that holds what its key names.
HoldsKey(k, files) ==
    \A i \in DOMAIN k[1] :
        \A kind \in Needed(k[1][i].engine) :
            files[k[1][i].engine][kind] = Right(k[1][i], k[2])

LEMMA SnapshotsHold == EngineSnapshotsWhole <=> \A k \in DOMAIN store : HoldsKey(k, store[k])
  BY DEF EngineSnapshotsWhole, HoldsKey, Needed, Right

\* Steps of the world and of the cache leave the job alone.
LEMMA JobUntouched ==
    ASSUME EngineInv, EngineTypeOK', UNCHANGED <<jobVars, uploaded>>,
           \A k \in DOMAIN store' : k \in DOMAIN store /\ store'[k] = store[k]
    PROVE  EngineInv'
  <1>1. UNCHANGED <<step, batch, tree, items, work, hit, cut, turn, uploaded>>
    BY DEF jobVars
  <1>2. EngineSnapshotsWhole'
    <2>1. \A k \in DOMAIN store : HoldsKey(k, store[k])
      BY SnapshotsHold DEF EngineInv
    <2>2. \A k \in DOMAIN store' : HoldsKey(k, store'[k])
      BY <2>1
    <2>. QED
      BY <2>2 DEF EngineSnapshotsWhole, HoldsKey, Needed, Right
  <1>3. Progress' /\ OneCommit'
    BY <1>1 DEF EngineInv, Progress, OneCommit
  <1>4. WorkFits'
    BY <1>1 DEF EngineInv, WorkFits
  <1>5. LastIsLast'
    BY <1>1 DEF EngineInv, LastIsLast, LastPasses
  <1>6. UploadFits'
    BY <1>1 DEF EngineInv, UploadFits
  <1>. QED
    BY <1>2, <1>3, <1>4, <1>5, <1>6 DEF EngineInv

LEMMA MoveTipPreserves ==
    ASSUME EngineInv, NEW b \in Branches, MoveTip(b)
    PROVE  EngineInv'
  <1>1. EngineTypeOK'
    <2>1. tip \in [Branches -> 1..MaxTip] /\ EngineTypeOK
      BY DEF EngineInv, EngineTypeOK
    <2>2. tip' \in [Branches -> 1..MaxTip]
      BY <2>1, EngineAssumption DEF MoveTip
    <2>3. UNCHANGED <<contract, store, step, batch, tree, items, work, hit, cut, turn,
                      uploaded, jobs, mishaps>>
      BY DEF MoveTip, jobVars
    <2>. QED
      BY <2>1, <2>2, <2>3 DEF EngineTypeOK
  <1>. QED
    BY <1>1, JobUntouched DEF MoveTip

LEMMA EditContractPreserves ==
    ASSUME EngineInv, EditContract
    PROVE  EngineInv'
  <1>1. EngineTypeOK'
    <2>1. contract \in 1..MaxContract /\ EngineTypeOK
      BY DEF EngineInv, EngineTypeOK
    <2>2. contract' \in 1..MaxContract
      BY <2>1, EngineAssumption DEF EditContract
    <2>3. UNCHANGED <<tip, store, step, batch, tree, items, work, hit, cut, turn,
                      uploaded, jobs, mishaps>>
      BY DEF EditContract, jobVars
    <2>. QED
      BY <2>1, <2>2, <2>3 DEF EngineTypeOK
  <1>. QED
    BY <1>1, JobUntouched DEF EditContract

LEMMA EvictPreserves ==
    ASSUME EngineInv, NEW k \in DOMAIN store, Evict(k)
    PROVE  EngineInv'
  <1>1. DOMAIN store' = DOMAIN store \ {k} /\ \A q \in DOMAIN store' : store'[q] = store[q]
    BY DEF Evict
  <1>2. store' \in [DOMAIN store' -> Work]
    BY DEF Evict, EngineInv, EngineTypeOK
  <1>3. EngineTypeOK'
    <2>1. mishaps \in 0..MaxMishaps /\ EngineTypeOK
      BY DEF EngineInv, EngineTypeOK
    <2>2. mishaps' \in 0..MaxMishaps
      BY <2>1, EngineAssumption DEF Evict, Mishap
    <2>3. UNCHANGED <<tip, contract, step, batch, tree, items, work, hit, cut, turn, uploaded, jobs>>
      BY DEF Evict, world, jobVars
    <2>. QED
      BY <1>2, <2>1, <2>2, <2>3 DEF EngineTypeOK
  <1>. QED
    BY <1>1, <1>3, JobUntouched DEF Evict

LEMMA BeginPreserves ==
    ASSUME EngineInv, NEW b \in Batches, Begin(b)
    PROVE  EngineInv'
  <1>1. Len(b) \in Nat
    BY EngineAssumption
  <1>2. /\ step' = "resolve" /\ batch' = b /\ tree' = contract /\ items' = <<>> /\ turn' = 1
        /\ work' = NoWork /\ hit' = FALSE /\ cut' = FALSE /\ jobs' = jobs + 1 /\ jobs < MaxJobs
        /\ UNCHANGED <<tip, contract, store, uploaded, mishaps>>
        /\ EngineTypeOK
    BY DEF Begin, world, EngineInv
  <1>3. Len(items') = 0 /\ DOMAIN items' = {} /\ items' \in Seq(Item)
    BY <1>2, NoItems
  <1>4. EngineTypeOK'
    <2>1. Len(items') <= Len(batch') /\ turn' \in 1..(Len(batch') + 1)
      BY <1>1, <1>2, <1>3
    <2>2. jobs \in 0..MaxJobs
      BY <1>2 DEF EngineTypeOK
    <2>3. jobs' \in 0..MaxJobs
      BY <1>2, <2>2, EngineAssumption
    <2>. QED
      BY <1>2, <1>3, <2>1, <2>3, WorkFacts DEF EngineTypeOK
  <1>5. EngineSnapshotsWhole' /\ UploadFits'
    BY <1>2 DEF EngineInv, EngineSnapshotsWhole, UploadFits
  <1>6. Progress' /\ OneCommit' /\ WorkFits' /\ LastIsLast'
    BY <1>2, <1>3 DEF Progress, OneCommit, WorkFits, LastIsLast
  <1>. QED
    BY <1>4, <1>5, <1>6 DEF EngineInv

LEMMA ResolveItemPreserves ==
    ASSUME EngineInv, ResolveItem
    PROVE  EngineInv'
  <1>1. /\ step = "resolve" /\ turn = Len(items) + 1 /\ turn <= Len(batch)
        /\ EngineTypeOK /\ batch \in Batches /\ work = NoWork /\ ~hit /\ ~cut
        /\ UNCHANGED <<tip, contract, store, batch, tree, work, hit, cut, uploaded, jobs>>
    BY DEF ResolveItem, EngineInv, Progress, world
  <1>. DEFINE e == batch[turn]
              item == [engine |-> e, commit |-> SourceCommit(e)]
  <1>2. CASE items' = Append(items, item) /\ turn' = turn + 1 /\ UNCHANGED <<step, mishaps>>
    <2>1. e \in Engines /\ turn \in DOMAIN batch
      BY <1>1, ItemFacts
    <2>2. \/ BranchOf[e] = NoBranch /\ SourceCommit(e) = NoSource
          \/ /\ BranchOf[e] # NoBranch
             /\ \E i \in DOMAIN items : BranchOf[items[i].engine] = BranchOf[e]
                                       /\ SourceCommit(e) = items[i].commit
          \/ /\ BranchOf[e] # NoBranch
             /\ \A i \in DOMAIN items : BranchOf[items[i].engine] # BranchOf[e]
             /\ SourceCommit(e) = tip[BranchOf[e]]
      BY DEF SourceCommit
    <2>3. item \in Item
      <3>1. SourceCommit(e) \in 0..MaxTip
        <4>1. \A c \in 1..MaxTip : c \in 0..MaxTip
          BY EngineAssumption
        <4>2. NoSource \in 0..MaxTip
          BY EngineAssumption DEF NoSource
        <4>3. BranchOf[e] # NoBranch => tip[BranchOf[e]] \in 1..MaxTip
          <5>1. tip \in [Branches -> 1..MaxTip]
            BY <1>1 DEF EngineTypeOK
          <5>. QED
            BY <2>1, <5>1 DEF Branches
        <4>4. \A i \in DOMAIN items : items[i].commit \in 0..MaxTip
          BY <1>1, ItemFacts
        <4>. QED
          BY <2>2, <4>1, <4>2, <4>3, <4>4
      <3>. QED
        BY <2>1, <3>1 DEF Item
    <2>4. /\ items' \in Seq(Item) /\ Len(items') = Len(items) + 1
          /\ \A i \in DOMAIN items' :
                IF i = turn THEN items'[i] = item ELSE i \in DOMAIN items /\ items'[i] = items[i]
      BY <1>1, <1>2, <2>3, ItemFacts DEF EngineTypeOK
    <2>5. EngineTypeOK'
      BY <1>1, <1>2, <2>4, ItemFacts DEF EngineTypeOK
    <2>6. OneCommit'
      BY <2>2, <2>4 DEF EngineInv, OneCommit
    <2>7. Progress'
      BY <1>1, <1>2, <2>4, ItemFacts DEF EngineInv, Progress
    <2>. QED
      BY <1>1, <1>2, <2>5, <2>6, <2>7
      DEF EngineInv, WorkFits, LastIsLast, EngineSnapshotsWhole, UploadFits
  <1>3. CASE Mishap /\ step' = "idle" /\ UNCHANGED <<items, turn>>
    <2>1. EngineTypeOK'
      BY <1>1, <1>3, EngineAssumption DEF EngineTypeOK, Mishap
    <2>. QED
      BY <1>1, <1>3, <2>1
      DEF EngineInv, Progress, OneCommit, WorkFits, LastIsLast, EngineSnapshotsWhole, UploadFits
  <1>. QED
    BY <1>2, <1>3 DEF ResolveItem

LEMMA Places ==
    ASSUME NEW i \in 1..Len(batch), Len(batch) \in Nat
    PROVE  /\ Place(i, "result") = 3 * Len(batch) + i
           /\ \A kind \in Kinds \ {"result"} : Place(i, kind) \in 1..(3 * Len(batch))
  BY DEF Place, Kinds

\* What an extraction leaves of one file of a batch.
LEMMA CutFile ==
    ASSUME EngineTypeOK, NEW files, NEW n, NEW i \in DOMAIN batch, NEW kind \in Kinds,
           batch \in Batches
    PROVE  CutShort(files, n)[batch[i]][kind] =
             IF Place(i, kind) <= n THEN files[batch[i]][kind]
             ELSE IF n + 1 = Place(i, kind) THEN [files[batch[i]][kind] EXCEPT !.whole = FALSE]
             ELSE Absent
  <1>. DEFINE mine == {j \in DOMAIN batch : batch[j] = batch[i]}
              places == {Place(j, kind) : j \in mine}
  <1>1. batch[i] \in Engines
    BY ItemFacts
  <1>2. mine = {i}
    BY EngineAssumption
  <1>3. places = {Place(i, kind)}
    BY <1>2
  <1>4. CutShort(files, n)[batch[i]][kind] =
          IF \E p \in places : p <= n THEN files[batch[i]][kind]
          ELSE IF n + 1 \in places THEN [files[batch[i]][kind] EXCEPT !.whole = FALSE]
          ELSE Absent
    BY <1>1 DEF CutShort
  <1>. HIDE DEF places
  <1>. QED
    BY <1>3, <1>4

LEMMA CutIsWork ==
    ASSUME NEW files \in Work, NEW n
    PROVE  CutShort(files, n) \in Work
  <1>1. Absent \in AnyFile
    BY EngineAssumption DEF Absent, NoSource, AnyFile
  <1>2. ASSUME NEW e \in Engines, NEW kind \in Kinds
        PROVE  [files[e][kind] EXCEPT !.whole = FALSE] \in AnyFile
    <2>1. files[e][kind] \in AnyFile
      BY DEF Work
    <2>. QED
      BY <2>1 DEF AnyFile
  <1>. QED
    BY <1>1, <1>2 DEF CutShort, Work

\* A snapshot that comes in part may give whole engines, never all of them.
LEMMA CutIsShort ==
    ASSUME EngineTypeOK, batch \in Batches, Len(items) = Len(batch),
           NEW files, NEW n \in 0..(4 * Len(batch) - 1),
           \A i \in DOMAIN items : Sound(files, items[i], tree)
    PROVE  /\ \A i \in DOMAIN items : Passing(CutShort(files, n), items[i].engine) =>
                                        Sound(CutShort(files, n), items[i], tree)
           /\ ~Passing(CutShort(files, n), batch[Len(batch)])
  <1>1. /\ DOMAIN items = 1..Len(batch) /\ DOMAIN batch = 1..Len(batch) /\ Len(batch) \in Nat \ {0}
        /\ \A i \in DOMAIN items : items[i].engine = batch[i]
    BY ItemFacts
  <1>2. ASSUME NEW i \in DOMAIN items
        PROVE  /\ files[batch[i]]["result"] = Right(items[i], tree)
               /\ Passing(CutShort(files, n), batch[i]) <=> Place(i, "result") <= n
    <2>1. \A kind \in Needed(batch[i]) : files[batch[i]][kind] = Right(items[i], tree)
      BY <1>1 DEF Sound
    <2>2. files[batch[i]]["result"] = Right(items[i], tree)
      BY <2>1 DEF Needed
    <2>3. "result" \in Kinds /\ i \in DOMAIN batch
      BY <1>1 DEF Kinds
    <2>4. CutShort(files, n)[batch[i]]["result"] =
             IF Place(i, "result") <= n THEN files[batch[i]]["result"]
             ELSE IF n + 1 = Place(i, "result")
                  THEN [files[batch[i]]["result"] EXCEPT !.whole = FALSE]
             ELSE Absent
      BY <2>3, CutFile
    <2>. QED
      BY <2>2, <2>4 DEF Passing, Right, Absent
  <1>3. ASSUME NEW i \in DOMAIN items, Passing(CutShort(files, n), items[i].engine)
        PROVE  Sound(CutShort(files, n), items[i], tree)
    <2>1. 3 * Len(batch) + i <= n /\ i \in 1..Len(batch)
      BY <1>1, <1>2, <1>3, Places
    <2>2. ASSUME NEW kind \in Needed(batch[i])
          PROVE  CutShort(files, n)[batch[i]][kind] = Right(items[i], tree)
      <3>1. kind \in Kinds
        BY WorkFacts
      <3>2. Place(i, kind) <= n
        BY <1>1, <2>1, <3>1, Places
      <3>3. files[batch[i]][kind] = Right(items[i], tree)
        BY <1>1 DEF Sound
      <3>. QED
        BY <1>1, <3>1, <3>2, <3>3, CutFile
    <2>. QED
      BY <1>1, <2>2 DEF Sound
  <1>4. ~Passing(CutShort(files, n), batch[Len(batch)])
    <2>1. Len(batch) \in DOMAIN items /\ Place(Len(batch), "result") = 4 * Len(batch)
      BY <1>1, Places
    <2>. QED
      BY <1>2, <2>1
  <1>. QED
    BY <1>3, <1>4

LEMMA RestoreSnapshotPreserves ==
    ASSUME EngineInv, RestoreSnapshot
    PROVE  EngineInv'
  <1>1. /\ step = "resolve" /\ turn > Len(batch) /\ turn' = 1 /\ step' = "validate"
        /\ EngineTypeOK /\ batch \in Batches /\ Len(items) = Len(batch)
        /\ work = NoWork /\ ~hit /\ ~cut
        /\ UNCHANGED <<tip, contract, store, batch, tree, items, cut, uploaded, jobs>>
    BY ItemFacts DEF RestoreSnapshot, EngineInv, Progress, EngineTypeOK, world
  <1>2. ASSUME Key \in DOMAIN store
        PROVE  store[Key] \in Work /\ \A i \in DOMAIN items : Sound(store[Key], items[i], tree)
    <2>1. store[Key] \in Work
      BY <1>1, <1>2 DEF EngineTypeOK
    <2>2. Key[1] = items /\ Key[2] = tree
      BY DEF Key
    <2>. QED
      BY <1>2, <2>1, <2>2 DEF EngineInv, EngineSnapshotsWhole, Sound, Needed, Right
  <1>3. /\ work' \in Work /\ hit' \in BOOLEAN /\ mishaps' \in 0..MaxMishaps
        /\ \A i \in DOMAIN items : Passing(work', items[i].engine) => Sound(work', items[i], tree)
        /\ \/ \A i \in DOMAIN items : Sound(work', items[i], tree)
           \/ ~Passing(work', batch[Len(batch)])
    <2>1. CASE UNCHANGED <<work, hit, mishaps>>
      <3>1. batch[Len(batch)] \in Engines
        BY <1>1, ItemFacts
      <3>2. \A i \in DOMAIN items : items[i].engine \in Engines
        BY <1>1, ItemFacts
      <3>3. work' = NoWork /\ \A e \in Engines : ~Passing(work', e)
        BY <1>1, <2>1, WorkFacts
      <3>4. work' \in Work /\ hit' \in BOOLEAN /\ mishaps' \in 0..MaxMishaps
        BY <2>1, <3>3, <1>1, WorkFacts DEF EngineTypeOK
      <3>. QED
        BY <3>1, <3>2, <3>3, <3>4
    <2>2. CASE Key \in DOMAIN store /\ work' = store[Key] /\ hit' = TRUE /\ UNCHANGED mishaps
      BY <1>1, <1>2, <2>2 DEF EngineTypeOK
    <2>3. ASSUME Key \in DOMAIN store, Mishap, UNCHANGED hit,
                 NEW n \in 0..(4 * Len(batch) - 1), work' = CutShort(store[Key], n)
          PROVE  <1>3!:
      <3>1. mishaps' \in 0..MaxMishaps
        BY <1>1, <2>3, MishapCounts
      <3>. QED
        BY <1>1, <1>2, <2>3, <3>1, CutIsWork, CutIsShort DEF EngineTypeOK
    <2>. QED
      BY <2>1, <2>2, <2>3 DEF RestoreSnapshot
  <1>4. EngineTypeOK'
    BY <1>1, <1>3, ItemFacts DEF EngineTypeOK
  <1>5. Progress'
    BY <1>1 DEF Progress
  <1>6. WorkFits'
    BY <1>1, <1>3 DEF WorkFits, Sound, Needed
  <1>7. LastIsLast'
    BY <1>1, <1>3 DEF LastIsLast, LastPasses
  <1>. QED
    BY <1>1, <1>4, <1>5, <1>6, <1>7
    DEF EngineInv, OneCommit, EngineSnapshotsWhole, UploadFits

\* What is sound can be used.
LEMMA SoundIsCacheable ==
    ASSUME NEW files, \A i \in DOMAIN items : Sound(files, items[i], tree)
    PROVE  Cacheable(files)
  <1>1. \A i \in DOMAIN items : \A kind \in Needed(items[i].engine) :
           files[items[i].engine][kind] = Right(items[i], tree)
    BY DEF Sound
  <1>2. ASSUME NEW i \in DOMAIN items
        PROVE  LET f == files[items[i].engine] IN
               /\ There(f.prefix)
               /\ items[i].engine \in Packaged => There(f.packages)
               /\ f.result.whole /\ f.result.status = "pass"
               /\ items[i].commit # NoSource => f.commit.whole /\ f.commit.commit = items[i].commit
    <2>. DEFINE f == files[items[i].engine]
    <2>1. f["prefix"] = Right(items[i], tree) /\ f["result"] = Right(items[i], tree)
          /\ f["commit"] = Right(items[i], tree)
          /\ (items[i].engine \in Packaged => f["packages"] = Right(items[i], tree))
      BY <1>1 DEF Needed, Early
    <2>. QED
      BY <2>1 DEF Right, There
  <1>. QED
    BY <1>2 DEF Cacheable

LEMMA ValidatePreserves ==
    ASSUME EngineInv, Validate
    PROVE  EngineInv'
  <1>1. /\ step = "validate" /\ step' \in {"conclude", "build"} /\ EngineTypeOK
        /\ step' = "build" => ~Cacheable(work)
        /\ UNCHANGED <<tip, contract, store, batch, tree, items, work, hit, cut, turn,
                       uploaded, jobs, mishaps>>
    BY DEF Validate, EngineInv, world
  <1>2. ~cut /\ Len(items) = Len(batch) /\ batch \in Batches
    BY <1>1 DEF EngineInv, Progress
  <1>3. step' = "build" => ~LastPasses
    BY <1>1, SoundIsCacheable DEF EngineInv, LastIsLast
  <1>4. EngineTypeOK'
    BY <1>1 DEF EngineTypeOK
  <1>5. Progress'
    BY <1>1, <1>2 DEF Progress
  <1>6. WorkFits'
    BY <1>1 DEF EngineInv, WorkFits
  <1>7. LastIsLast'
    BY <1>1, <1>2, <1>3 DEF LastIsLast, LastPasses
  <1>. QED
    BY <1>1, <1>4, <1>5, <1>6, <1>7
    DEF EngineInv, OneCommit, EngineSnapshotsWhole, UploadFits

\* What building one item may leave of its own files; the others stay.
LEMMA BuiltItem ==
    ASSUME EngineInv, step = "build", turn \in DOMAIN items, NEW made \in [Kinds -> AnyFile],
           work' = [work EXCEPT ![items[turn].engine] = made],
           UNCHANGED <<batch, items, tree>>
    PROVE  /\ work' \in Work
           /\ work'[items[turn].engine] = made
           /\ \A i \in DOMAIN items : i # turn =>
                 work'[items[i].engine] = work[items[i].engine]
  <1>1. work \in Work /\ items[turn].engine \in Engines
    BY ItemFacts DEF EngineInv, EngineTypeOK
  <1>2. \A i \in DOMAIN items : i # turn => items[i].engine # items[turn].engine
                                            /\ items[i].engine \in Engines
    BY ItemFacts DEF EngineInv
  <1>. QED
    BY <1>1, <1>2 DEF Work

LEMMA MadeFacts ==
    ASSUME EngineInv, turn \in DOMAIN items, NEW kinds,
           NEW status \in {"pass", "red", "infra"}
    PROVE  LET made == Made(items[turn].commit, status, kinds) IN
           /\ made \in [Kinds -> AnyFile]
           /\ \A kind \in Kinds :
                 made[kind] = IF kind \in kinds
                              THEN [commit |-> items[turn].commit, contract |-> tree,
                                    whole |-> TRUE, status |-> status]
                              ELSE work[items[turn].engine][kind]
  <1>1. items[turn].commit \in 0..MaxTip /\ tree \in 0..MaxContract
        /\ items[turn].engine \in Engines /\ work \in Work
    <2>1. EngineTypeOK /\ work \in Work /\ tree \in 1..MaxContract
      BY DEF EngineInv, EngineTypeOK
    <2>. QED
      BY <2>1, ItemFacts, EngineAssumption
  <1>2. File(items[turn].commit, status) \in AnyFile
    BY <1>1 DEF File, AnyFile
  <1>. QED
    BY <1>1, <1>2 DEF Made, File, Work

LEMMA BuildItemPreserves ==
    ASSUME EngineInv, BuildItem
    PROVE  EngineInv'
  <1>. DEFINE item == items[turn]
              early == Early(item.engine)
  <1>1. /\ step = "build" /\ turn \in DOMAIN items /\ turn \in Nat /\ turn <= Len(items)
        /\ EngineTypeOK /\ batch \in Batches /\ Len(items) = Len(batch) /\ ~cut
        /\ UNCHANGED <<tip, contract, store, batch, tree, items, hit, uploaded, jobs>>
    BY ItemFacts DEF BuildItem, EngineInv, Progress, EngineTypeOK, world
  <1>2. /\ \A i \in DOMAIN items : Passing(work, items[i].engine) => Sound(work, items[i], tree)
        /\ ~Passing(work, items[Len(items)].engine)
        /\ Len(items) \in DOMAIN items
    BY <1>1, ItemFacts DEF EngineInv, WorkFits, LastIsLast, LastPasses
  <1>3. {"prefix"} \subseteq early /\ early \subseteq {"prefix", "packages"} /\ early \subseteq Kinds
        /\ Needed(item.engine) = early \cup {"commit", "result"}
        /\ {"commit", "result"} \subseteq Kinds
    BY DEF Early, Needed, Kinds
  <1>4. CASE /\ work' = [work EXCEPT ![item.engine] =
                           Made(item.commit, "pass", early \cup {"commit", "result"})]
             /\ turn' = turn + 1 /\ UNCHANGED <<step, cut, mishaps>>
    <2>1. /\ work' \in Work
          /\ \A kind \in Needed(item.engine) : work'[item.engine][kind] = Right(item, tree)
          /\ \A i \in DOMAIN items : i # turn => work'[items[i].engine] = work[items[i].engine]
      <3>. DEFINE made == Made(item.commit, "pass", early \cup {"commit", "result"})
      <3>1. /\ made \in [Kinds -> AnyFile]
            /\ \A kind \in Kinds : kind \in early \cup {"commit", "result"} =>
                  made[kind] = Right(item, tree)
        <4>1. made \in [Kinds -> AnyFile]
          BY <1>1, MadeFacts
        <4>2. \A kind \in Kinds : kind \in early \cup {"commit", "result"} =>
                 made[kind] = [commit |-> item.commit, contract |-> tree,
                               whole |-> TRUE, status |-> "pass"]
          BY <1>1, MadeFacts
        <4>. QED
          BY <4>1, <4>2 DEF Right
      <3>. HIDE DEF made
      <3>2. work' = [work EXCEPT ![items[turn].engine] = made]
        BY <1>4 DEF made
      <3>3. /\ work' \in Work /\ work'[items[turn].engine] = made
            /\ \A i \in DOMAIN items : i # turn => work'[items[i].engine] = work[items[i].engine]
        BY <1>1, <3>1, <3>2, BuiltItem
      <3>. QED
        BY <1>3, <3>1, <3>3
    <2>2. \A i \in DOMAIN items : Passing(work', items[i].engine) => Sound(work', items[i], tree)
      BY <1>2, <2>1 DEF Passing, Sound
    <2>3. turn' <= Len(items) => ~Passing(work', items[Len(items)].engine)
      BY <1>1, <1>2, <1>4, <2>1, ItemFacts DEF Passing
    <2>4. EngineTypeOK'
      BY <1>1, <1>4, <2>1, ItemFacts DEF EngineTypeOK
    <2>5. WorkFits'
      BY <1>1, <2>2 DEF WorkFits, Sound, Needed
    <2>6. LastIsLast' /\ Progress'
      BY <1>1, <1>4, <2>3, ItemFacts DEF LastIsLast, LastPasses, Progress
    <2>. QED
      BY <1>1, <2>4, <2>5, <2>6 DEF EngineInv, OneCommit, EngineSnapshotsWhole, UploadFits
  <1>5. ASSUME NEW status \in {"red", "infra"}, NEW late \in SUBSET early,
               work' = [work EXCEPT ![item.engine] = Made(item.commit, status, late \cup {"result"})],
               Mishap, turn' = turn + 1, UNCHANGED <<step, cut>>
        PROVE  EngineInv'
    <2>1. /\ work' \in Work
          /\ ~Passing(work', item.engine)
          /\ \A i \in DOMAIN items : i # turn => work'[items[i].engine] = work[items[i].engine]
      <3>. DEFINE made == Made(item.commit, status, late \cup {"result"})
      <3>1. status \in {"pass", "red", "infra"} /\ status # "pass"
        BY <1>5
      <3>2. made \in [Kinds -> AnyFile] /\ made["result"].status = status
        BY <1>1, <1>3, <3>1, MadeFacts
      <3>. HIDE DEF made
      <3>3. work' = [work EXCEPT ![items[turn].engine] = made]
        BY <1>5 DEF made
      <3>4. /\ work' \in Work /\ work'[items[turn].engine] = made
            /\ \A i \in DOMAIN items : i # turn => work'[items[i].engine] = work[items[i].engine]
        BY <1>1, <3>2, <3>3, BuiltItem
      <3>. QED
        BY <3>1, <3>2, <3>4 DEF Passing
    <2>2. \A i \in DOMAIN items : Passing(work', items[i].engine) => Sound(work', items[i], tree)
      BY <1>2, <2>1 DEF Passing, Sound
    <2>3. ~Passing(work', items[Len(items)].engine)
      BY <1>2, <2>1 DEF Passing
    <2>4. mishaps' \in 0..MaxMishaps
      BY <1>1, <1>5, MishapCounts
    <2>5. EngineTypeOK'
      BY <1>1, <1>5, <2>1, <2>4, ItemFacts DEF EngineTypeOK
    <2>6. WorkFits'
      BY <1>1, <2>2 DEF WorkFits, Sound, Needed
    <2>7. LastIsLast' /\ Progress'
      BY <1>1, <1>5, <2>3, ItemFacts DEF LastIsLast, LastPasses, Progress
    <2>. QED
      BY <1>1, <2>5, <2>6, <2>7 DEF EngineInv, OneCommit, EngineSnapshotsWhole, UploadFits
  <1>6. ASSUME NEW late \in SUBSET early, NEW torn \in SUBSET late, Mishap,
               work' = [work EXCEPT ![item.engine] = Torn(Made(item.commit, "pass", late), torn)],
               cut' = TRUE, step' = "conclude", UNCHANGED turn
        PROVE  EngineInv'
    <2>. DEFINE made == Made(item.commit, "pass", late)
    <2>1. made \in [Kinds -> AnyFile]
          /\ made["result"] = work[item.engine]["result"]
      BY <1>1, <1>3, MadeFacts
    <2>. HIDE DEF made
    <2>2. Torn(made, torn) \in [Kinds -> AnyFile]
          /\ Torn(made, torn)["result"].whole = made["result"].whole
          /\ Torn(made, torn)["result"] = made["result"]
      <3>1. ASSUME NEW k \in Kinds
            PROVE  /\ [made[k] EXCEPT !.whole = @ /\ k \notin torn] \in AnyFile
                   /\ k \notin torn => [made[k] EXCEPT !.whole = @ /\ k \notin torn] = made[k]
        <4>1. made[k] \in AnyFile
          BY <2>1
        <4>. QED
          BY <4>1 DEF AnyFile
      <3>2. "result" \in Kinds /\ "result" \notin torn
        BY <1>3, <1>6
      <3>. QED
        BY <3>1, <3>2 DEF Torn
    <2>3. /\ work' \in Work
          /\ work'[item.engine]["result"] = work[item.engine]["result"]
          /\ \A i \in DOMAIN items : i # turn => work'[items[i].engine] = work[items[i].engine]
      BY <1>1, <1>6, <2>1, <2>2, BuiltItem DEF made
    <2>4. \A i \in DOMAIN items : work'[items[i].engine]["result"] = work[items[i].engine]["result"]
      BY <2>3
    <2>5. \A i \in DOMAIN items : Passing(work', items[i].engine) =>
             work'[items[i].engine]["result"] = Right(items[i], tree)
      BY <1>2, <2>4 DEF Passing, Sound, Needed
    <2>6. ~Passing(work', items[Len(items)].engine)
      BY <1>2, <2>4 DEF Passing
    <2>7. mishaps' \in 0..MaxMishaps
      BY <1>1, <1>6, EngineAssumption DEF Mishap, EngineTypeOK
    <2>8. EngineTypeOK'
      BY <1>1, <1>6, <2>3, <2>7, ItemFacts DEF EngineTypeOK
    <2>9. WorkFits'
      BY <1>1, <1>6, <2>5 DEF WorkFits
    <2>10. LastIsLast' /\ Progress'
      BY <1>1, <1>6, <2>6, ItemFacts DEF LastIsLast, LastPasses, Progress
    <2>. QED
      BY <1>1, <2>8, <2>9, <2>10 DEF EngineInv, OneCommit, EngineSnapshotsWhole, UploadFits
  <1>. QED
    BY <1>4, <1>5, <1>6 DEF BuildItem

LEMMA BatchDonePreserves ==
    ASSUME EngineInv, BatchDone
    PROVE  EngineInv'
  <1>1. /\ step = "build" /\ step' = "conclude" /\ EngineTypeOK /\ ~cut
        /\ Len(items) = Len(batch) /\ batch \in Batches
        /\ UNCHANGED <<tip, contract, store, batch, tree, items, work, hit, cut, turn,
                       uploaded, jobs, mishaps>>
    BY DEF BatchDone, EngineInv, Progress, world
  <1>2. EngineTypeOK'
    BY <1>1 DEF EngineTypeOK
  <1>3. Progress' /\ WorkFits' /\ LastIsLast'
    BY <1>1 DEF EngineInv, Progress, WorkFits, LastIsLast, LastPasses
  <1>. QED
    BY <1>1, <1>2, <1>3 DEF EngineInv, OneCommit, EngineSnapshotsWhole, UploadFits

LEMMA ConcludePreserves ==
    ASSUME EngineInv, Conclude
    PROVE  EngineInv'
  <1>1. /\ step = "conclude" /\ step' = "idle" /\ EngineTypeOK
        /\ Len(items) = Len(batch) /\ batch \in Batches
        /\ uploaded' = [items |-> items, tree |-> tree, work |-> work, cut |-> cut]
        /\ UNCHANGED <<tip, contract, batch, tree, items, work, hit, cut, turn, jobs>>
    BY DEF Conclude, EngineInv, Progress, world
  <1>2. mishaps' \in 0..MaxMishaps
    BY <1>1, EngineAssumption DEF Conclude, Mishap, EngineTypeOK
  <1>3. /\ store' \in [DOMAIN store' -> Work]
        /\ EngineSnapshotsWhole'
    <2>1. CASE UNCHANGED store
      BY <1>1, <2>1 DEF EngineTypeOK, EngineInv, EngineSnapshotsWhole
    <2>2. CASE /\ Cacheable(work)
               /\ store' = [k \in DOMAIN store \cup {Key} |-> IF k = Key THEN work ELSE store[k]]
      <3>1. \A i \in DOMAIN items : Passing(work, items[i].engine)
        BY <2>2 DEF Cacheable, Passing
      <3>2. ~cut
        BY <1>1, <3>1, ItemFacts DEF EngineInv, LastIsLast, LastPasses
      <3>3. \A i \in DOMAIN items : Sound(work, items[i], tree)
        BY <1>1, <3>1, <3>2 DEF EngineInv, WorkFits
      <3>4. /\ store' \in [DOMAIN store' -> Work]
            /\ DOMAIN store' = DOMAIN store \cup {Key} /\ store'[Key] = work
            /\ \A k \in DOMAIN store' : k # Key => k \in DOMAIN store /\ store'[k] = store[k]
        BY <1>1, <2>2 DEF EngineTypeOK
      <3>5. Key[1] = items /\ Key[2] = tree
        BY DEF Key
      <3>6. ASSUME NEW k \in DOMAIN store', NEW i \in DOMAIN k[1],
                   NEW kind \in Early(k[1][i].engine) \cup {"commit", "result"}
            PROVE  store'[k][k[1][i].engine][kind] = Right(k[1][i], k[2])
        <4>1. CASE k = Key
          BY <3>3, <3>4, <3>5, <3>6, <4>1 DEF Sound, Needed
        <4>2. CASE k # Key
          BY <3>4, <3>6, <4>2 DEF EngineInv, EngineSnapshotsWhole, Right
        <4>. QED
          BY <4>1, <4>2
      <3>. QED
        BY <3>4, <3>6 DEF EngineSnapshotsWhole, Right
    <2>. QED
      BY <2>1, <2>2 DEF Conclude
  <1>4. EngineTypeOK'
    BY <1>1, <1>2, <1>3 DEF EngineTypeOK
  <1>5. UploadFits'
    <2>1. uploaded'.items = items /\ uploaded'.tree = tree /\ uploaded'.work = work
          /\ uploaded'.cut = cut
      BY <1>1
    <2>. QED
      BY <1>1, <2>1 DEF EngineInv, WorkFits, UploadFits
  <1>. QED
    BY <1>1, <1>3, <1>4, <1>5 DEF EngineInv, Progress, OneCommit, WorkFits, LastIsLast

LEMMA EngineTakesStep ==
    ASSUME EngineInv, [EngineNext]_engineVars
    PROVE  EngineInv'
  <1>1. CASE UNCHANGED engineVars
    <2>1. EngineTypeOK'
      BY <1>1 DEF engineVars, world, jobVars, EngineInv, EngineTypeOK
    <2>. QED
      BY <1>1, <2>1
      DEF engineVars, world, jobVars, EngineInv, Progress, OneCommit, WorkFits, LastIsLast,
          LastPasses, EngineSnapshotsWhole, UploadFits
  <1>. QED
    BY <1>1, MoveTipPreserves, EditContractPreserves, EvictPreserves, BeginPreserves,
       ResolveItemPreserves, RestoreSnapshotPreserves, ValidatePreserves, BuildItemPreserves,
       BatchDonePreserves, ConcludePreserves
    DEF EngineNext

LEMMA EngineAlways == EngineSpec => []EngineInv
  BY EngineInitial, EngineTakesStep, PTL DEF EngineSpec

\* The state of the engine job is well formed, at any time.
THEOREM EngineTypes == EngineSpec => []EngineTypeOK
  <1>1. EngineInv => EngineTypeOK
    BY DEF EngineInv
  <1>. QED
    BY <1>1, EngineAlways, PTL

\* For any batches of distinct engines, and whatever is evicted, extracted in
\* part or cut off within a file: a snapshot holds every file of every engine its
\* key names, whole, passing and of that key.
THEOREM EngineSnapshots == EngineSpec => []EngineSnapshotsWhole
  <1>1. EngineInv => EngineSnapshotsWhole
    BY DEF EngineInv
  <1>. QED
    BY <1>1, EngineAlways, PTL

\* A passing engine that a job hands on is of the commit the job resolved and the
\* recipes it checked out, its prefix too unless the job was cut; and the engines
\* of one branch are of one commit.
THEOREM PassesFit == EngineSpec => []PassIsOfThisJob
  <1>1. ASSUME EngineInv
        PROVE  PassIsOfThisJob
    <2>1. ASSUME NEW i \in DOMAIN uploaded.items,
                 uploaded.work[uploaded.items[i].engine]["result"].whole,
                 uploaded.work[uploaded.items[i].engine]["result"].status = "pass"
          PROVE  LET item == uploaded.items[i]
                     f == uploaded.work[item.engine]
                     Fits(g) == g.commit = item.commit /\ g.contract = uploaded.tree
                 IN  Fits(f["result"]) /\ (~uploaded.cut => f["prefix"].whole /\ Fits(f["prefix"]))
      <3>. DEFINE item == uploaded.items[i]
                  f == uploaded.work[item.engine]
      <3>1. /\ f["result"] = Right(item, uploaded.tree)
            /\ ~uploaded.cut => f["prefix"] = Right(item, uploaded.tree)
        BY <1>1, <2>1 DEF EngineInv, UploadFits, Passing, Sound, Needed, Early
      <3>2. /\ Right(item, uploaded.tree).commit = item.commit
            /\ Right(item, uploaded.tree).contract = uploaded.tree
            /\ Right(item, uploaded.tree).whole
        BY DEF Right
      <3>. QED
        BY <3>1, <3>2
    <2>2. \A i, j \in DOMAIN items :
             BranchOf[items[i].engine] = BranchOf[items[j].engine] => items[i].commit = items[j].commit
      BY <1>1 DEF EngineInv, OneCommit
    <2>. QED
      BY <2>1, <2>2 DEF PassIsOfThisJob
  <1>. QED
    BY <1>1, EngineAlways, PTL

-----------------------------------------------------------------------------
(* RateLimit, for every budget, cap and number of calls *)

\* What is slept is slept before the deadline, so time beyond the budget can
\* only be time the calls themselves took; the deadline is set by the work done
\* before it.
Shared ==
    /\ now <= busy + MaxWait
    /\ deadline <= busy + MaxWait
    /\ deadline = 0 => now <= busy
    /\ call = "sleeping" => wake <= deadline

RateInv == RateTypeOK /\ Shared /\ BacksOff

\* The invariant bounds every moment of the job, and every wake-up.
LEMMA SharedIsInside ==
    ASSUME RateInv
    PROVE  InsideJob
  BY RateAssumption DEF RateInv, RateTypeOK, Shared, InsideJob

\* A wait is a number of ticks, and the next one within the cap.
LEMMA Delays ==
    ASSUME RateTypeOK, NEW refusal \in Refusals
    PROVE  /\ refusal.kind # "other" => RetryDelay(refusal) \in Nat
           /\ NextDelay(refusal) \in FirstDelay..DelayCap
           /\ NextDelay(refusal) >= secondary_delay
  <1>. USE RateAssumption DEF RateTypeOK, Refusals
  <1>1. CASE refusal.kind = "retry-after"
    <2>1. refusal.at \in Nat
      BY <1>1
    <2>. QED  BY <1>1, <2>1 DEF RetryDelay, NextDelay
  <1>2. CASE refusal.kind = "reset"
    <2>1. refusal.at \in Int
      BY <1>2
    <2>. QED  BY <1>2, <2>1 DEF RetryDelay, NextDelay, Larger
  <1>3. CASE refusal.kind = "secondary"
    BY <1>3 DEF RetryDelay, NextDelay, Smaller
  <1>4. CASE refusal.kind = "other"
    BY <1>4 DEF NextDelay
  <1>. QED  BY <1>1, <1>2, <1>3, <1>4

LEMMA RateInitial ==
    ASSUME RateInit
    PROVE  RateInv
  BY RateAssumption DEF RateInit, RateInv, RateTypeOK, Shared, BacksOff

LEMMA OpenPreserves ==
    ASSUME RateInv, Open
    PROVE  RateInv'
  BY RateAssumption DEF RateInv, RateTypeOK, Shared, BacksOff, Open, Smaller

LEMMA SucceedPreserves ==
    ASSUME RateInv, NEW took \in 1..MaxTook, Succeed(took)
    PROVE  RateInv'
  BY RateAssumption DEF RateInv, RateTypeOK, Shared, BacksOff, Succeed, Attempt, Smaller

LEMMA GiveUpPreserves ==
    ASSUME RateInv, NEW took \in 1..MaxTook, NEW refusal \in Refusals,
           GiveUp(took, refusal)
    PROVE  RateInv'
  <1>1. secondary_delay' \in FirstDelay..DelayCap /\ secondary_delay' >= secondary_delay
    BY Delays DEF GiveUp, RateInv, RateTypeOK
  <1>. QED
    BY <1>1, RateAssumption
    DEF RateInv, RateTypeOK, Shared, BacksOff, GiveUp, Attempt, Smaller

LEMMA SleepPreserves ==
    ASSUME RateInv, NEW took \in 1..MaxTook, NEW refusal \in Refusals,
           Sleep(took, refusal)
    PROVE  RateInv'
  <1>1. RetryDelay(refusal) \in Nat /\ secondary_delay' \in FirstDelay..DelayCap
        /\ secondary_delay' >= secondary_delay
    BY Delays DEF Sleep, RateInv
  <1>2. RateTypeOK' /\ Shared'
    <2>1. backoff' \in 0..DelayCap
      BY <1>1, RateAssumption DEF Sleep, RetryDelay, RateInv, RateTypeOK
    <2>. QED
      BY <1>1, <2>1, RateAssumption
      DEF RateInv, RateTypeOK, Shared, Sleep, Attempt, MayWait
  <1>3. BacksOff'
    <2>1. CASE refusal.kind = "secondary"
      BY <2>1, RateAssumption
      DEF RateInv, RateTypeOK, BacksOff, Sleep, RetryDelay, NextDelay, Smaller
    <2>2. CASE refusal.kind # "secondary"
      BY <2>2, RateAssumption DEF RateInv, RateTypeOK, BacksOff, Sleep, NextDelay, Smaller
    <2>. QED  BY <2>1, <2>2
  <1>. QED  BY <1>2, <1>3 DEF RateInv

LEMMA RateStep ==
    ASSUME RateInv, [RateNext]_rateVars
    PROVE  RateInv'
  <1>. USE RateAssumption
  <1>1. CASE Open
    BY <1>1, OpenPreserves
  <1>2. CASE Ask
    BY <1>2 DEF RateInv, RateTypeOK, Shared, BacksOff, Ask, Smaller
  <1>3. CASE Answered
    BY <1>3, SucceedPreserves, GiveUpPreserves, SleepPreserves DEF Answered
  <1>4. CASE Wake
    BY <1>4 DEF RateInv, RateTypeOK, Shared, BacksOff, Wake, Smaller
  <1>5. CASE UNCHANGED rateVars
    BY <1>5 DEF RateInv, RateTypeOK, Shared, BacksOff, rateVars, Smaller
  <1>. QED  BY <1>1, <1>2, <1>3, <1>4, <1>5 DEF RateNext

\* The invariant holds of every state a publication can reach.
THEOREM RateInductive == RateSpec => []RateInv
  <1>1. RateInit => RateInv
    BY RateInitial
  <1>2. RateInv /\ [RateNext]_rateVars => RateInv'
    BY RateStep
  <1>. QED  BY <1>1, <1>2, PTL DEF RateSpec

\* However often GitHub refuses which call for how long, the waits of a
\* publication never take more of its job than max_wait: a job whose own work
\* fits into the rest ends within its time limit.
THEOREM WaitsStayInsideTheJob == RateSpec => []InsideJob
  <1>1. RateInv => InsideJob
    BY SharedIsInside
  <1>. QED  BY RateInductive, <1>1, PTL

\* The back-off doubles up to the cap until an attempt succeeds, across calls.
THEOREM BackoffGrows == RateSpec => []BacksOff
  <1>1. RateInv => BacksOff
    BY DEF RateInv
  <1>. QED  BY RateInductive, <1>1, PTL

\* Its type, and that the back-off never leaves the cap.
THEOREM RateTypes == RateSpec => []RateTypeOK
  <1>1. RateInv => RateTypeOK
    BY DEF RateInv
  <1>. QED  BY RateInductive, <1>1, PTL
-----------------------------------------------------------------------------
(* PackageChain *)

\* What a package has for its version: what it begins with whatever the
\* revision, the revision, and the mark of an RPM's distribution.
Base(w, format) ==
    IF w \notin Vmods THEN EngineVersion \o <<"-">>
    ELSE IF format = "deb"
    THEN UpstreamVersion[w] \o <<"-", "1", "~", FamilyContract.marker>> \o EngineVersion \o <<".">>
    ELSE Substituted(UpstreamVersion[w], "-", ".") \o <<"-", "1", ".", FamilyContract.marker>>
         \o EngineVersion \o <<".">>
Mark(format, suffix) == IF format = "deb" THEN <<>> ELSE suffix

Whats == Vmods \cup {"runtime", "development"}
NameOf(w, format) == IF w = "runtime" THEN RuntimePackage
                     ELSE IF w = "development" THEN DevelopmentPackage(format) ELSE VmodPackageName(w)
VersionOf(w, r, format) == IF w \in Vmods THEN VmodPackageVersion(w, r, format)
                                          ELSE EnginePackageVersion(r, format)

\* The pieces of which texts are made here.
Literals == {"-", "1", "~", ".", "_", Dist, "vinyl", "varnish", "vinyl-cache", "vinyl-vmod", "varnish-vmod",
             "vinyl-cache-dev", "vinyl-cache-devel", "varnish-dev", "varnish-devel"}
Pieces == Literals \cup ToSet(EngineVersion)
          \cup (UNION {ToSet(IdOf[v]) \cup ToSet(UpstreamVersion[v]) : v \in Vmods})
          \cup (UNION {ToSet(t) : t \in Revisions \cup Images})

LEMMA Texts ==
    /\ Literals \subseteq Pieces /\ EngineVersion \in Seq(Pieces)
    /\ \A v \in Vmods : IdOf[v] \in Seq(Pieces) /\ UpstreamVersion[v] \in Seq(Pieces)
    /\ \A t \in Revisions \cup Images : t \in Seq(Pieces)
  <1>1. \A t : IsText(t) /\ ToSet(t) \subseteq Pieces => t \in Seq(Pieces)
    BY ListWiden DEF IsText
  <1>2. /\ Literals \subseteq Pieces /\ ToSet(EngineVersion) \subseteq Pieces
        /\ \A v \in Vmods : ToSet(IdOf[v]) \subseteq Pieces /\ ToSet(UpstreamVersion[v]) \subseteq Pieces
        /\ \A t \in Revisions \cup Images : ToSet(t) \subseteq Pieces
    BY DEF Pieces
  <1>3. /\ IsText(EngineVersion) /\ \A v \in Vmods : IsText(IdOf[v]) /\ IsText(UpstreamVersion[v])
        /\ \A t \in Revisions \cup Images : IsText(t)
    BY NameAssumption, ChainAssumption
  <1>. QED
    BY <1>1, <1>2, <1>3

LEMMA One ==
    ASSUME NEW S, NEW a \in S
    PROVE  <<a>> \in Seq(S) /\ Len(<<a>>) = 1 /\ <<a>>[1] = a
  OBVIOUS

LEMMA Two ==
    ASSUME NEW S, NEW a \in S, NEW b \in S
    PROVE  <<a, b>> \in Seq(S) /\ Len(<<a, b>>) = 2
  OBVIOUS

LEMMA Four ==
    ASSUME NEW S, NEW a \in S, NEW b \in S, NEW c \in S, NEW d \in S
    PROVE  <<a, b, c, d>> \in Seq(S) /\ ToSet(<<a, b, c, d>>) = {a, b, c, d}
  BY DEF ToSet

LEMMA Contract ==
    /\ RuntimePackage \in Seq(Pieces) /\ FamilyContract.prefix \in Seq(Pieces)
    /\ FamilyContract.marker \in Pieces /\ FamilyContract.marker # Dist
    /\ \A format \in {"deb", "rpm"} :
          DevelopmentPackage(format) \in Seq(Pieces) /\ DevelopmentPackage(format) # RuntimePackage
    /\ Len(RuntimePackage) = 1 /\ Len(FamilyContract.prefix) = 2
    /\ \A format \in {"deb", "rpm"} : Len(DevelopmentPackage(format)) = 1
  <1>1. \/ /\ RuntimePackage = <<"vinyl-cache">> /\ FamilyContract.prefix = <<"vinyl-vmod", "-">>
           /\ FamilyContract.marker = "vinyl"
           /\ DevelopmentPackage("deb") = <<"vinyl-cache-dev">>
           /\ DevelopmentPackage("rpm") = <<"vinyl-cache-devel">>
        \/ /\ RuntimePackage = <<"varnish">> /\ FamilyContract.prefix = <<"varnish-vmod", "-">>
           /\ FamilyContract.marker = "varnish"
           /\ DevelopmentPackage("deb") = <<"varnish-dev">>
           /\ DevelopmentPackage("rpm") = <<"varnish-devel">>
    BY NameAssumption DEF FamilyContract, RuntimePackage, DevelopmentPackage
  <1>2. \A a \in Pieces : <<a>> \in Seq(Pieces) /\ Len(<<a>>) = 1 /\ <<a>>[1] = a
    BY One
  <1>3. \A a, b \in Pieces : <<a, b>> \in Seq(Pieces) /\ Len(<<a, b>>) = 2
    BY Two
  <1>4. \A a, b \in Pieces : <<a>> = <<b>> => a = b
    BY <1>2
  <1>5. {Dist, "vinyl", "varnish", "vinyl-cache", "vinyl-vmod", "-", "vinyl-cache-dev", "vinyl-cache-devel",
         "varnish-vmod", "varnish-dev", "varnish-devel"} \subseteq Pieces
    BY Texts DEF Literals
  <1>6. /\ RuntimePackage \in Seq(Pieces) /\ Len(RuntimePackage) = 1
        /\ FamilyContract.prefix \in Seq(Pieces) /\ Len(FamilyContract.prefix) = 2
        /\ FamilyContract.marker \in Pieces /\ FamilyContract.marker # Dist
    BY <1>1, <1>2, <1>3, <1>5 DEF Dist
  <1>7. ASSUME NEW format \in {"deb", "rpm"}
        PROVE  /\ DevelopmentPackage(format) \in Seq(Pieces) /\ Len(DevelopmentPackage(format)) = 1
               /\ DevelopmentPackage(format) # RuntimePackage
    BY <1>1, <1>2, <1>4, <1>5
  <1>. QED
    BY <1>6, <1>7

LEMMA SubstitutedShape ==
    ASSUME NEW text \in Seq(Pieces), NEW old \in Pieces, NEW new \in Pieces
    PROVE  /\ Substituted(text, old, new) \in Seq(Pieces)
           /\ \A x : x # new /\ x \notin ToSet(text) => x \notin ToSet(Substituted(text, old, new))
  <1>1. Len(text) \in Nat /\ DOMAIN text = 1..Len(text) /\ \A i \in DOMAIN text : text[i] \in Pieces
    OBVIOUS
  <1>2. Substituted(text, old, new) \in [1..Len(text) -> Pieces]
    BY <1>1 DEF Substituted
  <1>. QED
    BY <1>1, <1>2, ListOf DEF Substituted, ToSet

LEMMA Concat ==
    ASSUME NEW S, NEW a \in Seq(S), NEW b \in Seq(S)
    PROVE  /\ a \o b \in Seq(S) /\ Len(a \o b) = Len(a) + Len(b)
           /\ \A i \in 1..Len(a) : (a \o b)[i] = a[i]
           /\ \A i \in 1..Len(b) : (a \o b)[Len(a) + i] = b[i]
           /\ ToSet(a \o b) = ToSet(a) \cup ToSet(b)
  <1>1. /\ a \o b \in Seq(S) /\ Len(a \o b) = Len(a) + Len(b)
        /\ Len(a) \in Nat /\ Len(b) \in Nat
        /\ \A i \in 1..Len(a) : (a \o b)[i] = a[i]
        /\ \A i \in 1..Len(b) : (a \o b)[Len(a) + i] = b[i]
        /\ \A i \in 1..(Len(a) + Len(b)) : (a \o b)[i] = IF i <= Len(a) THEN a[i] ELSE b[i - Len(a)]
    OBVIOUS
  <1>2. DOMAIN (a \o b) = 1..(Len(a) + Len(b)) /\ DOMAIN a = 1..Len(a) /\ DOMAIN b = 1..Len(b)
    BY <1>1
  <1>3. ToSet(a \o b) \subseteq ToSet(a) \cup ToSet(b)
    <2>1. ASSUME NEW i \in 1..(Len(a) + Len(b))
          PROVE  (a \o b)[i] \in ToSet(a) \cup ToSet(b)
      <3>1. i <= Len(a) => i \in 1..Len(a)
        BY <1>1
      <3>2. ~(i <= Len(a)) => i - Len(a) \in 1..Len(b)
        BY <1>1
      <3>. QED
        BY <3>1, <3>2, <1>1, <1>2 DEF ToSet
    <2>. QED
      BY <2>1, <1>2 DEF ToSet
  <1>4. ToSet(a) \subseteq ToSet(a \o b)
    <2>1. \A i \in 1..Len(a) : i \in 1..(Len(a) + Len(b))
      BY <1>1
    <2>. QED
      BY <2>1, <1>1, <1>2 DEF ToSet
  <1>5. ToSet(b) \subseteq ToSet(a \o b)
    <2>1. \A i \in 1..Len(b) : Len(a) + i \in 1..(Len(a) + Len(b))
      BY <1>1
    <2>. QED
      BY <2>1, <1>1, <1>2 DEF ToSet
  <1>. QED
    BY <1>1, <1>3, <1>4, <1>5
LEMMA Cancel ==
    ASSUME NEW S, NEW a \in Seq(S), NEW b \in Seq(S), NEW c \in Seq(S), a \o b = a \o c
    PROVE  b = c
  <1>1. Len(a) \in Nat /\ Len(b) \in Nat /\ Len(c) \in Nat /\ Len(b) = Len(c)
    BY Concat
  <1>2. \A i \in 1..Len(b) : b[i] = (a \o b)[Len(a) + i] /\ c[i] = (a \o c)[Len(a) + i]
    BY <1>1, Concat
  <1>3. \A i \in 1..Len(b) : b[i] = c[i]
    BY <1>2
  <1>4. b = [i \in 1..Len(b) |-> b[i]] /\ c = [i \in 1..Len(b) |-> c[i]]
    BY <1>1
  <1>. QED
    BY <1>3, <1>4

\* What begins with a dot does not pass for more of a revision, nor does more
\* of a revision for what begins with a dot.
Plainly(r) == "." \notin ToSet(r)
Dotted(t)  == t # <<>> => t[1] = "."

Joins(x, a, b)    == x = a \o b
Reads(x, a, s, t) == Joins(x, a \o s, t)

ReadsTwo(x, a, b) ==
    /\ Len(x) = Len(a) + Len(b)
    /\ \A i \in 1..Len(a) : x[i] = a[i]
    /\ \A i \in 1..Len(b) : x[Len(a) + i] = b[i]
ReadsThree(x, a, s, t) ==
    /\ Len(x) = Len(a) + Len(s) + Len(t)
    /\ \A i \in 1..Len(s) : x[Len(a) + i] = s[i]
    /\ \A i \in 1..Len(t) : x[Len(a) + Len(s) + i] = t[i]

LEMMA JoinsRead ==
    ASSUME NEW S, NEW a \in Seq(S), NEW b \in Seq(S), NEW x, Joins(x, a, b)
    PROVE  x \in Seq(S) /\ ReadsTwo(x, a, b)
  <1>1. Len(a) \in Nat /\ Len(b) \in Nat
    OBVIOUS
  <1>2. x \in Seq(S) /\ Len(x) = Len(a) + Len(b)
    BY Concat DEF Joins
  <1>3. \A i \in 1..(Len(a) + Len(b)) : (a \o b)[i] = IF i <= Len(a) THEN a[i] ELSE b[i - Len(a)]
    BY <1>1
  <1>4. \A i \in 1..(Len(a) + Len(b)) : x[i] = IF i <= Len(a) THEN a[i] ELSE b[i - Len(a)]
    BY <1>3 DEF Joins
  <1>5. /\ \A i \in 1..Len(a) : i \in 1..(Len(a) + Len(b)) /\ i <= Len(a)
        /\ \A i \in 1..Len(b) : /\ Len(a) + i \in 1..(Len(a) + Len(b)) /\ ~(Len(a) + i <= Len(a))
                               /\ (Len(a) + i) - Len(a) = i
    BY <1>1
  <1>. QED
    BY <1>2, <1>4, <1>5 DEF ReadsTwo

LEMMA ThreeRead ==
    ASSUME NEW S, NEW a \in Seq(S), NEW s \in Seq(S), NEW t \in Seq(S), NEW x, Reads(x, a, s, t)
    PROVE  x \in Seq(S) /\ ReadsThree(x, a, s, t)
  <1>1. Len(a) \in Nat /\ Len(s) \in Nat /\ Len(t) \in Nat
    OBVIOUS
  <1>. DEFINE u == a \o s
  <1>2. Joins(u, a, s) /\ Joins(x, u, t)
    BY DEF Reads, Joins
  <1>. HIDE DEF u
  <1>3. u \in Seq(S) /\ ReadsTwo(u, a, s)
    BY <1>2, JoinsRead
  <1>4. x \in Seq(S) /\ ReadsTwo(x, u, t)
    BY <1>2, <1>3, JoinsRead
  <1>5. ASSUME NEW i \in 1..Len(s)
        PROVE  x[Len(a) + i] = s[i]
    <2>1. Len(a) + i \in 1..Len(u)
      BY <1>1, <1>3 DEF ReadsTwo
    <2>. QED
      BY <2>1, <1>3, <1>4 DEF ReadsTwo
  <1>6. ASSUME NEW i \in 1..Len(t)
        PROVE  x[Len(a) + Len(s) + i] = t[i]
    <2>1. Len(u) + i = Len(a) + Len(s) + i
      BY <1>1, <1>3 DEF ReadsTwo
    <2>. QED
      BY <2>1, <1>4 DEF ReadsTwo
  <1>7. Len(x) = Len(a) + Len(s) + Len(t)
    BY <1>3, <1>4 DEF ReadsTwo
  <1>. QED
    BY <1>4, <1>5, <1>6, <1>7 DEF ReadsThree

LEMMA MarkedEqual ==
    ASSUME NEW S, NEW a \in Seq(S), NEW r \in Seq(S), NEW s \in Seq(S), NEW t \in Seq(S),
           Plainly(r), Dotted(t), (a \o s) \o t = a \o r
    PROVE  s = r
  <1>. DEFINE x == (a \o s) \o t
  <1>1. /\ Len(a) \in Nat /\ Len(s) \in Nat /\ Len(t) \in Nat /\ Len(r) \in Nat
        /\ Reads(x, a, s, t) /\ Joins(x, a, r)
    BY DEF Reads, Joins
  <1>. HIDE DEF x
  <1>2. /\ Len(x) = Len(a) + Len(s) + Len(t)
        /\ \A i \in 1..Len(t) : x[Len(a) + Len(s) + i] = t[i]
    BY <1>1, ThreeRead DEF ReadsThree
  <1>3. Len(x) = Len(a) + Len(r) /\ \A i \in 1..Len(r) : x[Len(a) + i] = r[i]
    BY <1>1, JoinsRead DEF ReadsTwo
  <1>4. ASSUME t # <<>>
        PROVE  FALSE
    <2>1. /\ 1 \in 1..Len(t) /\ Len(s) + 1 \in 1..Len(r) /\ t[1] = "."
          /\ Len(a) + (Len(s) + 1) = Len(a) + Len(s) + 1
      BY <1>1, <1>2, <1>3, <1>4 DEF Dotted
    <2>2. r[Len(s) + 1] = "."
      BY <2>1, <1>2, <1>3
    <2>. QED
      BY <2>1, <2>2 DEF Plainly, ToSet
  <1>5. t = <<>> /\ (a \o s) \o <<>> = a \o s
    BY <1>4, Concat
  <1>. QED
    BY <1>5, Cancel

LEMMA MarkedPrefix ==
    ASSUME NEW S, NEW a \in Seq(S), NEW r \in Seq(S), NEW s \in Seq(S), NEW t \in Seq(S),
           Plainly(r), Plainly(s), Dotted(t), "." \in S,
           IsPrefix((a \o r) \o <<".">>, (a \o s) \o t)
    PROVE  s = r
  <1>. DEFINE dot == <<".">>
              y   == (a \o r) \o dot
              x   == (a \o s) \o t
  <1>0. dot \in Seq(S) /\ Len(dot) = 1 /\ dot[1] = "."
    BY One
  <1>. HIDE DEF dot
  <1>12. Reads(y, a, r, dot) /\ Reads(x, a, s, t)
    BY DEF Reads, Joins
  <1>. HIDE DEF x, y
  <1>13. Len(a) \in Nat /\ Len(r) \in Nat /\ Len(s) \in Nat /\ Len(t) \in Nat
    OBVIOUS
  <1>16. y \in Seq(S) /\ ReadsThree(y, a, r, dot)
    BY <1>0, <1>12, ThreeRead
  <1>17. x \in Seq(S) /\ ReadsThree(x, a, s, t)
    BY <1>12, ThreeRead
  <1>14. /\ y \in Seq(S) /\ Len(y) = Len(a) + Len(r) + Len(dot)
         /\ \A i \in 1..Len(r) : y[Len(a) + i] = r[i]
         /\ \A i \in 1..Len(dot) : y[Len(a) + Len(r) + i] = dot[i]
    BY <1>16 DEF ReadsThree
  <1>15. /\ x \in Seq(S) /\ Len(x) = Len(a) + Len(s) + Len(t)
         /\ \A i \in 1..Len(s) : x[Len(a) + i] = s[i]
         /\ \A i \in 1..Len(t) : x[Len(a) + Len(s) + i] = t[i]
    BY <1>17 DEF ReadsThree
  <1>11. Len(y) = Len(a) + Len(r) + 1 /\ y[Len(a) + Len(r) + 1] = "."
    BY <1>0, <1>13, <1>14
  <1>2. Len(y) <= Len(x) /\ SubSeq(y, 1, Len(y)) = SubSeq(x, 1, Len(y))
    BY DEF IsPrefix, x, y, dot
  <1>3. \A i \in 1..Len(y) : y[i] = x[i]
    <2>1. ASSUME NEW i \in 1..Len(y)
          PROVE  SubSeq(y, 1, Len(y))[i] = y[i] /\ SubSeq(x, 1, Len(y))[i] = x[i]
      BY <1>13, <1>14, <1>15, <1>2
    <2>. QED
      BY <2>1, <1>2
  <1>4. \A i \in 1..Len(r) : r[i] # "."
    BY DEF Plainly, ToSet
  <1>5. \A i \in 1..Len(s) : s[i] # "."
    BY DEF Plainly, ToSet
  <1>6. Len(s) <= Len(r)
    <2>1. ASSUME Len(r) + 1 <= Len(s)
          PROVE  FALSE
      <3>1. Len(r) + 1 \in 1..Len(s) /\ Len(a) + (Len(r) + 1) = Len(a) + Len(r) + 1
            /\ Len(a) + Len(r) + 1 \in 1..Len(y)
        BY <1>13, <1>14, <1>15, <2>1, <1>11
      <3>2. s[Len(r) + 1] = "."
        BY <3>1, <1>13, <1>14, <1>15, <1>3, <1>11
      <3>. QED
        BY <3>1, <3>2, <1>5
    <2>. QED
      BY <2>1, <1>13, <1>14, <1>15
  <1>7. ~(Len(s) < Len(r))
    <2>1. ASSUME Len(s) < Len(r)
          PROVE  FALSE
      <3>1. /\ Len(s) + 1 \in 1..Len(r) /\ Len(a) + (Len(s) + 1) = Len(a) + Len(s) + 1
            /\ Len(a) + Len(s) + 1 \in 1..Len(y) /\ 1 \in 1..Len(t)
        BY <1>13, <1>14, <1>15, <1>2, <2>1, <1>11
      <3>2. t[1] = "."
        BY <3>1 DEF Dotted
      <3>3. y[Len(a) + (Len(s) + 1)] = r[Len(s) + 1] /\ x[Len(a) + Len(s) + 1] = t[1]
        BY <3>1, <1>13, <1>14, <1>15
      <3>4. r[Len(s) + 1] = "."
        BY <3>1, <3>2, <3>3, <1>3
      <3>. QED
        BY <3>1, <3>4, <1>4
    <2>. QED
      BY <2>1
  <1>8. Len(s) = Len(r)
    BY <1>13, <1>14, <1>15, <1>6, <1>7
  <1>9. \A i \in 1..Len(r) : r[i] = s[i]
    <2>1. \A i \in 1..Len(r) : Len(a) + i \in 1..Len(y)
      BY <1>13, <1>14, <1>15, <1>11
    <2>. QED
      BY <2>1, <1>13, <1>14, <1>15, <1>3, <1>8
  <1>10. r = [i \in 1..Len(r) |-> r[i]] /\ s = [i \in 1..Len(r) |-> s[i]]
    BY <1>8
  <1>. QED
    BY <1>9, <1>10
\* A text that is read up to n has no macro there.
Upto(whole, n) == [k \in 1..n |-> whole[k]]

LEMMA UptoMore ==
    ASSUME NEW S, NEW whole \in Seq(S), NEW n \in Nat, n + 1 \in 1..Len(whole)
    PROVE  /\ Upto(whole, n) \in Seq(S)
           /\ Upto(whole, n) \o <<whole[n+1]>> = Upto(whole, n+1)
  <1>. DEFINE p == Upto(whole, n)  one == <<whole[n+1]>>  q == Upto(whole, n+1)
  <1>1. \A k \in 1..(n+1) : whole[k] \in S
    OBVIOUS
  <1>2. p \in [1..n -> S] /\ q \in [1..(n+1) -> S]
    BY <1>1 DEF Upto
  <1>3. p \in Seq(S) /\ Len(p) = n /\ q \in Seq(S) /\ Len(q) = n + 1
    BY <1>2, ListOf
  <1>4. one \in Seq(S) /\ Len(one) = 1 /\ one[1] = whole[n+1]
    BY <1>1, One
  <1>5. (\A k \in 1..n : p[k] = whole[k]) /\ (\A k \in 1..(n+1) : q[k] = whole[k])
    BY DEF Upto
  <1>6. Joins(p \o one, p, one)
    BY DEF Joins
  <1>. HIDE DEF p, one, q
  <1>. DEFINE x == p \o one
  <1>. HIDE DEF x
  <1>7. x \in Seq(S) /\ ReadsTwo(x, p, one)
    BY <1>3, <1>4, <1>6, JoinsRead DEF x
  <1>8. Len(x) = n + 1 /\ (\A k \in 1..n : x[k] = whole[k]) /\ x[n+1] = whole[n+1]
    BY <1>3, <1>4, <1>5, <1>7 DEF ReadsTwo
  <1>9. \A k \in 1..(n+1) : x[k] = q[k]
    BY <1>5, <1>8
  <1>10. x = [k \in 1..(n+1) |-> x[k]] /\ q = [k \in 1..(n+1) |-> q[k]]
    BY <1>3, <1>7, <1>8
  <1>11. x = q
    BY <1>9, <1>10
  <1>. QED
    BY <1>3, <1>11 DEF p, one, q, x

Written(whole, d, i) == IF whole[i] = Dist THEN d ELSE <<whole[i]>>
WrittenAt(whole, d, g) ==
    \A i \in 1..Len(whole) : g[i] = IF i = 1 THEN Written(whole, d, i)
                                             ELSE g[i-1] \o Written(whole, d, i)

LEMMA ExpandedSteps ==
    ASSUME NEW S, NEW whole \in Seq(S), NEW d \in Seq(S), whole # <<>>
    PROVE  \E g : Expanded(whole, d) = g[Len(whole)] /\ WrittenAt(whole, d, g)
  <1>. DEFINE seqs == [i \in DOMAIN whole |-> Written(whole, d, i)]
  <1>1. Len(whole) \in Nat /\ DOMAIN whole = 1..Len(whole) /\ 1 \in DOMAIN whole
    OBVIOUS
  <1>2. ASSUME NEW i \in DOMAIN whole
        PROVE  Written(whole, d, i) \in Seq(S)
    <2>1. whole[i] \in S
      OBVIOUS
    <2>. QED
      BY <2>1, One DEF Written
  <1>3. seqs \in [1..Len(whole) -> Seq(S)]
    BY <1>1, <1>2
  <1>4. seqs \in Seq(Seq(S)) /\ Len(seqs) = Len(whole)
    BY <1>1, <1>3, ListOf
  <1>5. seqs # <<>>
    BY <1>1, <1>4
  <1>6. \A i \in 1..Len(whole) : seqs[i] = Written(whole, d, i)
    BY <1>1
  <1>7. Expanded(whole, d) = FlattenSeq(seqs)
    BY DEF Expanded, Written
  <1>. HIDE DEF seqs
  <1>8. PICK g : FlattenSeq(seqs) = g[Len(seqs)] /\ JoinedAt(seqs, g)
    BY <1>4, <1>5, FlattenSteps
  <1>9. WrittenAt(whole, d, g)
    BY <1>4, <1>6, <1>8 DEF JoinedAt, WrittenAt
  <1>. QED
    BY <1>4, <1>7, <1>8, <1>9

LEMMA ReadUpto ==
    ASSUME NEW S, NEW whole \in Seq(S), NEW d, NEW g, WrittenAt(whole, d, g),
           NEW n \in 1..Len(whole), \A i \in 1..n : whole[i] # Dist
    PROVE  g[n] = Upto(whole, n)
  <1>. DEFINE Bad == {i \in 1..n : g[i] # Upto(whole, i)}
  <1>1. Len(whole) \in Nat /\ n \in Nat /\ n <= Len(whole) /\ \A i \in 1..n : i \in 1..Len(whole)
    OBVIOUS
  <1>2. \A i \in 1..n : Written(whole, d, i) = <<whole[i]>>
    BY DEF Written
  <1>3. g[1] = Upto(whole, 1)
    <2>1. 1 \in 1..n
      BY <1>1
    <2>2. g[1] = <<whole[1]>>
      BY <2>1, <1>1, <1>2 DEF WrittenAt
    <2>3. <<whole[1]>> = [k \in 1..1 |-> whole[k]]
      OBVIOUS
    <2>. QED
      BY <2>2, <2>3 DEF Upto
  <1>4. ASSUME Bad # {}
        PROVE  FALSE
    <2>1. Bad \in SUBSET Nat
      BY <1>1
    <2>2. PICK m \in Bad : \A k \in Bad : m <= k
      BY <2>1, <1>4, Least
    <2>3. m \in 1..n /\ m # 1 /\ g[m] # Upto(whole, m)
      BY <2>2, <1>3
    <2>4. m - 1 \in 1..n /\ m - 1 \in Nat /\ (m - 1) + 1 = m /\ ~(m <= m - 1) /\ m \in 1..Len(whole)
      BY <2>3, <1>1
    <2>5. g[m-1] = Upto(whole, m-1)
      BY <2>2, <2>4
    <2>6. g[m] = g[m-1] \o <<whole[m]>>
      BY <2>3, <2>4, <1>2 DEF WrittenAt
    <2>7. Upto(whole, m-1) \o <<whole[(m-1)+1]>> = Upto(whole, (m-1)+1)
      BY <2>4, UptoMore
    <2>. QED
      BY <2>3, <2>4, <2>5, <2>6, <2>7
  <1>5. n \in 1..n
    BY <1>1
  <1>. QED
    BY <1>4, <1>5

LEMMA ExpandedPlain ==
    ASSUME NEW S, NEW text \in Seq(S), NEW d \in Seq(S), Dist \notin ToSet(text)
    PROVE  Expanded(text, d) = text
  <1>1. CASE text = <<>>
    <2>1. Expanded(text, d) = FlattenSeq([i \in DOMAIN text |-> Written(text, d, i)])
      BY DEF Expanded, Written
    <2>2. [i \in DOMAIN text |-> Written(text, d, i)] = <<>>
      BY <1>1
    <2>. QED
      BY <2>1, <2>2, <1>1 DEF FlattenSeq
  <1>2. CASE text # <<>>
    <2>1. PICK g : Expanded(text, d) = g[Len(text)] /\ WrittenAt(text, d, g)
      BY <1>2, ExpandedSteps
    <2>2. /\ Len(text) \in 1..Len(text) /\ \A i \in 1..Len(text) : text[i] # Dist
          /\ text = [k \in 1..Len(text) |-> text[k]]
      BY <1>2 DEF ToSet
    <2>3. g[Len(text)] = Upto(text, Len(text))
      BY <2>1, <2>2, ReadUpto
    <2>. QED
      BY <2>1, <2>2, <2>3 DEF Upto
  <1>. QED
    BY <1>1, <1>2

LEMMA ExpandedMacro ==
    ASSUME NEW S, NEW text \in Seq(S), NEW d \in Seq(S), Dist \notin ToSet(text), Dist \in S
    PROVE  Expanded(text \o <<Dist>>, d) = text \o d
  <1>. DEFINE one == <<Dist>>  whole == text \o one  n == Len(text)
  <1>1. one \in Seq(S) /\ Len(one) = 1 /\ one[1] = Dist
    BY One
  <1>2. Joins(whole, text, one)
    BY DEF Joins
  <1>. HIDE DEF one
  <1>. HIDE DEF whole
  <1>3. whole \in Seq(S) /\ ReadsTwo(whole, text, one)
    BY <1>1, <1>2, JoinsRead
  <1>4. n \in Nat /\ Len(whole) = n + 1 /\ (\A i \in 1..n : whole[i] = text[i]) /\ whole[n+1] = Dist
    BY <1>1, <1>3 DEF ReadsTwo
  <1>5. whole # <<>>
    BY <1>3, <1>4
  <1>6. PICK g : Expanded(whole, d) = g[Len(whole)] /\ WrittenAt(whole, d, g)
    BY <1>3, <1>5, ExpandedSteps
  <1>7. g[n+1] = IF n + 1 = 1 THEN d ELSE g[(n+1)-1] \o d
    <2>1. n + 1 \in 1..Len(whole) /\ Written(whole, d, n+1) = d
      BY <1>4 DEF Written
    <2>. QED
      BY <2>1, <1>6 DEF WrittenAt
  <1>8. CASE text = <<>>
    <2>1. n = 0 /\ text \o d = d
      BY <1>8, Concat
    <2>. QED
      BY <2>1, <1>4, <1>6, <1>7 DEF whole, one
  <1>9. CASE text # <<>>
    <2>1. n # 0 /\ n \in 1..Len(whole) /\ n + 1 # 1 /\ (n + 1) - 1 = n
      BY <1>9, <1>4
    <2>2. \A i \in 1..n : whole[i] # Dist
      BY <1>4 DEF ToSet
    <2>3. g[n] = Upto(whole, n)
      BY <2>1, <2>2, <1>3, <1>6, ReadUpto
    <2>4. Upto(whole, n) = text
      <3>1. text = [k \in 1..n |-> text[k]]
        OBVIOUS
      <3>. QED
        BY <3>1, <1>4 DEF Upto
    <2>. QED
      BY <2>1, <2>3, <2>4, <1>4, <1>6, <1>7 DEF whole, one
  <1>. QED
    BY <1>8, <1>9
LEMMA BaseShape ==
    ASSUME NEW w \in Whats, NEW format \in {"deb", "rpm"}
    PROVE  Base(w, format) \in Seq(Pieces) /\ Dist \notin ToSet(Base(w, format))
  <1>. DEFINE ev == EngineVersion  dash == <<"-">>  dot == <<".">>
              deb == <<"-", "1", "~", FamilyContract.marker>>
              rpm == <<"-", "1", ".", FamilyContract.marker>>
  <1>1. /\ dash \in Seq(Pieces) /\ Dist \notin ToSet(dash)
        /\ dot \in Seq(Pieces) /\ Dist \notin ToSet(dot)
        /\ deb \in Seq(Pieces) /\ Dist \notin ToSet(deb)
        /\ rpm \in Seq(Pieces) /\ Dist \notin ToSet(rpm)
    <2>0. {"-", "1", "~", "."} \subseteq Pieces /\ Dist \notin {"-", "1", "~", "."}
      BY Texts DEF Literals, Dist
    <2>1. FamilyContract.marker \in Pieces /\ FamilyContract.marker # Dist
      BY Contract
    <2>2. dash \in Seq(Pieces) /\ Dist \notin ToSet(dash)
      BY <2>0 DEF ToSet
    <2>3. dot \in Seq(Pieces) /\ Dist \notin ToSet(dot)
      BY <2>0 DEF ToSet
    <2>4. deb \in Seq(Pieces) /\ Dist \notin ToSet(deb)
      BY <2>0, <2>1, Four
    <2>5. rpm \in Seq(Pieces) /\ Dist \notin ToSet(rpm)
      BY <2>0, <2>1, Four
    <2>. QED
      BY <2>2, <2>3, <2>4, <2>5
  <1>2. ev \in Seq(Pieces) /\ Dist \notin ToSet(ev)
    BY Texts, NameAssumption
  <1>. HIDE DEF ev, dash, dot, deb, rpm
  <1>3. CASE w \notin Vmods
    <2>1. Base(w, format) = ev \o dash
      BY <1>3 DEF Base, ev, dash
    <2>. QED
      BY <2>1, <1>1, <1>2, Concat
  <1>4. CASE w \in Vmods
    <2>. DEFINE up == IF format = "deb" THEN UpstreamVersion[w] ELSE Substituted(UpstreamVersion[w], "-", ".")
                mid == IF format = "deb" THEN deb ELSE rpm
    <2>1. up \in Seq(Pieces) /\ Dist \notin ToSet(up)
      <3>1. UpstreamVersion[w] \in Seq(Pieces) /\ Dist \notin ToSet(UpstreamVersion[w])
        BY <1>4, Texts, NameAssumption
      <3>2. "-" \in Pieces /\ "." \in Pieces /\ Dist # "."
        BY Texts DEF Literals, Dist
      <3>. QED
        BY <3>1, <3>2, SubstitutedShape
    <2>2. mid \in Seq(Pieces) /\ Dist \notin ToSet(mid)
      BY <1>1
    <2>3. Base(w, format) = ((up \o mid) \o ev) \o dot
      BY <1>4 DEF Base, ev, dot, deb, rpm
    <2>. HIDE DEF up, mid
    <2>. DEFINE p == up \o mid  q == p \o ev
    <2>4. p \in Seq(Pieces) /\ Dist \notin ToSet(p)
      BY <2>1, <2>2, Concat
    <2>. HIDE DEF p
    <2>5. q \in Seq(Pieces) /\ Dist \notin ToSet(q)
      BY <2>4, <1>2, Concat
    <2>. HIDE DEF q
    <2>6. q \o dot \in Seq(Pieces) /\ Dist \notin ToSet(q \o dot)
      BY <2>5, <1>1, Concat
    <2>7. Base(w, format) = q \o dot
      BY <2>3 DEF p, q
    <2>. QED
      BY <2>6, <2>7
  <1>. QED
    BY <1>3, <1>4

\* The version of a recipe, and the version of the package made of it.
LEMMA VersionParts ==
    ASSUME NEW w \in Whats, NEW r \in Revisions, NEW format \in {"deb", "rpm"}
    PROVE  /\ Base(w, format) \o r \in Seq(Pieces) /\ Dist \notin ToSet(Base(w, format) \o r)
           /\ VersionOf(w, r, format) = IF format = "deb" THEN Base(w, format) \o r
                                        ELSE (Base(w, format) \o r) \o <<Dist>>
  <1>1. r \in Seq(Pieces) /\ Dist \notin ToSet(r)
    BY Texts, ChainAssumption
  <1>2. Base(w, format) \in Seq(Pieces) /\ Dist \notin ToSet(Base(w, format))
    BY BaseShape
  <1>3. Base(w, format) \o r \in Seq(Pieces) /\ Dist \notin ToSet(Base(w, format) \o r)
    BY <1>1, <1>2, Concat
  <1>4. CASE w \in Vmods
    BY <1>3, <1>4 DEF VersionOf, VmodPackageVersion, Base
  <1>5. CASE w \notin Vmods
    <2>1. Base(w, format) = EngineVersion \o <<"-">>
      BY <1>5 DEF Base
    <2>2. VersionOf(w, r, format) = (Base(w, format) \o r) \o (IF format = "rpm" THEN <<Dist>> ELSE <<>>)
      BY <2>1, <1>5 DEF VersionOf, EnginePackageVersion
    <2>3. (Base(w, format) \o r) \o <<>> = Base(w, format) \o r
      BY <1>3
    <2>4. format = "rpm" <=> format # "deb"
      OBVIOUS
    <2>. QED
      BY <2>2, <2>3, <2>4, <1>3
  <1>. QED
    BY <1>4, <1>5

LEMMA Rendered ==
    ASSUME NEW w \in Whats, NEW r \in Revisions, NEW format \in {"deb", "rpm"}, NEW d \in Images
    PROVE  Expanded(VersionOf(w, r, format), d) = (Base(w, format) \o r) \o Mark(format, d)
  <1>. DEFINE text == Base(w, format) \o r
  <1>1. /\ text \in Seq(Pieces) /\ Dist \notin ToSet(text)
        /\ VersionOf(w, r, format) = IF format = "deb" THEN text ELSE text \o <<Dist>>
    BY VersionParts
  <1>2. d \in Seq(Pieces) /\ Dist \in Pieces
    BY Texts DEF Literals
  <1>. HIDE DEF text
  <1>3. CASE format = "deb"
    <2>1. Expanded(text, d) = text
      BY <1>1, <1>2, ExpandedPlain
    <2>2. text \o <<>> = text
      BY <1>1
    <2>. QED
      BY <2>1, <2>2, <1>1, <1>3 DEF Mark, text
  <1>4. CASE format = "rpm"
    <2>1. Expanded(text \o <<Dist>>, d) = text \o d
      BY <1>1, <1>2, ExpandedMacro
    <2>. QED
      BY <2>1, <1>1, <1>4 DEF Mark, text
  <1>. QED
    BY <1>3, <1>4

LEMMA SuffixRemoved ==
    ASSUME NEW S, NEW text \in Seq(S), NEW piece \in S
    PROVE  RemoveSuffix(text \o <<piece>>, piece) = text
  <1>. DEFINE one == <<piece>>  whole == text \o one
  <1>1. one \in Seq(S) /\ Len(one) = 1 /\ one[1] = piece
    BY One
  <1>2. Joins(whole, text, one)
    BY DEF Joins
  <1>. HIDE DEF one
  <1>. HIDE DEF whole
  <1>3. whole \in Seq(S) /\ ReadsTwo(whole, text, one)
    BY <1>1, <1>2, JoinsRead
  <1>4. /\ Len(text) \in Nat /\ Len(whole) = Len(text) + 1
        /\ (\A i \in 1..Len(text) : whole[i] = text[i]) /\ whole[Len(whole)] = piece
    BY <1>1, <1>3 DEF ReadsTwo
  <1>5. whole # <<>> /\ Last(whole) = piece
    BY <1>3, <1>4 DEF Last
  <1>6. Front(whole) = text
    <2>1. Front(whole) = SubSeq(whole, 1, Len(text))
      BY <1>4 DEF Front
    <2>2. SubSeq(whole, 1, Len(text)) \in Seq(S) /\ Len(SubSeq(whole, 1, Len(text))) = Len(text)
      BY <1>3, <1>4
    <2>3. \A i \in 1..Len(text) : SubSeq(whole, 1, Len(text))[i] = whole[i]
      BY <1>3, <1>4
    <2>4. SubSeq(whole, 1, Len(text)) = [i \in 1..Len(text) |-> SubSeq(whole, 1, Len(text))[i]]
          /\ text = [i \in 1..Len(text) |-> text[i]]
      BY <2>2
    <2>5. \A i \in 1..Len(text) : SubSeq(whole, 1, Len(text))[i] = text[i]
      BY <2>3, <1>4
    <2>. QED
      BY <2>1, <2>4, <2>5
  <1>. QED
    BY <1>5, <1>6 DEF RemoveSuffix, whole, one

\* The version the gate accepts has the revision the gate expects.
LEMMA SameRevision ==
    ASSUME NEW w \in Whats, NEW r \in Revisions, NEW s \in Revisions, NEW d \in Images,
           target.format \in {"deb", "rpm"},
           VersionMatches((Base(w, target.format) \o s) \o Mark(target.format, d),
                          VersionOf(w, r, target.format))
    PROVE  s = r
  <1>. DEFINE a == Base(w, target.format)
  <1>1. /\ a \in Seq(Pieces) /\ r \in Seq(Pieces) /\ s \in Seq(Pieces) /\ d \in Seq(Pieces)
        /\ "." \in Pieces /\ Dist \in Pieces /\ Plainly(r) /\ Plainly(s) /\ Dotted(d)
    BY Texts, BaseShape, ChainAssumption DEF Literals, Plainly, Dotted
  <1>2. a \o r \in Seq(Pieces) /\ a \o s \in Seq(Pieces)
    BY <1>1, Concat
  <1>3. CASE target.format = "deb"
    <2>1. (a \o s) \o <<>> = a \o r
      BY <1>3, VersionParts DEF VersionMatches, Mark
    <2>2. (a \o s) \o <<>> = a \o s
      BY <1>2
    <2>. HIDE DEF a
    <2>3. a \o s = a \o r
      BY <2>1, <2>2
    <2>. QED
      BY <2>3, <1>1, Cancel
  <1>4. CASE target.format = "rpm"
    <2>1. VersionOf(w, r, target.format) = (a \o r) \o <<Dist>>
      BY <1>4, VersionParts
    <2>2. RemoveSuffix((a \o r) \o <<Dist>>, Dist) = a \o r
      <3>. DEFINE b == a \o r
      <3>1. b \in Seq(Pieces)
        BY <1>2
      <3>. HIDE DEF b
      <3>2. RemoveSuffix(b \o <<Dist>>, Dist) = b
        BY <3>1, <1>1, SuffixRemoved
      <3>. QED
        BY <3>2 DEF b
    <2>3. \/ (a \o s) \o d = a \o r
          \/ IsPrefix((a \o r) \o <<".">>, (a \o s) \o d)
      BY <1>4, <2>1, <2>2 DEF VersionMatches, RpmVersionMatches, Mark
    <2>. HIDE DEF a
    <2>4. CASE (a \o s) \o d = a \o r
      BY <2>4, <1>1, MarkedEqual
    <2>5. CASE IsPrefix((a \o r) \o <<".">>, (a \o s) \o d)
      BY <2>5, <1>1, MarkedPrefix
    <2>. QED
      BY <2>3, <2>4, <2>5
  <1>. QED
    BY <1>3, <1>4
LEMMA NamesDiffer ==
    ASSUME NEW v \in Whats, NEW w \in Whats, NEW format \in {"deb", "rpm"},
           NameOf(v, format) = NameOf(w, format)
    PROVE  v = w
  <1>1. \A x \in Vmods : x \notin {"runtime", "development"}
    BY ChainAssumption
  <1>2. ASSUME NEW x \in Vmods
        PROVE  Len(VmodPackageName(x)) # 1
    <2>1. IdOf[x] \in Seq(Pieces) /\ "_" \in Pieces /\ "-" \in Pieces
      BY Texts DEF Literals
    <2>. DEFINE rest == Substituted(IdOf[x], "_", "-")
    <2>2. rest \in Seq(Pieces)
      BY <2>1, SubstitutedShape
    <2>. DEFINE prefix == FamilyContract.prefix  x0 == prefix \o rest
    <2>3. prefix \in Seq(Pieces) /\ Len(prefix) = 2 /\ Joins(x0, prefix, rest)
      BY Contract DEF Joins
    <2>4. VmodPackageName(x) = x0
      BY DEF VmodPackageName
    <2>. HIDE DEF rest, prefix, x0
    <2>5. ReadsTwo(x0, prefix, rest) /\ Len(rest) \in Nat
      BY <2>2, <2>3, JoinsRead
    <2>6. Len(x0) # 1
      BY <2>3, <2>5 DEF ReadsTwo
    <2>. QED
      BY <2>4, <2>6
  <1>3. /\ Len(RuntimePackage) = 1 /\ Len(DevelopmentPackage(format)) = 1
        /\ DevelopmentPackage(format) # RuntimePackage
    BY Contract
  <1>4. \A x \in Vmods : NameOf(x, format) = VmodPackageName(x)
    BY <1>1 DEF NameOf
  <1>5. NameOf("runtime", format) = RuntimePackage /\ NameOf("development", format) = DevelopmentPackage(format)
    BY DEF NameOf
  <1>6. CASE v \in Vmods /\ w \in Vmods
    BY <1>4, <1>6, NameAssumption
  <1>7. CASE v \notin Vmods \/ w \notin Vmods
    BY <1>2, <1>3, <1>4, <1>5, <1>7 DEF Whats
  <1>. QED
    BY <1>6, <1>7

\* A package is what its name and its version say, and a VMOD's ships its
\* modules and requires the runtime of its own revision and image.
EngineAt(rev, format, d) == (Base("runtime", format) \o rev) \o Mark(format, d)
MadeIn(p, t, d) ==
    /\ p.version = (Base(p.what, t.format) \o p.revision) \o Mark(t.format, d)
    /\ p.what \in Vmods => p.requires = Exactly(RuntimePackage, t.arch, EngineAt(p.revision, t.format, d))
Genuine(p, t) ==
    /\ t \in PackageTargets
    /\ p.what \in Whats /\ p.revision \in Revisions /\ p.arch = t.arch
    /\ p.name = NameOf(p.what, t.format)
    /\ \E d \in Images : MadeIn(p, t, d)
    /\ p.what \in Vmods => ShipsItsModules(p)

ChainInv ==
    /\ ChainTypeOK
    /\ \A p \in shelf : Genuine(p, target)
    /\ IsFiniteSet(shelf) /\ IsFiniteSet(artifacts)
    /\ phase # "idle" => target \in PackageTargets
    /\ StagedIsTheCohort

LEMMA TargetFacts ==
    /\ \A t \in PackageTargets : t.format \in {"deb", "rpm"}
    /\ NoTarget \notin PackageTargets
  BY ChainAssumption DEF NoTarget

LEMMA EngineMade ==
    ASSUME target \in PackageTargets, checkout \in Revisions, image \in Images
    PROVE  IsFiniteSet(EnginePackages) /\ \A p \in EnginePackages : Genuine(p, target)
  <1>. DEFINE version == Expanded(EnginePackageVersion(checkout, target.format), image)
              OfEngine(name, what) == Package(name, version, Exactly(name, NoIsa, version), NoPayload, what, checkout)
              runtime == OfEngine(RuntimePackage, "runtime")
              development == OfEngine(DevelopmentPackage(target.format), "development")
  <1>1. EnginePackages = {runtime, development}
    BY DEF EnginePackages
  <1>2. target.format \in {"deb", "rpm"} /\ "runtime" \in Whats \ Vmods /\ "development" \in Whats \ Vmods
    BY TargetFacts, ChainAssumption DEF Whats
  <1>3. \A w \in {"runtime", "development"} :
           version = (Base(w, target.format) \o checkout) \o Mark(target.format, image)
    <2>1. ASSUME NEW w \in {"runtime", "development"}
          PROVE  version = (Base(w, target.format) \o checkout) \o Mark(target.format, image)
      <3>1. VersionOf(w, checkout, target.format) = EnginePackageVersion(checkout, target.format)
        BY <1>2 DEF VersionOf
      <3>2. Expanded(VersionOf(w, checkout, target.format), image)
              = (Base(w, target.format) \o checkout) \o Mark(target.format, image)
        BY <1>2, Rendered
      <3>. QED
        BY <3>1, <3>2
    <2>. QED
      BY <2>1
  <1>4. IsFiniteSet({runtime, development})
    <2>1. IsFiniteSet({runtime}) /\ {runtime, development} = {runtime} \cup {development}
      BY FS_Singleton
    <2>. QED
      BY <2>1, FS_AddElement
  <1>. HIDE DEF version
  <1>5. Genuine(runtime, target)
    <2>1. /\ runtime.what = "runtime" /\ runtime.revision = checkout /\ runtime.arch = target.arch
          /\ runtime.name = RuntimePackage /\ runtime.version = version
      BY DEF Package
    <2>. HIDE DEF runtime
    <2>. QED
      BY <2>1, <1>2, <1>3 DEF Genuine, MadeIn, NameOf
  <1>6. Genuine(development, target)
    <2>1. /\ development.what = "development" /\ development.revision = checkout
          /\ development.arch = target.arch
          /\ development.name = DevelopmentPackage(target.format) /\ development.version = version
      BY DEF Package
    <2>. HIDE DEF development
    <2>. QED
      BY <2>1, <1>2, <1>3 DEF Genuine, MadeIn, NameOf
  <1>. HIDE DEF runtime, development
  <1>. QED
    BY <1>1, <1>4, <1>5, <1>6

LEMMA WhatsFacts ==
    /\ \A w \in Whats : w \in Vmods \/ w = "runtime" \/ w = "development"
    /\ Vmods \subseteq Whats /\ "runtime" \in Whats /\ "development" \in Whats
    /\ "runtime" \notin Vmods /\ "development" \notin Vmods /\ EngineDir \notin Vmods
    /\ IsFiniteSet(Whats) /\ Cardinality(Whats) = Cardinality(Vmods) + 2
  <1>1. IsFiniteSet(Vmods) /\ {"runtime", "development", EngineDir} \cap Vmods = {}
    BY ChainAssumption DEF EngineDir
  <1>. DEFINE some == Vmods \cup {"runtime"}  whats == some \cup {"development"}
  <1>2. "development" \notin some /\ Whats = whats
    BY <1>1 DEF Whats
  <1>3. Cardinality(Vmods) \in Nat
    BY <1>1, FS_CardinalityType
  <1>4. IsFiniteSet(some) /\ Cardinality(some) = Cardinality(Vmods) + 1
    BY <1>1, FS_AddElement
  <1>. HIDE DEF some
  <1>5. IsFiniteSet(whats) /\ Cardinality(whats) = Cardinality(some) + 1
    BY <1>2, <1>4, FS_AddElement
  <1>6. Cardinality(Whats) = Cardinality(Vmods) + 2
    BY <1>2, <1>3, <1>4, <1>5
  <1>. QED
    BY <1>1, <1>2, <1>5, <1>6 DEF Whats

\* What a cell stages of an installed tree, when it stages anything.
Stages(v, root) ==
    IF ArtifactOf[v] # <<>> THEN Installable(root, ArtifactOf[v])
                            ELSE Retainable(root, ToSet(ModulesOf[v]))
StagedFiles(v, root) ==
    IF ArtifactOf[v] # <<>> THEN Install(root, ModulesOf[v], ArtifactOf[v])
                            ELSE Retain(root, ToSet(ModulesOf[v]))
Whole(files, v) ==
    /\ DOMAIN files = ToSet(ModulesOf[v])
    /\ \A m \in ToSet(ModulesOf[v]) : files[m].link = "" /\ files[m].size > 0

LEMMA StagedWhole ==
    ASSUME NEW v \in Vmods, NEW root, Stages(v, root)
    PROVE  Whole(StagedFiles(v, root), v)
  <1>. DEFINE files == StagedFiles(v, root)
  <1>1. CASE ArtifactOf[v] # <<>>
    <2>. DEFINE the(m) == CHOOSE i \in DOMAIN ModulesOf[v] : ModulesOf[v][i] = m
    <2>1. /\ files = [m \in ToSet(ModulesOf[v]) |-> Regular(SizeAt(root, ArtifactOf[v][the(m)]))]
          /\ \A a \in ToSet(ArtifactOf[v]) : SizeAt(root, a) > 0
      BY <1>1 DEF Stages, StagedFiles, Install, Installable
    <2>2. ASSUME NEW m \in ToSet(ModulesOf[v])
          PROVE  ArtifactOf[v][the(m)] \in ToSet(ArtifactOf[v])
      <3>1. \E i \in DOMAIN ModulesOf[v] : ModulesOf[v][i] = m
        BY DEF ToSet
      <3>2. the(m) \in DOMAIN ModulesOf[v]
        BY <3>1
      <3>. HIDE DEF the
      <3>3. the(m) \in DOMAIN ArtifactOf[v]
        BY <1>1, <3>2, NameAssumption
      <3>. QED
        BY <3>3 DEF ToSet
    <2>. HIDE DEF files, the
    <2>3. DOMAIN files = ToSet(ModulesOf[v])
      BY <2>1
    <2>4. \A m \in ToSet(ModulesOf[v]) : files[m].link = "" /\ files[m].size > 0
      BY <2>1, <2>2 DEF Regular
    <2>. QED
      BY <2>3, <2>4 DEF Whole, files
  <1>2. CASE ~(ArtifactOf[v] # <<>>)
    <2>1. files = Retain(root, ToSet(ModulesOf[v])) /\ \A m \in ToSet(ModulesOf[v]) : SizeAt(root, m) > 0
      BY <1>2 DEF Stages, StagedFiles, Retainable
    <2>2. \A m \in ToSet(ModulesOf[v]) : m \in DOMAIN root
      <3>1. \A m : m \notin DOMAIN root => SizeAt(root, m) = 0
        BY DEF SizeAt
      <3>. QED
        BY <2>1, <3>1
    <2>. HIDE DEF files
    <2>. DEFINE modules == ToSet(ModulesOf[v])  some == Materialized(root, modules)
    <2>3. files = [m \in modules |-> some[m]]
      BY <2>1 DEF Retain
    <2>4. \A m \in modules : some[m] = Regular(SizeAt(root, m))
      BY <2>2 DEF Materialized
    <2>. HIDE DEF some
    <2>5. \A m \in ToSet(ModulesOf[v]) : files[m].link = "" /\ files[m].size > 0
      <3>1. \A n : Regular(n).link = "" /\ Regular(n).size = n
        BY DEF Regular
      <3>2. \A m \in modules : files[m] = Regular(SizeAt(root, m))
        BY <2>3, <2>4
      <3>. QED
        BY <2>1, <3>1, <3>2
    <2>. QED
      BY <2>3, <2>5 DEF Whole, files
  <1>. QED
    BY <1>1, <1>2

Buildable(v, root) ==
    /\ Stages(v, root)
    /\ Satisfied(Exactly(DevelopmentPackage(target.format), NoIsa, EngineAt(checkout, target.format, image)),
                 Installed)
MadeFrom(p, v, root) ==
    /\ p.what = v /\ p.revision = checkout /\ p.arch = target.arch /\ p.name = VmodPackageName(v)
    /\ MadeIn(p, target, image) /\ p.files = StagedFiles(v, root)

\* What is built of a recipe and a tree: a package if there can be one.
LEMMA BuiltShape ==
    ASSUME target \in PackageTargets, checkout \in Revisions, image \in Images,
           NEW v \in Vmods, NEW root
    PROVE  /\ ~Buildable(v, root) => Built(v, root) = {}
           /\ Buildable(v, root) => \E p : Built(v, root) = {p} /\ MadeFrom(p, v, root)
  <1>. DEFINE f == target.format
              recipe == Recipe(v, checkout, target)
              made == Package(recipe.name, Expanded(recipe.version, image),
                              ExpandedNeed(recipe.requires, image), StagedFiles(v, root), v, checkout)
  <1>1. /\ f \in {"deb", "rpm"} /\ v \in Whats /\ "runtime" \in Whats
        /\ VersionOf(v, checkout, f) = VmodPackageVersion(v, checkout, f)
        /\ VersionOf("runtime", checkout, f) = EnginePackageVersion(checkout, f)
    BY TargetFacts, WhatsFacts DEF VersionOf
  <1>2. /\ recipe.name = VmodPackageName(v) /\ recipe.modules = ModulesOf[v]
        /\ recipe.artifacts = ArtifactOf[v]
        /\ recipe.version = VersionOf(v, checkout, f)
        /\ recipe.requires = Exactly(RuntimePackage, target.arch, VersionOf("runtime", checkout, f))
        /\ recipe.buildRequires = Exactly(DevelopmentPackage(f), NoIsa, VersionOf("runtime", checkout, f))
    BY <1>1 DEF Recipe
  <1>3. Built(v, root) =
           IF Stages(v, root) /\ Satisfied(ExpandedNeed(recipe.buildRequires, image), Installed)
           THEN {made} ELSE {}
    BY <1>2 DEF Built, Stages, StagedFiles
  <1>. HIDE DEF recipe
  <1>4. /\ Expanded(VersionOf(v, checkout, f), image) = (Base(v, f) \o checkout) \o Mark(f, image)
        /\ Expanded(VersionOf("runtime", checkout, f), image) = EngineAt(checkout, f, image)
    BY <1>1, Rendered DEF EngineAt
  <1>5. /\ ExpandedNeed(recipe.buildRequires, image)
              = Exactly(DevelopmentPackage(f), NoIsa, EngineAt(checkout, f, image))
        /\ ExpandedNeed(recipe.requires, image)
              = Exactly(RuntimePackage, target.arch, EngineAt(checkout, f, image))
    BY <1>2, <1>4 DEF Exactly, ExpandedNeed
  <1>6. /\ made.what = v /\ made.revision = checkout /\ made.arch = target.arch
        /\ made.name = VmodPackageName(v) /\ made.files = StagedFiles(v, root)
        /\ made.version = Expanded(recipe.version, image)
        /\ made.requires = ExpandedNeed(recipe.requires, image)
    BY <1>2 DEF Package
  <1>. HIDE DEF made
  <1>7. MadeFrom(made, v, root)
    <2>1. made.version = (Base(v, f) \o checkout) \o Mark(f, image)
      BY <1>2, <1>4, <1>6
    <2>2. made.requires = Exactly(RuntimePackage, target.arch, EngineAt(checkout, f, image))
      BY <1>5, <1>6
    <2>. QED
      BY <1>6, <2>1, <2>2 DEF MadeFrom, MadeIn
  <1>. QED
    BY <1>3, <1>5, <1>7 DEF Buildable

\* Whatever a cell installs, the package that is made has its modules.
LEMMA VmodMade ==
    ASSUME target \in PackageTargets, checkout \in Revisions, image \in Images,
           NEW v \in Vmods, NEW root
    PROVE  IsFiniteSet(Built(v, root)) /\ \A p \in Built(v, root) : Genuine(p, target)
  <1>1. CASE ~Buildable(v, root)
    BY <1>1, BuiltShape, FS_EmptySet
  <1>2. CASE Buildable(v, root)
    <2>1. PICK p : Built(v, root) = {p} /\ MadeFrom(p, v, root)
      BY <1>2, BuiltShape
    <2>2. Whole(p.files, v)
      BY <1>2, <2>1, StagedWhole DEF Buildable, MadeFrom
    <2>3. ShipsItsModules(p)
      BY <2>1, <2>2 DEF Whole, ShipsItsModules, MadeFrom
    <2>4. p.name = NameOf(v, target.format) /\ v \in Whats
      BY <2>1, WhatsFacts DEF MadeFrom, NameOf
    <2>5. Genuine(p, target)
      BY <2>1, <2>3, <2>4 DEF Genuine, MadeFrom
    <2>. QED
      BY <2>1, <2>5, FS_Singleton
  <1>. QED
    BY <1>1, <1>2

-----------------------------------------------------------------------------
(* What the gate stages *)

DirOf(w) == IF w \in Vmods THEN w ELSE EngineDir
Cohort(st, rev) ==
    LET packages == {s[2] : s \in st} IN
    /\ {<<p.what, p.revision>> : p \in packages}
          = {<<w, rev>> : w \in Vmods \cup {"runtime", "development"}}
    /\ Cardinality({s[1] : s \in st}) = Cardinality(Vmods) + 2
    /\ \A p, q \in packages : p.what \in Vmods /\ q.what = "runtime" =>
          p.requires.version = q.version
    /\ \A p \in packages : p.what \in Vmods => ShipsItsModules(p)
Gated == ChainInv /\ phase = "gate" /\ DirectoriesFit /\ DependenciesFit /\ NamesFit

LEMMA ExpectedShape ==
    /\ DOMAIN Expected = Vmods \cup {EngineDir}
    /\ \A w \in Whats : /\ DirOf(w) \in DOMAIN Expected
                        /\ NameOf(w, target.format) \in DOMAIN Expected[DirOf(w)]
    /\ \A dir \in DOMAIN Expected : \A n \in DOMAIN Expected[dir] :
          \E w \in Whats : dir = DirOf(w) /\ n = NameOf(w, target.format)
    /\ \A w \in Whats : Expected[DirOf(w)][NameOf(w, target.format)] = VersionOf(w, checkout, target.format)
  <1>. DEFINE f == target.format
              engine == [n \in {RuntimePackage, DevelopmentPackage(f)} |-> EnginePackageVersion(checkout, f)]
  <1>1. DOMAIN Expected = Vmods \cup {EngineDir}
    BY DEF Expected
  <1>2. Expected[EngineDir] = engine
    BY DEF Expected
  <1>3. \A v \in Vmods : Expected[v] = [n \in {VmodPackageName(v)} |-> VmodPackageVersion(v, checkout, f)]
    BY WhatsFacts DEF Expected
  <1>4. /\ NameOf("runtime", f) = RuntimePackage /\ NameOf("development", f) = DevelopmentPackage(f)
        /\ \A v \in Vmods : NameOf(v, f) = VmodPackageName(v) /\ DirOf(v) = v
        /\ DirOf("runtime") = EngineDir /\ DirOf("development") = EngineDir
    BY WhatsFacts DEF NameOf, DirOf
  <1>5. /\ \A v \in Vmods : VersionOf(v, checkout, f) = VmodPackageVersion(v, checkout, f)
        /\ VersionOf("runtime", checkout, f) = EnginePackageVersion(checkout, f)
        /\ VersionOf("development", checkout, f) = EnginePackageVersion(checkout, f)
    BY WhatsFacts DEF VersionOf
  <1>6. /\ DOMAIN engine = {NameOf("runtime", f), NameOf("development", f)}
        /\ \A n \in DOMAIN engine : engine[n] = EnginePackageVersion(checkout, f)
    BY <1>4
  <1>7. \A v \in Vmods : /\ DOMAIN Expected[v] = {NameOf(v, f)}
                         /\ Expected[v][NameOf(v, f)] = VersionOf(v, checkout, f)
    BY <1>3, <1>4, <1>5
  <1>. HIDE DEF engine
  <1>8. ASSUME NEW w \in Whats
        PROVE  /\ DirOf(w) \in DOMAIN Expected /\ NameOf(w, f) \in DOMAIN Expected[DirOf(w)]
               /\ Expected[DirOf(w)][NameOf(w, f)] = VersionOf(w, checkout, f)
    <2>1. CASE w \in Vmods
      BY <2>1, <1>1, <1>4, <1>7
    <2>2. CASE w \notin Vmods
      BY <2>2, <1>1, <1>2, <1>4, <1>5, <1>6, WhatsFacts
    <2>. QED
      BY <2>1, <2>2
  <1>9. ASSUME NEW dir \in DOMAIN Expected, NEW n \in DOMAIN Expected[dir]
        PROVE  \E w \in Whats : dir = DirOf(w) /\ n = NameOf(w, f)
    <2>1. CASE dir \in Vmods
      BY <2>1, <1>4, <1>7, WhatsFacts
    <2>2. CASE dir = EngineDir
      BY <2>2, <1>2, <1>4, <1>6, WhatsFacts
    <2>. QED
      BY <2>1, <2>2, <1>1
  <1>. QED
    BY <1>1, <1>8, <1>9

\* What is downloaded is what its directory is named for, of the checkout.
LEMMA DownloadedFits ==
    ASSUME Gated, NEW p \in Downloaded
    PROVE  /\ p \in shelf /\ Genuine(p, target) /\ p.revision = checkout
           /\ \E d \in artifacts : d.dir = DirOf(p.what) /\ p \in d.packages
  <1>. DEFINE f == target.format
  <1>1. ChainTypeOK /\ (\A q \in shelf : Genuine(q, target)) /\ target \in PackageTargets /\ DirectoriesFit
    BY DEF Gated, ChainInv
  <1>2. f \in {"deb", "rpm"} /\ checkout \in Revisions
    BY <1>1, TargetFacts DEF ChainTypeOK
  <1>3. PICK d \in artifacts : d.dir \in DOMAIN Expected /\ p \in d.packages
    BY DEF Downloaded
  <1>4. p \in shelf /\ Genuine(p, target)
    BY <1>1, <1>3 DEF ChainTypeOK
  <1>5. /\ p.name \in DOMAIN Expected[d.dir]
        /\ VersionMatches(p.version, Expected[d.dir][p.name])
    BY <1>1, <1>3 DEF DirectoriesFit
  <1>6. PICK w \in Whats : d.dir = DirOf(w) /\ p.name = NameOf(w, f)
    BY <1>3, <1>5, ExpectedShape
  <1>7. /\ p.what \in Whats /\ p.revision \in Revisions /\ p.name = NameOf(p.what, f)
        /\ \E i \in Images : p.version = (Base(p.what, f) \o p.revision) \o Mark(f, i)
    BY <1>4 DEF Genuine, MadeIn
  <1>8. p.what = w
    BY <1>2, <1>6, <1>7, NamesDiffer
  <1>9. VersionMatches(p.version, VersionOf(w, checkout, f))
    BY <1>5, <1>6, ExpectedShape
  <1>10. PICK i \in Images : p.version = (Base(w, f) \o p.revision) \o Mark(f, i)
    BY <1>7, <1>8
  <1>11. p.revision = checkout
    BY <1>2, <1>7, <1>9, <1>10, SameRevision
  <1>. QED
    BY <1>3, <1>4, <1>6, <1>8, <1>11

LEMMA Single ==
    ASSUME NEW S, IsFiniteSet(S), Cardinality(S) = 1
    PROVE  (\E x : x \in S) /\ \A x, y \in S : x = y
  BY FS_Singleton

\* Everything that is promised is downloaded, once.
LEMMA DownloadedOnce ==
    ASSUME Gated
    PROVE  /\ \A w \in Whats : \E p \in Downloaded : p.what = w
           /\ \A p, q \in Downloaded : p.what = q.what => p = q
  <1>. DEFINE f == target.format
  <1>1. /\ ChainTypeOK /\ IsFiniteSet(shelf) /\ IsFiniteSet(artifacts)
        /\ target \in PackageTargets /\ DirectoriesFit
    BY DEF Gated, ChainInv
  <1>2. f \in {"deb", "rpm"}
    BY <1>1, TargetFacts
  <1>3. ASSUME NEW w \in Whats
        PROVE  LET ds == {d \in artifacts : d.dir = DirOf(w)}
               IN  IsFiniteSet(ds) /\ Cardinality(ds) = 1
    <2>. DEFINE ds == {d \in artifacts : d.dir = DirOf(w)}
    <2>1. ds \in SUBSET artifacts /\ Cardinality(ds) = 1
      BY <1>1, ExpectedShape DEF DirectoriesFit
    <2>. HIDE DEF ds
    <2>2. IsFiniteSet(ds)
      BY <1>1, <2>1, FS_Subset
    <2>. QED
      BY <2>1, <2>2 DEF ds
  <1>4. ASSUME NEW w \in Whats, NEW d \in artifacts, d.dir = DirOf(w)
        PROVE  LET ps == {p \in d.packages : p.name = NameOf(w, f)}
               IN  IsFiniteSet(ps) /\ Cardinality(ps) = 1
    <2>. DEFINE ps == {p \in d.packages : p.name = NameOf(w, f)}
    <2>1. d.packages \in SUBSET shelf
      BY <1>1 DEF ChainTypeOK
    <2>2. ps \in SUBSET shelf /\ Cardinality(ps) = 1
      BY <1>1, <1>4, <2>1, ExpectedShape DEF DirectoriesFit
    <2>. HIDE DEF ps
    <2>3. IsFiniteSet(ps)
      BY <1>1, <2>2, FS_Subset
    <2>. QED
      BY <2>2, <2>3 DEF ps
  <1>5. ASSUME NEW p \in Downloaded
        PROVE  /\ p.what \in Whats /\ p.name = NameOf(p.what, f)
               /\ \E d \in artifacts : d.dir = DirOf(p.what) /\ p \in d.packages
    BY DownloadedFits DEF Genuine
  <1>6. ASSUME NEW w \in Whats
        PROVE  \E p \in Downloaded : p.what = w
    <2>. DEFINE ds == {d \in artifacts : d.dir = DirOf(w)}
    <2>1. \E d : d \in ds
      <3>. HIDE DEF ds
      <3>1. IsFiniteSet(ds) /\ Cardinality(ds) = 1
        BY <1>3 DEF ds
      <3>. QED
        BY <3>1, Single
    <2>2. PICK d \in artifacts : d.dir = DirOf(w)
      BY <2>1
    <2>. DEFINE ps == {p \in d.packages : p.name = NameOf(w, f)}
    <2>3. \E p : p \in ps
      <3>. HIDE DEF ps
      <3>1. IsFiniteSet(ps) /\ Cardinality(ps) = 1
        BY <1>4, <2>2 DEF ps
      <3>. QED
        BY <3>1, Single
    <2>4. PICK p \in d.packages : p.name = NameOf(w, f)
      BY <2>3
    <2>5. p \in Downloaded
      BY <2>2, <2>4, ExpectedShape DEF Downloaded
    <2>6. p.what \in Whats /\ NameOf(p.what, f) = NameOf(w, f)
      BY <2>4, <2>5, <1>5
    <2>7. p.what = w
      BY <2>6, <1>2, NamesDiffer
    <2>. QED
      BY <2>5, <2>7
  <1>7. ASSUME NEW p \in Downloaded, NEW q \in Downloaded, p.what = q.what
        PROVE  p = q
    <2>. DEFINE w == p.what
    <2>1. w \in Whats /\ p.name = NameOf(w, f) /\ q.name = NameOf(w, f)
      BY <1>5, <1>7
    <2>2. PICK d \in artifacts : d.dir = DirOf(w) /\ p \in d.packages
      BY <1>5
    <2>3. PICK e \in artifacts : e.dir = DirOf(w) /\ q \in e.packages
      BY <1>5, <1>7
    <2>4. d = e
      <3>. DEFINE ds == {x \in artifacts : x.dir = DirOf(w)}
      <3>1. d \in ds /\ e \in ds
        BY <2>2, <2>3
      <3>2. IsFiniteSet(ds) /\ Cardinality(ds) = 1
        BY <2>1, <1>3
      <3>. HIDE DEF ds
      <3>. QED
        BY <3>1, <3>2, Single
    <2>. DEFINE ps == {x \in d.packages : x.name = NameOf(w, f)}
    <2>5. p \in ps /\ q \in ps
      BY <2>1, <2>2, <2>3, <2>4
    <2>6. IsFiniteSet(ps) /\ Cardinality(ps) = 1
      BY <2>1, <2>2, <1>4
    <2>. HIDE DEF ps
    <2>. QED
      BY <2>5, <2>6, Single
  <1>. QED
    BY <1>6, <1>7

LEMMA AssetsCounted ==
    ASSUME Gated
    PROVE  Cardinality({AssetName(p) : p \in Downloaded}) = Cardinality(Vmods) + 2
  <1>. DEFINE the(w) == CHOOSE p \in Downloaded : p.what = w
              T == {AssetName(p) : p \in Downloaded}
              g == [w \in Whats |-> AssetName(the(w))]
  <1>1. \A w \in Whats : the(w) \in Downloaded /\ the(w).what = w
    BY DownloadedOnce
  <1>2. \A p \in Downloaded : p.what \in Whats /\ the(p.what) = p
    <2>1. \A p \in Downloaded : p.what \in Whats
      BY DownloadedFits DEF Genuine
    <2>. HIDE DEF the
    <2>. QED
      BY <2>1, <1>1, DownloadedOnce
  <1>3. \A p, q \in Downloaded : AssetName(p) = AssetName(q) => p = q
    BY DEF Gated, NamesFit
  <1>. HIDE DEF the
  <1>4. g \in [Whats -> T] /\ \A w \in Whats : g[w] = AssetName(the(w))
    BY <1>1
  <1>5. \A t \in T : \E w \in Whats : g[w] = t
    <2>1. ASSUME NEW p \in Downloaded
          PROVE  \E w \in Whats : g[w] = AssetName(p)
      BY <1>2, <1>4
    <2>. QED
      BY <2>1
  <1>6. \A w, x \in Whats : g[w] = g[x] => w = x
    BY <1>1, <1>3, <1>4
  <1>. HIDE DEF g, T
  <1>7. g \in Surjection(Whats, T) /\ g \in Injection(Whats, T)
    BY <1>4, <1>5, <1>6 DEF Surjection, Injection, IsInjective
  <1>8. Cardinality(T) = Cardinality(Whats)
    BY <1>7, WhatsFacts, FS_Surjection
  <1>. QED
    BY <1>8, WhatsFacts DEF T

LEMMA CohortIsStaged ==
    ASSUME Gated
    PROVE  Cohort({<<AssetName(p), p>> : p \in Downloaded}, checkout)
  <1>. DEFINE st == {<<AssetName(p), p>> : p \in Downloaded}
  <1>1. {s[2] : s \in st} = Downloaded /\ {s[1] : s \in st} = {AssetName(p) : p \in Downloaded}
    <2>1. /\ \A s \in st : \E p \in Downloaded : s[1] = AssetName(p) /\ s[2] = p
          /\ \A p \in Downloaded : \E s \in st : s[1] = AssetName(p) /\ s[2] = p
      <3>1. \A p \in Downloaded : <<AssetName(p), p>>[1] = AssetName(p) /\ <<AssetName(p), p>>[2] = p
        OBVIOUS
      <3>. QED
        BY <3>1
    <2>. HIDE DEF st
    <2>2. {s[2] : s \in st} = Downloaded
      BY <2>1
    <2>3. {s[1] : s \in st} = {AssetName(p) : p \in Downloaded}
      BY <2>1
    <2>. QED
      BY <2>2, <2>3
  <1>2. \A p \in Downloaded : /\ p.what \in Whats /\ p.revision = checkout
                              /\ p.name = NameOf(p.what, target.format)
                              /\ (p.what \in Vmods => ShipsItsModules(p))
    BY DownloadedFits DEF Genuine
  <1>3. {<<p.what, p.revision>> : p \in Downloaded} = {<<w, checkout>> : w \in Whats}
    BY <1>2, DownloadedOnce
  <1>4. ASSUME NEW p \in Downloaded, NEW q \in Downloaded, p.what \in Vmods, q.what = "runtime"
        PROVE  p.requires.version = q.version
    <2>1. q.name = RuntimePackage
      BY <1>2, <1>4 DEF NameOf
    <2>2. StagedRuntime \in Downloaded /\ StagedRuntime.name = RuntimePackage
      BY <2>1 DEF StagedRuntime
    <2>3. StagedRuntime.what = "runtime"
      <3>1. /\ NameOf(StagedRuntime.what, target.format) = NameOf("runtime", target.format)
            /\ StagedRuntime.what \in Whats /\ "runtime" \in Whats
        BY <2>2, <1>2, WhatsFacts DEF NameOf
      <3>2. target.format \in {"deb", "rpm"}
        BY TargetFacts DEF Gated, ChainInv
      <3>. QED
        BY <3>1, <3>2, NamesDiffer
    <2>4. StagedRuntime = q
      BY <2>2, <2>3, <1>4, DownloadedOnce
    <2>5. p.name = VmodPackageName(p.what)
      BY <1>2, <1>4, WhatsFacts DEF NameOf
    <2>6. p.requires = Exactly(RuntimePackage, target.arch, q.version)
      BY <2>4, <2>5, <1>4 DEF Gated, DependenciesFit
    <2>. QED
      BY <2>6 DEF Exactly
  <1>5. Cardinality({AssetName(p) : p \in Downloaded}) = Cardinality(Vmods) + 2
    BY AssetsCounted
  <1>. HIDE DEF st
  <1>. QED
    BY <1>1, <1>2, <1>3, <1>4, <1>5 DEF Cohort, Whats, st

LEMMA CohortStays ==
    ASSUME StagedIsTheCohort, UNCHANGED <<outcome, staged, checkout>>
    PROVE  StagedIsTheCohort'
  BY DEF StagedIsTheCohort

LEMMA ShelfStays ==
    ASSUME ChainInv, UNCHANGED <<target, shelf>>
    PROVE  (\A p \in shelf : Genuine(p, target))' /\ IsFiniteSet(shelf)'
  BY DEF ChainInv, Genuine

\* The world: the pair, the revision, the image, the caches and what gets astray.
LEMMA WorldStep ==
    ASSUME ChainInv, ChooseTarget \/ SetRevision \/ MoveImage \/ EvictPackages
    PROVE  ChainInv'
  <1>1. ChainTypeOK'
    <2>1. CASE ChooseTarget \/ SetRevision \/ MoveImage
      BY <2>1 DEF ChainInv, ChainTypeOK, ChooseTarget, SetRevision, MoveImage
    <2>2. CASE EvictPackages
      <3>1. engineCache' \in [Revisions -> SUBSET shelf] /\ cellCache' \in [Vmods -> [Revisions -> SUBSET shelf]]
        <4>1. engineCache \in [Revisions -> SUBSET shelf] /\ cellCache \in [Vmods -> [Revisions -> SUBSET shelf]]
          BY DEF ChainInv, ChainTypeOK
        <4>2. CASE \E r \in Revisions : /\ engineCache' = [engineCache EXCEPT ![r] = {}]
                                        /\ UNCHANGED cellCache
          BY <4>1, <4>2
        <4>3. ASSUME NEW v \in Vmods, NEW r \in Revisions,
                     cellCache' = [cellCache EXCEPT ![v][r] = {}], UNCHANGED engineCache
              PROVE  /\ engineCache' \in [Revisions -> SUBSET shelf]
                     /\ cellCache' \in [Vmods -> [Revisions -> SUBSET shelf]]
          <5>1. [cellCache[v] EXCEPT ![r] = {}] \in [Revisions -> SUBSET shelf]
            BY <4>1
          <5>2. cellCache' = [cellCache EXCEPT ![v] = [cellCache[v] EXCEPT ![r] = {}]]
            BY <4>3
          <5>. QED
            BY <4>1, <4>3, <5>1, <5>2
        <4>. QED
          BY <2>2, <4>2, <4>3 DEF EvictPackages
      <3>. QED
        BY <2>2, <3>1 DEF ChainInv, ChainTypeOK, EvictPackages
    <2>. QED
      BY <2>1, <2>2
  <1>2. /\ UNCHANGED <<outcome, staged, checkout, shelf, artifacts, phase>>
        /\ target' = target \/ (target = NoTarget /\ target' \in PackageTargets)
    BY DEF ChooseTarget, SetRevision, MoveImage, EvictPackages
  <1>3. (\A p \in shelf : Genuine(p, target))'
    <2>1. CASE target' = target
      BY <2>1, <1>2, ShelfStays
    <2>2. CASE target = NoTarget
      <3>1. shelf = {}
        BY <2>2, TargetFacts DEF ChainInv, Genuine
      <3>. QED
        BY <3>1, <1>2
    <2>. QED
      BY <2>1, <2>2, <1>2
  <1>4. IsFiniteSet(shelf)' /\ IsFiniteSet(artifacts)' /\ (phase # "idle" => target \in PackageTargets)'
    BY <1>2 DEF ChainInv
  <1>5. StagedIsTheCohort'
    BY <1>2, CohortStays DEF ChainInv
  <1>. QED
    BY <1>1, <1>3, <1>4, <1>5 DEF ChainInv

LEMMA AddOne ==
    ASSUME NEW S, NEW x, IsFiniteSet(S)
    PROVE  IsFiniteSet(S \cup {x})
  BY FS_AddElement

LEMMA MisfileStep ==
    ASSUME ChainInv, Misfile
    PROVE  ChainInv'
  <1>1. /\ UNCHANGED <<target, revision, image, engineCache, cellCache, phase, checkout, unbuilt,
                       outcome, staged, shelf>>
    BY DEF Misfile
  <1>2. \E d \in artifacts :
          \/ artifacts' = artifacts \ {d}
          \/ \E p \in shelf, some \in SUBSET d.packages :
                artifacts' = (artifacts \ {d}) \cup {Directory(d.dir, some \cup {p})}
          \/ \E p \in shelf : artifacts' = artifacts \cup {Directory(d.dir, {p})}
    BY DEF Misfile
  <1>3. \E d \in artifacts : \E ps \in SUBSET shelf :
           \/ artifacts' = artifacts \ {d}
           \/ artifacts' = (artifacts \ {d}) \cup {Directory(d.dir, ps)}
           \/ artifacts' = artifacts \cup {Directory(d.dir, ps)}
    <2>1. \A d \in artifacts : d.packages \subseteq shelf
      BY DEF ChainInv, ChainTypeOK
    <2>2. PICK d \in artifacts :
          \/ artifacts' = artifacts \ {d}
          \/ \E p \in shelf, some \in SUBSET d.packages :
                artifacts' = (artifacts \ {d}) \cup {Directory(d.dir, some \cup {p})}
          \/ \E p \in shelf : artifacts' = artifacts \cup {Directory(d.dir, {p})}
      BY <1>2
    <2>3. CASE artifacts' = artifacts \ {d}
      <3>1. {} \in SUBSET shelf
        OBVIOUS
      <3>. QED
        BY <2>3, <3>1
    <2>4. ASSUME NEW p \in shelf, NEW some \in SUBSET d.packages,
                 artifacts' = (artifacts \ {d}) \cup {Directory(d.dir, some \cup {p})}
          PROVE  \E ps \in SUBSET shelf : artifacts' = (artifacts \ {d}) \cup {Directory(d.dir, ps)}
      <3>. DEFINE ps == some \cup {p}
      <3>1. ps \in SUBSET shelf
        BY <2>1
      <3>. QED
        BY <2>4, <3>1
    <2>5. ASSUME NEW p \in shelf, artifacts' = artifacts \cup {Directory(d.dir, {p})}
          PROVE  \E ps \in SUBSET shelf : artifacts' = artifacts \cup {Directory(d.dir, ps)}
      <3>. DEFINE ps == {p}
      <3>1. ps \in SUBSET shelf
        OBVIOUS
      <3>. QED
        BY <2>5, <3>1
    <2>. QED
      BY <2>2, <2>3, <2>4, <2>5
  <1>4. PICK d \in artifacts, ps \in SUBSET shelf :
           \/ artifacts' = artifacts \ {d}
           \/ artifacts' = (artifacts \ {d}) \cup {Directory(d.dir, ps)}
           \/ artifacts' = artifacts \cup {Directory(d.dir, ps)}
    BY <1>3
  <1>. DEFINE new == Directory(d.dir, ps)
  <1>5. new.dir = d.dir /\ new.packages = ps
    BY DEF Directory
  <1>. HIDE DEF new
  <1>6. \A e \in artifacts' : e \in artifacts \/ e = new
    BY <1>4 DEF new
  <1>7. ChainTypeOK'
    <2>1. \A e \in artifacts' : e.dir \in Vmods \cup {EngineDir} /\ e.packages \subseteq shelf
      BY <1>5, <1>6 DEF ChainInv, ChainTypeOK
    <2>. QED
      BY <1>1, <2>1 DEF ChainInv, ChainTypeOK
  <1>8. IsFiniteSet(artifacts')
    <2>1. artifacts \ {d} \in SUBSET artifacts /\ IsFiniteSet(artifacts)
      BY DEF ChainInv
    <2>2. IsFiniteSet(artifacts \ {d})
      BY <2>1, FS_Subset
    <2>3. IsFiniteSet((artifacts \ {d}) \cup {new}) /\ IsFiniteSet(artifacts \cup {new})
      BY <2>1, <2>2, AddOne
    <2>. QED
      BY <1>4, <2>2, <2>3 DEF new
  <1>9. (\A p \in shelf : Genuine(p, target))' /\ IsFiniteSet(shelf)'
    BY <1>1, ShelfStays
  <1>10. StagedIsTheCohort' /\ (phase # "idle" => target \in PackageTargets)'
    BY <1>1, CohortStays DEF ChainInv
  <1>. QED
    BY <1>7, <1>8, <1>9, <1>10 DEF ChainInv

LEMMA StartStep ==
    ASSUME ChainInv, StartRun
    PROVE  ChainInv'
  <1>1. ChainTypeOK'
    BY DEF ChainInv, ChainTypeOK, StartRun
  <1>2. (\A p \in shelf : Genuine(p, target))' /\ IsFiniteSet(shelf)'
    BY ShelfStays DEF StartRun
  <1>3. target' \in PackageTargets
    BY DEF ChainInv, ChainTypeOK, StartRun
  <1>4. IsFiniteSet(artifacts)'
    BY FS_EmptySet DEF StartRun
  <1>5. StagedIsTheCohort'
    BY DEF StartRun, StagedIsTheCohort
  <1>. QED
    BY <1>1, <1>2, <1>3, <1>4, <1>5 DEF ChainInv

\* More on the shelf, genuine and finitely many.
LEMMA Shelved ==
    ASSUME ChainInv, NEW packages, IsFiniteSet(packages), \A p \in packages : Genuine(p, target),
           shelf' = shelf \cup packages, target' = target
    PROVE  (\A p \in shelf : Genuine(p, target))' /\ IsFiniteSet(shelf)'
  <1>1. IsFiniteSet(shelf \cup packages)
    BY FS_Union DEF ChainInv
  <1>2. \A p \in shelf \cup packages : Genuine(p, target)
    BY DEF ChainInv
  <1>. QED
    BY <1>1, <1>2 DEF Genuine

LEMMA EngineBuilt ==
    ASSUME ChainInv, EngineStep
    PROVE  ChainInv'
  <1>. DEFINE packages == IF engineCache[checkout] # {} THEN engineCache[checkout] ELSE EnginePackages
              new == Directory(EngineDir, packages)
  <1>1. /\ engineCache' = [engineCache EXCEPT ![checkout] = packages]
        /\ artifacts' = {new} /\ shelf' = shelf \cup packages
        /\ UNCHANGED <<target, revision, image, cellCache, checkout, unbuilt, outcome, staged>>
        /\ phase' = "vmods" /\ phase = "engine"
    BY DEF EngineStep
  <1>2. target \in PackageTargets /\ checkout \in Revisions /\ image \in Images
    BY <1>1 DEF ChainInv, ChainTypeOK
  <1>3. IsFiniteSet(packages) /\ \A p \in packages : Genuine(p, target)
    <2>1. CASE engineCache[checkout] # {}
      <3>1. engineCache[checkout] \in SUBSET shelf /\ packages = engineCache[checkout]
        BY <2>1, <1>2 DEF ChainInv, ChainTypeOK
      <3>. HIDE DEF packages
      <3>2. IsFiniteSet(packages)
        BY <3>1, FS_Subset DEF ChainInv
      <3>. QED
        BY <3>1, <3>2 DEF ChainInv
    <2>2. CASE ~(engineCache[checkout] # {})
      BY <2>2, <1>2, EngineMade
    <2>. QED
      BY <2>1, <2>2
  <1>4. new.dir = EngineDir /\ new.packages = packages
    BY DEF Directory
  <1>. HIDE DEF packages, new
  <1>5. ChainTypeOK'
    <2>1. engineCache' \in [Revisions -> SUBSET (shelf \cup packages)]
      BY <1>1, <1>2 DEF ChainInv, ChainTypeOK
    <2>2. cellCache' \in [Vmods -> [Revisions -> SUBSET (shelf \cup packages)]]
      BY <1>1 DEF ChainInv, ChainTypeOK
    <2>3. \A d \in artifacts' : d.dir \in Vmods \cup {EngineDir} /\ d.packages \subseteq shelf \cup packages
      BY <1>1, <1>4
    <2>. QED
      BY <1>1, <2>1, <2>2, <2>3 DEF ChainInv, ChainTypeOK
  <1>6. (\A p \in shelf : Genuine(p, target))' /\ IsFiniteSet(shelf)'
    BY <1>1, <1>3, Shelved
  <1>7. IsFiniteSet(artifacts')
    BY <1>1, FS_Singleton
  <1>8. StagedIsTheCohort'
    BY <1>1, CohortStays DEF ChainInv
  <1>. QED
    BY <1>1, <1>2, <1>5, <1>6, <1>7, <1>8 DEF ChainInv

LEMMA VmodBuilt ==
    ASSUME ChainInv, NEW v \in Vmods, VmodStep(v)
    PROVE  ChainInv'
  <1>1. PICK root \in TreesOf[v] :
           LET built    == Built(v, root)
               packages == IF cellCache[v][checkout] # {} THEN cellCache[v][checkout]
                           ELSE IF Passes(built, v) THEN built ELSE {}
           IN  /\ cellCache' = [cellCache EXCEPT ![v][checkout] = packages]
               /\ IF packages # {}
                  THEN /\ artifacts' = artifacts \cup {Directory(v, packages)}
                       /\ unbuilt' = unbuilt \ {v}
                       /\ phase' = IF unbuilt' = {} THEN "gate" ELSE phase
                       /\ shelf' = shelf \cup packages
                       /\ UNCHANGED <<outcome, failed>>
                  ELSE /\ phase' = "idle" /\ outcome' = "red"
                       /\ failed' = [vmod |-> v, tree |-> root, image |-> image]
                       /\ UNCHANGED <<artifacts, unbuilt, shelf>>
    BY DEF VmodStep
  <1>. DEFINE built    == Built(v, root)
              packages == IF cellCache[v][checkout] # {} THEN cellCache[v][checkout]
                          ELSE IF Passes(built, v) THEN built ELSE {}
              new == Directory(v, packages)
  <1>2. /\ cellCache' = [cellCache EXCEPT ![v][checkout] = packages]
        /\ \/ /\ artifacts' = artifacts \cup {new} /\ unbuilt' = unbuilt \ {v}
              /\ phase' \in {"gate", phase}
              /\ shelf' = shelf \cup packages /\ outcome' = outcome
           \/ /\ packages = {} /\ phase' = "idle" /\ outcome' = "red"
              /\ UNCHANGED <<artifacts, unbuilt, shelf>>
    BY <1>1
  <1>3. UNCHANGED <<target, revision, image, engineCache, checkout, staged>> /\ phase = "vmods"
    BY DEF VmodStep
  <1>4. target \in PackageTargets /\ checkout \in Revisions /\ image \in Images
    BY <1>3 DEF ChainInv, ChainTypeOK
  <1>5. IsFiniteSet(packages) /\ \A p \in packages : Genuine(p, target)
    <2>1. CASE cellCache[v][checkout] # {}
      <3>1. cellCache[v][checkout] \in SUBSET shelf /\ packages = cellCache[v][checkout]
        BY <2>1, <1>4 DEF ChainInv, ChainTypeOK
      <3>. HIDE DEF packages
      <3>2. IsFiniteSet(packages)
        BY <3>1, FS_Subset DEF ChainInv
      <3>. QED
        BY <3>1, <3>2 DEF ChainInv
    <2>2. CASE ~(cellCache[v][checkout] # {})
      <3>1. packages = Built(v, root) \/ packages = {}
        BY <2>2
      <3>. HIDE DEF packages
      <3>. QED
        BY <3>1, <1>4, VmodMade, FS_EmptySet
    <2>. QED
      BY <2>1, <2>2
  <1>6. new.dir = v /\ new.packages = packages
    BY DEF Directory
  <1>. HIDE DEF packages, new
  <1>7. shelf' = shelf \cup packages
    BY <1>2
  <1>8. ChainTypeOK'
    <2>1. cellCache' \in [Vmods -> [Revisions -> SUBSET (shelf \cup packages)]]
      <3>1. cellCache \in [Vmods -> [Revisions -> SUBSET (shelf \cup packages)]]
        BY DEF ChainInv, ChainTypeOK
      <3>2. cellCache' = [cellCache EXCEPT ![v] = [cellCache[v] EXCEPT ![checkout] = packages]]
        BY <1>2
      <3>3. [cellCache[v] EXCEPT ![checkout] = packages] \in [Revisions -> SUBSET (shelf \cup packages)]
        BY <3>1, <1>4
      <3>. QED
        BY <3>1, <3>2, <3>3
    <2>2. engineCache' \in [Revisions -> SUBSET (shelf \cup packages)]
      BY <1>3 DEF ChainInv, ChainTypeOK
    <2>3. \A d \in artifacts' : d.dir \in Vmods \cup {EngineDir} /\ d.packages \subseteq shelf \cup packages
      <3>1. \A d \in artifacts' : d \in artifacts \/ d = new
        BY <1>2
      <3>. QED
        BY <3>1, <1>6 DEF ChainInv, ChainTypeOK
    <2>4. /\ unbuilt' \subseteq Vmods /\ phase' \in {"idle", "engine", "vmods", "gate"}
          /\ outcome' \in {"none", "red", "accepted", "refused"}
      BY <1>2, <1>3 DEF ChainInv, ChainTypeOK
    <2>. QED
      BY <1>3, <1>7, <2>1, <2>2, <2>3, <2>4 DEF ChainInv, ChainTypeOK
  <1>9. (\A p \in shelf : Genuine(p, target))' /\ IsFiniteSet(shelf)'
    BY <1>3, <1>5, <1>7, Shelved
  <1>10. IsFiniteSet(artifacts')
    <2>1. IsFiniteSet(artifacts \cup {new})
      BY AddOne DEF ChainInv
    <2>. QED
      BY <2>1, <1>2 DEF ChainInv
  <1>11. StagedIsTheCohort'
    <2>1. CASE outcome' = "red"
      BY <2>1 DEF StagedIsTheCohort
    <2>2. CASE outcome' = outcome
      BY <2>2, <1>3, CohortStays DEF ChainInv
    <2>. QED
      BY <2>1, <2>2, <1>2
  <1>. QED
    BY <1>3, <1>4, <1>8, <1>9, <1>10, <1>11 DEF ChainInv

LEMMA GateStep ==
    ASSUME ChainInv, ValidatePairPayload
    PROVE  ChainInv'
  <1>1. ChainTypeOK'
    BY DEF ChainInv, ChainTypeOK, ValidatePairPayload
  <1>2. /\ (\A p \in shelf : Genuine(p, target))' /\ IsFiniteSet(shelf)' /\ IsFiniteSet(artifacts)'
        /\ phase' = "idle"
    BY ShelfStays DEF ChainInv, ValidatePairPayload
  <1>3. StagedIsTheCohort'
    <2>1. CASE DirectoriesFit /\ DependenciesFit /\ NamesFit
      <3>1. Cohort({<<AssetName(p), p>> : p \in Downloaded}, checkout)
        BY <2>1, CohortIsStaged DEF Gated, ValidatePairPayload
      <3>2. staged' = {<<AssetName(p), p>> : p \in Downloaded} /\ checkout' = checkout
        BY <2>1 DEF ValidatePairPayload
      <3>3. Cohort(staged', checkout')
        BY <3>1, <3>2
      <3>. QED
        BY <3>3 DEF StagedIsTheCohort, Cohort
    <2>2. CASE ~(DirectoriesFit /\ DependenciesFit /\ NamesFit)
      BY <2>2 DEF StagedIsTheCohort, ValidatePairPayload
    <2>. QED
      BY <2>1, <2>2
  <1>. QED
    BY <1>1, <1>2, <1>3 DEF ChainInv

LEMMA ChainStutters ==
    ASSUME ChainInv, UNCHANGED chainVars
    PROVE  ChainInv'
  <1>1. UNCHANGED <<target, revision, image, engineCache, cellCache, phase, checkout, unbuilt,
                    artifacts, outcome, staged, shelf>>
    BY DEF chainVars
  <1>2. ChainTypeOK'
    BY <1>1 DEF ChainInv, ChainTypeOK
  <1>. QED
    BY <1>1, <1>2, ShelfStays, CohortStays DEF ChainInv

LEMMA ChainInitially == ChainInit => ChainInv
  <1>1. FirstOf(Revisions) \in Revisions /\ FirstOf(Images) \in Images
    BY ChainAssumption DEF FirstOf
  <1>. QED
    BY <1>1, FS_EmptySet DEF ChainInit, ChainInv, ChainTypeOK, StagedIsTheCohort

LEMMA ChainInductive == ChainInv /\ [ChainNext]_chainVars => ChainInv'
  BY WorldStep, MisfileStep, StartStep, EngineBuilt, VmodBuilt, GateStep, ChainStutters DEF ChainNext

LEMMA ChainInvariance == ChainSpec => []ChainInv
  BY ChainInitially, ChainInductive, PTL DEF ChainSpec

\* The caches hold per revision what was built, the directories of a run what
\* is on the shelf, and a run is of a revision the catalog has had.
THEOREM ChainTypes == ChainSpec => []ChainTypeOK
  BY ChainInvariance, PTL DEF ChainInv

\* Whatever is cached, evicted, bumped, moved or misfiled, for every catalog,
\* engine, revision and image: what the gate stages is the two packages of the
\* engine and one of each promoted VMOD, of the checkout's revision, every VMOD
\* for the very runtime beside it and with its modules, under as many names.
THEOREM CohortStaged == ChainSpec => []StagedIsTheCohort
  BY ChainInvariance, PTL DEF ChainInv

-----------------------------------------------------------------------------
(* What fails has a cause *)

LEMMA PrefixThere ==
    ASSUME NEW S, NEW s \in Seq(S), NEW t \in Seq(S), Len(s) <= Len(t), \A i \in 1..Len(s) : s[i] = t[i]
    PROVE  IsPrefix(s, t)
  <1>1. Len(s) \in Nat /\ Len(t) \in Nat
    OBVIOUS
  <1>. DEFINE u == SubSeq(s, 1, Len(s))  v == SubSeq(t, 1, Len(s))
  <1>2. /\ u \in Seq(S) /\ Len(u) = Len(s) /\ \A i \in 1..Len(s) : u[i] = s[i]
    BY <1>1
  <1>3. /\ v \in Seq(S) /\ Len(v) = Len(s) /\ \A i \in 1..Len(s) : v[i] = t[i]
    BY <1>1
  <1>. HIDE DEF u, v
  <1>4. u = [i \in 1..Len(s) |-> u[i]] /\ v = [i \in 1..Len(s) |-> v[i]]
    BY <1>2, <1>3
  <1>5. u = v
    BY <1>2, <1>3, <1>4
  <1>. QED
    BY <1>5 DEF IsPrefix, u, v

LEMMA SuffixThere ==
    ASSUME NEW S, NEW a \in Seq(S), NEW b \in Seq(S)
    PROVE  IsSuffix(b, a \o b)
  <1>. DEFINE x == a \o b
  <1>1. Joins(x, a, b)
    BY DEF Joins
  <1>. HIDE DEF x
  <1>2. x \in Seq(S) /\ ReadsTwo(x, a, b) /\ Len(a) \in Nat /\ Len(b) \in Nat
    BY <1>1, JoinsRead
  <1>3. Len(x) = Len(a) + Len(b) /\ \A i \in 1..Len(b) : x[Len(a) + i] = b[i]
    BY <1>2 DEF ReadsTwo
  <1>. DEFINE s == Reverse(b)  t == Reverse(x)
  <1>4. s = [i \in 1..Len(b) |-> b[(Len(b) - i) + 1]] /\ t = [i \in 1..Len(x) |-> x[(Len(x) - i) + 1]]
    BY DEF Reverse
  <1>5. /\ \A i \in 1..Len(b) : (Len(b) - i) + 1 \in 1..Len(b)
        /\ \A i \in 1..Len(x) : (Len(x) - i) + 1 \in 1..Len(x)
    BY <1>2, <1>3
  <1>6. s \in [1..Len(b) -> S] /\ t \in [1..Len(x) -> S]
    <2>1. (\A i \in 1..Len(b) : b[i] \in S) /\ (\A i \in 1..Len(x) : x[i] \in S)
      BY <1>2
    <2>. QED
      BY <2>1, <1>4, <1>5
  <1>7. s \in Seq(S) /\ Len(s) = Len(b) /\ t \in Seq(S) /\ Len(t) = Len(x)
    <2>1. Len(b) \in Nat /\ Len(x) \in Nat
      BY <1>2, <1>3
    <2>. HIDE DEF s, t
    <2>2. s \in Seq(S) /\ Len(s) = Len(b)
      BY <2>1, <1>6, ListOf
    <2>3. t \in Seq(S) /\ Len(t) = Len(x)
      BY <2>1, <1>6, ListOf
    <2>. QED
      BY <2>2, <2>3
  <1>8. ASSUME NEW i \in 1..Len(b)
        PROVE  s[i] = t[i]
    <2>1. i \in 1..Len(x) /\ (Len(x) - i) + 1 = Len(a) + ((Len(b) - i) + 1)
      BY <1>2, <1>3
    <2>2. s[i] = b[(Len(b) - i) + 1] /\ t[i] = x[(Len(x) - i) + 1]
      BY <2>1, <1>4
    <2>. QED
      BY <2>1, <2>2, <1>3, <1>5
  <1>9. Len(s) <= Len(t)
    BY <1>2, <1>3, <1>7
  <1>. HIDE DEF s, t
  <1>10. IsPrefix(s, t)
    BY <1>7, <1>8, <1>9, PrefixThere
  <1>. QED
    BY <1>10 DEF IsSuffix, s, t, x

LEMMA DotPrefix ==
    ASSUME NEW S, NEW a \in Seq(S), NEW d \in Seq(S), d # <<>>, d[1] = ".", "." \in S
    PROVE  IsPrefix(a \o <<".">>, a \o d)
  <1>. DEFINE dot == <<".">>  x == a \o dot  y == a \o d
  <1>1. dot \in Seq(S) /\ Len(dot) = 1 /\ dot[1] = "."
    BY One
  <1>2. Joins(x, a, dot) /\ Joins(y, a, d)
    BY DEF Joins
  <1>. HIDE DEF dot
  <1>. HIDE DEF x, y
  <1>3. x \in Seq(S) /\ ReadsTwo(x, a, dot) /\ y \in Seq(S) /\ ReadsTwo(y, a, d)
    BY <1>1, <1>2, JoinsRead
  <1>4. Len(a) \in Nat /\ Len(d) \in Nat /\ 1 \in 1..Len(d)
    OBVIOUS
  <1>5. Len(x) = Len(a) + 1 /\ Len(x) <= Len(y)
    BY <1>1, <1>3, <1>4 DEF ReadsTwo
  <1>6. ASSUME NEW i \in 1..Len(x)
        PROVE  x[i] = y[i]
    <2>1. i \in 1..Len(a) \/ i = Len(a) + 1
      BY <1>4, <1>5
    <2>2. CASE i \in 1..Len(a)
      BY <2>2, <1>3 DEF ReadsTwo
    <2>3. CASE i = Len(a) + 1
      BY <2>3, <1>1, <1>3, <1>4 DEF ReadsTwo
    <2>. QED
      BY <2>1, <2>2, <2>3
  <1>7. IsPrefix(x, y)
    BY <1>3, <1>5, <1>6, PrefixThere
  <1>. QED
    BY <1>7 DEF x, y, dot

\* The gate accepts what was made of a recipe of the revision it expects, in
\* whatever image.
LEMMA Accepted ==
    ASSUME NEW w \in Whats, NEW r \in Revisions, NEW d \in Images, target.format \in {"deb", "rpm"}
    PROVE  VersionMatches((Base(w, target.format) \o r) \o Mark(target.format, d),
                          VersionOf(w, r, target.format))
  <1>. DEFINE a == Base(w, target.format) \o r
  <1>1. /\ a \in Seq(Pieces)
        /\ VersionOf(w, r, target.format) = IF target.format = "deb" THEN a ELSE a \o <<Dist>>
    BY VersionParts
  <1>2. d \in Seq(Pieces) /\ Dist \in Pieces /\ "." \in Pieces /\ (d # <<>> => d[1] = ".")
    BY Texts, ChainAssumption DEF Literals
  <1>. HIDE DEF a
  <1>3. a \o <<>> = a
    BY <1>1
  <1>4. CASE target.format = "deb"
    <2>1. a \o Mark(target.format, d) = VersionOf(w, r, target.format)
      BY <1>1, <1>3, <1>4 DEF Mark
    <2>. QED
      BY <2>1, <1>4 DEF VersionMatches, a
  <1>5. CASE target.format = "rpm"
    <2>1. RemoveSuffix(a \o <<Dist>>, Dist) = a
      BY <1>1, <1>2, SuffixRemoved
    <2>2. a \o d = a \/ IsPrefix(a \o <<".">>, a \o d)
      <3>1. CASE d = <<>>
        BY <3>1, <1>3
      <3>2. CASE d # <<>>
        BY <3>2, <1>1, <1>2, DotPrefix
      <3>. QED
        BY <3>1, <3>2
    <2>3. VersionMatches(a \o d, a \o <<Dist>>)
      BY <2>1, <2>2, <1>5 DEF VersionMatches, RpmVersionMatches
    <2>4. Mark(target.format, d) = d /\ VersionOf(w, r, target.format) = a \o <<Dist>>
      BY <1>1, <1>5 DEF Mark
    <2>. QED
      BY <2>3, <2>4 DEF a
  <1>. QED
    BY <1>4, <1>5

\* The name of an asset has the name of the package up to the first underscore.
Underscore == "_"
Heads(y, n) ==
    /\ Len(n) + 1 \in 1..Len(y)
    /\ \A i \in 1..Len(n) : y[i] = n[i]
    /\ y[Len(n) + 1] = Underscore /\ Underscore \notin ToSet(n)

LEMMA HeadsEqual ==
    ASSUME NEW S, NEW n \in Seq(S), NEW m \in Seq(S), NEW y, Heads(y, n), Heads(y, m)
    PROVE  n = m
  <1>1. Len(n) \in Nat /\ Len(m) \in Nat
    OBVIOUS
  <1>2. (\A i \in 1..Len(n) : n[i] # Underscore) /\ (\A i \in 1..Len(m) : m[i] # Underscore)
    <2>1. Underscore \notin ToSet(n) /\ Underscore \notin ToSet(m)
      BY DEF Heads
    <2>2. \A i \in 1..Len(n) : n[i] # Underscore
      BY <2>1 DEF ToSet
    <2>3. \A i \in 1..Len(m) : m[i] # Underscore
      BY <2>1 DEF ToSet
    <2>. QED
      BY <2>2, <2>3
  <1>3. ~(Len(n) < Len(m))
    <2>1. ASSUME Len(n) < Len(m) PROVE FALSE
      <3>1. Len(n) + 1 \in 1..Len(m)
        BY <2>1, <1>1
      <3>. QED
        BY <3>1, <1>2 DEF Heads
    <2>. QED
      BY <2>1
  <1>4. ~(Len(m) < Len(n))
    <2>1. ASSUME Len(m) < Len(n) PROVE FALSE
      <3>1. Len(m) + 1 \in 1..Len(n)
        BY <2>1, <1>1
      <3>. QED
        BY <3>1, <1>2 DEF Heads
    <2>. QED
      BY <2>1
  <1>5. Len(n) = Len(m)
    BY <1>1, <1>3, <1>4
  <1>6. \A i \in 1..Len(n) : n[i] = m[i]
    BY <1>5 DEF Heads
  <1>7. n = [i \in 1..Len(n) |-> n[i]] /\ m = [i \in 1..Len(m) |-> m[i]]
    OBVIOUS
  <1>. QED
    BY <1>5, <1>6, <1>7

LEMMA Underscores ==
    /\ Underscore \in Pieces
    /\ Underscore \notin {"-", "~", ".", "vinyl-cache", "varnish", "vinyl-vmod", "varnish-vmod",
                         "vinyl-cache-dev", "vinyl-cache-devel", "varnish-dev", "varnish-devel"}
  <1>1. Underscore \in Pieces
    BY Texts DEF Literals, Underscore
  <1>2. Underscore \notin {"-", "~", ".", "vinyl-cache", "varnish", "vinyl-vmod", "varnish-vmod",
                         "vinyl-cache-dev", "vinyl-cache-devel", "varnish-dev", "varnish-devel"}
    BY DEF Underscore
  <1>. QED
    BY <1>1, <1>2

LEMMA NamePlain ==
    ASSUME NEW w \in Whats, NEW format \in {"deb", "rpm"}
    PROVE  /\ NameOf(w, format) \in Seq(Pieces)
           /\ Underscore \notin ToSet(NameOf(w, format)) /\ "~" \notin ToSet(NameOf(w, format))
  <1>1. \/ /\ RuntimePackage = <<"vinyl-cache">> /\ FamilyContract.prefix = <<"vinyl-vmod", "-">>
           /\ DevelopmentPackage("deb") = <<"vinyl-cache-dev">>
           /\ DevelopmentPackage("rpm") = <<"vinyl-cache-devel">>
        \/ /\ RuntimePackage = <<"varnish">> /\ FamilyContract.prefix = <<"varnish-vmod", "-">>
           /\ DevelopmentPackage("deb") = <<"varnish-dev">>
           /\ DevelopmentPackage("rpm") = <<"varnish-devel">>
    BY NameAssumption DEF FamilyContract, RuntimePackage, DevelopmentPackage
  <1>2. \A x : ToSet(<<x>>) = {x}
    BY DEF ToSet
  <1>3. \A x, y : ToSet(<<x, y>>) = {x, y}
    BY DEF ToSet
  <1>4. CASE w = "runtime"
    <2>1. ToSet(RuntimePackage) \in {{"vinyl-cache"}, {"varnish"}}
      BY <1>1, <1>2
    <2>2. NameOf(w, format) = RuntimePackage
      BY <1>4 DEF NameOf
    <2>3. Underscore \notin ToSet(RuntimePackage) /\ "~" \notin ToSet(RuntimePackage)
      BY <2>1, Underscores
    <2>4. RuntimePackage \in Seq(Pieces)
      BY Contract
    <2>. QED
      BY <2>2, <2>3, <2>4
  <1>5. CASE w = "development"
    <2>1. ToSet(DevelopmentPackage(format))
            \in {{"vinyl-cache-dev"}, {"vinyl-cache-devel"}, {"varnish-dev"}, {"varnish-devel"}}
      BY <1>1, <1>2
    <2>2. NameOf(w, format) = DevelopmentPackage(format)
      BY <1>5 DEF NameOf
    <2>3. Underscore \notin ToSet(DevelopmentPackage(format)) /\ "~" \notin ToSet(DevelopmentPackage(format))
      BY <2>1, Underscores
    <2>4. DevelopmentPackage(format) \in Seq(Pieces)
      BY Contract
    <2>. QED
      BY <2>2, <2>3, <2>4
  <1>6. CASE w \in Vmods
    <2>1. NameOf(w, format) = VmodPackageName(w)
      BY <1>6, WhatsFacts DEF NameOf
    <2>2. IdOf[w] \in Seq(Pieces) /\ Underscore \in Pieces /\ "-" \in Pieces /\ "~" \notin ToSet(IdOf[w])
      BY <1>6, Texts, Underscores, NameAssumption DEF Literals
    <2>. DEFINE prefix == FamilyContract.prefix  rest == Substituted(IdOf[w], Underscore, "-")
    <2>3. prefix \in Seq(Pieces) /\ Underscore \notin ToSet(prefix) /\ "~" \notin ToSet(prefix)
      <3>1. ToSet(prefix) \in {{"vinyl-vmod", "-"}, {"varnish-vmod", "-"}}
        BY <1>1, <1>3
      <3>. HIDE DEF prefix
      <3>2. Underscore \notin ToSet(prefix) /\ "~" \notin ToSet(prefix)
        BY <3>1, Underscores
      <3>. QED
        BY <3>2, Contract DEF prefix
    <2>4. rest \in Seq(Pieces) /\ "~" \notin ToSet(rest)
      BY <2>2, SubstitutedShape
    <2>5. Underscore \notin ToSet(rest)
      BY Underscores DEF Substituted, ToSet
    <2>. HIDE DEF prefix, rest
    <2>6. prefix \o rest \in Seq(Pieces) /\ ToSet(prefix \o rest) = ToSet(prefix) \cup ToSet(rest)
      BY <2>3, <2>4, Concat
    <2>7. VmodPackageName(w) = prefix \o rest
      BY DEF VmodPackageName, Underscore, prefix, rest
    <2>. QED
      BY <2>1, <2>3, <2>4, <2>5, <2>6, <2>7
  <1>. QED
    BY <1>4, <1>5, <1>6, WhatsFacts

LEMMA AssetHeads ==
    ASSUME NEW S, NEW n \in Seq(S), NEW v \in Seq(S), NEW a \in S, Underscore \in S,
           Underscore \notin ToSet(n), "~" \notin ToSet(n)
    PROVE  Heads(Substituted(n \o <<Underscore>> \o v \o <<Underscore, a>>, "~", "."), n)
  <1>. DEFINE under == <<Underscore>>  tail == <<Underscore, a>>
              b == n \o under  c == b \o v  x == c \o tail
              y == Substituted(x, "~", ".")
  <1>1. under \in Seq(S) /\ Len(under) = 1 /\ under[1] = Underscore /\ tail \in Seq(S) /\ Len(tail) = 2
    BY One, Two
  <1>2. Joins(b, n, under) /\ Joins(c, b, v) /\ Joins(x, c, tail)
    BY DEF Joins
  <1>3. \A i \in 1..Len(n) : n[i] # "~"
    BY DEF ToSet
  <1>. HIDE DEF under, tail
  <1>. HIDE DEF y
  <1>. HIDE DEF x
  <1>. HIDE DEF c
  <1>. HIDE DEF b
  <1>4. b \in Seq(S) /\ ReadsTwo(b, n, under)
    BY <1>1, <1>2, JoinsRead
  <1>5. c \in Seq(S) /\ ReadsTwo(c, b, v)
    BY <1>2, <1>4, JoinsRead
  <1>6. x \in Seq(S) /\ ReadsTwo(x, c, tail)
    BY <1>1, <1>2, <1>5, JoinsRead
  <1>7. Len(n) \in Nat /\ Len(v) \in Nat
    OBVIOUS
  <1>8. Len(b) = Len(n) + 1 /\ Len(c) = Len(b) + Len(v) /\ Len(x) = Len(c) + 2
    BY <1>1, <1>4, <1>5, <1>6 DEF ReadsTwo
  <1>9. \A i \in 1..Len(b) : i \in 1..Len(c) /\ i \in 1..Len(x)
    BY <1>7, <1>8
  <1>10. \A i \in 1..Len(b) : x[i] = b[i]
    BY <1>5, <1>6, <1>9 DEF ReadsTwo
  <1>11. (\A i \in 1..Len(n) : i \in 1..Len(b) /\ b[i] = n[i]) /\ b[Len(n) + 1] = Underscore
    <2>1. \A i \in 1..Len(n) : i \in 1..Len(b)
      BY <1>7, <1>8
    <2>. QED
      BY <2>1, <1>1, <1>4 DEF ReadsTwo
  <1>12. y = [i \in 1..Len(x) |-> IF x[i] = "~" THEN "." ELSE x[i]]
    <2>1. DOMAIN x = 1..Len(x)
      BY <1>6
    <2>. QED
      BY <2>1 DEF Substituted, y
  <1>13. Len(y) = Len(x)
    <2>1. Len(x) \in Nat
      BY <1>6
    <2>. QED
      BY <2>1, <1>12
  <1>14. Len(n) + 1 \in 1..Len(b) /\ Len(n) + 1 \in 1..Len(x)
    BY <1>7, <1>8
  <1>15. \A i \in 1..Len(n) : y[i] = n[i]
    BY <1>3, <1>9, <1>10, <1>11, <1>12
  <1>16. y[Len(n) + 1] = Underscore
    BY <1>10, <1>11, <1>12, <1>14, Underscores
  <1>17. Heads(y, n)
    BY <1>13, <1>14, <1>15, <1>16 DEF Heads
  <1>. QED
    BY <1>17 DEF y, x, c, b, under, tail

LEMMA AssetsDiffer ==
    ASSUME NEW p, NEW q, Genuine(p, target), Genuine(q, target), AssetName(p) = AssetName(q)
    PROVE  p.what = q.what
  <1>. DEFINE f == target.format  S == Pieces \cup {target.arch}
  <1>1. f \in {"deb", "rpm"}
    BY TargetFacts DEF Genuine
  <1>2. ASSUME NEW x, Genuine(x, target)
        PROVE  Heads(AssetName(x), x.name) /\ x.name \in Seq(S)
    <2>1. x.what \in Whats /\ x.name = NameOf(x.what, f) /\ x.arch = target.arch /\ x.revision \in Revisions
      BY <1>2 DEF Genuine
    <2>2. x.name \in Seq(Pieces) /\ Underscore \notin ToSet(x.name) /\ "~" \notin ToSet(x.name)
      BY <1>1, <2>1, NamePlain
    <2>3. PICK d \in Images : x.version = (Base(x.what, f) \o x.revision) \o Mark(f, d)
      BY <1>2 DEF Genuine, MadeIn
    <2>4. x.version \in Seq(Pieces)
      <3>1. Base(x.what, f) \o x.revision \in Seq(Pieces)
        BY <1>1, <2>1, VersionParts
      <3>2. Mark(f, d) \in Seq(Pieces)
        BY Texts DEF Mark
      <3>. DEFINE a == Base(x.what, f) \o x.revision  b == Mark(f, d)
      <3>. HIDE DEF a, b
      <3>3. a \in Seq(Pieces) /\ b \in Seq(Pieces)
        BY <3>1, <3>2 DEF a, b
      <3>4. a \o b \in Seq(Pieces)
        BY <3>3, Concat
      <3>. QED
        BY <3>4, <2>3 DEF a, b
    <2>5. x.name \in Seq(S) /\ x.version \in Seq(S) /\ x.arch \in S /\ Underscore \in S
      <3>1. Underscore \in Pieces /\ Pieces \subseteq S
        BY Underscores
      <3>2. Seq(Pieces) \subseteq Seq(S)
        BY <3>1
      <3>. QED
        BY <3>1, <3>2, <2>1, <2>2, <2>4
    <2>. HIDE DEF S
    <2>6. Heads(Substituted(x.name \o <<Underscore>> \o x.version \o <<Underscore, x.arch>>, "~", "."), x.name)
      <3>. DEFINE n == x.name  v == x.version  a == x.arch
      <3>1. n \in Seq(S) /\ v \in Seq(S) /\ a \in S /\ Underscore \in S /\ Underscore \notin ToSet(n) /\ "~" \notin ToSet(n)
        BY <2>2, <2>5
      <3>. HIDE DEF n, v, a
      <3>2. Heads(Substituted(n \o <<Underscore>> \o v \o <<Underscore, a>>, "~", "."), n)
        BY <3>1, AssetHeads
      <3>. QED
        BY <3>2 DEF n, v, a
    <2>. QED
      BY <2>5, <2>6 DEF AssetName, Underscore
  <1>. HIDE DEF S
  <1>3. p.name = q.name
    BY <1>2, HeadsEqual
  <1>4. /\ p.what \in Whats /\ q.what \in Whats
        /\ NameOf(p.what, f) = NameOf(q.what, f)
    BY <1>3 DEF Genuine
  <1>. QED
    BY <1>1, <1>4, NamesDiffer

\* The packages of an engine, and of a VMOD, as they are built together.
EnginePair(ps, r) ==
    \E p, q \in ps : /\ ps = {p, q} /\ p.what = "runtime" /\ q.what = "development"
                     /\ p.revision = r /\ q.revision = r /\ p.version = q.version
VmodAlone(ps, v, r) == \E p \in ps : ps = {p} /\ p.what = v /\ p.revision = r

\* The directories of a run nobody has meddled with.
InPlace ==
    /\ \A d, e \in artifacts : d.dir = e.dir => d = e
    /\ \E d \in artifacts : d.dir = EngineDir /\ EnginePair(d.packages, checkout)
    /\ \A d \in artifacts : d.dir = EngineDir \/ d.dir \in Vmods \ unbuilt
    /\ \A v \in Vmods \ unbuilt : \E d \in artifacts : d.dir = v /\ VmodAlone(d.packages, v, checkout)

CauseInv ==
    /\ misfiled \in Nat
    /\ \A r \in Revisions : engineCache[r] = {} \/ EnginePair(engineCache[r], r)
    /\ \A v \in Vmods, r \in Revisions : cellCache[v][r] = {} \/ VmodAlone(cellCache[v][r], v, r)
    /\ phase = "engine" => unbuilt = Vmods
    /\ phase = "gate" => unbuilt = {}
    /\ phase = "vmods" \/ (phase = "gate" /\ misfiled = 0) => InPlace
    /\ phase # "idle" => outcome = "none"
    /\ FailsForCause

\* The container has the two packages of one engine, of the checkout.
LEMMA EngineInstalled ==
    ASSUME ChainInv, InPlace, target \in PackageTargets
    PROVE  \E image0 \in Images : \E p, q :
              /\ Installed = {p, q}
              /\ p.name = RuntimePackage /\ q.name = DevelopmentPackage(target.format)
              /\ p.version = EngineAt(checkout, target.format, image0) /\ q.version = p.version
  <1>. DEFINE f == target.format
  <1>2. PICK d \in artifacts : d.dir = EngineDir /\ EnginePair(d.packages, checkout)
    BY DEF InPlace
  <1>3. Installed = d.packages
    <2>1. {e \in artifacts : e.dir = EngineDir} = {d}
      BY <1>2 DEF InPlace
    <2>2. Installed = UNION {x.packages : x \in {d}}
      BY <2>1 DEF Installed
    <2>. QED
      BY <2>2
  <1>4. PICK p \in d.packages, q \in d.packages :
                    /\ d.packages = {p, q} /\ p.what = "runtime" /\ q.what = "development"
                    /\ p.revision = checkout /\ q.revision = checkout /\ p.version = q.version
    BY <1>2 DEF EnginePair
  <1>5. p \in shelf /\ q \in shelf
    BY <1>2, <1>4 DEF ChainInv, ChainTypeOK
  <1>6. Genuine(p, target) /\ Genuine(q, target)
    BY <1>5 DEF ChainInv
  <1>7. p.name = RuntimePackage /\ q.name = DevelopmentPackage(f)
    BY <1>4, <1>6 DEF Genuine, NameOf
  <1>8. PICK d0 \in Images : p.version = (Base("runtime", f) \o checkout) \o Mark(f, d0)
    BY <1>4, <1>6 DEF Genuine, MadeIn
  <1>9. p.version = EngineAt(checkout, f, d0)
    BY <1>8 DEF EngineAt
  <1>. QED
    BY <1>3, <1>4, <1>7, <1>9

\* An engine of another image shows it in its version, unless versions are the
\* same in all of them.
LEMMA ImageShows ==
    ASSUME NEW w \in Whats, NEW r \in Revisions, NEW f \in {"deb", "rpm"}, NEW d \in Images, NEW e \in Images,
           Mark(f, d) # Mark(f, e)
    PROVE  d # e /\ IsSuffix(d, (Base(w, f) \o r) \o Mark(f, d))
  <1>1. f = "rpm" /\ Mark(f, d) = d /\ d # e
    BY DEF Mark
  <1>2. Base(w, f) \o r \in Seq(Pieces) /\ d \in Seq(Pieces)
    BY VersionParts, Texts
  <1>. DEFINE a == Base(w, f) \o r
  <1>3. a \in Seq(Pieces)
    BY <1>2
  <1>. HIDE DEF a
  <1>4. IsSuffix(d, a \o d)
    BY <1>2, <1>3, SuffixThere
  <1>. QED
    BY <1>1, <1>4 DEF a

\* With the engine it was built for installed, what a cell makes passes.
LEMMA MadePasses ==
    ASSUME ChainInv, InPlace, target \in PackageTargets,
           NEW v \in Vmods, NEW root, Stages(v, root),
           \A e \in Installed, d \in Images : d # image => ~IsSuffix(d, e.version)
    PROVE  Passes(Built(v, root), v)
  <1>. DEFINE f == target.format  need == EngineAt(checkout, f, image)
  <1>1. /\ f \in {"deb", "rpm"} /\ checkout \in Revisions /\ image \in Images /\ "runtime" \in Whats
    BY TargetFacts, WhatsFacts DEF ChainInv, ChainTypeOK
  <1>2. PICK image0 \in Images : \E p, q :
              /\ Installed = {p, q}
              /\ p.name = RuntimePackage /\ q.name = DevelopmentPackage(f)
              /\ p.version = EngineAt(checkout, f, image0) /\ q.version = p.version
    BY EngineInstalled
  <1>3. PICK p, q :
              /\ Installed = {p, q}
              /\ p.name = RuntimePackage /\ q.name = DevelopmentPackage(f)
              /\ p.version = EngineAt(checkout, f, image0) /\ q.version = p.version
    BY <1>2
  <1>4. Mark(f, image0) = Mark(f, image)
    <2>1. SUFFICES ASSUME Mark(f, image0) # Mark(f, image)
                   PROVE  FALSE
      OBVIOUS
    <2>2. image0 # image /\ IsSuffix(image0, EngineAt(checkout, f, image0))
      BY <1>1, <2>1, ImageShows DEF EngineAt
    <2>. QED
      BY <1>3, <2>2
  <1>5. p.version = need /\ q.version = need
    BY <1>3, <1>4 DEF EngineAt
  <1>6. Satisfied(Exactly(DevelopmentPackage(f), NoIsa, need), Installed)
    <2>1. /\ Exactly(DevelopmentPackage(f), NoIsa, need).name = DevelopmentPackage(f)
          /\ Exactly(DevelopmentPackage(f), NoIsa, need).version = need
      BY DEF Exactly
    <2>. HIDE DEF need
    <2>. QED
      BY <1>3, <1>5, <2>1 DEF Satisfied
  <1>7. Buildable(v, root)
    BY <1>6 DEF Buildable
  <1>8. PICK made : Built(v, root) = {made} /\ MadeFrom(made, v, root)
    BY <1>1, <1>7, BuiltShape
  <1>9. made.requires = Exactly(RuntimePackage, target.arch, need)
    BY <1>8 DEF MadeFrom, MadeIn
  <1>10. Whole(made.files, v)
    BY <1>8, StagedWhole DEF MadeFrom
  <1>. HIDE DEF need
  <1>11. Verified(made, v)
    <2>1. PayloadFits(made.files, ModulesOf[v])
      BY <1>10, NameAssumption DEF Whole, PayloadFits
    <2>2. made.name = VmodPackageName(v) /\ made.arch = target.arch
      BY <1>8 DEF MadeFrom
    <2>3. /\ Env(v, f).runtime = RuntimePackage /\ Env(v, f).name = VmodPackageName(v)
          /\ Env(v, f).modules = ModulesOf[v]
      BY DEF Env
    <2>. QED
      BY <1>3, <1>5, <1>9, <2>1, <2>2, <2>3 DEF Verified
  <1>12. Loads(made, v)
    <2>1. \A m \in ToSet(ModulesOf[v]) : SizeAt(made.files, m) > 0
      BY <1>10 DEF Whole, SizeAt
    <2>2. \E e \in Installed : made.requires = Exactly(e.name, target.arch, e.version)
      BY <1>3, <1>5, <1>9
    <2>. QED
      BY <2>1, <2>2 DEF Loads
  <1>. QED
    BY <1>8, <1>11, <1>12 DEF Passes

\* A directory with what it is named for, each once, of the checkout.
Holding(d) ==
    /\ \A p \in d.packages : p.revision = checkout /\ p.what \in Whats /\ DirOf(p.what) = d.dir
    /\ \A w \in Whats : DirOf(w) = d.dir => \E p \in d.packages : p.what = w
    /\ \A p, q \in d.packages : p.what = q.what => p = q

LEMMA PairHeld ==
    ASSUME NEW d, d.dir = EngineDir, EnginePair(d.packages, checkout)
    PROVE  Holding(d)
  <1>1. PICK p \in d.packages, q \in d.packages :
            /\ d.packages = {p, q} /\ p.what = "runtime" /\ q.what = "development"
            /\ p.revision = checkout /\ q.revision = checkout
    BY DEF EnginePair
  <1>2. /\ DirOf("runtime") = EngineDir /\ DirOf("development") = EngineDir
        /\ \A v \in Vmods : DirOf(v) # EngineDir
    BY WhatsFacts DEF DirOf
  <1>3. \A x \in d.packages : x = p \/ x = q
    BY <1>1
  <1>. QED
    BY <1>1, <1>2, <1>3, WhatsFacts DEF Holding

LEMMA AloneHeld ==
    ASSUME NEW d, NEW v \in Vmods, d.dir = v, VmodAlone(d.packages, v, checkout)
    PROVE  Holding(d)
  <1>1. PICK p \in d.packages : d.packages = {p} /\ p.what = v /\ p.revision = checkout
    BY DEF VmodAlone
  <1>2. DirOf(v) = v /\ \A w \in Whats : DirOf(w) = v => w = v
    BY WhatsFacts DEF DirOf
  <1>. QED
    BY <1>1, <1>2, WhatsFacts DEF Holding

LEMMA AllHeld ==
    ASSUME InPlace, unbuilt = {}
    PROVE  /\ \A d \in artifacts : Holding(d)
           /\ \A dir \in Vmods \cup {EngineDir} : \E d \in artifacts : d.dir = dir
           /\ \A d, e \in artifacts : d.dir = e.dir => d = e
  <1>1. PICK e \in artifacts : e.dir = EngineDir /\ EnginePair(e.packages, checkout)
    BY DEF InPlace
  <1>2. \A v \in Vmods : \E d \in artifacts : d.dir = v /\ VmodAlone(d.packages, v, checkout)
    BY DEF InPlace
  <1>3. \A d \in artifacts : d.dir \in Vmods \cup {EngineDir}
    BY DEF InPlace
  <1>4. \A c, d \in artifacts : c.dir = d.dir => c = d
    BY DEF InPlace
  <1>5. ASSUME NEW d \in artifacts
        PROVE  Holding(d)
    <2>1. CASE d.dir = EngineDir
      BY <2>1, <1>1, <1>4, PairHeld
    <2>2. CASE d.dir \in Vmods
      BY <2>2, <1>2, <1>4, AloneHeld
    <2>. QED
      BY <2>1, <2>2, <1>3
  <1>. QED
    BY <1>1, <1>2, <1>4, <1>5

\* In place, at the gate.
Tidy ==
    /\ ChainInv /\ InPlace /\ unbuilt = {} /\ target \in PackageTargets

LEMMA TidyPackages ==
    ASSUME Tidy, NEW d \in artifacts, NEW p \in d.packages
    PROVE  /\ Genuine(p, target) /\ p.revision = checkout /\ p.what \in Whats
           /\ p.name = NameOf(p.what, target.format)
           /\ DirOf(p.what) = d.dir
           /\ p.name \in DOMAIN Expected[d.dir]
           /\ Expected[d.dir][p.name] = VersionOf(p.what, checkout, target.format)
  <1>1. p \in shelf
    BY DEF Tidy, ChainInv, ChainTypeOK
  <1>2. Genuine(p, target)
    BY <1>1 DEF Tidy, ChainInv
  <1>3. p.revision = checkout /\ DirOf(p.what) = d.dir
    BY AllHeld DEF Tidy, Holding
  <1>4. p.what \in Whats /\ p.name = NameOf(p.what, target.format)
    BY <1>2 DEF Genuine
  <1>. QED
    BY <1>2, <1>3, <1>4, ExpectedShape

LEMMA DirectoriesTidy ==
    ASSUME Tidy
    PROVE  DirectoriesFit
  <1>. DEFINE f == target.format
  <1>1. f \in {"deb", "rpm"} /\ checkout \in Revisions
    BY TargetFacts DEF Tidy, ChainInv, ChainTypeOK
  <1>2. ASSUME NEW dir \in DOMAIN Expected
        PROVE  Cardinality({d \in artifacts : d.dir = dir}) = 1
    <2>1. PICK d \in artifacts : d.dir = dir
      BY ExpectedShape, AllHeld DEF Tidy
    <2>2. {e \in artifacts : e.dir = dir} = {d}
      BY <2>1, AllHeld DEF Tidy
    <2>. QED
      BY <2>2, FS_Singleton
  <1>3. ASSUME NEW dir \in DOMAIN Expected, NEW d \in artifacts, d.dir = dir, NEW p \in d.packages
        PROVE  /\ p.name \in DOMAIN Expected[dir] /\ p.arch = target.arch
               /\ VersionMatches(p.version, Expected[dir][p.name])
    <2>1. /\ Genuine(p, target) /\ p.revision = checkout /\ p.what \in Whats
          /\ p.name \in DOMAIN Expected[dir]
          /\ Expected[dir][p.name] = VersionOf(p.what, checkout, f)
      BY <1>3, TidyPackages
    <2>2. PICK i \in Images : p.version = (Base(p.what, f) \o checkout) \o Mark(f, i)
      BY <2>1 DEF Genuine, MadeIn
    <2>3. VersionMatches(p.version, VersionOf(p.what, checkout, f))
      BY <1>1, <2>1, <2>2, Accepted
    <2>. QED
      BY <2>1, <2>3 DEF Genuine
  <1>4. ASSUME NEW dir \in DOMAIN Expected, NEW d \in artifacts, d.dir = dir, NEW n \in DOMAIN Expected[dir]
        PROVE  Cardinality({p \in d.packages : p.name = n}) = 1
    <2>1. PICK w \in Whats : dir = DirOf(w) /\ n = NameOf(w, f)
      BY ExpectedShape
    <2>2. PICK p \in d.packages : p.what = w
      BY <1>4, <2>1, AllHeld DEF Tidy, Holding
    <2>3. p.name = n
      BY <2>1, <2>2, TidyPackages
    <2>4. ASSUME NEW q \in d.packages, q.name = n
          PROVE  q = p
      <3>1. q.what \in Whats /\ NameOf(q.what, f) = NameOf(w, f)
        BY <2>1, <2>4, TidyPackages
      <3>2. q.what = w
        BY <1>1, <3>1, NamesDiffer
      <3>. QED
        BY <2>2, <3>2, AllHeld DEF Tidy, Holding
    <2>5. {q \in d.packages : q.name = n} = {p}
      BY <2>3, <2>4
    <2>. QED
      BY <2>5, FS_Singleton
  <1>. QED
    BY <1>2, <1>3, <1>4 DEF DirectoriesFit

LEMMA NamesTidy ==
    ASSUME Tidy
    PROVE  NamesFit
  <1>1. SUFFICES ASSUME NEW p \in Downloaded, NEW q \in Downloaded, AssetName(p) = AssetName(q)
                 PROVE  p = q
    BY DEF NamesFit
  <1>2. PICK d \in artifacts : p \in d.packages
    BY DEF Downloaded
  <1>3. PICK e \in artifacts : q \in e.packages
    BY DEF Downloaded
  <1>4. Genuine(p, target) /\ Genuine(q, target) /\ DirOf(p.what) = d.dir /\ DirOf(q.what) = e.dir
    BY <1>2, <1>3, TidyPackages
  <1>5. p.what = q.what
    BY <1>1, <1>4, AssetsDiffer
  <1>6. d = e
    BY <1>4, <1>5, AllHeld DEF Tidy
  <1>. QED
    BY <1>2, <1>3, <1>5, <1>6, AllHeld DEF Tidy, Holding

\* No two packages show different images.
OneImage ==
    ~ \E p, q \in Downloaded : \E d, e \in Images :
        d # e /\ IsSuffix(d, p.version) /\ IsSuffix(e, q.version)

LEMMA DependenciesTidy ==
    ASSUME Tidy, OneImage
    PROVE  DependenciesFit
  <1>. DEFINE f == target.format
  <1>1. f \in {"deb", "rpm"} /\ checkout \in Revisions /\ "runtime" \in Whats /\ Vmods \subseteq Whats
    BY TargetFacts, WhatsFacts DEF Tidy, ChainInv, ChainTypeOK
  <1>2. SUFFICES ASSUME NEW p \in Downloaded, NEW v \in Vmods, p.name = VmodPackageName(v)
                 PROVE  p.requires = Exactly(RuntimePackage, target.arch, StagedRuntime.version)
    BY DEF DependenciesFit
  <1>3. \A x \in Downloaded : /\ Genuine(x, target) /\ x.revision = checkout /\ x.what \in Whats
                              /\ x.name = NameOf(x.what, f)
    BY TidyPackages DEF Downloaded
  <1>4. p.what = v
    <2>1. NameOf(p.what, f) = NameOf(v, f)
      BY <1>2, <1>3, WhatsFacts DEF NameOf
    <2>. QED
      BY <1>1, <1>3, <2>1, NamesDiffer
  <1>5. StagedRuntime \in Downloaded /\ StagedRuntime.name = RuntimePackage
    <2>1. PICK d \in artifacts : d.dir = EngineDir
      BY AllHeld DEF Tidy
    <2>2. PICK x \in d.packages : x.what = "runtime"
      BY <2>1, WhatsFacts, AllHeld DEF Tidy, Holding, DirOf
    <2>3. x \in Downloaded
      BY <2>1, ExpectedShape DEF Downloaded
    <2>4. x.name = RuntimePackage
      BY <2>2, <2>3, <1>3 DEF NameOf
    <2>. QED
      BY <2>3, <2>4 DEF StagedRuntime
  <1>. DEFINE rt == StagedRuntime
  <1>6. rt \in Downloaded /\ rt.what = "runtime"
    <2>1. NameOf(rt.what, f) = NameOf("runtime", f)
      BY <1>3, <1>5 DEF NameOf
    <2>. QED
      BY <1>1, <1>3, <1>5, <2>1, NamesDiffer
  <1>. HIDE DEF rt
  <1>7. PICK i \in Images : /\ p.version = (Base(v, f) \o checkout) \o Mark(f, i)
                            /\ p.requires = Exactly(RuntimePackage, target.arch, EngineAt(checkout, f, i))
    BY <1>3, <1>4 DEF Genuine, MadeIn
  <1>8. PICK j \in Images : rt.version = (Base("runtime", f) \o checkout) \o Mark(f, j)
    BY <1>3, <1>6 DEF Genuine, MadeIn
  <1>9. Mark(f, i) = Mark(f, j)
    <2>1. SUFFICES ASSUME Mark(f, i) # Mark(f, j)
                   PROVE  FALSE
      OBVIOUS
    <2>2. i # j /\ IsSuffix(i, p.version)
      BY <1>1, <1>7, <2>1, ImageShows
    <2>3. IsSuffix(j, rt.version)
      BY <1>1, <1>8, <2>1, ImageShows
    <2>. QED
      BY <1>6, <2>2, <2>3 DEF OneImage
  <1>10. rt.version = EngineAt(checkout, f, i)
    BY <1>8, <1>9 DEF EngineAt
  <1>. QED
    BY <1>7, <1>10 DEF rt

LEMMA CausesStay ==
    ASSUME FailsForCause, UNCHANGED <<outcome, failed, artifacts, misfiled>>
    PROVE  FailsForCause'
  <1>1. Installed' = Installed
    BY DEF Installed
  <1>2. Downloaded' = Downloaded
    <2>1. DOMAIN Expected = Vmods \cup {EngineDir} /\ (DOMAIN Expected)' = Vmods \cup {EngineDir}
      BY DEF Expected
    <2>. QED
      BY <2>1 DEF Downloaded
  <1>3. outcome = "red" => RedForCause'
    BY <1>1 DEF FailsForCause, RedForCause
  <1>4. outcome = "refused" => RefusedForCause'
    BY <1>2 DEF FailsForCause, RefusedForCause
  <1>. QED
    BY <1>3, <1>4 DEF FailsForCause

LEMMA NothingFails ==
    ASSUME outcome' = "none" \/ outcome' = "accepted"
    PROVE  FailsForCause'
  BY DEF FailsForCause

LEMMA PlaceStays ==
    ASSUME InPlace, UNCHANGED <<artifacts, checkout, unbuilt>>
    PROVE  InPlace'
  BY DEF InPlace

LEMMA WorldCause ==
    ASSUME ChainInv, CauseInv, ChooseTarget \/ SetRevision \/ MoveImage \/ EvictPackages
    PROVE  CauseInv'
  <1>1. UNCHANGED <<phase, checkout, unbuilt, artifacts, outcome, failed, misfiled>>
    BY DEF ChooseTarget, SetRevision, MoveImage, EvictPackages
  <1>2. FailsForCause' /\ (InPlace => InPlace')
    BY <1>1, CausesStay, PlaceStays DEF CauseInv
  <1>3. /\ \A r \in Revisions : engineCache'[r] = {} \/ EnginePair(engineCache'[r], r)
        /\ \A v \in Vmods, r \in Revisions : cellCache'[v][r] = {} \/ VmodAlone(cellCache'[v][r], v, r)
    <2>1. CASE ChooseTarget \/ SetRevision \/ MoveImage
      BY <2>1 DEF CauseInv, ChooseTarget, SetRevision, MoveImage
    <2>2. CASE EvictPackages
      <3>1. engineCache \in [Revisions -> SUBSET shelf] /\ cellCache \in [Vmods -> [Revisions -> SUBSET shelf]]
        BY DEF ChainInv, ChainTypeOK
      <3>2. \A r \in Revisions : engineCache'[r] \in {{}, engineCache[r]}
        BY <2>2, <3>1 DEF EvictPackages
      <3>3. \A v \in Vmods, r \in Revisions : cellCache'[v][r] \in {{}, cellCache[v][r]}
        <4>1. CASE UNCHANGED cellCache
          BY <4>1
        <4>2. ASSUME NEW w \in Vmods, NEW s \in Revisions, cellCache' = [cellCache EXCEPT ![w][s] = {}]
              PROVE  \A v \in Vmods, r \in Revisions : cellCache'[v][r] \in {{}, cellCache[v][r]}
          BY <3>1, <4>2
        <4>. QED
          BY <2>2, <4>1, <4>2 DEF EvictPackages
      <3>. QED
        BY <3>2, <3>3 DEF CauseInv
    <2>. QED
      BY <2>1, <2>2
  <1>. QED
    BY <1>1, <1>2, <1>3 DEF CauseInv

LEMMA MisfileCause ==
    ASSUME CauseInv, Misfile
    PROVE  CauseInv'
  <1>1. /\ phase = "gate" /\ misfiled' = misfiled + 1 /\ outcome = "none"
        /\ UNCHANGED <<engineCache, cellCache, phase, checkout, unbuilt, outcome>>
    BY DEF CauseInv, Misfile
  <1>2. misfiled' \in Nat /\ misfiled' # 0
    BY <1>1 DEF CauseInv
  <1>3. FailsForCause'
    BY <1>1, NothingFails
  <1>. QED
    BY <1>1, <1>2, <1>3 DEF CauseInv

LEMMA StartCause ==
    ASSUME CauseInv, StartRun
    PROVE  CauseInv'
  <1>1. FailsForCause'
    BY NothingFails DEF StartRun
  <1>. QED
    BY <1>1 DEF CauseInv, StartRun

LEMMA EngineCause ==
    ASSUME ChainInv, CauseInv, EngineStep
    PROVE  CauseInv'
  <1>. DEFINE packages == IF engineCache[checkout] # {} THEN engineCache[checkout] ELSE EnginePackages
              new == Directory(EngineDir, packages)
  <1>1. /\ engineCache' = [engineCache EXCEPT ![checkout] = packages]
        /\ artifacts' = {new}
        /\ UNCHANGED <<cellCache, checkout, unbuilt, outcome, misfiled>>
        /\ phase' = "vmods" /\ phase = "engine"
    BY DEF EngineStep
  <1>2. /\ checkout \in Revisions /\ engineCache \in [Revisions -> SUBSET shelf]
        /\ unbuilt = Vmods /\ outcome = "none"
    BY <1>1 DEF ChainInv, ChainTypeOK, CauseInv
  <1>3. EnginePair(packages, checkout)
    <2>1. CASE engineCache[checkout] # {}
      BY <2>1, <1>2 DEF CauseInv
    <2>2. CASE ~(engineCache[checkout] # {})
      <3>. DEFINE version == Expanded(EnginePackageVersion(checkout, target.format), image)
                  OfEngine(name, what) == Package(name, version, Exactly(name, NoIsa, version), NoPayload, what, checkout)
                  runtime == OfEngine(RuntimePackage, "runtime")
                  development == OfEngine(DevelopmentPackage(target.format), "development")
      <3>1. packages = {runtime, development}
        BY <2>2 DEF EnginePackages
      <3>. HIDE DEF version
      <3>2. /\ runtime.what = "runtime" /\ runtime.revision = checkout /\ runtime.version = version
            /\ development.what = "development" /\ development.revision = checkout
            /\ development.version = version
        BY DEF Package
      <3>. HIDE DEF runtime, development, packages
      <3>. QED
        BY <3>1, <3>2 DEF EnginePair
    <2>. QED
      BY <2>1, <2>2
  <1>4. new.dir = EngineDir /\ new.packages = packages
    BY DEF Directory
  <1>. HIDE DEF packages, new
  <1>5. \A r \in Revisions : engineCache'[r] = {} \/ EnginePair(engineCache'[r], r)
    BY <1>1, <1>2, <1>3 DEF CauseInv
  <1>6. InPlace'
    BY <1>1, <1>2, <1>3, <1>4 DEF InPlace
  <1>7. FailsForCause'
    BY <1>1, <1>2, NothingFails
  <1>. QED
    BY <1>1, <1>2, <1>5, <1>6, <1>7 DEF CauseInv

LEMMA GateCause ==
    ASSUME ChainInv, CauseInv, ValidatePairPayload
    PROVE  CauseInv'
  <1>1. /\ phase = "gate" /\ phase' = "idle" /\ outcome' \in {"accepted", "refused"}
        /\ UNCHANGED <<target, engineCache, cellCache, checkout, unbuilt, artifacts, failed, misfiled>>
        /\ outcome' = "refused" => ~(DirectoriesFit /\ DependenciesFit /\ NamesFit)
    BY DEF ValidatePairPayload
  <1>2. ASSUME outcome' = "refused"
        PROVE  RefusedForCause
    <2>1. CASE misfiled # 0
      BY <2>1 DEF CauseInv, RefusedForCause
    <2>2. CASE misfiled = 0
      <3>1. Tidy
        BY <1>1, <2>2 DEF CauseInv, ChainInv, Tidy
      <3>2. ~OneImage
        BY <1>1, <1>2, <3>1, DirectoriesTidy, NamesTidy, DependenciesTidy
      <3>. QED
        BY <3>2 DEF OneImage, RefusedForCause
    <2>. QED
      BY <2>1, <2>2
  <1>3. Downloaded' = Downloaded
    <2>1. DOMAIN Expected = Vmods \cup {EngineDir} /\ (DOMAIN Expected)' = Vmods \cup {EngineDir}
      BY DEF Expected
    <2>. QED
      BY <1>1, <2>1 DEF Downloaded
  <1>4. FailsForCause'
    BY <1>1, <1>2, <1>3 DEF FailsForCause, RefusedForCause
  <1>. QED
    BY <1>1, <1>4 DEF CauseInv

LEMMA VmodCause ==
    ASSUME ChainInv, CauseInv, NEW v \in Vmods, VmodStep(v)
    PROVE  CauseInv'
  <1>1. PICK root \in TreesOf[v] :
           LET built    == Built(v, root)
               packages == IF cellCache[v][checkout] # {} THEN cellCache[v][checkout]
                           ELSE IF Passes(built, v) THEN built ELSE {}
           IN  /\ cellCache' = [cellCache EXCEPT ![v][checkout] = packages]
               /\ IF packages # {}
                  THEN /\ artifacts' = artifacts \cup {Directory(v, packages)}
                       /\ unbuilt' = unbuilt \ {v}
                       /\ phase' = IF unbuilt' = {} THEN "gate" ELSE phase
                       /\ shelf' = shelf \cup packages
                       /\ UNCHANGED <<outcome, failed>>
                  ELSE /\ phase' = "idle" /\ outcome' = "red"
                       /\ failed' = [vmod |-> v, tree |-> root, image |-> image]
                       /\ UNCHANGED <<artifacts, unbuilt, shelf>>
    BY DEF VmodStep
  <1>. DEFINE packages == IF cellCache[v][checkout] # {} THEN cellCache[v][checkout]
                          ELSE IF Passes(Built(v, root), v) THEN Built(v, root) ELSE {}
              new == Directory(v, packages)
              record == [vmod |-> v, tree |-> root, image |-> image]
  <1>2. /\ cellCache' = [cellCache EXCEPT ![v][checkout] = packages]
        /\ \/ /\ packages # {} /\ artifacts' = artifacts \cup {new} /\ unbuilt' = unbuilt \ {v}
              /\ phase' = IF unbuilt' = {} THEN "gate" ELSE phase
              /\ outcome' = outcome
           \/ /\ packages = {} /\ phase' = "idle" /\ outcome' = "red" /\ failed' = record
              /\ UNCHANGED <<artifacts, unbuilt>>
    BY <1>1
  <1>3. /\ UNCHANGED <<target, image, engineCache, checkout, misfiled>>
        /\ phase = "vmods" /\ v \in unbuilt
    BY DEF VmodStep
  <1>4. /\ target \in PackageTargets /\ checkout \in Revisions /\ image \in Images
        /\ cellCache \in [Vmods -> [Revisions -> SUBSET shelf]]
        /\ outcome = "none" /\ InPlace
    BY <1>3 DEF ChainInv, ChainTypeOK, CauseInv
  <1>5. packages = {} \/ VmodAlone(packages, v, checkout)
    <2>1. CASE cellCache[v][checkout] # {}
      BY <2>1, <1>4 DEF CauseInv
    <2>2. CASE ~(cellCache[v][checkout] # {})
      <3>1. packages = {} \/ packages = Built(v, root)
        BY <2>2
      <3>. HIDE DEF packages
      <3>2. Built(v, root) = {} \/ \E p : Built(v, root) = {p} /\ MadeFrom(p, v, root)
        BY <1>4, BuiltShape
      <3>3. Built(v, root) = {} \/ VmodAlone(Built(v, root), v, checkout)
        BY <3>2 DEF VmodAlone, MadeFrom
      <3>. QED
        BY <3>1, <3>3
    <2>. QED
      BY <2>1, <2>2
  <1>6. packages = {} => ~Passes(Built(v, root), v)
    BY DEF Passes
  <1>7. new.dir = v /\ new.packages = packages
    BY DEF Directory
  <1>8. record.vmod = v /\ record.tree = root /\ record.image = image
    OBVIOUS
  <1>. HIDE DEF packages, new, record
  <1>9. \A w \in Vmods, r \in Revisions : cellCache'[w][r] = {} \/ VmodAlone(cellCache'[w][r], w, r)
    <2>1. cellCache'[v][checkout] = packages
      BY <1>2, <1>4
    <2>2. \A w \in Vmods, r \in Revisions :
             (w # v \/ r # checkout) => cellCache'[w][r] = cellCache[w][r]
      BY <1>2, <1>4
    <2>. QED
      BY <2>1, <2>2, <1>5 DEF CauseInv
  <1>10. CASE packages # {}
    <2>1. /\ artifacts' = artifacts \cup {new} /\ unbuilt' = unbuilt \ {v}
          /\ phase' = IF unbuilt' = {} THEN "gate" ELSE "vmods"
          /\ outcome' = "none"
      BY <1>2, <1>3, <1>4, <1>10
    <2>2. VmodAlone(packages, v, checkout)
      BY <1>5, <1>10
    <2>3. InPlace'
      <3>1. v # EngineDir /\ unbuilt \subseteq Vmods
        BY WhatsFacts DEF ChainInv, ChainTypeOK
      <3>2. \A d \in artifacts : d.dir # v
        BY <3>1, <1>3, <1>4 DEF InPlace
      <3>3. \A d, e \in artifacts' : d.dir = e.dir => d = e
        BY <2>1, <3>2, <1>4, <1>7 DEF InPlace
      <3>4. \E d \in artifacts' : d.dir = EngineDir /\ EnginePair(d.packages, checkout)
        BY <2>1, <1>4 DEF InPlace
      <3>5. Vmods \ unbuilt' = (Vmods \ unbuilt) \cup {v}
        BY <2>1, <1>3
      <3>6. \A d \in artifacts' : d.dir = EngineDir \/ d.dir \in Vmods \ unbuilt'
        BY <2>1, <3>5, <1>4, <1>7 DEF InPlace
      <3>7. \A w \in Vmods \ unbuilt' : \E d \in artifacts' : d.dir = w /\ VmodAlone(d.packages, w, checkout)
        BY <2>1, <2>2, <3>5, <1>4, <1>7 DEF InPlace
      <3>. QED
        BY <1>3, <3>3, <3>4, <3>6, <3>7 DEF InPlace
    <2>4. FailsForCause'
      BY <2>1, NothingFails
    <2>5. phase' # "engine" /\ (phase' = "gate" => unbuilt' = {})
      BY <2>1
    <2>. QED
      BY <1>3, <1>9, <2>1, <2>3, <2>4, <2>5 DEF CauseInv
  <1>11. CASE packages = {}
    <2>1. phase' = "idle" /\ outcome' = "red" /\ failed' = record /\ artifacts' = artifacts
      BY <1>2, <1>11
    <2>2. RedForCause'
      <3>1. \/ ~Stages(v, root)
            \/ \E e \in Installed, d \in Images : d # image /\ IsSuffix(d, e.version)
        BY <1>4, <1>6, <1>11, MadePasses
      <3>2. Installed' = Installed
        BY <2>1 DEF Installed
      <3>. QED
        BY <2>1, <3>1, <3>2, <1>8 DEF Stages, RedForCause
    <2>3. FailsForCause'
      BY <2>1, <2>2 DEF FailsForCause
    <2>. QED
      BY <1>3, <1>9, <2>1, <2>3 DEF CauseInv
  <1>. QED
    BY <1>10, <1>11

LEMMA CauseStutters ==
    ASSUME CauseInv, UNCHANGED chainVars
    PROVE  CauseInv'
  <1>1. UNCHANGED <<engineCache, cellCache, phase, checkout, unbuilt, artifacts, outcome, failed, misfiled>>
    BY DEF chainVars
  <1>2. FailsForCause' /\ (InPlace => InPlace')
    BY <1>1, CausesStay, PlaceStays DEF CauseInv
  <1>. QED
    BY <1>1, <1>2 DEF CauseInv

LEMMA CauseInitially == ChainInit => CauseInv
  BY DEF ChainInit, CauseInv, FailsForCause

LEMMA CauseInductive == ChainInv /\ CauseInv /\ [ChainNext]_chainVars => CauseInv'
  BY WorldCause, MisfileCause, StartCause, EngineCause, VmodCause, GateCause, CauseStutters DEF ChainNext

\* For every catalog, engine, revision, image and installed tree: a cell fails
\* only for what upstream installed or for an engine of another image, and the
\* gate refuses only what got astray or what caches put together of two images.
THEOREM FailuresHaveCause == ChainSpec => []FailsForCause
  <1>1. CauseInv => FailsForCause
    BY DEF CauseInv
  <1>. QED
    BY <1>1, CauseInitially, ChainInitially, ChainInvariance, CauseInductive, PTL DEF ChainSpec

-----------------------------------------------------------------------------
(* SourceNormalize *)

LEMMA NoWords == <<>> \in SeqOf(Words, MaxWords)
  <1>1. 0 \in 0..MaxWords /\ <<>> \in [1..0 -> Words]
    BY NormalizeAssumption
  <1>. QED
    BY <1>1 DEF SeqOf

LEMMA NormalizeStep == NormalizeTypeOK /\ [NormalizeNext]_normalizeVars => NormalizeTypeOK'
  <1>. SUFFICES ASSUME NormalizeTypeOK, [NormalizeNext]_normalizeVars PROVE NormalizeTypeOK'
    OBVIOUS
  <1>1. CASE StartNormalize
    BY <1>1 DEF NormalizeTypeOK, StartNormalize
  <1>2. CASE VisitFile
    <2>1. PICK kind \in FileKinds, words \in SeqOf(Words, MaxWords) :
             LET source == [NoEntry EXCEPT !.kind = kind, !.words = words]
             IN  /\ entry' = [source EXCEPT !.text = Normalized(source)]
                 /\ changed' = (changed \/ entry'.text # Text(words))
                 /\ due' = (due \/ Translation(source) # Text(words))
      BY <1>2 DEF VisitFile
    <2>. DEFINE source == [NoEntry EXCEPT !.kind = kind, !.words = words]
                differs == entry'.text # Text(words)
                asks == Translation(source) # Text(words)
    <2>2. entry'.kind = kind /\ entry'.words = words
      BY <2>1 DEF NoEntry
    <2>3. changed' \in BOOLEAN
      <3>1. changed' = (changed \/ differs) /\ differs \in BOOLEAN
        BY <2>1
      <3>. HIDE DEF differs
      <3>. QED
        BY <3>1
    <2>4. due' \in BOOLEAN
      <3>1. due' = (due \/ asks) /\ asks \in BOOLEAN
        BY <2>1
      <3>. HIDE DEF asks
      <3>. QED
        BY <3>1
    <2>5. visited' \in 0..MaxFiles /\ UNCHANGED <<direction, told>>
      BY <1>2, NormalizeAssumption DEF VisitFile, NormalizeTypeOK
    <2>. QED
      BY <2>2, <2>3, <2>4, <2>5 DEF NormalizeTypeOK
  <1>3. CASE NextFile
    BY <1>3, NoWords DEF NormalizeTypeOK, NextFile, NoEntry
  <1>4. CASE Tell
    BY <1>4 DEF NormalizeTypeOK, Tell
  <1>5. CASE UNCHANGED normalizeVars
    BY <1>5 DEF NormalizeTypeOK, normalizeVars
  <1>. QED
    BY <1>1, <1>2, <1>3, <1>4, <1>5 DEF NormalizeNext

\* The direction is chosen once, and what is visited, noted and told is well formed.
THEOREM NormalizeTypes == NormalizeSpec => []NormalizeTypeOK
  <1>1. NormalizeInit => NormalizeTypeOK
    <2>. SUFFICES ASSUME NormalizeInit PROVE NormalizeTypeOK
      OBVIOUS
    <2>1. entry.kind = "none" /\ entry.words \in SeqOf(Words, MaxWords)
      BY NoWords DEF NormalizeInit, NoEntry
    <2>2. visited \in 0..MaxFiles
      BY NormalizeAssumption DEF NormalizeInit
    <2>3. changed \in BOOLEAN /\ due \in BOOLEAN
      BY DEF NormalizeInit
    <2>4. direction = NoDirection /\ told \in [exit : {"none", "ok", "failed"}, marker : BOOLEAN]
      BY DEF NormalizeInit, NotTold
    <2>. QED
      BY <2>1, <2>2, <2>3, <2>4 DEF NormalizeTypeOK
  <1>. QED
    BY <1>1, NormalizeStep, PTL DEF NormalizeSpec

-----------------------------------------------------------------------------
(* The tools beside one another *)

LEMMA ToolsApart ==
    ASSUME [ToolsNext]_toolVars
    PROVE  /\ [Next]_<<state, seen>> /\ [RateNext]_rateVars /\ [EngineNext]_engineVars
           /\ [PinNext]_pinVars /\ [ChainNext]_chainVars /\ [NormalizeNext]_normalizeVars
  <1>1. CASE UNCHANGED toolVars
    BY <1>1 DEF toolVars, mergeVars
  <1>2. CASE Next /\ Rest("merge")
    BY <1>2 DEF Rest
  <1>3. CASE RateNext /\ Rest("rate")
    BY <1>3 DEF Rest, mergeVars
  <1>4. CASE EngineNext /\ Rest("engine")
    BY <1>4 DEF Rest, mergeVars
  <1>5. CASE PinNext /\ Rest("pins")
    BY <1>5 DEF Rest, mergeVars
  <1>6. CASE ChainNext /\ Rest("chain")
    BY <1>6 DEF Rest, mergeVars
  <1>7. CASE NormalizeNext /\ Rest("normalize")
    BY <1>7 DEF Rest, mergeVars
  <1>. QED
    BY <1>1, <1>2, <1>3, <1>4, <1>5, <1>6, <1>7 DEF ToolsNext

\* Whichever tool takes the steps, the state of each is well formed, at any time.
THEOREM ToolsTypes == ToolsSpec => []ToolsTypeOK
  <1>1. ToolsInit => Init /\ RateInit /\ EngineInit /\ PinInit /\ ChainInit /\ NormalizeInit
    BY DEF ToolsInit
  <1>2. ToolsSpec => Spec /\ RateSpec /\ EngineSpec /\ PinSpec /\ ChainSpec /\ NormalizeSpec
    BY <1>1, ToolsApart, PTL DEF ToolsSpec, Spec, RateSpec, EngineSpec, PinSpec, ChainSpec, NormalizeSpec
  <1>3. TypeOK /\ RateTypeOK /\ EngineTypeOK /\ PinTypeOK /\ ChainTypeOK /\ NormalizeTypeOK => ToolsTypeOK
    BY DEF ToolsTypeOK
  <1>. QED
    BY <1>2, <1>3, MergeTypes, RateTypes, EngineTypes, PinTypes, ChainTypes, NormalizeTypes, PTL
=============================================================================
