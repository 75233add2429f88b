------------------------------ MODULE PinHeads ------------------------------
(***************************************************************************)
(* tools/vmod_heads.py --green --apply: the pins of the VMODs move to the  *)
(* heads of their upstream branches, as far as the saved matrix state      *)
(* proves those heads.  Meanwhile upstream branches move and trunk runs    *)
(* report, and a call may be repeated over what an earlier one has left    *)
(* in the manifests.                                                       *)
(***************************************************************************)
EXTENDS Naturals, Sequences, FiniteSets

CONSTANTS
    Manifests,     \* the VMODs, in the order of their ids
    Slots,         \* the source entries of a manifest, in order
    RemoteOf,      \* the (git url, branch) of each VMOD: some share one
    TrunkCells,    \* the trunk cells the catalog expects: pairs of a VMOD and more
    FirstPins,     \* the manifests at the beginning
    FirstHead,     \* the branches at the beginning
    MaxHead,       \* bound: commits of a branch are 1..MaxHead, in their order
    MaxCalls, MaxErrors,  \* bounds
    MaxPasses     \* bound: passing trunk builds

NoCommit == 0
Commits  == 1..MaxHead
Rows     == {Manifests[i] : i \in DOMAIN Manifests}
Entries  == {Slots[i] : i \in DOMAIN Slots}
Remotes  == {RemoteOf[v] : v \in Rows}
Exits    == {"none", "ok", "unresolved", "refused"}

ASSUME PinAssumption ==
    /\ MaxHead \in Nat /\ MaxCalls \in Nat /\ MaxErrors \in Nat
    /\ FirstHead \in Commits /\ IsFiniteSet(Entries)
    /\ FirstPins \in [Rows -> [Entries -> Commits \cup {NoCommit}]]
    /\ \A cell \in TrunkCells : cell[1] \in Rows

VARIABLES
    file,      \* vmods/*.yml: the pin of each source entry
    head,      \* upstream
    saved,     \* ci-state/matrix: the conclusion of each trunk cell
    passed,    \* history: the trunk builds that ever passed
    pc,        \* "idle", "resolving" or "applying"
    pins,      \* pins_to_check: what the manifests said when they were read
    heads,     \* the answers of the remotes: a commit, NoCommit for an error
    green,     \* the pins found green
    todo,      \* green_pins still to be written
    exit,      \* of the last call
    calls, errors

upstream == <<head, saved, passed>>
pinVars  == <<file, upstream, pc, pins, heads, green, todo, exit, calls, errors>>

Pin == [vmod : Rows, slot : Entries, commit : Commits]

\* pins(): the entries with a commit.
Pins(files) == {p \in Pin : files[p.vmod][p.slot] = p.commit}

Precedes(list, a, b) == \E i, j \in DOMAIN list : i < j /\ list[i] = a /\ list[j] = b

\* Their order: VMOD by VMOD, the default first.
Before(p, q) ==
    \/ Precedes(Manifests, p.vmod, q.vmod)
    \/ p.vmod = q.vmod /\ Precedes(Slots, p.slot, q.slot)

-----------------------------------------------------------------------------
(* The world *)

MoveHead(r) ==
    /\ head[r] < MaxHead
    /\ head' = [head EXCEPT ![r] = @ + 1]
    /\ UNCHANGED <<file, saved, passed, pc, pins, heads, green, todo, exit, calls, errors>>

\* A cell of a trunk run that fetched the branch at some time in the past.
Report(cell) ==
    \E c \in 1..head[RemoteOf[cell[1]]], status \in {"pass", "red"} :
        /\ saved' = [saved EXCEPT ![cell] = [status |-> status, commit |-> c]]
        /\ passed' = IF status = "pass" THEN passed \cup {<<cell, c>>} ELSE passed
        /\ Cardinality(passed') <= MaxPasses
        /\ UNCHANGED <<file, head, pc, pins, heads, green, todo, exit, calls, errors>>

-----------------------------------------------------------------------------
(* One call *)

Load ==
    /\ pc = "idle" /\ calls < MaxCalls
    /\ calls' = calls + 1
    /\ pins' = Pins(file)
    /\ heads' = [r \in {} |-> NoCommit] /\ green' = {} /\ todo' = {} /\ exit' = "none"
    /\ pc' = "resolving"
    /\ UNCHANGED <<file, upstream, errors>>

Asked == {RemoteOf[p.vmod] : p \in pins}

\* resolve_heads(): each distinct branch is asked once, in any order; an error
\* is kept beside the answers of the others.
Resolve(r) ==
    /\ pc = "resolving" /\ r \in Asked \ DOMAIN heads
    /\ \/ heads' = [q \in DOMAIN heads \cup {r} |-> IF q = r THEN head[r] ELSE heads[q]]
          /\ UNCHANGED errors
       \/ heads' = [q \in DOMAIN heads \cup {r} |-> IF q = r THEN NoCommit ELSE heads[q]]
          /\ errors < MaxErrors /\ errors' = errors + 1
    /\ UNCHANGED <<file, upstream, pc, pins, green, todo, exit, calls>>

HeadOf(p) == heads[RemoteOf[p.vmod]]

\* expected_trunk_cells().
ExpectedCells(v) == {cell \in TrunkCells : cell[1] = v}

\* Mutant of Proven: a passing cell counts whatever it was built from.
ProvenAtAnyCommit(p) == \A cell \in ExpectedCells(p.vmod) : saved[cell].status = "pass"

\* promotion_results(): every expected trunk cell passes at this very head.
Proven(p) ==
    \A cell \in ExpectedCells(p.vmod) : saved[cell] = [status |-> "pass", commit |-> HeadOf(p)]

IsGreen(p) == HeadOf(p) \notin {NoCommit, p.commit} /\ Proven(p)

\* load_saved_state(), which may fail, and the verdict on every pin.
Judge ==
    /\ pc = "resolving" /\ Asked = DOMAIN heads
    /\ \/ /\ todo' = {p \in pins : IsGreen(p)}
          /\ green' = todo'
          /\ pc' = "applying"
          /\ UNCHANGED <<exit, errors>>
       \/ /\ errors < MaxErrors /\ errors' = errors + 1
          /\ exit' = "refused" /\ pc' = "idle"
          /\ UNCHANGED <<todo, green>>
    /\ UNCHANGED <<file, upstream, pins, heads, calls>>

\* The commit lines of a manifest that hold one commit.
LinesWith(v, c) == {s \in Entries : file[v][s] = c}

\* apply_pins() wants to find the pinned commit once in its file.
Rewritable(p) == Cardinality(LinesWith(p.vmod, p.commit)) = 1

\* Mutant of AfterRefusal: the loop goes on with the next pin.
AfterRefusalGoOn(p) == todo' = todo \ {p} /\ UNCHANGED <<pc, exit>>

\* Otherwise it raises, and main() ends with what is written by then.
AfterRefusal(p) == exit' = "refused" /\ pc' = "idle" /\ UNCHANGED todo

Rewritten(p) ==
    [file EXCEPT ![p.vmod] = [s \in Entries |-> IF @[s] = p.commit THEN HeadOf(p) ELSE @[s]]]

\* One turn of its loop, over the first pin that is left.
Apply(p) ==
    /\ pc = "applying" /\ p \in todo
    /\ \A q \in todo \ {p} : Before(p, q)
    /\ \/ /\ Rewritable(p)
          /\ file' = Rewritten(p)
          /\ todo' = todo \ {p}
          /\ UNCHANGED <<pc, exit>>
       \/ /\ ~Rewritable(p)
          /\ AfterRefusal(p)
          /\ UNCHANGED file
    /\ UNCHANGED <<upstream, pins, heads, green, calls, errors>>

Finish ==
    /\ pc = "applying" /\ todo = {}
    /\ exit' = IF \E r \in DOMAIN heads : heads[r] = NoCommit THEN "unresolved" ELSE "ok"
    /\ pc' = "idle"
    /\ UNCHANGED <<file, upstream, pins, heads, green, todo, calls, errors>>

PinInit ==
    /\ file = FirstPins
    /\ head = [r \in Remotes |-> FirstHead]
    /\ saved = [cell \in TrunkCells |-> [status |-> "red", commit |-> 1]]
    /\ passed = {}
    /\ pc = "idle" /\ pins = {} /\ heads = [r \in {} |-> NoCommit]
    /\ green = {} /\ todo = {} /\ exit = "none"
    /\ calls = 0 /\ errors = 0

PinNext ==
    \/ \E r \in Remotes : MoveHead(r) \/ Resolve(r)
    \/ \E cell \in TrunkCells : Report(cell)
    \/ Load \/ Judge \/ Finish
    \/ \E p \in todo : Apply(p)

PinSpec == PinInit /\ [][PinNext]_pinVars
-----------------------------------------------------------------------------
PinTypeOK ==
    /\ file \in [Rows -> [Entries -> Commits \cup {NoCommit}]]
    /\ head \in [Remotes -> Commits]
    /\ saved \in [TrunkCells -> [status : {"pass", "red"}, commit : Commits]]
    /\ passed \subseteq TrunkCells \X Commits
    /\ pc \in {"idle", "resolving", "applying"} /\ exit \in Exits
    /\ pins \subseteq Pin /\ green \subseteq pins /\ todo \subseteq green
    /\ DOMAIN heads \subseteq Remotes
    /\ heads \in [DOMAIN heads -> Commits \cup {NoCommit}]
    /\ calls \in 0..MaxCalls /\ errors \in 0..MaxErrors

\* "--apply changes only pins whose current upstream head has complete passing
\* trunk compatibility evidence" (vmod_heads.py, line 6): whatever moved since
\* the heads were asked, a commit written to a manifest has passed, itself, in
\* every trunk cell of its VMOD.
OnlyProven ==
    [][\A v \in Rows, s \in Entries : file'[v][s] # file[v][s] =>
          \A cell \in ExpectedCells(v) : <<cell, file'[v][s]>> \in passed]_pinVars

\* A call that is cut short by a manifest has written the green pins before it
\* and none behind; one that succeeds has written them all.
AppliedInOrder ==
    /\ \A p \in green :
          file[p.vmod][p.slot] = IF p \in todo THEN p.commit ELSE HeadOf(p)
    /\ \A p \in green \ todo, q \in todo : Before(p, q)
    /\ exit \in {"ok", "unresolved"} => todo = {}

\* "update pins that --green proves safe to move" (vmod_heads.py, line 212): a
\* call that got its answers moves every pin it found green.
GreenMoves ==
    pc = "idle" => \A p \in green : file[p.vmod][p.slot] = HeadOf(p)
=============================================================================
