------------------------- MODULE ReleaseMaintainer -------------------------
(***************************************************************************)
(* ReleasePublish beside a maintainer who edits the repository by hand     *)
(* while a call is in progress: the "external change" that the reads       *)
(* before and after publication exist to catch (release_publish.py,        *)
(* lines 338-361).  GitHub lets nobody change a locked release or its tag. *)
(***************************************************************************)
EXTENDS ReleasePublish

CONSTANTS
    MaxEdits,                     \* bound: changes made by hand
    EditedFaults, EditedCalls     \* bounds of a repository that is edited

VARIABLE edits

Locked(t) == \E i \in ReleasesOf(t) : rel[i].locked

\* Moves, creates or (c = NoCommit) deletes a tag.
MoveTag(t, c) ==
    /\ ~Locked(t)
    /\ ref[t] # c
    /\ ref' = [ref EXCEPT ![t] = c]
    /\ UNCHANGED rel

EditAsset(i, n, a) ==
    /\ ~rel[i].locked
    /\ rel[i].assets[n] # a
    /\ SetAsset(i, n, a)
    /\ UNCHANGED ref

DeleteRelease(i) ==
    /\ ~rel[i].locked
    /\ rel' = [j \in DOMAIN rel \ {i} |-> rel[j]]
    /\ UNCHANGED ref

PublishByHand(i) ==
    /\ OpenDraft(i)
    /\ ~Occupied(rel[i].tag)
    /\ Undraft(i)

DraftByHand(i, t, c) ==
    /\ ~Occupied(t)
    /\ rel' = [j \in DOMAIN rel \cup {i} |->
                 IF j = i THEN [tag |-> t, target |-> c, draft |-> TRUE,
                                locked |-> FALSE, assets |-> NoAssets]
                          ELSE rel[j]]
    /\ UNCHANGED ref

Edit ==
    /\ edits < MaxEdits
    /\ edits' = edits + 1
    /\ \/ \E t \in Tags, c \in Commits \cup {NoCommit} : MoveTag(t, c)
       \/ \E i \in DOMAIN rel, n \in Names, a \in Digests \cup {Absent} : EditAsset(i, n, a)
       \/ \E i \in DOMAIN rel : DeleteRelease(i) \/ PublishByHand(i)
       \/ \E i \in Ids \ DOMAIN rel, t \in Tags, c \in Commits : DraftByHand(i, t, c)
    /\ UNCHANGED <<immutable, pc, tag, build, locals, faults, calls>>

\* The bounds of a repository that is edited are smaller.
Bounded == edits' > 0 => faults' <= EditedFaults /\ calls' <= EditedCalls

EditedInit == Init /\ edits = 0
EditedNext == (Edit \/ (Next /\ UNCHANGED edits)) /\ Bounded
EditedSpec == EditedInit /\ [][EditedNext]_<<vars, edits>>

\* The publisher runs on, and whoever asked for the release calls again.
EditedFairSpec == EditedSpec /\ WF_vars(Start) /\ WF_vars(Publisher)
-----------------------------------------------------------------------------
\* The repository is the publisher's alone, every call is for this build, and
\* no upload is stored with other bytes.
OnlyFor(b) ==
    /\ edits = 0
    /\ calls > 0 => build = b
    /\ \A i \in DOMAIN rel, n \in Names : rel[i].assets[n] \in {Absent, Starter, b.files[n]}

\* "Creates or resumes a draft" (DESIGN, decision 13): as long as the faults end
\* before the calls do, some call succeeds, so no partial state is one that a
\* further call cannot resume.
Resumes == \A b \in Builds : immutable /\ []OnlyFor(b) => <>(pc = "done")
=============================================================================
