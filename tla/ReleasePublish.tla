--------------------------- MODULE ReleasePublish ---------------------------
(***************************************************************************)
(* tools/release_publish.py: publish() and the GitHub state it works on,   *)
(* for the tags of one revision wave (one engine id and package_revision,  *)
(* one tag per target).                                                    *)
(*                                                                         *)
(* A call of publish() is a sequence of API requests; each request is an   *)
(* action of its own, so a call can be cut off between any two of them.    *)
(* The `release-stable' concurrency group of release.yml admits one        *)
(* publisher at a time, hence one set of local variables; a call that      *)
(* ended, failed or was cut off is followed by another, for any tag, from  *)
(* the same commit and bytes or from others.                               *)
(*                                                                         *)
(* A request that changes GitHub may be lost before or after it took       *)
(* effect.  A read that fails is fatal to the call (Interrupt), except     *)
(* the 404 of a tag reference, which is an answer.                         *)
(***************************************************************************)
EXTENDS Naturals, FiniteSets

CONSTANTS
    Tags,       \* the tags of one wave: "<engine>-r<revision>-<target>"
    Names,      \* asset file names
    Digests,    \* asset contents, by their sha256
    Commits,    \* packaging commits
    Ids,        \* GitHub's ids for releases
    Builds,     \* what a call may be asked to publish: a commit and staged files
    Mangled,    \* contents a damaged upload may store instead of the file's
    MaxTries,   \* attempts of each retried request: range(3) in the code
    MaxFaults,  \* bound: requests lost, replies lost and calls cut off
    MaxCalls    \* bound: calls of publish()

Absent   == "absent"     \* the release has no asset of this name
Starter  == "starter"    \* GitHub's state of an upload that never completed
NoCommit == "no ref"     \* the tag reference does not exist

Assets   == [Names -> Digests \cup {Absent, Starter}]
Release  == [tag : Tags, target : Commits, draft : BOOLEAN,
             locked : BOOLEAN, assets : Assets]
View     == [draft : BOOLEAN, locked : BOOLEAN, assets : Assets]

ASSUME ReleaseAssumption ==
    /\ Absent \notin Digests /\ Starter \notin Digests
    /\ NoCommit \notin Commits
    /\ Tags # {} /\ Names # {}
    /\ Builds \subseteq [commit : Commits, files : UNION {[S -> Digests] : S \in SUBSET Names}]
    /\ Mangled \subseteq Digests
    /\ MaxTries \in Nat \ {0} /\ MaxFaults \in Nat /\ MaxCalls \in Nat

VARIABLES
    \* GitHub
    ref,        \* the commit each tag resolves to
    rel,        \* the releases, by id: DOMAIN rel is the ids in use
    immutable,  \* the repository setting "immutable releases"
    \* the call of publish() in progress
    pc, tag, build,
    siblings,   \* other tags of the wave seen in the list, still to be resolved
    found,      \* ids of the releases of `tag' seen in the list
    view,       \* the release as last read, or the asset dictionary made from it
    todo,       \* names still to be uploaded or recognised
    tries,      \* attempts already spent on the request being retried
    \* bounds
    faults, calls

github == <<ref, rel, immutable>>
locals == <<siblings, found, view, todo, tries>>
vars   == <<ref, rel, immutable, pc, tag, build, siblings, found, view, todo,
            tries, faults, calls>>

NoAssets == [n \in Names |-> Absent]
NoView   == [draft |-> TRUE, locked |-> FALSE, assets |-> NoAssets]

Resting == {"idle", "done", "failed"}
Working == {"list", "siblings", "createTag", "rereadTag", "confirmTag", "createRelease",
            "relist", "assets", "upload", "refresh", "clear", "verify",
            "recheckTag", "patch", "observe", "finalTag"}

-----------------------------------------------------------------------------
(* Helpers *)

\* _verify_assets: the same names, all uploaded, the same digests.
Exact(assets, b) ==
    \A n \in Names : assets[n] = IF n \in DOMAIN b.files THEN b.files[n] ELSE Absent

\* Mutant of Unexpected: a draft that holds anything at all is foreign.
UnexpectedAny(assets, b) == {n \in Names : assets[n] # Absent}

Unexpected(assets, b) == {n \in Names \ DOMAIN b.files : assets[n] # Absent}

ReleasesOf(t) == {i \in DOMAIN rel : rel[i].tag = t}
ViewOf(i)     == [draft |-> rel[i].draft, locked |-> rel[i].locked, assets |-> rel[i].assets]

\* A tag already carried by a published release takes no further release.
Occupied(t)   == \E i \in ReleasesOf(t) : ~rel[i].draft

\* The name the loop over the staged files has reached: some fixed order.
Current == CHOOSE n \in todo : TRUE

Fault  == faults < MaxFaults /\ faults' = faults + 1
Smooth == faults' = faults

Stop(verdict) ==
    /\ pc' = verdict
    /\ siblings' = {} /\ found' = {} /\ todo' = {} /\ tries' = 0
    /\ view' = NoView

\* Lines 298-302: unexpected names stop the call, otherwise the loop begins.
ToAssets(i, v) ==
    IF Unexpected(v.assets, build) # {}
    THEN Stop("failed")
    ELSE /\ pc' = "assets"
         /\ found' = {i} /\ view' = v
         /\ todo' = DOMAIN build.files /\ tries' = 0 /\ siblings' = {}

-----------------------------------------------------------------------------
(* A call begins, or is cut off *)

Start ==
    /\ pc \in Resting
    /\ calls < MaxCalls
    /\ calls' = calls + 1
    /\ tag' \in Tags /\ build' \in Builds
    /\ pc' = IF DOMAIN build'.files = {} THEN "failed" ELSE "list"
    /\ UNCHANGED <<github, locals, faults>>

\* The runner is lost, the job times out, or a request the code does not
\* retry fails: the call ends here, with GitHub as it is.
Interrupt ==
    /\ pc \in Working
    /\ Fault
    /\ Stop("failed")
    /\ UNCHANGED <<github, tag, build, calls>>

-----------------------------------------------------------------------------
(* What the wave and the tag already hold *)

\* One read of the release list.  The wave check and the lookup use the same
\* answer; the first pass over it and a later one (after `relist') differ
\* only in what follows.
ListReleases ==
    /\ pc = "list"
    /\ siblings' = {rel[i].tag : i \in DOMAIN rel} \ {tag}
    /\ found' = ReleasesOf(tag)
    /\ view' \in IF found' = {} THEN {NoView} ELSE {ViewOf(i) : i \in found'}
    /\ pc' = "siblings"
    /\ Smooth
    /\ UNCHANGED <<github, tag, build, todo, tries, calls>>

\* Mutant of CheckSibling: the other tags of the wave are not compared.
CheckSiblingNever ==
    /\ pc = "siblings"
    /\ \E s \in siblings : siblings' = siblings \ {s}
    /\ UNCHANGED <<pc, found, view, todo, tries>>
    /\ Smooth
    /\ UNCHANGED <<github, tag, build, calls>>

CheckSibling ==
    /\ pc = "siblings"
    /\ \E s \in siblings :
         IF ref[s] = build.commit
         THEN /\ siblings' = siblings \ {s}
              /\ UNCHANGED <<pc, found, view, todo, tries>>
         ELSE Stop("failed")
    /\ Smooth
    /\ UNCHANGED <<github, tag, build, calls>>

\* Mutant of AlreadyPublished: the digests of the assets are not compared.
AlreadyPublishedLoosely == ref[tag] = build.commit /\ view.locked

\* Lines 263-270: a rerun succeeds only over this very release.
AlreadyPublished ==
    ref[tag] = build.commit /\ Exact(view.assets, build) /\ view.locked

\* Lines 262-275, when every sibling agreed: the tag is resolved and decides.
ResolveTag ==
    /\ pc = "siblings"
    /\ siblings = {}
    /\ IF Cardinality(found) > 1
       THEN Stop("failed")
       ELSE IF found # {} /\ ~view.draft
       THEN Stop(IF AlreadyPublished THEN "done" ELSE "failed")
       ELSE IF ref[tag] = NoCommit
       THEN pc' = "createTag" /\ UNCHANGED locals
       ELSE IF ref[tag] # build.commit
       THEN Stop("failed")
       ELSE IF found = {}
       THEN pc' = "createRelease" /\ UNCHANGED locals
       ELSE \E i \in found : ToAssets(i, view)
    /\ Smooth
    /\ UNCHANGED <<github, tag, build, calls>>

-----------------------------------------------------------------------------
(* The tag reference: _create_tag and the read that confirms it *)

CreateTag ==
    /\ pc = "createTag"
    /\ \/ /\ ref[tag] = NoCommit
          /\ ref' = [ref EXCEPT ![tag] = build.commit]
          /\ pc' = "confirmTag"
          /\ Smooth
       \/ /\ ref[tag] = NoCommit               \* the reply is lost
          /\ ref' = [ref EXCEPT ![tag] = build.commit]
          /\ pc' = "rereadTag"
          /\ Fault
       \/ /\ ref' = ref                        \* the request is lost
          /\ pc' = "rereadTag"
          /\ Fault
       \/ /\ ref[tag] # NoCommit               \* refused: it exists by now
          /\ ref' = ref
          /\ pc' = "rereadTag"
          /\ Smooth
    /\ UNCHANGED <<rel, immutable, tag, build, locals, calls>>

RereadTag ==
    /\ pc = "rereadTag"
    /\ IF ref[tag] = build.commit
       THEN pc' = "confirmTag" /\ UNCHANGED locals
       ELSE Stop("failed")
    /\ Smooth
    /\ UNCHANGED <<github, tag, build, calls>>

ConfirmTag ==
    /\ pc = "confirmTag"
    /\ IF ref[tag] # build.commit
       THEN Stop("failed")
       ELSE IF found = {}
       THEN pc' = "createRelease" /\ UNCHANGED locals
       ELSE \E i \in found : ToAssets(i, view)
    /\ Smooth
    /\ UNCHANGED <<github, tag, build, calls>>

-----------------------------------------------------------------------------
(* The draft *)

\* Mutant of NewDraft: the payload without target_commitish.
NewDraftUntargeted == [tag |-> tag, target |-> NoCommit, draft |-> TRUE,
                       locked |-> FALSE, assets |-> NoAssets]

\* Mutant of NewDraft: the payload without {"draft": true}.
NewDraftPublic == [tag |-> tag, target |-> build.commit, draft |-> FALSE,
                   locked |-> FALSE, assets |-> NoAssets]

NewDraft == [tag |-> tag, target |-> build.commit, draft |-> TRUE,
             locked |-> FALSE, assets |-> NoAssets]

\* rel with a draft added under a fresh id.
Drafted(i) == [j \in DOMAIN rel \cup {i} |-> IF j = i THEN NewDraft ELSE rel[j]]

CreateRelease ==
    /\ pc = "createRelease"
    /\ \/ \E i \in Ids \ DOMAIN rel :
            /\ ~Occupied(tag)
            /\ rel' = Drafted(i)
            /\ ToAssets(i, NoView)
            /\ Smooth
       \/ \E i \in Ids \ DOMAIN rel :          \* the reply is lost
            /\ ~Occupied(tag)
            /\ rel' = Drafted(i)
            /\ pc' = "relist"
            /\ Fault
            /\ UNCHANGED locals
       \/ /\ pc' = "relist"                    \* lost, or refused
          /\ rel' = rel
          /\ (IF Occupied(tag) THEN Smooth ELSE Fault)
          /\ UNCHANGED locals
    /\ UNCHANGED <<ref, immutable, tag, build, calls>>

\* Mutant of Relist: the creation is repeated without looking.
RelistBlindly ==
    /\ pc = "relist"
    /\ IF tries + 1 >= MaxTries
       THEN Stop("failed")
       ELSE /\ pc' = "createRelease"
            /\ tries' = tries + 1
            /\ UNCHANGED <<siblings, found, view, todo>>
    /\ Smooth
    /\ UNCHANGED <<github, tag, build, calls>>

\* The list is read again after a failed creation: a draft of this tag is
\* adopted, a published release sends the call back to the start of publish()
\* with this list (lines 295-297), nothing means another attempt.
Relist ==
    /\ pc = "relist"
    /\ LET mine == ReleasesOf(tag) IN
       \/ /\ Cardinality(mine) > 1
          /\ Stop("failed")
       \/ /\ Cardinality(mine) = 1
          /\ \E i \in mine :
               IF rel[i].draft
               THEN ToAssets(i, ViewOf(i))
               ELSE /\ pc' = "siblings"
                    /\ siblings' = {rel[j].tag : j \in DOMAIN rel} \ {tag}
                    /\ found' = {i} /\ view' = ViewOf(i)
                    /\ tries' = 0 /\ UNCHANGED todo
       \/ /\ mine = {}
          /\ IF tries + 1 >= MaxTries
             THEN Stop("failed")
             ELSE /\ pc' = "createRelease"
                  /\ tries' = tries + 1
                  /\ UNCHANGED <<siblings, found, view, todo>>
    /\ Smooth
    /\ UNCHANGED <<github, tag, build, calls>>

-----------------------------------------------------------------------------
(* The assets of the draft, one staged file after the other *)

\* A request on the draft is answered only while the draft is there.
OpenDraft(i) == i \in DOMAIN rel /\ rel[i].draft
SetAsset(i, n, a) == rel' = [rel EXCEPT ![i].assets[n] = a]

Settled == todo' = todo \ {Current} /\ tries' = 0

\* Lines 302-313, on the dictionary read when the draft was found: matching
\* bytes are kept, other bytes stop the call, a starter is deleted first.
NextAsset ==
    /\ pc = "assets"
    /\ IF todo = {}
       THEN pc' = "verify" /\ rel' = rel /\ Smooth /\ UNCHANGED locals
       ELSE \E i \in found :
         LET a == view.assets[Current] IN
         \/ /\ a = build.files[Current]
            /\ pc' = "assets" /\ Settled
            /\ rel' = rel /\ Smooth
            /\ UNCHANGED <<siblings, found, view>>
         \/ /\ a = Absent
            /\ pc' = "upload" /\ rel' = rel /\ Smooth
            /\ UNCHANGED locals
         \/ /\ a = Starter                     \* deleted, reply lost or not
            /\ OpenDraft(i) /\ rel[i].assets[Current] = Starter
            /\ SetAsset(i, Current, Absent)
            /\ pc' = "upload" /\ Smooth
            /\ UNCHANGED locals
         \/ /\ a = Starter                     \* the deletion failed
            /\ i \in DOMAIN rel
            /\ (IF OpenDraft(i) /\ rel[i].assets[Current] = Starter THEN Fault ELSE Smooth)
            /\ pc' = "upload" /\ rel' = rel
            /\ UNCHANGED locals
         \/ /\ a = Starter                     \* so did the read after it
            /\ i \notin DOMAIN rel
            /\ Stop("failed") /\ rel' = rel /\ Smooth
         \/ /\ a \notin {Absent, Starter, build.files[Current]}
            /\ Stop("failed")
            /\ rel' = rel /\ Smooth
    /\ UNCHANGED <<ref, immutable, tag, build, calls>>

\* One POST of the file.  GitHub refuses a name that exists.  A failed upload
\* may leave nothing, a starter, or the whole asset; a transfer may also
\* store other bytes, which the digest of the reply gives away.
Upload ==
    /\ pc = "upload"
    /\ \E i \in found :
         LET free == OpenDraft(i) /\ rel[i].assets[Current] = Absent IN
         \/ /\ free
            /\ SetAsset(i, Current, build.files[Current])
            /\ pc' = "assets" /\ Settled
            /\ Smooth
            /\ UNCHANGED <<siblings, found, view>>
         \/ /\ free
            /\ \E a \in {build.files[Current], Starter} \cup Mangled : SetAsset(i, Current, a)
            /\ pc' = "refresh"
            /\ Fault
            /\ UNCHANGED locals
         \/ /\ pc' = "refresh"
            /\ rel' = rel
            /\ (IF free THEN Fault ELSE Smooth)
            /\ UNCHANGED locals
    /\ UNCHANGED <<ref, immutable, tag, build, calls>>

\* The for/else of lines 315-337: another attempt, or the call gives up.
RetryUpload ==
    IF tries + 1 >= MaxTries
    THEN Stop("failed")
    ELSE /\ pc' = "upload"
         /\ tries' = tries + 1
         /\ UNCHANGED <<siblings, found, view, todo>>

\* Lines 324-335: what the failed upload left behind.
Refresh ==
    /\ pc = "refresh"
    /\ \E i \in found :
         IF ~OpenDraft(i)
         THEN Stop("failed")
         ELSE LET a == rel[i].assets[Current] IN
              \/ /\ a = build.files[Current]
                 /\ pc' = "assets" /\ Settled
                 /\ UNCHANGED <<siblings, found, view>>
              \/ /\ a \in Digests \ {build.files[Current]}
                 /\ Stop("failed")
              \/ /\ a = Starter
                 /\ pc' = "clear"
                 /\ UNCHANGED locals
              \/ /\ a = Absent
                 /\ RetryUpload
    /\ Smooth
    /\ UNCHANGED <<github, tag, build, calls>>

\* The starter a failed upload left is deleted; a failure here is fatal.
ClearStarter ==
    /\ pc = "clear"
    /\ \E i \in found :
         LET there == OpenDraft(i) /\ rel[i].assets[Current] = Starter IN
         \/ /\ there
            /\ SetAsset(i, Current, Absent)
            /\ RetryUpload
            /\ Smooth
         \/ /\ there
            /\ SetAsset(i, Current, Absent)
            /\ Stop("failed")
            /\ Fault
         \/ /\ ~there
            /\ Stop("failed")
            /\ rel' = rel
            /\ Smooth
    /\ UNCHANGED <<ref, immutable, tag, build, calls>>

-----------------------------------------------------------------------------
(* Publication *)

\* Lines 340-343: one read of the draft before it is published.
VerifyDraft ==
    /\ pc = "verify"
    /\ \E i \in found :
         IF OpenDraft(i) /\ Exact(rel[i].assets, build)
         THEN pc' = "recheckTag" /\ UNCHANGED locals
         ELSE Stop("failed")
    /\ Smooth
    /\ UNCHANGED <<github, tag, build, calls>>

RecheckTag ==
    /\ pc = "recheckTag"
    /\ IF ref[tag] = build.commit
       THEN pc' = "patch" /\ UNCHANGED locals
       ELSE Stop("failed")
    /\ Smooth
    /\ UNCHANGED <<github, tag, build, calls>>

\* What GitHub does on {"draft": false}: the release is locked if the setting
\* is on, and a tag that does not exist is created at the release's target.
Undraft(i) ==
    /\ rel' = [rel EXCEPT ![i].draft = FALSE, ![i].locked = immutable]
    /\ ref' = [ref EXCEPT ![rel[i].tag] = IF @ = NoCommit THEN rel[i].target ELSE @]

Patch ==
    /\ pc = "patch"
    /\ \E i \in found :
         LET able == OpenDraft(i) /\ ~Occupied(rel[i].tag) IN
         \/ able /\ Undraft(i) /\ Smooth       \* the reply is not used
         \/ able /\ UNCHANGED <<ref, rel>> /\ Fault
         \/ ~able /\ UNCHANGED <<ref, rel>> /\ Smooth
    /\ pc' = "observe"
    /\ UNCHANGED <<immutable, tag, build, locals, calls>>

Observe ==
    /\ pc = "observe"
    /\ \E i \in found :
         IF i \notin DOMAIN rel
         THEN Stop("failed")
         ELSE IF rel[i].draft
         THEN IF tries + 1 >= MaxTries
              THEN Stop("failed")
              ELSE /\ pc' = "patch" /\ tries' = tries + 1
                   /\ UNCHANGED <<siblings, found, view, todo>>
         ELSE IF rel[i].locked
         THEN /\ pc' = "finalTag" /\ view' = ViewOf(i)
              /\ UNCHANGED <<siblings, found, todo, tries>>
         ELSE Stop("failed")
    /\ Smooth
    /\ UNCHANGED <<github, tag, build, calls>>

\* Mutant of FinalTag: the tag is not resolved again after publication.
FinalTagTrusted ==
    /\ pc = "finalTag"
    /\ Stop(IF Exact(view.assets, build) THEN "done" ELSE "failed")
    /\ Smooth
    /\ UNCHANGED <<github, tag, build, calls>>

\* Lines 359-362: the tag is resolved once more, the assets are those read
\* by the observation.
FinalTag ==
    /\ pc = "finalTag"
    /\ IF ref[tag] = build.commit /\ Exact(view.assets, build)
       THEN Stop("done")
       ELSE Stop("failed")
    /\ Smooth
    /\ UNCHANGED <<github, tag, build, calls>>

-----------------------------------------------------------------------------
Init ==
    /\ ref = [t \in Tags |-> NoCommit]
    /\ rel = [i \in {} |-> NoView]
    /\ immutable \in BOOLEAN
    /\ pc = "idle"
    /\ tag \in Tags /\ build \in Builds
    /\ siblings = {} /\ found = {} /\ view = NoView /\ todo = {} /\ tries = 0
    /\ faults = 0 /\ calls = 0

Publisher ==
    \/ ListReleases \/ CheckSibling \/ ResolveTag
    \/ CreateTag \/ RereadTag \/ ConfirmTag
    \/ CreateRelease \/ Relist
    \/ NextAsset \/ Upload \/ Refresh \/ ClearStarter
    \/ VerifyDraft \/ RecheckTag \/ Patch \/ Observe \/ FinalTag

Next == Start \/ Interrupt \/ Publisher

Spec == Init /\ [][Next]_vars
-----------------------------------------------------------------------------
(* Properties *)

TypeOK ==
    /\ ref \in [Tags -> Commits \cup {NoCommit}]
    /\ DOMAIN rel \subseteq Ids
    /\ rel \in [DOMAIN rel -> Release]
    /\ immutable \in BOOLEAN
    /\ pc \in Resting \cup Working
    /\ tag \in Tags /\ build \in Builds
    /\ siblings \subseteq Tags
    /\ found \subseteq Ids
    /\ view \in View
    /\ todo \subseteq Names
    /\ tries \in 0..MaxTries
    /\ faults \in 0..MaxFaults
    /\ calls \in 0..MaxCalls

\* A call that reports success left, under its tag and at its commit, a locked
\* release with exactly the staged files, whatever was lost on the way and
\* whatever earlier calls had left half done.
DoneIsExact ==
    pc = "done" =>
        /\ ref[tag] = build.commit
        /\ \E i \in ReleasesOf(tag) :
              ~rel[i].draft /\ rel[i].locked /\ Exact(rel[i].assets, build)

\* Retried and resumed creations never leave two releases under one tag, which
\* _find_release could not tell apart.
OneReleasePerTag ==
    \A i, j \in DOMAIN rel : rel[i].tag = rel[j].tag => i = j

\* DESIGN decision 13: the revision is engine-wide, so all the releases of a
\* wave, drafts included, have tags at one packaging commit.
OneWave ==
    \A i, j \in DOMAIN rel : /\ ref[rel[i].tag] # NoCommit
                             /\ ref[rel[i].tag] = ref[rel[j].tag]

\* What a consumer can see of the wave: the published releases of each tag.
FilesOf(i) == [n \in {m \in Names : rel[i].assets[m] # Absent} |-> rel[i].assets[n]]

LedgerOf == [t \in Tags |-> {[commit |-> ref[t], files |-> FilesOf(i)] :
                               i \in {j \in ReleasesOf(t) : ~rel[j].draft}}]

Ledger == INSTANCE ReleaseLedger WITH Entries <- Builds, ledger <- LedgerOf

\* The published releases are an append-only ledger of whole builds of one
\* commit: no step of any call, complete or cut off, does anything else to it.
ImplementsLedger == Ledger!Spec

-----------------------------------------------------------------------------
(* The inductive invariant behind the safety properties: what the call knows *)
(* at each point of publish().  Proved in ReleasePublishProofs.              *)

\* The releases of other tags are at the commit of this call, except those
\* whose tags it has still to resolve.
WaveChecked ==
    pc \in Working \ {"list"} =>
        \A i \in DOMAIN rel : \/ rel[i].tag = tag
                             \/ ref[rel[i].tag] = build.commit
                             \/ (pc = "siblings" /\ rel[i].tag \in siblings)

\* What the list said of the tag still holds.
Looked ==
    pc = "siblings" =>
        /\ found = ReleasesOf(tag)
        /\ \A i \in found : view = ViewOf(i)

\* Until it creates a draft, the call knows that there is none.
NoneYet ==
    /\ pc \in {"createTag", "rereadTag", "confirmTag", "createRelease"} =>
          found = {} /\ ReleasesOf(tag) = {}
    /\ pc \in {"createRelease", "relist"} => found = {} /\ ref[tag] = build.commit
    /\ pc = "relist" => \A i \in ReleasesOf(tag) : rel[i].draft

Holding == {"assets", "upload", "refresh", "clear", "verify", "recheckTag", "patch",
            "observe", "finalTag"}

\* From then on it holds the one release of its tag, a draft until `patch'.
Held ==
    pc \in Holding =>
        /\ ref[tag] = build.commit
        /\ \E i \in DOMAIN rel :
              /\ found = {i}
              /\ rel[i].tag = tag
              /\ pc \notin {"observe", "finalTag"} => rel[i].draft
              /\ pc \in {"recheckTag", "patch", "observe", "finalTag"} =>
                    Exact(rel[i].assets, build)
              /\ pc = "finalTag" => ~rel[i].draft /\ rel[i].locked

\* The loop over the staged files works on one of them.
Looping ==
    pc \in {"assets", "upload", "refresh", "clear"} =>
        /\ todo \subseteq DOMAIN build.files
        /\ pc # "assets" => todo # {}

PublishedWhole ==
    \A i \in DOMAIN rel : ~rel[i].draft =>
        \E b \in Builds : b.commit = ref[rel[i].tag] /\ Exact(rel[i].assets, b)

IInv == TypeOK /\ OneReleasePerTag /\ OneWave /\ WaveChecked /\ Looked /\ NoneYet
        /\ Held /\ Looping /\ PublishedWhole /\ DoneIsExact
=============================================================================
