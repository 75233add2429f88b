------------------------ MODULE ReleasePublishProofs ------------------------
EXTENDS ReleasePublish, TLAPS

\* What each build is, from the assumption on the constants.
LEMMA BuildShape ==
    ASSUME NEW b \in Builds
    PROVE  /\ b.commit \in Commits /\ b.commit # NoCommit
           /\ DOMAIN b.files \subseteq Names
           /\ \A n \in DOMAIN b.files : b.files[n] \in Digests
           /\ b = [commit |-> b.commit, files |-> b.files]
           /\ b.files = [n \in DOMAIN b.files |-> b.files[n]]
<1>1. PICK c \in Commits, f \in UNION {[S -> Digests] : S \in SUBSET Names} :
        b = [commit |-> c, files |-> f]
  BY ReleaseAssumption
<1>2. PICK S \in SUBSET Names : f \in [S -> Digests]
  OBVIOUS
<1> QED BY <1>1, <1>2, ReleaseAssumption

LEMMA Initially == Init => IInv
<1> SUFFICES ASSUME Init PROVE IInv
  OBVIOUS
<1>1. TypeOK
  <2>1. NoView \in View
    BY DEF NoView, View, NoAssets, Assets
  <2> QED BY <2>1, ReleaseAssumption DEF Init, TypeOK, Resting
<1> QED BY <1>1 DEF Init, IInv, OneReleasePerTag, OneWave, WaveChecked, Looked, NoneYet, Held,
          Looping, PublishedWhole, DoneIsExact, Working, Holding

\* A call that stops without touching GitHub keeps the invariant.
LEMMA StopStep ==
    ASSUME IInv, Stop("failed"), UNCHANGED <<github, tag, build>>,
           faults' \in 0..MaxFaults, calls' \in 0..MaxCalls
    PROVE  IInv'
<1> USE DEF Stop, github
<1>1. TypeOK'
  <2>1. NoView \in View
    BY DEF NoView, View, NoAssets, Assets
  <2>2. 0 \in 0..MaxTries
    BY ReleaseAssumption
  <2> QED BY <2>1, <2>2 DEF IInv, TypeOK, Resting
<1>2. OneReleasePerTag' /\ OneWave' /\ PublishedWhole'
  BY DEF IInv, OneReleasePerTag, OneWave, PublishedWhole, Exact
<1> QED BY <1>1, <1>2 DEF IInv, WaveChecked, Looked, NoneYet, Held, Looping, DoneIsExact,
          Working, Holding

-----------------------------------------------------------------------------
(* Steps that leave GitHub as it is *)

LEMMA StartStep == IInv /\ Start => IInv'
<1> SUFFICES ASSUME IInv, Start PROVE IInv'
  OBVIOUS
<1> USE DEF Start, github, locals
<1>1. calls' \in 0..MaxCalls
  BY ReleaseAssumption DEF IInv, TypeOK
<1>2. pc' \in {"failed", "list"}
  OBVIOUS
<1>3. TypeOK'
  BY <1>1, <1>2 DEF IInv, TypeOK, Resting, Working
<1>4. OneReleasePerTag' /\ OneWave' /\ PublishedWhole'
  BY DEF IInv, OneReleasePerTag, OneWave, PublishedWhole, Exact
<1> QED BY <1>2, <1>3, <1>4 DEF IInv, WaveChecked, Looked, NoneYet, Held, Looping, DoneIsExact,
          Working, Holding

LEMMA InterruptStep == IInv /\ Interrupt => IInv'
<1> SUFFICES ASSUME IInv, Interrupt PROVE IInv'
  OBVIOUS
<1>1. faults' \in 0..MaxFaults /\ calls' \in 0..MaxCalls
  BY ReleaseAssumption DEF IInv, TypeOK, Interrupt, Fault
<1> QED BY <1>1, StopStep DEF Interrupt

\* Any step that does not change what GitHub or the call's job is keeps the
\* parts of the invariant that speak of nothing else.
LEMMA QuietStep ==
    ASSUME IInv, UNCHANGED <<github, tag, build>>
    PROVE  OneReleasePerTag' /\ OneWave' /\ PublishedWhole'
BY DEF github, IInv, OneReleasePerTag, OneWave, PublishedWhole, Exact

LEMMA Bounds ==
    ASSUME IInv
    PROVE  /\ Smooth /\ UNCHANGED calls => faults' \in 0..MaxFaults /\ calls' \in 0..MaxCalls
           /\ Fault /\ UNCHANGED calls => faults' \in 0..MaxFaults /\ calls' \in 0..MaxCalls
           /\ NoView \in View /\ NoAssets \in Assets
           /\ 0 \in 0..MaxTries
           /\ tries + 1 < MaxTries => tries + 1 \in 0..MaxTries
BY ReleaseAssumption DEF IInv, TypeOK, Smooth, Fault, NoView, View, NoAssets, Assets

LEMMA JobShape ==
    ASSUME IInv
    PROVE  /\ tag \in Tags /\ build \in Builds
           /\ build.commit \in Commits /\ build.commit # NoCommit
           /\ DOMAIN build.files \subseteq Names
           /\ \A n \in DOMAIN build.files : build.files[n] \in Digests
<1>1. tag \in Tags /\ build \in Builds
  BY DEF IInv, TypeOK
<1> QED BY <1>1, BuildShape

LEMMA ViewType ==
    ASSUME IInv, NEW i \in DOMAIN rel
    PROVE  /\ rel[i] \in Release /\ ViewOf(i) \in View /\ rel[i].assets \in Assets
           /\ i \in Ids /\ rel[i].tag \in Tags
BY DEF IInv, TypeOK, ViewOf, View, Release

LEMMA ListReleasesStep == IInv /\ ListReleases => IInv'
<1> SUFFICES ASSUME IInv, ListReleases PROVE IInv'
  OBVIOUS
<1> USE DEF ListReleases, github
<1>1. view' \in View
  BY Bounds, ViewType DEF ReleasesOf
<1>2. TypeOK'
  BY <1>1, Bounds, ViewType DEF IInv, TypeOK, Resting, Working, ReleasesOf
<1>3. Looked'
  BY DEF Looked, ReleasesOf, ViewOf, IInv, OneReleasePerTag
<1>4. WaveChecked'
  BY DEF WaveChecked
<1> QED BY <1>2, <1>3, <1>4, QuietStep DEF IInv, NoneYet, Held, Looping, DoneIsExact, Holding

LEMMA CheckSiblingStep == IInv /\ CheckSibling => IInv'
<1> SUFFICES ASSUME IInv, CheckSibling PROVE IInv'
  OBVIOUS
<1> USE DEF CheckSibling
<1>1. PICK s \in siblings :
        IF ref[s] = build.commit
        THEN siblings' = siblings \ {s} /\ UNCHANGED <<pc, found, view, todo, tries>>
        ELSE Stop("failed")
  OBVIOUS
<1>2. CASE ref[s] # build.commit
  BY <1>1, <1>2, StopStep, Bounds
<1>3. CASE ref[s] = build.commit
  <2>1. TypeOK'
    BY <1>1, <1>3, Bounds DEF IInv, TypeOK, github
  <2>2. WaveChecked'
    BY <1>1, <1>3 DEF IInv, WaveChecked, github
  <2>3. Looked'
    BY <1>1, <1>3 DEF IInv, Looked, ReleasesOf, ViewOf, github
  <2> QED BY <1>1, <1>3, <2>1, <2>2, <2>3, QuietStep
          DEF IInv, NoneYet, Held, Looping, DoneIsExact, Holding, github
<1> QED BY <1>2, <1>3

\* The loop over the files begins with the call's own draft in hand.
LEMMA ToAssetsStep ==
    ASSUME IInv, NEW i \in DOMAIN rel, NEW v \in View, ToAssets(i, v),
           UNCHANGED <<github, tag, build, calls>>, Smooth,
           rel[i].tag = tag, rel[i].draft, ref[tag] = build.commit,
           pc \in Working \ {"list"}, pc = "siblings" => siblings = {}
    PROVE  IInv'
<1>1. CASE Unexpected(v.assets, build) # {}
  BY <1>1, StopStep, Bounds DEF ToAssets
<1>2. CASE Unexpected(v.assets, build) = {}
  <2> USE <1>2 DEF ToAssets, github
  <2>1. TypeOK'
    BY Bounds, ViewType, BuildShape, ZenonT(30) DEF IInv, TypeOK, Resting, Working
  <2>2. WaveChecked'
    BY DEF IInv, WaveChecked
  <2>3. Held'
    BY DEF Held
  <2> QED BY <2>1, <2>2, <2>3, QuietStep DEF IInv, Looked, NoneYet, Looping, DoneIsExact
<1> QED BY <1>1, <1>2

LEMMA ResolveTagStep == IInv /\ ResolveTag => IInv'
<1> SUFFICES ASSUME IInv, ResolveTag PROVE IInv'
  OBVIOUS
<1> USE DEF ResolveTag, AlreadyPublished
<1>1. CASE Stop("failed")
  BY <1>1, StopStep, Bounds
<1>2. CASE Stop("done") /\ found # {} /\ ~view.draft /\ ref[tag] = build.commit
           /\ Exact(view.assets, build) /\ view.locked
  <2> USE <1>2 DEF Stop, github
  <2>1. PICK i \in found : i \in ReleasesOf(tag) /\ view = ViewOf(i)
    BY DEF IInv, Looked
  <2>2. ~rel[i].draft /\ rel[i].locked /\ Exact(rel[i].assets, build)
    BY <2>1 DEF ViewOf
  <2>3. DoneIsExact'
    BY <2>1, <2>2 DEF DoneIsExact, ReleasesOf, Exact
  <2>4. TypeOK'
    BY Bounds DEF IInv, TypeOK, Resting
  <2> QED BY <2>3, <2>4, QuietStep DEF IInv, WaveChecked, Looked, NoneYet, Held, Looping,
            Working, Holding
<1>3. CASE /\ pc' \in {"createTag", "createRelease"} /\ UNCHANGED locals /\ found = {}
           /\ pc' = "createRelease" => ref[tag] = build.commit
  <2> USE <1>3 DEF locals, github
  <2>1. TypeOK'
    BY Bounds DEF IInv, TypeOK, Working
  <2>2. WaveChecked'
    BY DEF IInv, WaveChecked, Working
  <2>3. NoneYet'
    BY DEF IInv, Looked, NoneYet, ReleasesOf
  <2> QED BY <2>1, <2>2, <2>3, QuietStep DEF IInv, Looked, Held, Looping, DoneIsExact, Holding
<1>4. CASE \E i \in found : ToAssets(i, view) /\ view.draft /\ ref[tag] = build.commit
  <2>1. PICK i \in found : ToAssets(i, view) /\ view.draft /\ ref[tag] = build.commit
    BY <1>4
  <2>2. i \in DOMAIN rel /\ rel[i].tag = tag /\ rel[i].draft
    BY <2>1 DEF IInv, Looked, ReleasesOf, ViewOf
  <2> QED BY <2>1, <2>2, ToAssetsStep DEF IInv, TypeOK, Working
<1>5. found # {} => ref[tag] # NoCommit
  BY DEF IInv, Looked, OneWave, ReleasesOf
<1> QED BY <1>1, <1>2, <1>3, <1>4, <1>5

LEMMA RereadTagStep == IInv /\ RereadTag => IInv'
<1> SUFFICES ASSUME IInv, RereadTag PROVE IInv'
  OBVIOUS
<1> USE DEF RereadTag
<1>1. CASE ref[tag] # build.commit
  BY <1>1, StopStep, Bounds
<1>2. CASE ref[tag] = build.commit
  <2> USE <1>2 DEF locals, github
  <2>1. TypeOK'
    BY Bounds DEF IInv, TypeOK, Working
  <2>2. WaveChecked'
    BY DEF IInv, WaveChecked, Working
  <2>3. NoneYet'
    BY DEF IInv, NoneYet, ReleasesOf
  <2> QED BY <2>1, <2>2, <2>3, QuietStep DEF IInv, Looked, Held, Looping, DoneIsExact, Holding
<1> QED BY <1>1, <1>2

LEMMA ConfirmTagStep == IInv /\ ConfirmTag => IInv'
<1> SUFFICES ASSUME IInv, ConfirmTag PROVE IInv'
  OBVIOUS
<1> USE DEF ConfirmTag
<1>1. CASE ref[tag] # build.commit
  BY <1>1, StopStep, Bounds
<1>2. CASE ref[tag] = build.commit
  <2> USE <1>2 DEF locals, github
  <2>1. found = {}
    BY DEF IInv, NoneYet
  <2>2. TypeOK'
    BY <2>1, Bounds DEF IInv, TypeOK, Working
  <2>3. WaveChecked'
    BY <2>1 DEF IInv, WaveChecked, Working
  <2>4. NoneYet'
    BY <2>1 DEF IInv, NoneYet, ReleasesOf
  <2> QED BY <2>1, <2>2, <2>3, <2>4, QuietStep
          DEF IInv, Looked, Held, Looping, DoneIsExact, Holding
<1> QED BY <1>1, <1>2

LEMMA RelistStep == IInv /\ Relist => IInv'
<1> SUFFICES ASSUME IInv, Relist PROVE IInv'
  OBVIOUS
<1> USE DEF Relist
<1>1. CASE Stop("failed")
  BY <1>1, StopStep, Bounds
<1>2. CASE \E i \in ReleasesOf(tag) : rel[i].draft /\ ToAssets(i, ViewOf(i))
  <2>1. PICK i \in DOMAIN rel : rel[i].tag = tag /\ rel[i].draft /\ ToAssets(i, ViewOf(i))
    BY <1>2 DEF ReleasesOf
  <2>2. ref[tag] = build.commit /\ ViewOf(i) \in View
    BY ViewType DEF IInv, NoneYet
  <2> QED BY <2>1, <2>2, ToAssetsStep DEF Working
<1>3. CASE /\ ReleasesOf(tag) = {} /\ tries + 1 < MaxTries
           /\ pc' = "createRelease" /\ tries' = tries + 1
           /\ UNCHANGED <<siblings, found, view, todo>>
  <2> USE <1>3 DEF github
  <2>1. TypeOK'
    BY Bounds DEF IInv, TypeOK, Working
  <2>2. WaveChecked'
    BY DEF IInv, WaveChecked, Working
  <2>3. NoneYet'
    BY DEF IInv, NoneYet, ReleasesOf
  <2> QED BY <2>1, <2>2, <2>3, QuietStep DEF IInv, Looked, Held, Looping, DoneIsExact, Holding
<1>4. \A i \in ReleasesOf(tag) : rel[i].draft
  BY DEF IInv, NoneYet
<1>5. tries \in Nat /\ MaxTries \in Nat
  BY ReleaseAssumption DEF IInv, TypeOK
<1> QED BY <1>1, <1>2, <1>3, <1>4, <1>5

LEMMA VerifyDraftStep == IInv /\ VerifyDraft => IInv'
<1> SUFFICES ASSUME IInv, VerifyDraft PROVE IInv'
  OBVIOUS
<1> USE DEF VerifyDraft
<1>1. CASE Stop("failed")
  BY <1>1, StopStep, Bounds
<1>2. CASE /\ \E i \in found : Exact(rel[i].assets, build)
           /\ pc' = "recheckTag" /\ UNCHANGED locals
  <2> USE <1>2 DEF locals, github
  <2>1. TypeOK'
    BY Bounds DEF IInv, TypeOK, Working
  <2>2. WaveChecked'
    BY DEF IInv, WaveChecked, Working
  <2>3. Held'
    BY DEF IInv, Held, Holding, Exact
  <2> QED BY <2>1, <2>2, <2>3, QuietStep DEF IInv, Looked, NoneYet, Looping, DoneIsExact
<1> QED BY <1>1, <1>2

LEMMA RecheckTagStep == IInv /\ RecheckTag => IInv'
<1> SUFFICES ASSUME IInv, RecheckTag PROVE IInv'
  OBVIOUS
<1> USE DEF RecheckTag
<1>1. CASE Stop("failed")
  BY <1>1, StopStep, Bounds
<1>2. CASE pc' = "patch" /\ UNCHANGED locals
  <2> USE <1>2 DEF locals, github
  <2>1. TypeOK'
    BY Bounds DEF IInv, TypeOK, Working
  <2>2. WaveChecked'
    BY DEF IInv, WaveChecked, Working
  <2>3. Held'
    BY DEF IInv, Held, Holding, Exact
  <2> QED BY <2>1, <2>2, <2>3, QuietStep DEF IInv, Looked, NoneYet, Looping, DoneIsExact
<1> QED BY <1>1, <1>2

LEMMA ObserveStep == IInv /\ Observe => IInv'
<1> SUFFICES ASSUME IInv, Observe PROVE IInv'
  OBVIOUS
<1> USE DEF Observe
<1>1. CASE Stop("failed")
  BY <1>1, StopStep, Bounds
<1>2. PICK i \in found : i \in DOMAIN rel /\ found = {i} /\ ViewOf(i) \in View
  BY ViewType DEF IInv, Held, Holding
<1>3. CASE /\ pc' = "patch" /\ tries' = tries + 1 /\ tries + 1 < MaxTries /\ rel[i].draft
           /\ UNCHANGED <<siblings, found, view, todo>>
  <2> USE <1>3 DEF github
  <2>1. TypeOK'
    BY Bounds DEF IInv, TypeOK, Working
  <2>2. WaveChecked'
    BY DEF IInv, WaveChecked, Working
  <2>3. Held'
    BY <1>2 DEF IInv, Held, Holding, Exact
  <2> QED BY <2>1, <2>2, <2>3, QuietStep DEF IInv, Looked, NoneYet, Looping, DoneIsExact
<1>4. CASE /\ pc' = "finalTag" /\ view' = ViewOf(i) /\ ~rel[i].draft /\ rel[i].locked
           /\ UNCHANGED <<siblings, found, todo, tries>>
  <2> USE <1>4 DEF github
  <2>1. TypeOK'
    BY <1>2, Bounds DEF IInv, TypeOK, Working
  <2>2. WaveChecked'
    BY DEF IInv, WaveChecked, Working
  <2>3. Held'
    BY <1>2 DEF IInv, Held, Holding, Exact
  <2> QED BY <2>1, <2>2, <2>3, QuietStep DEF IInv, Looked, NoneYet, Looping, DoneIsExact
<1>5. tries \in Nat /\ MaxTries \in Nat
  BY ReleaseAssumption DEF IInv, TypeOK
<1> QED BY <1>1, <1>2, <1>3, <1>4, <1>5

LEMMA FinalTagStep == IInv /\ FinalTag => IInv'
<1> SUFFICES ASSUME IInv, FinalTag PROVE IInv'
  OBVIOUS
<1> USE DEF FinalTag
<1>1. CASE Stop("failed")
  BY <1>1, StopStep, Bounds
<1>2. CASE Stop("done") /\ ref[tag] = build.commit
  <2> USE <1>2 DEF Stop, github
  <2>1. DoneIsExact'
    BY DEF IInv, Held, Holding, DoneIsExact, ReleasesOf, Exact
  <2>2. TypeOK'
    BY Bounds DEF IInv, TypeOK, Resting
  <2> QED BY <2>1, <2>2, QuietStep DEF IInv, WaveChecked, Looked, NoneYet, Held, Looping,
            Working, Holding
<1> QED BY <1>1, <1>2

-----------------------------------------------------------------------------
(* Steps that change GitHub *)

LEMMA CreateTagStep == IInv /\ CreateTag => IInv'
<1> SUFFICES ASSUME IInv, CreateTag PROVE IInv'
  OBVIOUS
<1> USE DEF CreateTag, locals
<1>1. found = {} /\ ReleasesOf(tag) = {} /\ pc' \in {"confirmTag", "rereadTag"}
  BY DEF IInv, NoneYet
<1>2. \A i \in DOMAIN rel : rel[i].tag # tag /\ ref'[rel[i].tag] = ref[rel[i].tag]
  BY <1>1, ViewType DEF IInv, TypeOK, ReleasesOf
<1>3. TypeOK'
  BY <1>1, Bounds, BuildShape DEF IInv, TypeOK, Working
<1>4. OneReleasePerTag' /\ OneWave'
  BY <1>2 DEF IInv, OneReleasePerTag, OneWave
<1>5. PublishedWhole'
  BY <1>2 DEF IInv, PublishedWhole, Exact
<1>6. WaveChecked'
  BY <1>1, <1>2 DEF IInv, WaveChecked, Working
<1>7. NoneYet'
  BY <1>1 DEF NoneYet, ReleasesOf
<1> QED BY <1>1, <1>3, <1>4, <1>5, <1>6, <1>7
        DEF IInv, Looked, Held, Looping, DoneIsExact, Holding

LEMMA CreateReleaseStep == IInv /\ CreateRelease => IInv'
<1> SUFFICES ASSUME IInv, CreateRelease PROVE IInv'
  OBVIOUS
<1> USE DEF CreateRelease
<1>1. found = {} /\ ReleasesOf(tag) = {} /\ ref[tag] = build.commit
  BY DEF IInv, NoneYet
<1>2. ~Occupied(tag)
  BY <1>1 DEF Occupied
<1>3. CASE pc' = "relist" /\ rel' = rel /\ UNCHANGED locals /\ Fault
  <2> USE <1>3 DEF locals, github
  <2>1. TypeOK'
    BY Bounds DEF IInv, TypeOK, Working
  <2>2. WaveChecked'
    BY DEF IInv, WaveChecked, Working
  <2>3. NoneYet'
    BY <1>1 DEF NoneYet, ReleasesOf
  <2> QED BY <2>1, <2>2, <2>3, QuietStep DEF IInv, Looked, Held, Looping, DoneIsExact, Holding
<1>4. ASSUME NEW i \in Ids \ DOMAIN rel, rel' = Drafted(i),
             UNCHANGED <<ref, immutable, tag, build, calls>>
      PROVE  /\ DOMAIN rel' = DOMAIN rel \cup {i} /\ DOMAIN rel' \subseteq Ids
             /\ rel' \in [DOMAIN rel' -> Release]
             /\ rel'[i] = NewDraft /\ \A j \in DOMAIN rel : rel'[j] = rel[j] /\ rel[j].tag # tag
             /\ OneReleasePerTag' /\ OneWave' /\ PublishedWhole'
             /\ \A j \in DOMAIN rel' : rel'[j].tag = tag \/ ref'[rel'[j].tag] = build'.commit
             /\ \A j \in ReleasesOf(tag)' : rel'[j].draft
  <2> USE <1>4 DEF Drafted
  <2>1. /\ DOMAIN rel' = DOMAIN rel \cup {i} /\ DOMAIN rel' \subseteq Ids
        /\ rel'[i] = NewDraft /\ \A j \in DOMAIN rel : rel'[j] = rel[j] /\ rel[j].tag # tag
    BY <1>1 DEF IInv, TypeOK, ReleasesOf
  <2>5. tag \in Tags /\ build.commit \in Commits /\ build.commit # NoCommit
    BY ONLY IInv, JobShape
  <2>2. NewDraft \in Release /\ NewDraft.tag = tag /\ NewDraft.draft
    <3>1. NoAssets \in Assets
      BY Bounds
    <3> HIDE DEF Drafted, CreateRelease
    <3> QED BY ONLY <2>5, <3>1 DEF NewDraft, Release
  <2>3. rel' \in [DOMAIN rel' -> Release]
    <3>1. \A j \in DOMAIN rel \cup {i} : rel'[j] \in Release
      BY <2>1, <2>2, ViewType
    <3> QED BY <2>1, <3>1
  <2>4. \A j \in DOMAIN rel : ref[rel[j].tag] = build.commit
    BY <2>1 DEF IInv, WaveChecked, Working
  <2>6. OneReleasePerTag'
    BY <2>1, <2>2 DEF IInv, OneReleasePerTag
  <2>7. OneWave'
    BY <1>1, <2>1, <2>2, <2>4, <2>5 DEF OneWave
  <2>8. PublishedWhole'
    <3>1. PublishedWhole /\ ref' = ref
      BY DEF IInv
    <3>2. \A j \in DOMAIN rel' : ~rel'[j].draft => j \in DOMAIN rel /\ rel'[j] = rel[j]
      BY <2>1, <2>2
    <3> HIDE DEF Drafted, CreateRelease
    <3> QED BY ONLY <3>1, <3>2 DEF PublishedWhole, Exact
  <2>9. \A j \in ReleasesOf(tag)' : rel'[j].draft
    BY <2>1, <2>2 DEF ReleasesOf
  <2> QED BY <2>1, <2>2, <2>3, <2>4, <2>6, <2>7, <2>8, <2>9
<1>5. ASSUME NEW i \in Ids \ DOMAIN rel, rel' = Drafted(i), pc' = "relist", UNCHANGED locals, Fault
      PROVE  IInv'
  <2> USE <1>4, <1>5 DEF locals
  <2>1. TypeOK'
    BY Bounds DEF IInv, TypeOK, Working
  <2>2. WaveChecked'
    BY DEF WaveChecked
  <2>3. NoneYet'
    BY <1>1 DEF NoneYet
  <2> QED BY <2>1, <2>2, <2>3 DEF IInv, Looked, Held, Looping, DoneIsExact, Holding
<1>6. ASSUME NEW i \in Ids \ DOMAIN rel, rel' = Drafted(i), ToAssets(i, NoView), Smooth
      PROVE  IInv'
  <2> USE <1>4, <1>6
  <2>1. Unexpected(NoView.assets, build) = {}
    BY DEF Unexpected, NoView, NoAssets
  <2> USE <2>1 DEF ToAssets
  <2>2. TypeOK'
    BY Bounds, BuildShape DEF IInv, TypeOK, Working
  <2>3. WaveChecked'
    BY DEF WaveChecked
  <2>4. Held'
    <3>1. pc' = "assets" /\ found' = {i} /\ i \in DOMAIN rel' /\ rel'[i] = NewDraft
      OBVIOUS
    <3>2. /\ tag' = tag /\ ref'[tag'] = build'.commit
          /\ NewDraft.tag = tag /\ NewDraft.draft = TRUE
      BY <1>1 DEF NewDraft
    <3> HIDE DEF CreateRelease, ToAssets
    <3> QED BY <3>1, <3>2 DEF Held
  <2> QED BY <2>2, <2>3, <2>4 DEF IInv, Looked, NoneYet, Looping, DoneIsExact
<1> QED BY <1>2, <1>3, <1>5, <1>6

Loop == {"assets", "upload", "refresh", "clear"}

\* What a change of one asset of the call's own draft keeps.
LEMMA OwnAsset ==
    ASSUME IInv, pc \in Loop, UNCHANGED <<ref, immutable, tag, build>>,
           NEW i \in found, NEW n \in Names, NEW a \in Digests \cup {Absent, Starter},
           SetAsset(i, n, a)
    PROVE  /\ DOMAIN rel' = DOMAIN rel
           /\ rel' \in [DOMAIN rel' -> Release]
           /\ \A j \in DOMAIN rel : rel'[j].tag = rel[j].tag /\ rel'[j].draft = rel[j].draft
           /\ OneReleasePerTag' /\ OneWave' /\ PublishedWhole'
<1> USE DEF SetAsset
<1>1. i \in DOMAIN rel /\ rel[i].draft /\ rel[i] \in Release
  BY ViewType DEF IInv, Held, Holding, Loop
<1>2. /\ DOMAIN rel' = DOMAIN rel
      /\ \A j \in DOMAIN rel : j # i => rel'[j] = rel[j]
      /\ rel'[i] \in Release /\ rel'[i].tag = rel[i].tag /\ rel'[i].draft = rel[i].draft
  BY <1>1 DEF IInv, TypeOK, Release, Assets
<1>3. \A j \in DOMAIN rel : rel'[j].tag = rel[j].tag /\ rel'[j].draft = rel[j].draft
  BY <1>2
<1>4. rel' \in [DOMAIN rel' -> Release]
  <2>1. \A j \in DOMAIN rel : rel'[j] \in Release
    BY <1>2, ViewType
  <2>2. rel' = [j \in DOMAIN rel |-> rel'[j]]
    BY <1>2
  <2> QED BY <1>2, <2>1, <2>2
<1>5. OneReleasePerTag' /\ OneWave'
  BY <1>2, <1>3 DEF IInv, OneReleasePerTag, OneWave
<1>6. PublishedWhole'
  BY <1>1, <1>2, <1>3 DEF IInv, PublishedWhole, Exact
<1> QED BY <1>2, <1>3, <1>4, <1>5, <1>6

\* Every step of the loop: GitHub changes by at most one asset of the draft,
\* and the call goes on with the same draft or stops.
LEMMA LoopStep ==
    ASSUME IInv, pc \in Loop, UNCHANGED <<ref, immutable, tag, build, calls>>,
           faults' \in 0..MaxFaults,
           \/ rel' = rel
           \/ \E i \in found, n \in Names, a \in Digests \cup {Absent, Starter} : SetAsset(i, n, a),
           \/ Stop("failed")
           \/ /\ pc' \in Loop \cup {"verify"}
              /\ UNCHANGED <<siblings, found, view>>
              /\ todo' \subseteq todo
              /\ pc' \in Loop \ {"assets"} => todo' # {}
              /\ tries' \in 0..MaxTries
    PROVE  IInv'
<1>1. /\ DOMAIN rel' = DOMAIN rel
      /\ rel' \in [DOMAIN rel' -> Release]
      /\ \A j \in DOMAIN rel : rel'[j].tag = rel[j].tag /\ rel'[j].draft = rel[j].draft
      /\ OneReleasePerTag' /\ OneWave' /\ PublishedWhole'
  <2>1. CASE rel' = rel
    BY <2>1, QuietStep DEF github, IInv, TypeOK
  <2>2. CASE \E i \in found, n \in Names, a \in Digests \cup {Absent, Starter} : SetAsset(i, n, a)
    BY <2>2, OwnAsset
  <2> QED BY <2>1, <2>2
<1>2. CASE Stop("failed")
  <2>1. TypeOK'
    BY <1>1, <1>2, Bounds DEF IInv, TypeOK, Stop, Resting
  <2> QED BY <1>1, <1>2, <2>1 DEF Stop, IInv, WaveChecked, Looked, NoneYet, Held, Looping,
            DoneIsExact, Working, Holding
<1>3. CASE /\ pc' \in Loop \cup {"verify"}
           /\ UNCHANGED <<siblings, found, view>>
           /\ todo' \subseteq todo
           /\ pc' \in Loop \ {"assets"} => todo' # {}
           /\ tries' \in 0..MaxTries
  <2> USE <1>3 DEF Loop
  <2>1. TypeOK'
    BY <1>1 DEF IInv, TypeOK, Working
  <2>2. WaveChecked'
    BY <1>1 DEF IInv, WaveChecked, Working
  <2>3. Held'
    BY <1>1 DEF IInv, Held, Holding
  <2>4. Looping'
    BY DEF IInv, Looping
  <2> QED BY <1>1, <2>1, <2>2, <2>3, <2>4 DEF IInv, Looked, NoneYet, DoneIsExact
<1> QED BY <1>2, <1>3

\* The file the loop has reached is one of the staged files.
LEMMA CurrentName ==
    ASSUME IInv, pc \in Loop, todo # {}
    PROVE  /\ Current \in todo /\ Current \in Names
           /\ build.files[Current] \in Digests
<1>1. Current \in todo
  BY DEF Current
<1>2. todo \subseteq DOMAIN build.files
  BY DEF IInv, Looping, Loop
<1> QED BY <1>1, <1>2, JobShape

LEMMA NextAssetStep == IInv /\ NextAsset => IInv'
<1> SUFFICES ASSUME IInv, NextAsset PROVE IInv'
  OBVIOUS
<1>1. pc \in Loop /\ faults' \in 0..MaxFaults
  BY Bounds DEF NextAsset, Loop
<1>2. CASE todo = {}
  <2>1. /\ pc' = "verify" /\ rel' = rel /\ UNCHANGED locals
        /\ UNCHANGED <<ref, immutable, tag, build, calls>>
    BY <1>2 DEF NextAsset
  <2>2. tries' \in 0..MaxTries
    BY <2>1 DEF locals, IInv, TypeOK
  <2> QED BY <1>1, <2>1, <2>2, LoopStep DEF locals, Loop
<1>3. CASE todo # {}
  <2>1. Current \in Names
    BY <1>1, <1>3, CurrentName
  <2>2. \/ rel' = rel
        \/ \E i \in found, n \in Names, a \in Digests \cup {Absent, Starter} : SetAsset(i, n, a)
    BY <1>3, <2>1 DEF NextAsset
  <2>3. \/ Stop("failed")
        \/ /\ pc' \in {"assets", "upload"}
           /\ UNCHANGED <<siblings, found, view>>
           /\ todo' \subseteq todo
           /\ pc' = "upload" => todo' # {}
           /\ tries' \in 0..MaxTries
    BY <1>3, Bounds DEF NextAsset, Settled, locals, IInv, TypeOK
  <2>4. UNCHANGED <<ref, immutable, tag, build, calls>>
    BY DEF NextAsset
  <2> QED BY <1>1, <2>2, <2>3, <2>4, LoopStep DEF Loop
<1> QED BY <1>2, <1>3

LEMMA UploadStep == IInv /\ Upload => IInv'
<1> SUFFICES ASSUME IInv, Upload PROVE IInv'
  OBVIOUS
<1>1. pc \in Loop /\ faults' \in 0..MaxFaults /\ todo # {}
  BY Bounds DEF Upload, Loop, IInv, Looping
<1>2. Current \in Names /\ build.files[Current] \in Digests
  BY <1>1, CurrentName
<1>3. \/ rel' = rel
      \/ \E i \in found, n \in Names, a \in Digests \cup {Absent, Starter} : SetAsset(i, n, a)
  BY <1>2, ReleaseAssumption DEF Upload
<1>4. /\ pc' \in {"assets", "refresh"}
      /\ UNCHANGED <<siblings, found, view>>
      /\ todo' \subseteq todo
      /\ pc' = "refresh" => todo' # {}
      /\ tries' \in 0..MaxTries
  BY <1>1, Bounds DEF Upload, Settled, locals, IInv, TypeOK
<1>5. UNCHANGED <<ref, immutable, tag, build, calls>>
  BY DEF Upload
<1> QED BY <1>1, <1>3, <1>4, <1>5, LoopStep DEF Loop

LEMMA RefreshStep == IInv /\ Refresh => IInv'
<1> SUFFICES ASSUME IInv, Refresh PROVE IInv'
  OBVIOUS
<1>1. pc \in Loop /\ faults' \in 0..MaxFaults /\ todo # {}
  BY Bounds DEF Refresh, Loop, IInv, Looping
<1>2. tries \in Nat /\ MaxTries \in Nat
  BY ReleaseAssumption DEF IInv, TypeOK
<1>3. \/ Stop("failed")
      \/ /\ pc' \in {"assets", "upload", "clear"}
         /\ UNCHANGED <<siblings, found, view>>
         /\ todo' \subseteq todo
         /\ pc' \in {"upload", "clear"} => todo' # {}
         /\ tries' \in 0..MaxTries
  BY <1>1, <1>2, Bounds DEF Refresh, RetryUpload, Settled, locals, IInv, TypeOK
<1>4. UNCHANGED <<ref, rel, immutable, tag, build, calls>>
  BY DEF Refresh, github
<1> QED BY <1>1, <1>3, <1>4, LoopStep DEF Loop

LEMMA ClearStarterStep == IInv /\ ClearStarter => IInv'
<1> SUFFICES ASSUME IInv, ClearStarter PROVE IInv'
  OBVIOUS
<1>1. pc \in Loop /\ faults' \in 0..MaxFaults /\ todo # {}
  BY Bounds DEF ClearStarter, Loop, IInv, Looping
<1>2. tries \in Nat /\ MaxTries \in Nat /\ Current \in Names
  BY <1>1, CurrentName, ReleaseAssumption DEF IInv, TypeOK
<1>3. \/ rel' = rel
      \/ \E i \in found, n \in Names, a \in Digests \cup {Absent, Starter} : SetAsset(i, n, a)
  BY <1>2 DEF ClearStarter
<1>4. \/ Stop("failed")
      \/ /\ pc' = "upload"
         /\ UNCHANGED <<siblings, found, view>>
         /\ todo' = todo
         /\ tries' \in 0..MaxTries
  BY <1>2, Bounds DEF ClearStarter, RetryUpload
<1>5. UNCHANGED <<ref, immutable, tag, build, calls>>
  BY DEF ClearStarter
<1> QED BY <1>1, <1>3, <1>4, <1>5, LoopStep DEF Loop

\* Publication changes one release, and of it only the draft and lock flags.
LEMMA PatchEffect ==
    ASSUME IInv, Patch
    PROVE  \E i \in DOMAIN rel :
             /\ found = {i} /\ rel[i].tag = tag /\ rel[i].draft
             /\ ref' = ref /\ ref[tag] = build.commit /\ Exact(rel[i].assets, build)
             /\ DOMAIN rel' = DOMAIN rel
             /\ \A j \in DOMAIN rel : j # i => rel'[j] = rel[j]
             /\ rel'[i] \in Release
             /\ rel'[i].tag = rel[i].tag /\ rel'[i].assets = rel[i].assets
             /\ rel' = rel \/ ~rel'[i].draft
<1>1. PICK i \in DOMAIN rel : /\ found = {i} /\ rel[i].tag = tag /\ rel[i].draft
                              /\ ref[tag] = build.commit /\ Exact(rel[i].assets, build)
  BY DEF IInv, Held, Holding, Patch
<1>2. rel[i] \in Release /\ immutable \in BOOLEAN /\ ref \in [Tags -> Commits \cup {NoCommit}]
  BY ViewType DEF IInv, TypeOK
<1>3. CASE UNCHANGED <<ref, rel>>
  BY <1>1, <1>2, <1>3
<1>4. CASE Undraft(i)
  <2>1. ref' = ref
    BY <1>1, <1>2, <1>4, JobShape DEF Undraft
  <2>2. /\ DOMAIN rel' = DOMAIN rel
        /\ \A j \in DOMAIN rel : j # i => rel'[j] = rel[j]
    BY <1>1, <1>4 DEF Undraft
  <2>3. rel'[i] = [rel[i] EXCEPT !.draft = FALSE, !.locked = immutable]
    BY <1>1, <1>4 DEF Undraft, IInv, TypeOK
  <2>4. /\ rel'[i] \in Release /\ ~rel'[i].draft
        /\ rel'[i].tag = rel[i].tag /\ rel'[i].assets = rel[i].assets
    BY <1>2, <2>3 DEF Release
  <2> QED BY <1>1, <2>1, <2>2, <2>4
<1> QED BY <1>1, <1>3, <1>4 DEF Patch

LEMMA PatchStep == IInv /\ Patch => IInv'
<1> SUFFICES ASSUME IInv, Patch PROVE IInv'
  OBVIOUS
<1>1. PICK i \in DOMAIN rel :
             /\ found = {i} /\ rel[i].tag = tag /\ rel[i].draft
             /\ ref' = ref /\ ref[tag] = build.commit /\ Exact(rel[i].assets, build)
             /\ DOMAIN rel' = DOMAIN rel
             /\ \A j \in DOMAIN rel : j # i => rel'[j] = rel[j]
             /\ rel'[i] \in Release
             /\ rel'[i].tag = rel[i].tag /\ rel'[i].assets = rel[i].assets
             /\ rel' = rel \/ ~rel'[i].draft
  BY PatchEffect
<1>2. pc' = "observe" /\ UNCHANGED <<immutable, tag, build, locals, calls>>
  BY DEF Patch
<1>3. faults' \in 0..MaxFaults
  BY Bounds DEF Patch
<1>4. rel' \in [DOMAIN rel' -> Release]
  <2>1. \A j \in DOMAIN rel : rel'[j] \in Release
    BY <1>1, ViewType
  <2>2. rel' = [j \in DOMAIN rel |-> rel'[j]]
    BY <1>1 DEF Patch, Undraft, IInv, TypeOK
  <2> QED BY <1>1, <2>1, <2>2
<1>5. \A j \in DOMAIN rel : rel'[j].tag = rel[j].tag /\ rel'[j].assets = rel[j].assets
  BY <1>1
<1>6. TypeOK'
  BY <1>1, <1>2, <1>3, <1>4 DEF IInv, TypeOK, locals, Working
<1>7. OneReleasePerTag' /\ OneWave'
  BY <1>1, <1>5 DEF IInv, OneReleasePerTag, OneWave
<1>8. PublishedWhole'
  <2> SUFFICES ASSUME NEW j \in DOMAIN rel, ~rel'[j].draft
               PROVE  \E b \in Builds : b.commit = ref[rel[j].tag] /\ Exact(rel[j].assets, b)
    BY <1>1, <1>5 DEF PublishedWhole, Exact
  <2>1. CASE j = i
    BY <2>1, <1>1, JobShape
  <2>2. CASE j # i
    BY <2>2, <1>1 DEF IInv, PublishedWhole
  <2> QED BY <2>1, <2>2
<1>9. WaveChecked'
  BY <1>1, <1>2, <1>5 DEF IInv, WaveChecked, Working, Patch
<1>10. Held'
  BY <1>1, <1>2 DEF Held, locals, Exact
<1> QED BY <1>2, <1>6, <1>7, <1>8, <1>9, <1>10
        DEF IInv, Looked, NoneYet, Looping, DoneIsExact

-----------------------------------------------------------------------------
LEMMA Inductive == IInv /\ [Next]_vars => IInv'
<1> SUFFICES ASSUME IInv, [Next]_vars PROVE IInv'
  OBVIOUS
<1>1. CASE UNCHANGED vars
  BY <1>1 DEF vars, IInv, TypeOK, OneReleasePerTag, OneWave, WaveChecked, Looked, NoneYet, Held,
     Looping, PublishedWhole, DoneIsExact, Exact, ReleasesOf, ViewOf
<1>2. CASE Start
  BY <1>2, StartStep
<1>3. CASE Interrupt
  BY <1>3, InterruptStep
<1>4. CASE ListReleases \/ CheckSibling \/ ResolveTag
  BY <1>4, ListReleasesStep, CheckSiblingStep, ResolveTagStep
<1>5. CASE CreateTag \/ RereadTag \/ ConfirmTag
  BY <1>5, CreateTagStep, RereadTagStep, ConfirmTagStep
<1>6. CASE CreateRelease \/ Relist
  BY <1>6, CreateReleaseStep, RelistStep
<1>7. CASE NextAsset \/ Upload \/ Refresh \/ ClearStarter
  BY <1>7, NextAssetStep, UploadStep, RefreshStep, ClearStarterStep
<1>8. CASE VerifyDraft \/ RecheckTag \/ Patch \/ Observe \/ FinalTag
  BY <1>8, VerifyDraftStep, RecheckTagStep, PatchStep, ObserveStep, FinalTagStep
<1> QED BY <1>1, <1>2, <1>3, <1>4, <1>5, <1>6, <1>7, <1>8 DEF Next, Publisher

LEMMA Invariance == Spec => []IInv
BY Initially, Inductive, PTL DEF Spec

\* The variables keep their types, for any tags, files, builds and bounds.
THEOREM TypeCorrect == Spec => []TypeOK
<1>1. IInv => TypeOK
  BY DEF IInv
<1> QED BY <1>1, Invariance, PTL

\* publish() reports success only over a locked release of exactly the staged
\* files whose tag is at the call's commit.
THEOREM SuccessIsExact == Spec => []DoneIsExact
<1>1. IInv => DoneIsExact
  BY DEF IInv
<1> QED BY <1>1, Invariance, PTL

\* No sequence of lost requests, cut-off calls and reruns leaves two releases
\* under one tag.
THEOREM NoDuplicates == Spec => []OneReleasePerTag
<1>1. IInv => OneReleasePerTag
  BY DEF IInv
<1> QED BY <1>1, Invariance, PTL

\* The releases of a wave, drafts included, have tags at one commit.
THEOREM WaveAgrees == Spec => []OneWave
<1>1. IInv => OneWave
  BY DEF IInv
<1> QED BY <1>1, Invariance, PTL

-----------------------------------------------------------------------------
(* Refinement of ReleaseLedger *)

\* Two consecutive states have the same published releases at the same commits.
PublishedKept ==
    /\ \A i \in DOMAIN rel : ~rel[i].draft =>
          i \in DOMAIN rel' /\ rel'[i] = rel[i] /\ ref'[rel[i].tag] = ref[rel[i].tag]
    /\ \A i \in DOMAIN rel' : ~rel'[i].draft => i \in DOMAIN rel /\ ~rel[i].draft

LEMMA KeptLedger == PublishedKept => LedgerOf' = LedgerOf
<1> SUFFICES ASSUME PublishedKept PROVE LedgerOf' = LedgerOf
  OBVIOUS
<1> DEFINE Pub(t) == {j \in ReleasesOf(t) : ~rel[j].draft}
<1>1. ASSUME NEW t \in Tags
      PROVE  /\ Pub(t)' = Pub(t)
             /\ \A i \in Pub(t) : FilesOf(i)' = FilesOf(i) /\ ref'[t] = ref[t]
  <2>1. Pub(t)' = Pub(t)
    BY DEF PublishedKept, ReleasesOf
  <2>2. \A i \in Pub(t) : rel'[i] = rel[i] /\ ref'[t] = ref[t]
    BY DEF PublishedKept, ReleasesOf
  <2> QED BY <2>1, <2>2 DEF FilesOf
<1>2. ASSUME NEW t \in Tags
      PROVE  {[commit |-> ref[t], files |-> FilesOf(i)] : i \in Pub(t)}'
               = {[commit |-> ref[t], files |-> FilesOf(i)] : i \in Pub(t)}
  BY <1>1
<1> QED BY <1>2 DEF LedgerOf

\* Only Patch publishes anything.
LEMMA QuietLedger == IInv /\ [Next]_vars /\ ~Patch => PublishedKept
<1> SUFFICES ASSUME IInv, [Next]_vars, ~Patch PROVE PublishedKept
  OBVIOUS
<1>1. CASE UNCHANGED <<ref, rel>>
  BY <1>1 DEF PublishedKept
<1>2. CASE CreateTag
  <2>1. rel' = rel /\ ReleasesOf(tag) = {}
    BY <1>2 DEF CreateTag, IInv, NoneYet
  <2>2. \A i \in DOMAIN rel : ref'[rel[i].tag] = ref[rel[i].tag]
    BY <1>2, <2>1, ViewType DEF CreateTag, ReleasesOf, IInv, TypeOK
  <2> QED BY <2>1, <2>2 DEF PublishedKept
<1>3. CASE CreateRelease
  <2>1. CASE rel' = rel
    BY <1>3, <2>1 DEF CreateRelease, PublishedKept
  <2>2. CASE \E i \in Ids \ DOMAIN rel : rel' = Drafted(i)
    <3>1. PICK i \in Ids \ DOMAIN rel : rel' = Drafted(i)
      BY <2>2
    <3>2. /\ DOMAIN rel' = DOMAIN rel \cup {i} /\ rel'[i] = NewDraft
          /\ \A j \in DOMAIN rel : rel'[j] = rel[j]
      BY <3>1 DEF Drafted
    <3>3. NewDraft.draft = TRUE /\ ref' = ref
      BY <1>3 DEF NewDraft, CreateRelease
    <3> QED BY <3>2, <3>3 DEF PublishedKept
  <2> QED BY <1>3, <2>1, <2>2 DEF CreateRelease
<1>4. CASE NextAsset \/ Upload \/ ClearStarter
  <2>1. pc \in Loop /\ ref' = ref
    BY <1>4 DEF NextAsset, Upload, ClearStarter, Loop
  <2>2. \/ rel' = rel
        \/ \E i \in found : \E n, a : SetAsset(i, n, a)
    BY <1>4 DEF NextAsset, Upload, ClearStarter
  <2>3. \A i \in found : rel[i].draft /\ i \in DOMAIN rel
    BY <2>1 DEF IInv, Held, Holding, Loop
  <2>4. ASSUME NEW i \in found, NEW n, NEW a, SetAsset(i, n, a)
        PROVE  PublishedKept
    <3>1. /\ DOMAIN rel' = DOMAIN rel
          /\ \A j \in DOMAIN rel : j # i => rel'[j] = rel[j]
      BY <2>4 DEF SetAsset
    <3>2. rel'[i].draft = rel[i].draft
      <4>1. rel[i] \in Release
        BY <2>3, ViewType
      <4> QED BY <2>3, <2>4, <4>1 DEF SetAsset, Release
    <3> QED BY <2>1, <2>3, <3>1, <3>2 DEF PublishedKept
  <2> QED BY <2>1, <2>2, <2>4 DEF PublishedKept
<1>5. CASE \/ Start \/ Interrupt \/ ListReleases \/ CheckSibling \/ ResolveTag \/ RereadTag
           \/ ConfirmTag \/ Relist \/ Refresh \/ VerifyDraft \/ RecheckTag \/ Observe \/ FinalTag
  BY <1>1, <1>5 DEF Start, Interrupt, ListReleases, CheckSibling, ResolveTag, RereadTag,
     ConfirmTag, Relist, Refresh, VerifyDraft, RecheckTag, Observe, FinalTag, github
<1> QED BY <1>1, <1>2, <1>3, <1>4, <1>5 DEF Next, Publisher, vars

\* Patch adds one whole build under one free tag, or does nothing.
LEMMA PatchLedger == IInv /\ Patch => [Ledger!Next]_LedgerOf
<1> SUFFICES ASSUME IInv, Patch PROVE [Ledger!Next]_LedgerOf
  OBVIOUS
<1>1. PICK i \in DOMAIN rel :
             /\ found = {i} /\ rel[i].tag = tag /\ rel[i].draft
             /\ ref' = ref /\ ref[tag] = build.commit /\ Exact(rel[i].assets, build)
             /\ DOMAIN rel' = DOMAIN rel
             /\ \A j \in DOMAIN rel : j # i => rel'[j] = rel[j]
             /\ rel'[i] \in Release
             /\ rel'[i].tag = rel[i].tag /\ rel'[i].assets = rel[i].assets
             /\ rel' = rel \/ ~rel'[i].draft
  BY PatchEffect
<1>2. CASE rel' = rel
  BY <1>1, <1>2, KeptLedger DEF PublishedKept
<1>3. CASE ~rel'[i].draft
  <2>1. ReleasesOf(tag) = {i} /\ ReleasesOf(tag)' = {i}
    <3>1. \A j \in DOMAIN rel : rel[j].tag = tag <=> j = i
      BY <1>1 DEF IInv, OneReleasePerTag
    <3>2. tag' = tag /\ \A j \in DOMAIN rel : rel'[j].tag = rel[j].tag
      BY <1>1 DEF Patch
    <3> QED BY <1>1, <3>1, <3>2 DEF ReleasesOf
  <2>2. LedgerOf[tag] = {}
    <3>1. {j \in ReleasesOf(tag) : ~rel[j].draft} = {}
      BY <1>1, <2>1
    <3>2. tag \in Tags
      BY JobShape
    <3>3. {[commit |-> ref[tag], files |-> FilesOf(j)] :
             j \in {j \in ReleasesOf(tag) : ~rel[j].draft}} = {}
      BY <3>1
    <3> QED BY <3>2, <3>3, Zenon DEF LedgerOf
  <2>3. FilesOf(i)' = build.files
    <3>1. FilesOf(i)' = [n \in {m \in Names : rel[i].assets[m] # Absent} |-> rel[i].assets[n]]
      BY <1>1 DEF FilesOf
    <3>2. {m \in Names : rel[i].assets[m] # Absent} = DOMAIN build.files
      BY <1>1, JobShape, ReleaseAssumption DEF Exact
    <3>3. build.files = [n \in DOMAIN build.files |-> build.files[n]]
      BY JobShape, BuildShape
    <3> QED BY <1>1, <3>1, <3>2, <3>3, JobShape DEF Exact
  <2>4. LedgerOf'[tag] = {build}
    <3>1. {j \in ReleasesOf(tag) : ~rel[j].draft}' = {i}
      BY <1>3, <2>1
    <3>2. build = [commit |-> build.commit, files |-> build.files]
      BY JobShape, BuildShape
    <3>3. {[commit |-> ref[tag], files |-> FilesOf(j)] :
             j \in {j \in ReleasesOf(tag) : ~rel[j].draft}}' = {build}
      BY <1>1, <2>3, <3>1, <3>2 DEF Patch
    <3>4. tag' = tag /\ tag \in Tags
      BY JobShape DEF Patch
    <3> QED BY <3>3, <3>4 DEF LedgerOf
  <2>5. ASSUME NEW t \in Tags, t # tag PROVE LedgerOf'[t] = LedgerOf[t]
    <3> DEFINE Pub == {j \in ReleasesOf(t) : ~rel[j].draft}
    <3>1. Pub' = Pub /\ \A j \in Pub : rel'[j] = rel[j]
      BY <1>1, <2>5 DEF ReleasesOf
    <3>2. \A j \in Pub : FilesOf(j)' = FilesOf(j)
      BY <3>1 DEF FilesOf
    <3>3. {[commit |-> ref[t], files |-> FilesOf(j)] : j \in Pub}'
            = {[commit |-> ref[t], files |-> FilesOf(j)] : j \in Pub}
      BY <1>1, <3>1, <3>2
    <3> QED BY <3>3, Zenon DEF LedgerOf
  <2>6. LedgerOf' = [LedgerOf EXCEPT ![tag] = {build}]
    BY <2>4, <2>5, JobShape DEF LedgerOf
  <2>7. \A s \in Tags : \A other \in LedgerOf[s] : other.commit = build.commit
    <3> SUFFICES ASSUME NEW s \in Tags, NEW j \in ReleasesOf(s)
                 PROVE  ref[s] = build.commit
      BY DEF LedgerOf
    <3> QED BY <1>1 DEF IInv, OneWave, ReleasesOf
  <2> QED BY <2>2, <2>6, <2>7, JobShape DEF Ledger!Next, Ledger!Publish
<1> QED BY <1>1, <1>2, <1>3

\* The published releases of a wave form an append-only ledger of whole builds
\* of one commit, whatever is lost, cut off or rerun.
THEOREM LedgerRefined == Spec => ImplementsLedger
<1>1. Init => Ledger!Init
  BY DEF Init, Ledger!Init, LedgerOf, ReleasesOf
<1>2. IInv /\ [Next]_vars => [Ledger!Next]_LedgerOf
  BY QuietLedger, KeptLedger, PatchLedger
<1> QED BY <1>1, <1>2, Invariance, PTL DEF Spec, ImplementsLedger, Ledger!Spec
=============================================================================
