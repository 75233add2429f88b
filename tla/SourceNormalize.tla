-------------------------- MODULE SourceNormalize --------------------------
(***************************************************************************)
(* tools/source_api_normalize.py: a VMOD's source tree, written for one    *)
(* engine family, is rewritten for the other by replacements that are      *)
(* applied one after the other to every file.  A text is a sequence of     *)
(* fragments; a fragment that is a family's name, in one of its forms, is  *)
(* told apart from the plain text around it.                               *)
(***************************************************************************)
EXTENDS Naturals, Sequences, SequencesExt

CONSTANTS
    FileKinds,            \* the files the rules tell apart: "c", "m4", "vtc", "vsc" and
                          \* those they skip: links, binary ones, those under .git
    Words,                \* what a source may hold (see below)
    MaxWords, MaxFiles    \* bounds

ASSUME NormalizeAssumption == {MaxWords, MaxFiles} \subseteq Nat

VARIABLES
    direction,   \* what the run is for: the two families, the header installed
    entry,       \* the file being visited
    changed,     \* the report has a file
    told,        \* the exit status and the marker
    due,         \* history: some file held something to translate
    visited

normalizeVars == <<direction, entry, changed, told, due, visited>>

Families == {"vinyl", "varnish"}
Other(family) == CHOOSE f \in Families : f # family

Bare(text)         == [family |-> "none", text |-> text]
Name(family, form) == [family |-> family, text |-> form]

-----------------------------------------------------------------------------
(* The replacements *)

\* PRIVATE_HEADERS and their guards.
Header(f, name) == IF name = "historic" THEN <<Bare("cache_"), Name(f, "d"), Bare(".h")>>
                                        ELSE <<Bare("cache_int.h")>>
HeaderMacro(f, name) == IF name = "historic" THEN <<Bare("CACHE_"), Name(f, "D"), Bare("_H")>>
                                             ELSE <<Bare("CACHE_INT_H")>>

\* VINYL_TO_VARNISH, its left or its right column.
Spellings(f) ==
    << <<Bare("PKG_CHECK_MODULES(["), Name(f, "NAME"), Bare("]")>>,
       <<Name(f, "API")>>, <<Name(f, "SRC")>>, <<Name(f, "TEST")>>, <<Name(f, "D")>>,
       <<Name(f, "NAME"), Bare("_")>>,
       <<Name(f, "api")>>, <<Name(f, "test")>>, <<Name(f, "d")>>, <<Name(f, "adm")>>, <<Name(f, "stat")>>,
       IF f = "vinyl" THEN <<Name(f, "name"), Bare("-cache"), Bare("/")>>
                      ELSE <<Name(f, "name"), Bare("/")>>,
       <<Bare("/"), Name(f, "name"), Bare("/")>> >>

PrivateHeaderReplacements(source, target, installed) ==
    FlattenSeq([i \in 1..2 |->
        LET name == <<"historic", "int">>[i] IN
        IF Header(source, name) = Header(target, installed) THEN << >>
        ELSE << [old |-> Header(source, name), new |-> Header(target, installed)],
                [old |-> HeaderMacro(source, name), new |-> HeaderMacro(target, installed)] >>])

FamilyReplacements(source, target) ==
    [i \in DOMAIN Spellings(source) |-> [old |-> Spellings(source)[i], new |-> Spellings(target)[i]]]

\* Mutant of Replacements: the private headers come last.
ReplacementsHeadersLast(source, target, installed) ==
    FamilyReplacements(source, target) \o PrivateHeaderReplacements(source, target, installed)

\* replacements()
Replacements(source, target, installed) ==
    IF source = target THEN << >>
    ELSE PrivateHeaderReplacements(source, target, installed) \o FamilyReplacements(source, target)

\* data.replace(old, new)
Replaced(text, old, new) ==
    LET rest[i \in 1..(Len(text) + Len(old))] ==
            IF i > Len(text) THEN << >>
            ELSE IF IsPrefix(old, SubSeq(text, i, Len(text))) THEN new \o rest[i + Len(old)]
            ELSE <<text[i]>> \o rest[i + 1]
    IN  rest[1]

\* _retarget_vcache_require(): calls that name one provider, in m4 files.
Call(f) == <<Bare("VCACHE_REQUIRE([["), Name(f, "name"), Bare("]])")>>
RetargetVcacheRequire(text, kind, source, target) ==
    IF kind = "m4" THEN Replaced(text, Call(source), Call(target)) ELSE text

\* The end of normalize_bytes() for a .vtc file: the command, and the header line.
Command(text, source, target) == Replaced(text, <<Name(source, "name")>>, <<Name(target, "name")>>)
HeaderLine(text) ==
    IF text # << >> /\ Head(text) = Name("vinyl", "test") THEN <<Name("varnish", "test")>> \o Tail(text)
                                                         ELSE text

Skips(kind, r) == kind = "vtc" /\ \E f \in Families : r.old = <<Name(f, "test")>>

\* normalize_bytes()
NormalizeBytes(text, kind, source, target, rules) ==
    LET prepared == IF kind = "vsc" THEN Replaced(text, <<Name("varnish", "vsc")>>, <<Name("vinyl", "vsc")>>)
                                    ELSE text
        required == IF source # target THEN RetargetVcacheRequire(prepared, kind, source, target)
                                       ELSE prepared
        after[i \in 0..Len(rules)] ==
            IF i = 0 THEN required
            ELSE IF Skips(kind, rules[i]) THEN after[i - 1]
            ELSE Replaced(after[i - 1], rules[i].old, rules[i].new)
        spelled  == after[Len(rules)]
    IN  IF kind = "vtc" /\ source # target THEN HeaderLine(Command(spelled, source, target)) ELSE spelled

-----------------------------------------------------------------------------
(* The source: words of these families, with blanks between them *)

Spelt(w) ==
    CASE w.what = "header"   -> Header(w.family, w.form)
      [] w.what = "guard"    -> HeaderMacro(w.family, w.form)
      [] w.what = "spelling" -> Spellings(w.family)[w.form]
      [] w.what = "call"     -> Call(w.family)
      [] w.what = "calls"    -> <<Bare("VCACHE_REQUIRE([["), Name(w.family, "name"), Bare("],["),
                                  Name(Other(w.family), "name"), Bare("]])")>>
      [] w.what = "name"     -> <<Name(w.family, "name")>>
      [] w.what = "vsc"      -> <<Name(w.family, "vsc")>>

Text(words) == FlattenSeq([i \in DOMAIN words |->
                   IF i = 1 THEN Spelt(words[i]) ELSE <<Bare(" ")>> \o Spelt(words[i])])

-----------------------------------------------------------------------------
(* The reference: what a word becomes, by itself *)

TestForm == CHOOSE i \in DOMAIN Spellings("vinyl") : Spellings("vinyl")[i] = <<Name("vinyl", "test")>>
\* "/varnish/" is a "varnish/" behind a slash.
IsSlashed(w) == w.what = "spelling" /\ Spelt(w)[1] = Bare("/")

TranslatedWord(w, kind, first, source, target, header) ==
    CASE w.what = "vsc" -> IF kind = "vsc" THEN <<Name("vinyl", "vsc")>> ELSE Spelt(w)
      [] w.what = "spelling" /\ w.form = TestForm /\ kind = "vtc" ->
            IF first /\ source # target THEN <<Name("varnish", "test")>> ELSE Spelt(w)
      [] source = target -> Spelt(w)
      [] w.what = "header" -> IF w.family = source \/ w.form = "int" THEN Header(target, header) ELSE Spelt(w)
      [] w.what = "guard"  -> IF w.family = source \/ w.form = "int" THEN HeaderMacro(target, header) ELSE Spelt(w)
      [] IsSlashed(w) /\ w.family = source /\ source = "varnish" -> <<Bare("/")>> \o Spellings(target)[w.form - 1]
      [] OTHER ->
            IF w.what = "spelling" /\ w.family = source THEN Spellings(target)[w.form]
            ELSE IF (kind = "vtc" /\ w.what # "spelling") \/ (kind = "m4" /\ w.what = "call")
            THEN [i \in DOMAIN Spelt(w) |-> IF Spelt(w)[i] = Name(source, "name") THEN Name(target, "name")
                                                                                  ELSE Spelt(w)[i]]
            ELSE Spelt(w)

Translation(file) ==
    IF file.kind = "skipped" THEN Text(file.words)
    ELSE FlattenSeq([i \in DOMAIN file.words |->
            (IF i = 1 THEN << >> ELSE <<Bare(" ")>>)
            \o TranslatedWord(file.words[i], file.kind, i = 1,
                              direction.source, direction.target, direction.header)])

-----------------------------------------------------------------------------
NoDirection == [source |-> "none", target |-> "none", header |-> "none"]
NoEntry == [kind |-> "none", words |-> << >>, text |-> << >>]
NotTold == [exit |-> "none", marker |-> FALSE]

\* A cell's call: the header is the one the installed engine has.
StartNormalize ==
    /\ direction = NoDirection
    /\ direction' \in [source : Families, target : Families, header : {"historic", "int"}]
    /\ UNCHANGED <<entry, changed, told, due, visited>>

\* normalize_tree(), one file: links, binary files and what is under .git are
\* skipped, and where the families are one, everything but the .vsc files.
Normalized(file) ==
    IF file.kind = "skipped" \/ (direction.source = direction.target /\ file.kind # "vsc") THEN Text(file.words)
    ELSE NormalizeBytes(Text(file.words), file.kind, direction.source, direction.target,
                        Replacements(direction.source, direction.target, direction.header))

VisitFile ==
    /\ direction # NoDirection /\ told = NotTold /\ entry = NoEntry /\ visited < MaxFiles
    /\ visited' = visited + 1
    /\ \E kind \in FileKinds, words \in SeqOf(Words, MaxWords) :
          LET file == [NoEntry EXCEPT !.kind = kind, !.words = words]
          IN  /\ entry' = [file EXCEPT !.text = Normalized(file)]
              /\ changed' = (changed \/ entry'.text # Text(words))
              /\ due' = (due \/ Translation(file) # Text(words))
    /\ UNCHANGED <<direction, told>>

NextFile ==
    /\ entry # NoEntry
    /\ entry' = NoEntry
    /\ UNCHANGED <<direction, changed, told, due, visited>>

\* main(): no change is a failure only where the families differ.
Tell ==
    /\ direction # NoDirection /\ told = NotTold /\ entry = NoEntry
    /\ told' = [exit |-> IF changed \/ direction.source = direction.target THEN "ok" ELSE "failed",
                marker |-> changed]
    /\ UNCHANGED <<direction, entry, changed, due, visited>>

NormalizeInit ==
    /\ direction = NoDirection /\ entry = NoEntry /\ changed = FALSE /\ told = NotTold
    /\ due = FALSE /\ visited = 0

NormalizeNext == StartNormalize \/ VisitFile \/ NextFile \/ Tell

NormalizeSpec == NormalizeInit /\ [][NormalizeNext]_normalizeVars
-----------------------------------------------------------------------------
NormalizeTypeOK ==
    /\ direction = NoDirection \/ {direction.source, direction.target} \subseteq Families
    /\ entry.kind \in FileKinds \cup {"none"} /\ entry.words \in SeqOf(Words, MaxWords)
    /\ told \in [exit : {"none", "ok", "failed"}, marker : BOOLEAN]
    /\ {changed, due} \subseteq BOOLEAN /\ visited \in 0..MaxFiles

\* Decisions 19 and 28: the replacements, in their order, do to a text what a
\* translation of its words does, each by itself, whatever stands beside it and
\* whichever header the engine installs; and the marker, which becomes the
\* cell's source_api_normalization, and a failure tell exactly whether a file
\* held anything to translate.
SourceTranslated ==
    /\ entry # NoEntry => entry.text = Translation(entry)
    /\ told # NotTold => /\ told.marker = due
                         /\ told.exit = "failed" <=> direction.source # direction.target /\ ~due
=============================================================================
