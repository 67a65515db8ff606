--------------------------- MODULE ReferenceTitles ---------------------------
(***************************************************************************)
(* Titles of references in Korean: the plan of a translation               *)
(* (services/reference_translation.py), the choice between the forms of a  *)
(* title that are translated (reference_translation_title_selection.py,    *)
(* with the check of providers/reference_translation_nllb.py), what a      *)
(* batch stores of it (reference_sync.py), and the script                  *)
(* reference_translation_validation_apply.py, which translates what is not *)
(* translated yet.                                                         *)
(*                                                                         *)
(* A title is what is asked of its translation, a translation is what it   *)
(* meets of that.                                                          *)
(***************************************************************************)
EXTENDS Integers, FiniteSets, FiniteSetsExt, Rows

CONSTANTS
    TitledItems,
    TitleOf,        \* item -> [language, ai, hurtles, abstract]
    Translations,   \* [structure, cjk, ai, progress, bad]
    Failed,         \* the translator raises
    NoTranslation,
    EnglishCount,   \* EXPECTED_ENGLISH_COUNT
    KoreanCount     \* EXPECTED_KOREAN_COUNT

ASSUME TitlesAssumption == NoTranslation \notin Translations

VARIABLES
    titled,     \* item -> the columns of its reference's translation
    script,     \* what the script has read and translated, or NoTranslation
    earned,     \* history: items for which a translation was offered that is sound
    applied     \* history: items the script has committed

titleVars == <<titled, script, earned, applied>>

AnalystTranslationStatus == {"NOT_REQUESTED", "NOT_NEEDED", "PENDING", "COMPLETED", "FAILED"}

TranslationFields ==
    [language : {"ko", "en", "und"}, status : AnalystTranslationStatus,
     korean : Translations \cup {NoTranslation}]

Untouched == [language |-> "und", status |-> "NOT_REQUESTED", korean |-> NoTranslation]

-----------------------------------------------------------------------------
(* The forms of a title and the choice between their translations.         *)

\* generate_title_candidates, with priorities; forms that are equal are one.
Forms(title) ==
    {10} \cup (IF title.ai THEN {20} ELSE {}) \cup (IF title.hurtles THEN {30} ELSE {})
         \cup (IF title.ai /\ title.hurtles THEN {40} ELSE {})

\* The blocking reasons of evaluate_title_translation.
Unsound(title, t) ==
    \/ ~t.structure
    \/ t.cjk
    \/ title.ai /\ ~t.ai
    \/ title.hurtles /\ (~t.progress \/ t.bad)

Score(title, t) ==
    (IF t.structure THEN 50 ELSE 0) - (IF t.cjk THEN 100 ELSE 0)
    + (IF ~title.ai THEN 0 ELSE IF t.ai THEN 20 ELSE -40)
    + (IF ~title.hurtles THEN 20
       ELSE (IF t.progress THEN 30 ELSE -40) - (IF t.bad THEN 100 ELSE 0))

Approved(title, t) == t # Failed /\ ~Unsound(title, t) /\ Score(title, t) >= 70

\* Defect: a translator that raises ends the choice.
SelectedOfAll(title, answers) ==
    LET good == {f \in Forms(title) : Approved(title, answers[f])} IN
    IF good = {} \/ \E f \in Forms(title) : answers[f] = Failed THEN NoTranslation
    ELSE answers[Max(good)]

\* select_title_translation: the approved one with the best score and of those the
\* one of the highest priority.
Selected(title, answers) ==
    LET good == {f \in Forms(title) : Approved(title, answers[f])}
        best == {f \in good : \A g \in good :
                    Score(title, answers[g]) <= Score(title, answers[f])}
    IN  IF good = {} THEN NoTranslation ELSE answers[Max(best)]

\* plan_reference_translation and build_reference_translation_fields; answers is
\* empty when there is no translator.
FieldsOf(title, answers) ==
    LET korean == IF answers = <<>> THEN NoTranslation ELSE Selected(title, answers) IN
    CASE title.language = "ko" ->
            [language |-> "ko", status |-> "NOT_NEEDED", korean |-> NoTranslation]
      [] title.language = "en" ->
            [language |-> "en", korean |-> korean,
             status |-> IF korean = NoTranslation THEN "PENDING" ELSE "COMPLETED"]
      [] OTHER -> Untouched

AnswersTo(title) == [Forms(title) -> Translations \cup {Failed}]

\* Somewhere among the answers is a translation that nothing speaks against.
Sound(title, answers) ==
    title.language = "en" /\
    \E f \in DOMAIN answers : answers[f] # Failed /\ ~Unsound(title, answers[f])

-----------------------------------------------------------------------------
(* References come.                                                        *)

\* AutomaticReferenceIngestService.ingest, with a translator or without one.
IngestTitle(i) ==
    /\ i \notin DOMAIN titled
    /\ \E answers \in AnswersTo(TitleOf[i]) \cup {<<>>} :
          /\ titled' = Put(titled, i, FieldsOf(TitleOf[i], answers))
          /\ earned' = IF Sound(TitleOf[i], answers) THEN earned \cup {i} ELSE earned
    /\ UNCHANGED <<script, applied>>

\* The import of a link, which asks for no translation.
ImportTitle(i) ==
    /\ i \notin DOMAIN titled
    /\ titled' = Put(titled, i, Untouched)
    /\ UNCHANGED <<script, earned, applied>>

-----------------------------------------------------------------------------
(* The script.                                                             *)

Ofs(language) == {i \in DOMAIN titled : TitleOf[i].language = language}
Unused == \A i \in DOMAIN titled : titled[i] = Untouched

\* read_state and create_actions: the counts are as expected and nothing is
\* translated yet, or the script fails; it fails, too, when a title gets no
\* translation.
ReadTitles ==
    /\ script = NoTranslation
    /\ Unused /\ DOMAIN titled # {}
    /\ Cardinality(Ofs("en")) = EnglishCount /\ Cardinality(Ofs("ko")) = KoreanCount
    /\ Cardinality(DOMAIN titled) = EnglishCount + KoreanCount
    /\ \E pick \in [Ofs("en") -> Translations] :
          /\ \A i \in Ofs("en") :
                \E answers \in AnswersTo(TitleOf[i]) : Selected(TitleOf[i], answers) = pick[i]
          /\ script' =
                [i \in DOMAIN titled |->
                    IF i \in Ofs("ko")
                    THEN [language |-> "ko", status |-> "NOT_NEEDED", korean |-> NoTranslation]
                    ELSE [language |-> "en", status |-> "COMPLETED", korean |-> pick[i]]]
    /\ UNCHANGED <<titled, earned, applied>>

\* apply_actions, in one transaction: refused when a reference has come or been
\* translated since, and when the counts are not as expected after it.
ApplyTitles ==
    /\ script # NoTranslation
    /\ DOMAIN titled = DOMAIN script /\ Unused
    /\ titled' = script
    /\ earned' = earned \cup {i \in DOMAIN script : script[i].status = "COMPLETED"}
    /\ applied' = applied \cup DOMAIN script
    /\ script' = NoTranslation

\* The script is refused or dies.
AbandonTitles ==
    /\ script # NoTranslation /\ script' = NoTranslation
    /\ UNCHANGED <<titled, earned, applied>>

TitlesInit == titled = <<>> /\ script = NoTranslation /\ earned = {} /\ applied = {}

TitlesNext ==
    \/ \E i \in TitledItems : IngestTitle(i) \/ ImportTitle(i)
    \/ ReadTitles
    \/ ApplyTitles
    \/ AbandonTitles

TitlesSpec == TitlesInit /\ [][TitlesNext]_titleVars

-----------------------------------------------------------------------------
TitlesTypeOK ==
    /\ DOMAIN titled \subseteq TitledItems
    /\ \A i \in DOMAIN titled : titled[i] \in TranslationFields
    /\ earned \subseteq TitledItems /\ applied \subseteq TitledItems

\* A reference has a Korean title exactly when the translator gave a translation
\* of a form of its own title that nothing speaks against, whichever of the other
\* forms failed or came out wrong, and it is such a translation; what has none is
\* never called translated, and the script, when it commits, leaves no reference
\* that it found without an answer.
TranslationIsEarned ==
    /\ \A i \in DOMAIN titled :
          /\ titled[i].korean # NoTranslation <=> i \in earned
          /\ titled[i].status = "COMPLETED" <=> i \in earned
          /\ i \in earned => ~Unsound(TitleOf[i], titled[i].korean)
    /\ \A i \in applied : titled[i].status \in {"COMPLETED", "NOT_NEEDED"}
=============================================================================
