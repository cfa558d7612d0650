----------------------------- MODULE EightKReading -----------------------------
(***************************************************************************)
(* How one 8-K is read: which document of its detail page is the report,   *)
(* and the score of what the report says, from its item numbers and the    *)
(* phrases found in it (app/services/sec/eight_k.py, scoring/eight_k.py,   *)
(* summarize/deterministic.py).                                            *)
(*                                                                         *)
(* Scores are counted in quarters.  A phrase stands for its category, and  *)
(* a document's file name for whether it ends in .htm, .html or .txt.      *)
(***************************************************************************)
EXTENDS Integers, Sequences, FiniteSets, SequencesExt

CONSTANTS MaxPageRows,    \* bound: rows of the detail page
          MaxItems,       \* bound: items that a report names
          MaxPhrases      \* bound: categories of phrases found in a report

ASSUME EightKAssumption == MaxPageRows \in Nat /\ MaxItems \in Nat /\ MaxPhrases \in Nat

VARIABLES
    ekPc,
    page, report,         \* the rows of the detail page, and the row chosen (0: none)
    items, body,          \* what the report says
    weight, sureness, direction

eightKVars == <<ekPc, page, report, items, body, weight, sureness, direction>>

PageRow == [cells : 3..5, type : {"8-K", "8-K/A", "other"}, textFile : BOOLEAN,
            linked : BOOLEAN, named : BOOLEAN]
Pages == UNION {[1..n -> {r \in PageRow : r.textFile => r.named}] : n \in 0..MaxPageRows}

\* BASE_ITEM_SCORES, and two items without a score of their own.
Items == {"1.03", "2.04", "2.05", "2.06", "3.01", "4.02", "5.02", "8.01"}
ItemScore(item) ==
    CASE item \in {"1.03", "3.01", "4.02"} -> -8
      [] item = "2.04" -> -6
      [] item = "2.05" -> -4
      [] item = "2.06" -> -5
      [] OTHER -> 0

\* KEYWORD_ADJUSTMENTS, in their order.
Phrases == <<"guidance_raised", "guidance_cut", "share_repurchase", "dividend_increase",
             "secondary_offering", "investigation", "cybersecurity_incident",
             "material_weakness", "liquidity_covenant", "definitive_merger_agreement",
             "going_concern_bankruptcy">>
PhraseScore(phrase) ==
    CASE phrase = "guidance_raised" -> 4
      [] phrase = "guidance_cut" -> -5
      [] phrase = "share_repurchase" -> 3
      [] phrase \in {"dividend_increase", "definitive_merger_agreement"} -> 2
      [] phrase \in {"secondary_offering", "material_weakness"} -> -3
      [] phrase = "going_concern_bankruptcy" -> -8
      [] OTHER -> -4

Body == [title : BOOLEAN, departure : BOOLEAN, appointment : BOOLEAN,
         phrases : {s \in SUBSET ToSet(Phrases) : Cardinality(s) <= MaxPhrases}]
Silence == [title |-> FALSE, departure |-> FALSE, appointment |-> FALSE, phrases |-> {}]

-----------------------------------------------------------------------------
\* parse_eight_k_detail_documents(): the rows it makes a document of.
Usable(row) == row.cells >= 4 /\ (row.linked \/ row.named)

Earliest(rows) == IF rows = {} THEN 0 ELSE CHOOSE i \in rows : \A j \in rows : i <= j

\* Faulty variant of PrimaryDocument: the first document of the page that is a
\* text file, whatever its type.
FirstTextFile(rows) == Earliest({i \in DOMAIN rows : Usable(rows[i]) /\ rows[i].textFile})

\* locate_primary_eight_k_document_url().
PrimaryDocument(rows) ==
    LET documents == {i \in DOMAIN rows : Usable(rows[i])}
        typed == {i \in documents : rows[i].type \in {"8-K", "8-K/A"}}
    IN  IF typed # {} THEN Earliest(typed)
        ELSE Earliest({i \in documents : rows[i].textFile})

\* The officers' item: a departure, or else an appointment.
OfficerScore(named, b) ==
    IF "5.02" \notin named \/ ~b.title THEN 0
    ELSE IF b.departure THEN -4
    ELSE IF b.appointment THEN 1 ELSE 0

Found(named, b) ==
    {i \in named : ItemScore(i) # 0} \cup b.phrases
        \cup IF OfficerScore(named, b) # 0 THEN {"5.02"} ELSE {}

Within(x) == IF x > 8 THEN 8 ELSE IF x < -8 THEN -8 ELSE x

\* What the items of BASE_ITEM_SCORES that are named come to.
ItemsTotal(named) ==
    LET Item(i) == IF i \in named THEN ItemScore(i) ELSE 0
    IN  Item("1.03") + Item("2.04") + Item("2.05") + Item("2.06") + Item("3.01") + Item("4.02")

\* What the categories of phrases that are found come to.
PhrasesTotal(found) ==
    LET Phrase(n) == IF Phrases[n] \in found THEN PhraseScore(Phrases[n]) ELSE 0
    IN  Phrase(1) + Phrase(2) + Phrase(3) + Phrase(4) + Phrase(5) + Phrase(6)
            + Phrase(7) + Phrase(8) + Phrase(9) + Phrase(10) + Phrase(11)

\* Faulty variant of ScoreOfReport: the first category that is found settles it.
ScoreOfFirstPhrase(named, b) ==
    LET found == SelectSeq(Phrases, LAMBDA p : p \in b.phrases)
    IN  Within(ItemsTotal(named) + OfficerScore(named, b)
               + IF found = <<>> THEN 0 ELSE PhraseScore(found[1]))

\* EightKScorer.score(): each item once and each category once.
ScoreOfReport(named, b) ==
    Within(ItemsTotal(named) + OfficerScore(named, b) + PhrasesTotal(b.phrases))

\* _confidence().
Sureness(x, found) ==
    CASE x >= 6 \/ x <= -6 -> "high"
      [] found # {} /\ x \in -5..5 -> "medium"
      [] OTHER -> "low"

-----------------------------------------------------------------------------
EightKIdle ==
    /\ ekPc = "idle" /\ page = <<>> /\ report = 0 /\ items = {} /\ body = Silence
    /\ weight = 0 /\ sureness = "low" /\ direction = "neutral"

\* The source_url is not known yet, or the report is there to be read.
EightKInit ==
    /\ ekPc \in {"locate", "read"}
    /\ page \in IF ekPc = "locate" THEN Pages ELSE {<<>>}
    /\ report = 0 /\ items = {} /\ body = Silence
    /\ weight = 0 /\ sureness = "low" /\ direction = "neutral"

\* _process_filing_id(), for a filing from a daily index: MissingPrimaryDocument
\* or the report.
LocateReport ==
    /\ ekPc = "locate"
    /\ report' = PrimaryDocument(page)
    /\ ekPc' = IF report' = 0 THEN "missing" ELSE "located"
    /\ UNCHANGED <<page, items, body, weight, sureness, direction>>

\* EightKParser.parse(), the score, and the summary's direction.
ReadReport ==
    /\ ekPc = "read"
    /\ ekPc' = "scored"
    /\ items' \in {s \in SUBSET Items : Cardinality(s) <= MaxItems}
    /\ body' \in Body
    /\ weight' = ScoreOfReport(items', body')
    /\ sureness' = Sureness(weight', Found(items', body'))
    /\ direction' = IF weight' < 0 THEN "negative"
                    ELSE IF weight' > 0 THEN "positive" ELSE "neutral"
    /\ UNCHANGED <<page, report>>

EightKNext == LocateReport \/ ReadReport

EightKSpec == EightKInit /\ [][EightKNext]_eightKVars

-----------------------------------------------------------------------------
\* The document taken for the report is of type 8-K or 8-K/A when the page
\* lists one that can be reached, and there is none only when no row will do.
ReportIsTheListedOne ==
    LET reachable == {i \in DOMAIN page : page[i].cells > 3 /\ (page[i].linked \/ page[i].named)}
        own == {i \in reachable : page[i].type # "other"}
    IN  /\ ekPc = "located" => /\ report \in reachable
                               /\ own # {} => report \in own
                               /\ \A i \in own : report <= i
        /\ ekPc = "missing" => own = {} /\ \A i \in reachable : ~page[i].textFile

\* No bad news found in a report raises its score and no good news lowers it,
\* whatever else is found; only a report in which nothing is found has a low
\* confidence, and news of one kind decides the direction in the summary.
NewsWeighsItsWay ==
    ekPc = "scored" =>
        LET With(p) == [body EXCEPT !.phrases = @ \cup {p}]
            found == {ItemScore(i) : i \in items} \cup {PhraseScore(p) : p \in body.phrases}
                        \cup {OfficerScore(items, body)}
        IN  /\ \A p \in ToSet(Phrases) :
                  IF PhraseScore(p) < 0 THEN ScoreOfReport(items, With(p)) <= weight
                  ELSE ScoreOfReport(items, With(p)) >= weight
            /\ \A i \in Items \ {"5.02"} : ScoreOfReport(items \cup {i}, body) <= weight
            /\ ScoreOfReport(items, [body EXCEPT !.departure = TRUE]) <= weight
            /\ ScoreOfReport(items, [body EXCEPT !.appointment = TRUE]) >= weight
            /\ sureness = "low" <=> found = {0}
            /\ (\A x \in found : x <= 0) /\ found # {0} => direction = "negative"
            /\ (\A x \in found : x >= 0) /\ found # {0} => direction = "positive"

\* An 8-K is scored on the report that its page lists, and by all the news in it.
EightKIsJudgedByItsReport == ReportIsTheListedOne /\ NewsWeighsItsWay
=============================================================================
