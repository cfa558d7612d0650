------------------------------ MODULE Form4Reading ------------------------------
(***************************************************************************)
(* How one Form 4 is read: the documents of its detail page, the order in  *)
(* which the candidates for its XML are fetched and the error that is left *)
(* when none will do, the footnotes of a row, the score of the rows, and   *)
(* what the summary says (app/services/sec/form4.py, scoring/form4.py,     *)
(* summarize/form4.py, and _load_form4_candidate() in ingest.py).          *)
(*                                                                         *)
(* Texts are members of small sets: a document knows whether its type is 4 *)
(* or 4/A and whether its file name ends in .xml, a URL whether it ends in *)
(* .xml.  What FilingPipeline takes as the outcome of a fetch begins here. *)
(***************************************************************************)
EXTENDS Integers, Sequences, FiniteSets, SequencesExt

CONSTANTS Urls, XmlUrls,    \* addresses, and those that end in .xml
          MaxDocuments,     \* bound: rows of a table of documents
          MaxRows,          \* bound: transactions of a kind
          None

ASSUME Form4Assumption ==
    /\ XmlUrls \subseteq Urls /\ MaxDocuments \in Nat /\ MaxRows \in Nat
    /\ None \notin Urls /\ None \notin Nat /\ None \notin {"P", "S", "listed", "other"}

UpTo(S, n) == UNION {[1..k -> S] : k \in 0..n}

Document == [url : Urls, form4 : BOOLEAN, xmlName : BOOLEAN]
Table == [headed : BOOLEAN, documents : UpTo(Document, MaxDocuments)]
Answers == {"http-retry", "http-final", "html-retry", "html-final", "broken-xml", "xml"}
Errors == [class : {"http", "html", "parse"}, retryable : BOOLEAN]

\* A transaction code: purchase, sale, one of the other listed codes, a code
\* that is not listed, no code.
Codes == {"P", "S", "listed", "other", None}
Text == [plan : BOOLEAN, date : BOOLEAN]
Content == [nonDerivative : UpTo(Codes, MaxRows), derivative : UpTo(Codes, MaxRows),
            owners : 0..2]
Plan == [checkbox : BOOLEAN, remarks : Text, footnotes : UpTo(Text, 2)]
Kinds == {"nonDerivativeTransaction", "nonDerivativeHolding",
          "derivativeTransaction", "derivativeHolding"}

VARIABLES
    f4pc,
    tables, preferred,    \* the detail page, and a URL known from before
    urls, position,       \* the loop over candidates
    fetched, lastError,   \* history: what each fetch gave; the last error
    content, plan, row,   \* what the document holds; a row of it
    score, headline, noted

form4Page == <<tables, preferred, urls, position, fetched, lastError>>
form4Vars == <<f4pc, form4Page, content, plan, row, score, headline, noted>>

NoText == [plan |-> FALSE, date |-> FALSE]
NoContent == [nonDerivative |-> <<>>, derivative |-> <<>>, owners |-> 0]
NoPlan == [checkbox |-> FALSE, remarks |-> NoText, footnotes |-> <<>>]
NoRow == [kind |-> "nonDerivativeHolding", dated |-> FALSE, refs |-> {}]
NoScore == [score |-> 0, confidence |-> "low", conflict |-> FALSE]

-----------------------------------------------------------------------------
\* _parse_documents(): the first table with the header of a document table
\* that lists any, or else every row of the page's two tables.
Documents(page) ==
    LET Lists(t) == page[t].headed /\ page[t].documents # <<>>
    IN  IF Lists(1) THEN page[1].documents
        ELSE IF Lists(2) THEN page[2].documents
        ELSE page[1].documents \o page[2].documents

IsXml(d) == d.url \in XmlUrls \/ d.xmlName

\* Which pass of ordered_ownership_xml_candidates() takes an XML document.  The
\* hints of the third hold for all, whose name or URL has "xml" in it; the
\* fourth adds none.
Pass(d) == IF d.form4 /\ d.xmlName THEN 1
           ELSE IF d.form4 /\ d.url \in XmlUrls THEN 2 ELSE 3

\* A later pass comes after, and in a pass the order of the listing counts.
Ahead(documents, i, j) ==
    \/ Pass(documents[i]) < Pass(documents[j])
    \/ Pass(documents[i]) = Pass(documents[j]) /\ i < j

\* add_candidate(): of the documents of one URL, the one that is taken first.
Chosen(documents) ==
    {i \in DOMAIN documents :
        /\ IsXml(documents[i])
        /\ \A j \in DOMAIN documents :
              IsXml(documents[j]) /\ documents[j].url = documents[i].url =>
                  ~Ahead(documents, j, i)}

\* How many of some documents come before one, and their URLs in this order.
Rank(documents, some, i) == Cardinality({j \in some : Ahead(documents, j, i)})
UrlsInOrder(documents, some) ==
    [n \in 1..Cardinality(some) |->
        documents[CHOOSE i \in some : Rank(documents, some, i) = n - 1].url]

\* Faulty variant of CandidateUrls: the URL known from before is listed again.
RepeatedUrls(documents, known) ==
    (IF known = None THEN <<>> ELSE <<known>>) \o UrlsInOrder(documents, Chosen(documents))

\* Form4IngestService._candidate_urls().
CandidateUrls(documents, known) ==
    (IF known = None THEN <<>> ELSE <<known>>)
        \o UrlsInOrder(documents, {i \in Chosen(documents) : documents[i].url # known})

\* _classify_transport_error(), _looks_like_xml_response(), _non_xml_retryable():
\* 403, 404, 429, 5xx, a failed connection and a page of refusal may pass.
ErrorOf(answer) ==
    CASE answer = "http-retry" -> [class |-> "http", retryable |-> TRUE]
      [] answer = "http-final" -> [class |-> "http", retryable |-> FALSE]
      [] answer = "html-retry" -> [class |-> "html", retryable |-> TRUE]
      [] answer = "html-final" -> [class |-> "html", retryable |-> FALSE]
      [] answer = "broken-xml" -> [class |-> "parse", retryable |-> FALSE]

-----------------------------------------------------------------------------
Form4Idle ==
    /\ f4pc = "idle"
    /\ tables = <<>> /\ preferred = None /\ urls = <<>> /\ position = 1
    /\ fetched = <<>> /\ lastError = None
    /\ content = NoContent /\ plan = NoPlan /\ row = NoRow
    /\ score = NoScore /\ headline = None /\ noted = None

\* The reading begins with a page of two tables and the URL that an earlier
\* attempt has left, with a document that was fetched, or with a row of it.
Form4Init ==
    /\ f4pc \in {"page", "parse", "row"}
    /\ IF f4pc = "page"
       THEN /\ \E first \in Table, second \in {t \in Table : Len(t.documents) < 2} :
                  tables = <<first, second>>
            /\ preferred \in Urls \cup {None}
       ELSE tables = <<>> /\ preferred = None
    /\ row \in IF f4pc = "row" THEN [kind : Kinds, dated : BOOLEAN, refs : {{}}] ELSE {NoRow}
    /\ urls = <<>> /\ position = 1 /\ fetched = <<>> /\ lastError = None
    /\ content = NoContent /\ plan = NoPlan
    /\ score = NoScore /\ headline = None /\ noted = None

Locate ==
    /\ f4pc = "page"
    /\ urls' = CandidateUrls(Documents(tables), preferred)
    /\ f4pc' = IF urls' = <<>> THEN "none" ELSE "load"
    /\ UNCHANGED <<tables, preferred, position, fetched, lastError, content, plan, row,
                   score, headline, noted>>

\* Faulty variant of LoadCandidate: an error that may not pass ends the loop.
LoadUntilFinalError ==
    /\ f4pc = "load"
    /\ \E answer \in Answers :
          /\ fetched' = Append(fetched, [url |-> urls[position], answer |-> answer])
          /\ IF answer = "xml"
             THEN f4pc' = "parsed" /\ UNCHANGED <<position, lastError>>
             ELSE /\ lastError' = ErrorOf(answer)
                  /\ position' = position + 1
                  /\ f4pc' = IF position = Len(urls) \/ ~lastError'.retryable
                             THEN "raised" ELSE "load"
    /\ UNCHANGED <<tables, preferred, urls, content, plan, row, score, headline, noted>>

\* _load_form4_candidate(), one round of its loop.
LoadCandidate ==
    /\ f4pc = "load"
    /\ \E answer \in Answers :
          /\ fetched' = Append(fetched, [url |-> urls[position], answer |-> answer])
          /\ IF answer = "xml"
             THEN f4pc' = "parsed" /\ UNCHANGED <<position, lastError>>
             ELSE /\ lastError' = ErrorOf(answer)
                  /\ position' = position + 1
                  /\ f4pc' = IF position = Len(urls) THEN "raised" ELSE "load"
    /\ UNCHANGED <<tables, preferred, urls, content, plan, row, score, headline, noted>>

\* Form4Parser.parse(): the transactions and owners of the document, or what
\* it says of a plan.
Parse ==
    /\ f4pc = "parse"
    /\ f4pc' = "score"
    /\ \/ content' \in Content /\ UNCHANGED plan
       \/ plan' \in Plan /\ UNCHANGED content
    /\ UNCHANGED <<form4Page, row, score, headline, noted>>

-----------------------------------------------------------------------------
Trades(c) == c.nonDerivative \o c.derivative
Count(c, code) == Cardinality({i \in DOMAIN Trades(c) : Trades(c)[i] = code})
Directions(c) == {d \in {1, -1} : Count(c, IF d = 1 THEN "P" ELSE "S") > 0}
Clamp(x) == IF x > 2 THEN 2 ELSE IF x < -2 THEN -2 ELSE x
Abs(x) == IF x < 0 THEN -x ELSE x

\* Form4Scorer._confidence().
Confidence(x, directions, owners, sawUnknown) ==
    IF Cardinality(directions) > 1 \/ x = 0 THEN "low"
    ELSE IF (owners > 1 /\ ~sawUnknown) \/ Abs(x) >= 1 THEN "high" ELSE "medium"

\* Faulty variant of ScoreOf: sales and purchases are set off against each other.
ScoreOfBalance(c) ==
    LET x == Clamp(Count(c, "P") - Count(c, "S"))
    IN  [score |-> x, conflict |-> Cardinality(Directions(c)) > 1,
         confidence |-> Confidence(x, {1} \cap Directions(c), c.owners, Count(c, "other") > 0)]

\* Form4Scorer.score().
ScoreOf(c) ==
    LET conflict == Cardinality(Directions(c)) > 1
        x == IF conflict THEN 0 ELSE Clamp(Count(c, "P") - Count(c, "S"))
    IN  [score |-> x, conflict |-> conflict,
         confidence |-> Confidence(x, Directions(c), c.owners, Count(c, "other") > 0)]

\* Faulty variant of AdoptionDate: the date of any footnote will do.
AnyDate(p) ==
    IF p.remarks.date THEN 0
    ELSE LET dated == {i \in DOMAIN p.footnotes : p.footnotes[i].date}
         IN  IF dated = {} THEN None ELSE CHOOSE i \in dated : \A j \in dated : i <= j

\* _parse_tenb5_one(): where the adoption date is taken from, the remarks (0)
\* or a footnote that mentions Rule 10b5-1.
AdoptionDate(p) ==
    IF p.remarks.date THEN 0
    ELSE LET dated == {i \in DOMAIN p.footnotes : p.footnotes[i].plan /\ p.footnotes[i].date}
         IN  IF dated = {} THEN None ELSE CHOOSE i \in dated : \A j \in dated : i <= j

\* The plan is mentioned by the form's checkbox, the remarks or a footnote.
Captured(p) ==
    p.checkbox \/ p.remarks.plan \/ \E i \in DOMAIN p.footnotes : p.footnotes[i].plan

\* DeterministicForm4Summarizer.summarize(): what the headline calls it, and
\* the date in the context.
Summarize ==
    /\ f4pc = "score"
    /\ f4pc' = "done"
    /\ score' = ScoreOf(content)
    /\ headline' = CASE score'.score > 0 -> "purchase"
                     [] score'.score < 0 -> "sale"
                     [] OTHER -> IF score'.conflict THEN "mixed" ELSE "change"
    /\ noted' = IF Captured(plan) THEN AdoptionDate(plan) ELSE None
    /\ UNCHANGED <<form4Page, content, plan, row>>

-----------------------------------------------------------------------------
\* The fields of each kind of row whose footnotes are collected.
Common == {"security_title", "shares_owned_following_transaction", "direct_or_indirect",
           "nature_of_ownership"}
Traded == {"transaction_date", "deemed_execution_date", "shares", "price_per_share",
           "acquired_disposed_code"}
Optioned == {"conversion_or_exercise_price", "exercise_date", "expiration_date",
             "underlying_security_title", "underlying_security_shares"}
Coded == {"transaction_form_type", "transaction_code", "equity_swap_involved",
          "transaction_timeliness"}

FootnoteFields(kind) ==
    CASE kind = "nonDerivativeTransaction" -> Common \cup Traded
      [] kind = "nonDerivativeHolding" -> Common
      [] kind = "derivativeTransaction" -> Common \cup Traded \cup Optioned
      [] kind = "derivativeHolding" -> Common \cup Optioned

\* The fields that are stored.
StoredFields(kind) ==
    FootnoteFields(kind)
        \cup IF kind \in {"nonDerivativeTransaction", "derivativeTransaction"} THEN Coded ELSE {}

\* Faulty variant of ReadAt: a footnote is read beside the value only.
ReadBeside(r, ref) == ref.field \in FootnoteFields(r.kind) /\ ~ref.inside

\* _extract_container() reads the footnotes inside a field's value and beside
\* it, but it is given the value of the exercise date, if it has one.
ReadAt(r, ref) ==
    /\ ref.field \in FootnoteFields(r.kind)
    /\ ref.field = "exercise_date" /\ r.dated => ref.inside

\* _flatten_footnote_ids() of the row.
RowFootnotes(r) == {ref.id : ref \in {x \in r.refs : ReadAt(r, x)}}

\* A row that refers to a footnote at one or two places.
ReadRow ==
    /\ f4pc = "row"
    /\ f4pc' = "done"
    /\ LET Refs == [field : StoredFields(row.kind), id : {1, 2}, inside : BOOLEAN]
       IN  \E a, b \in Refs : row' = [row EXCEPT !.refs = {a, b}]
    /\ UNCHANGED <<form4Page, content, plan, score, headline, noted>>

Form4Next == Locate \/ LoadCandidate \/ Parse \/ Summarize \/ ReadRow

Form4Spec == Form4Init /\ [][Form4Next]_form4Vars

-----------------------------------------------------------------------------
\* Each XML document of the listing is a candidate, once, and what the filing
\* calls a Form 4 is tried before other XML; the URL known from before first.
CandidatesAreRanked ==
    f4pc \in {"load", "parsed", "raised", "none"} =>
        LET listed == ToSet(Documents(tables))
            own == {d.url : d \in {x \in listed : x.form4 /\ IsXml(x)}}
            known == {preferred} \ {None}
        IN  /\ ToSet(urls) = known \cup {d.url : d \in {x \in listed : IsXml(x)}}
            /\ Len(urls) = Cardinality(ToSet(urls))
            /\ known # {} => urls[1] = preferred
            /\ \A i, j \in DOMAIN urls :
                  urls[i] \in own /\ urls[j] \notin own \cup known => i < j

\* A filing is given up only when each candidate was fetched and failed, with
\* the last error, which decides whether it is tried again; it is read from
\* the first candidate that will do, and none is fetched after it.
NoCandidateIsPassedOver ==
    /\ f4pc = "raised" => /\ Len(fetched) = Len(urls)
                          /\ lastError = ErrorOf(Last(fetched).answer)
    /\ \A i \in DOMAIN fetched :
          /\ fetched[i].url = urls[i]
          /\ fetched[i].answer = "xml" => i = Len(fetched) /\ f4pc = "parsed"

\* The headline follows the trades themselves: a purchase when insiders only
\* bought, a sale when they only sold, mixed when both, however many rows of
\* each there are; the confidence is high just when the trades agree.
HeadlineTellsTheTrades ==
    f4pc = "done" /\ headline # None =>
        LET codes == ToSet(content.nonDerivative) \cup ToSet(content.derivative)
            bought == "P" \in codes
            sold == "S" \in codes
        IN  /\ headline = CASE bought /\ ~sold -> "purchase"
                            [] sold /\ ~bought -> "sale"
                            [] bought /\ sold -> "mixed"
                            [] OTHER -> "change"
            /\ score.confidence = IF bought = sold THEN "low" ELSE "high"

\* The date in the summary of a plan is the one the remarks give, whether or not
\* they speak of the plan; if they give none, it is from a footnote that does speak
\* of it, and no such footnote's date is left out.
AdoptionDateIsOfThePlan ==
    f4pc = "done" /\ headline # None /\ Captured(plan) =>
        IF plan.remarks.date THEN noted = 0
        ELSE LET sources == {i \in DOMAIN plan.footnotes :
                                plan.footnotes[i] = [plan |-> TRUE, date |-> TRUE]}
             IN  IF noted = None THEN sources = {} ELSE noted \in sources

\* A footnote to a stored field is listed with the row, unless it stands at
\* the transaction's coding or beside the value of the exercise date.
FootnotesAreListed ==
    \A ref \in row.refs :
        \/ ref.id \in RowFootnotes(row)
        \/ ref.field \in Coded
        \/ ref.field = "exercise_date" /\ row.dated /\ ~ref.inside

\* The document of a filing is looked for at every address, the best one first.
EveryCandidateIsTried == CandidatesAreRanked /\ NoCandidateIsPassedOver

\* The summary says what the rows and the texts of the filing say.
SummaryTellsTheFiling == HeadlineTellsTheTrades /\ AdoptionDateIsOfThePlan

\* What is stored and shown of a filing that was read is what it says.
Form4IsReadRight == SummaryTellsTheFiling /\ FootnotesAreListed
=============================================================================
