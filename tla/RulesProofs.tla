------------------------------ MODULE RulesProofs ------------------------------
(***************************************************************************)
(* The parts that decide about one message, one filing or one page, for    *)
(* every value of their bounds: whatever the servers answer and wherever a *)
(* connection breaks, the user name and password are protected, the record *)
(* tells what happened, and the settings say what will be sent; what the   *)
(* Issues page tells of a Form 4 agrees with its history, wherever         *)
(* handlers fail or die; and what is read of a Form 4 or an 8-K is what    *)
(* its pages and texts say, from the first of its documents that will do.  *)
(***************************************************************************)
EXTENDS Channels, Issues, Form4Reading, EightKReading, FiniteSetTheorems, WellFoundedInduction,
        TLAPS

-----------------------------------------------------------------------------
(* One message to one destination (Channels).                              *)

\* A login is only reached over TLS, on this host, or without credentials.
LoginIsReachedSafely ==
    /\ chPc \in {"dispatch", "connect"} => ~loggedIn
    /\ chPc = "login" => secured \/ Local(S) \/ ~Credentials(S)

\* Nothing is accepted before it is sent, and an exception after it was
\* accepted is one that may pass.
AcceptedIsKnown ==
    /\ chPc \in {"dispatch", "post", "connect", "ehlo", "starttls", "login", "mail"} => ~accepted
    /\ chPc \in {"dispatch", "connect", "ehlo", "starttls", "login", "mail"} => failure = "none"
    /\ chPc = "quit" => IF failure = "none" THEN accepted ELSE accepted => failure = "SMTPException"
    /\ chPc \in {"record", "done"} =>
          /\ result.status = "sent" => accepted \/ redirected
          /\ accepted /\ result.status = "failed" => result.retryable

-----------------------------------------------------------------------------
\* Every step of a dialogue keeps the login safe.
LEMMA SafeStep ==
    LoginIsReachedSafely /\ CredentialsAreProtected /\ [ChannelNext]_channelVars
        => LoginIsReachedSafely' /\ CredentialsAreProtected'
  <1> SUFFICES ASSUME LoginIsReachedSafely, CredentialsAreProtected, [ChannelNext]_channelVars
               PROVE  LoginIsReachedSafely' /\ CredentialsAreProtected'
    OBVIOUS
  <1> USE DEF LoginIsReachedSafely, CredentialsAreProtected, S, Fixed, Goes, Ends, Raises, exchange
  <1>1. CASE Dispatch
    BY <1>1 DEF Dispatch
  <1>2. CASE Post
    BY <1>2 DEF Post
  <1>3. CASE Connect
    BY <1>3 DEF Connect
  <1>4. CASE Ehlo
    BY <1>4 DEF Ehlo
  <1>5. CASE StartTls
    BY <1>5 DEF StartTls
  <1>6. CASE Login
    BY <1>6 DEF Login
  <1>7. CASE Mail
    BY <1>7 DEF Mail
  <1>8. CASE Quit
    BY <1>8 DEF Quit
  <1>9. CASE Record
    BY <1>9 DEF Record
  <1>10. CASE UNCHANGED channelVars
    BY <1>10 DEF channelVars
  <1> QED  BY <1>1, <1>2, <1>3, <1>4, <1>5, <1>6, <1>7, <1>8, <1>9, <1>10 DEF ChannelNext

\* SmtpNotifier._send() gives the user name and password to a server only over
\* TLS or to this host, whatever the server says of itself and in whichever
\* step the dialogue ends.
THEOREM CredentialsSafe == ChannelSpec => []CredentialsAreProtected
  <1>1. ChannelInit => LoginIsReachedSafely /\ CredentialsAreProtected
    BY DEF ChannelInit, LoginIsReachedSafely, CredentialsAreProtected
  <1> QED  BY <1>1, SafeStep, PTL DEF ChannelSpec

-----------------------------------------------------------------------------
\* What a result says of itself.
LEMMA Results ==
    /\ Sent.status = "sent"
    /\ \A c : /\ Failed(c, TRUE).status = "failed" /\ Failed(c, TRUE).retryable = TRUE
             /\ Failed(c, FALSE).status = "failed" /\ Failed(c, FALSE).retryable = FALSE
             /\ Failed(c, c = "5xx").status = "failed"
  BY DEF Sent, Failed

\* An exception fails the message; that of a broken dialogue may pass.
LEMMA Exceptions ==
    /\ \A e : ResultOf(e).status = "failed"
    /\ ResultOf("SMTPException").retryable = TRUE
  BY DEF ResultOf, Failed

\* One post, by its answer.
LEMMA PostStep ==
  ASSUME Post, ~accepted
  PROVE  /\ chPc' = "record"
         /\ result'.status = "sent" => accepted' \/ redirected'
         /\ accepted' /\ result'.status = "failed" => result'.retryable
  <1> USE DEF Ends, Fixed
  <1>1. PICK answer \in {"2xx", "3xx", "4xx", "5xx", "timeout", "broken", "raises"} :
          /\ accepted' \in IF answer \in {"timeout", "broken"} THEN BOOLEAN ELSE {answer = "2xx"}
          /\ redirected' = (answer = "3xx" /\ channel = "slack")
          /\ Ends(CASE answer = "2xx" \/ (answer = "3xx" /\ channel = "slack") -> Sent
                    [] answer = "raises" -> Failed("Unexpected", FALSE)
                    [] answer \in {"timeout", "broken"} -> Failed("HTTPError", TRUE)
                    [] OTHER -> Failed("HttpError", answer = "5xx"))
    BY DEF Post
  <1>2. CASE answer = "2xx" \/ (answer = "3xx" /\ channel = "slack")
    <2>1. result' = Sent /\ chPc' = "record"
      BY <1>1, <1>2
    <2>2. answer = "2xx" => accepted'
      BY <1>1
    <2>3. answer # "2xx" => redirected'
      BY <1>1, <1>2
    <2> QED  BY <2>1, <2>2, <2>3, Results
  <1>3. CASE answer = "raises"
    <2>1. result' = Failed("Unexpected", FALSE) /\ chPc' = "record"
      BY <1>1, <1>3
    <2>2. ~accepted'
      BY <1>1, <1>3
    <2> QED  BY <2>1, <2>2, Results
  <1>4. CASE answer \in {"timeout", "broken"}
    <2>1. result' = Failed("HTTPError", TRUE) /\ chPc' = "record"
      BY <1>1, <1>4
    <2> QED  BY <2>1, Results
  <1>5. CASE answer \in {"4xx", "5xx"} \/ (answer = "3xx" /\ channel # "slack")
    <2>1. result' = Failed("HttpError", answer = "5xx") /\ chPc' = "record"
      BY <1>1, <1>5
    <2>2. ~accepted'
      BY <1>1, <1>5
    <2>3. result'.status = "failed"
      BY <2>1 DEF Failed
    <2> QED  BY <2>1, <2>2, <2>3
  <1> QED  BY <1>1, <1>2, <1>3, <1>4, <1>5

\* Every step keeps what is known of the receiver in line with the result.
LEMMA RecordStep ==
    AcceptedIsKnown /\ RecordTellsTheExchange /\ [ChannelNext]_channelVars
        => AcceptedIsKnown' /\ RecordTellsTheExchange'
  <1> SUFFICES ASSUME AcceptedIsKnown, RecordTellsTheExchange, [ChannelNext]_channelVars
               PROVE  AcceptedIsKnown' /\ RecordTellsTheExchange'
    OBVIOUS
  <1> USE DEF AcceptedIsKnown, RecordTellsTheExchange, S, Fixed, Goes, Ends, Raises, exchange
  <1>1. CASE Dispatch
    BY <1>1, Results DEF Dispatch
  <1>2. CASE Post
    <2>1. chPc = "post" /\ ~accepted
      BY <1>2 DEF Post
    <2> QED  BY <1>2, <2>1, PostStep
  <1>3. CASE Connect
    BY <1>3, Exceptions DEF Connect
  <1>4. CASE Ehlo
    BY <1>4 DEF Ehlo
  <1>5. CASE StartTls
    BY <1>5 DEF StartTls
  <1>6. CASE Login
    BY <1>6 DEF Login
  <1>7. CASE Mail
    BY <1>7 DEF Mail
  <1>8. CASE Quit
    <2>1. chPc = "quit" /\ chPc' = "record" /\ UNCHANGED <<accepted, redirected>>
      BY <1>8 DEF Quit
    <2>2. \/ failure = "none" /\ result' = Sent
          \/ failure # "none" /\ result' = ResultOf(failure)
          \/ result' = ResultOf("SMTPException")
      BY <1>8 DEF Quit
    <2> QED  BY <2>1, <2>2, Results, Exceptions
  <1>9. CASE Record
    <2>1. /\ chPc = "record" /\ chPc' = "done"
          /\ UNCHANGED <<accepted, redirected, result>>
          /\ [row |-> "DeliveryAttempt", status |-> result.status] \in attempt'
      BY <1>9 DEF Record
    <2> QED  BY <2>1
  <1>10. CASE UNCHANGED channelVars
    BY <1>10 DEF channelVars
  <1> QED  BY <1>1, <1>2, <1>3, <1>4, <1>5, <1>6, <1>7, <1>8, <1>9, <1>10 DEF ChannelNext

\* Each send leaves a DeliveryAttempt with its result; what says sent was taken
\* by the receiver, or Slack answered it with a redirect; and what may have been
\* taken never says failed for good.
THEOREM RecordSound == ChannelSpec => []RecordTellsTheExchange
  <1>1. ChannelInit => AcceptedIsKnown /\ RecordTellsTheExchange
    BY DEF ChannelInit, AcceptedIsKnown, RecordTellsTheExchange
  <1> QED  BY <1>1, RecordStep, PTL DEF ChannelSpec

-----------------------------------------------------------------------------
\* The kinds of settings, and what the validators make of each.
SlackSettings == [channel : {"slack"}, url : SlackUrls]
WebhookSettings == [channel : {"webhook"}, url : Given, form : WebhookForms, testMode : BOOLEAN]
SmtpSettings ==
    [channel : {"smtp"}, host : {Absent, "blank", "local", "remote"},
     port : {Absent, "blank", "465", "25"}, from : {Absent, "value"},
     to : {Absent, "blank", "name only", "address"}, user : Given, password : {Absent, "value"}]

\* What Settings makes of the texts for Slack.
LEMMA NormalizedSlack ==
    ASSUME NEW s \in SlackSettings
    PROVE  Normalized(s).channel = "slack" /\ Normalized(s).url = Normal(s.url)
  BY ChannelAssumption DEF Normalized, Normal, SlackSettings

\* What Settings makes of the texts for the webhook.
LEMMA NormalizedWebhook ==
    ASSUME NEW s \in WebhookSettings
    PROVE  /\ Normalized(s).channel = "webhook" /\ Normalized(s).url = Normal(s.url)
           /\ Normalized(s).testMode = s.testMode /\ Normalized(s).form = s.form
  BY ChannelAssumption DEF Normalized, Normal, WebhookSettings

\* What Settings makes of the texts for SMTP.
LEMMA NormalizedSmtp ==
    ASSUME NEW s \in SmtpSettings
    PROVE  /\ Normalized(s).channel = "smtp"
           /\ Normalized(s).host = Normal(s.host) /\ Normalized(s).port = Normal(s.port)
           /\ Normalized(s).from = Normal(s.from) /\ Normalized(s).to = Normal(s.to)
  BY ChannelAssumption DEF Normalized, Normal, SmtpSettings

\* What the page and the diagnostics say of the settings, and what the notifier
\* makes of them before it sends anything.
Refusals == {"MissingConfiguration", "InvalidConfiguration"}

Agree(s) ==
    LET n == Normalized(s)
    IN  /\ Refusal(n) \in Refusals \cup {"none"}
        /\ IsConfigured(n) <=> Refusal(n) # "MissingConfiguration"
        /\ Diagnosis(n) \in {"warn", "pass"}
        /\ Diagnosis(n) = "warn" =>
              Refusal(n) # "none" \/ (s.channel = "webhook" /\ s.form.begins = "other")
        /\ Diagnosis(n) = "pass" /\ Refusal(n) # "none" =>
              CASE s.channel = "slack" -> s.url = "http"
                [] s.channel = "smtp" -> s.to = "name only"
                [] s.channel = "webhook" -> s.form.begins = "http://localhost" /\ ~s.form.localHost

\* Page, diagnostics and notifier on Slack's settings.
LEMMA SlackAgrees == ASSUME NEW s \in SlackSettings PROVE Agree(s)
  <1> DEFINE n == Normalized(s)
  <1>1. n.channel = "slack" /\ n.url = Normal(s.url) /\ s.channel = "slack" /\ s.url \in SlackUrls
    BY NormalizedSlack DEF SlackSettings
  <1> HIDE DEF n
  <1>2. Refusal(n) = IF n.url = Absent THEN "MissingConfiguration"
                     ELSE IF n.url = "https" THEN "none" ELSE "InvalidConfiguration"
    BY <1>1, ChannelAssumption DEF Refusal, UrlAllowed, Normal, SlackUrls
  <1>3. Diagnosis(n) = IF n.url # Absent THEN "pass" ELSE "warn"
    BY <1>1 DEF Diagnosis
  <1>4. IsConfigured(n) <=> n.url # Absent
    BY <1>1 DEF IsConfigured
  <1>5. n.url = IF s.url = "blank" THEN Absent ELSE s.url
    BY <1>1 DEF Normal
  <1> QED  BY <1>1, <1>2, <1>3, <1>4, <1>5, ChannelAssumption DEF Agree, SlackUrls, Refusals, n

\* The same on the webhook's.
LEMMA WebhookAgrees == ASSUME NEW s \in WebhookSettings PROVE Agree(s)
  <1> DEFINE n == Normalized(s)
             u == s.form
  <1>1. /\ n.channel = "webhook" /\ n.url = Normal(s.url) /\ n.testMode = s.testMode /\ n.form = u
        /\ s.channel = "webhook" /\ s.url \in Given /\ s.testMode \in BOOLEAN /\ u \in WebhookForms
    BY NormalizedWebhook DEF WebhookSettings
  <1> HIDE DEF n, u
  <1>2. Refusal(n) = IF n.url = Absent THEN "MissingConfiguration"
                     ELSE IF u.scheme = "https" \/ (s.testMode /\ u.scheme = "http" /\ u.localHost)
                     THEN "none" ELSE "InvalidConfiguration"
    BY <1>1 DEF Refusal, UrlAllowed
  <1>3. Diagnosis(n) = IF /\ n.url # Absent
                          /\ \/ u.begins = "https://"
                             \/ s.testMode /\ u.begins = "http://localhost"
                       THEN "pass" ELSE "warn"
    BY <1>1 DEF Diagnosis
  <1>4. IsConfigured(n) <=> n.url # Absent
    BY <1>1 DEF IsConfigured
  <1>5. /\ u.begins = "https://" => u.scheme = "https"
        /\ u.begins = "http://localhost" => u.scheme = "http"
        /\ u.begins \in {"https://", "http://localhost", "other"}
    BY <1>1 DEF WebhookForms
  <1>6. Diagnosis(n) = "warn" => Refusal(n) # "none" \/ u.begins = "other"
    BY <1>1, <1>2, <1>3, <1>5
  <1>7. Diagnosis(n) = "pass" /\ Refusal(n) # "none" =>
            u.begins = "http://localhost" /\ ~u.localHost
    BY <1>1, <1>2, <1>3, <1>5
  <1> QED  BY <1>1, <1>2, <1>3, <1>4, <1>6, <1>7 DEF Agree, Refusals, n, u

\* The same on those of SMTP.
LEMMA SmtpAgrees == ASSUME NEW s \in SmtpSettings PROVE Agree(s)
  <1> DEFINE n == Normalized(s)
  <1>1. /\ n.channel = "smtp" /\ n.host = Normal(s.host) /\ n.port = Normal(s.port)
        /\ n.from = Normal(s.from) /\ n.to = Normal(s.to)
        /\ s.channel = "smtp" /\ s.to \in {Absent, "blank", "name only", "address"}
    BY NormalizedSmtp DEF SmtpSettings
  <1> HIDE DEF n
  <1>2. Refusal(n) = IF Absent \in {n.host, n.port, n.from, n.to} \/ n.to # "address"
                     THEN "MissingConfiguration" ELSE "none"
    BY <1>1 DEF Refusal, SmtpMissing
  <1>3. Diagnosis(n) = IF Absent \notin {n.host, n.port, n.from, n.to} THEN "pass" ELSE "warn"
    BY <1>1 DEF Diagnosis
  <1>4. IsConfigured(n) <=> Absent \notin {n.host, n.port, n.from} /\ n.to = "address"
    BY <1>1 DEF IsConfigured
  <1>5. n.to = IF s.to = "blank" THEN Absent ELSE s.to
    BY <1>1 DEF Normal
  <1> QED  BY <1>1, <1>2, <1>3, <1>4, <1>5, ChannelAssumption DEF Agree, Refusals, n

\* They agree on all settings, but for the cases that the property names.
LEMMA SettingsAgree == ASSUME NEW s \in Settings PROVE Agree(s)
  <1>1. s \in SlackSettings \/ s \in WebhookSettings \/ s \in SmtpSettings
    BY DEF Settings, SlackSettings, WebhookSettings, SmtpSettings
  <1> QED  BY <1>1, SlackAgrees, WebhookAgrees, SmtpAgrees

-----------------------------------------------------------------------------
\* The settings stay; an exchange begins only if they are not refused; and no
\* exception or answer is taken for a refusal.
SettingsDecide ==
    /\ setting \in Settings /\ channel = setting.channel
    /\ channelReady = IsConfigured(S) /\ doctor = Diagnosis(S)
    /\ chPc \notin {"dispatch", "record", "done"} => Refusal(S) = "none"
    /\ failure \notin Refusals
    /\ chPc \in {"record", "done"} =>
          IF Refusal(S) = "none" THEN result.class \notin Refusals ELSE result.class = Refusal(S)

\* The error class of a result is the one it was made with.
LEMMA Classes ==
    /\ Sent.class = "none"
    /\ \A c : Failed(c, TRUE).class = c /\ Failed(c, FALSE).class = c
    /\ \A c, a : Failed(c, a = "5xx").class = c
    /\ \A e : ResultOf(e).class = e
  BY DEF Sent, Failed, ResultOf

\* The steps of an exchange leave the settings; its result is not a refusal.
LEMMA ExchangeKeepsSettings ==
    ASSUME SettingsDecide, Fixed, chPc \notin {"dispatch", "record", "done"},
           failure' \notin Refusals, chPc' # "done", chPc' = "record" => result'.class \notin Refusals
    PROVE  SettingsDecide'
  BY DEF SettingsDecide, Fixed, S

\* What a receiver answers is no refusal of the settings.
LEMMA PostIsNoRefusal == ASSUME Post PROVE chPc' = "record" /\ result'.class \notin Refusals
  <1>1. \/ Ends(Sent) \/ Ends(Failed("Unexpected", FALSE)) \/ Ends(Failed("HTTPError", TRUE))
        \/ \E answer : Ends(Failed("HttpError", answer = "5xx"))
    BY DEF Post
  <1> DEFINE Ended(c) == chPc' = "record" /\ result'.class = c
  <1>2. ASSUME Ends(Sent) PROVE Ended("none")
    BY <1>2, Classes DEF Ends
  <1>3. ASSUME Ends(Failed("Unexpected", FALSE)) PROVE Ended("Unexpected")
    BY <1>3, Classes DEF Ends
  <1>4. ASSUME Ends(Failed("HTTPError", TRUE)) PROVE Ended("HTTPError")
    BY <1>4, Classes DEF Ends
  <1>5. ASSUME NEW answer, Ends(Failed("HttpError", answer = "5xx")) PROVE Ended("HttpError")
    BY <1>5, Classes DEF Ends
  <1>6. \E c \in {"none", "Unexpected", "HTTPError", "HttpError"} : Ended(c)
    BY <1>1, <1>2, <1>3, <1>4, <1>5
  <1> QED  BY <1>6 DEF Refusals

\* Only the first step looks at the settings, and decides by them.
LEMMA SettingsStep == SettingsDecide /\ [ChannelNext]_channelVars => SettingsDecide'
  <1> SUFFICES ASSUME SettingsDecide, [ChannelNext]_channelVars
               PROVE  SettingsDecide'
    OBVIOUS
  <1> USE DEF Goes, Ends, Raises, exchange, Refusals
  <1>0. failure \notin Refusals
    BY DEF SettingsDecide
  <1>1. CASE Dispatch
    <2>1. chPc = "dispatch" /\ Fixed /\ failure' = failure
      BY <1>1 DEF Dispatch
    <2>2. CASE Refusal(S) # "none"
      <3>1. chPc' = "record" /\ result' = Failed(Refusal(S), FALSE)
        BY <1>1, <2>2 DEF Dispatch
      <3> QED  BY <2>1, <2>2, <3>1, Classes DEF SettingsDecide, Fixed, S
    <2>3. CASE Refusal(S) = "none"
      <3>1. \/ chPc' = "record" /\ result' = Failed("Unexpected", FALSE)
            \/ chPc' \in {"connect", "post"}
        BY <1>1, <2>3 DEF Dispatch
      <3>2. result' = Failed("Unexpected", FALSE) => result'.class \notin Refusals
        BY Classes
      <3>3. Refusal(S') = "none" /\ S' = S
        BY <2>1, <2>3 DEF Fixed, S
      <3> QED  BY <2>1, <2>3, <3>1, <3>2, <3>3 DEF SettingsDecide, Fixed
    <2> QED  BY <2>2, <2>3
  <1>2. CASE Post
    BY <1>0, <1>2, PostIsNoRefusal, ExchangeKeepsSettings DEF Post
  <1>3. CASE Connect
    BY <1>0, <1>3, Classes, ExchangeKeepsSettings DEF Connect
  <1>4. CASE Ehlo
    BY <1>0, <1>4, ExchangeKeepsSettings DEF Ehlo
  <1>5. CASE StartTls
    BY <1>0, <1>5, ExchangeKeepsSettings DEF StartTls
  <1>6. CASE Login
    BY <1>0, <1>6, ExchangeKeepsSettings DEF Login
  <1>7. CASE Mail
    BY <1>0, <1>7, ExchangeKeepsSettings DEF Mail
  <1>8. CASE Quit
    <2>1. chPc = "quit" /\ chPc' = "record" /\ failure' = failure /\ Fixed
      BY <1>8 DEF Quit
    <2>2. result' = Sent \/ result' = ResultOf(failure) \/ result' = ResultOf("SMTPException")
      BY <1>8 DEF Quit
    <2> QED  BY <1>0, <2>1, <2>2, Classes, ExchangeKeepsSettings
  <1>9. CASE Record
    BY <1>9 DEF Record, SettingsDecide, S
  <1>10. CASE UNCHANGED channelVars
    BY <1>10 DEF channelVars, SettingsDecide, S
  <1> QED  BY <1>1, <1>2, <1>3, <1>4, <1>5, <1>6, <1>7, <1>8, <1>9, <1>10 DEF ChannelNext

\* What was decided by the settings is what page and diagnostics say.
LEMMA SettingsFollow == SettingsDecide => SettingsTellWhatIsSent
  <1> SUFFICES ASSUME SettingsDecide, chPc = "done"
               PROVE  ConfiguredMeansComplete /\ DiagnosticsFollowTheNotifiers
    BY DEF SettingsTellWhatIsSent, ConfiguredMeansComplete, DiagnosticsFollowTheNotifiers
  <1>1. Agree(setting) /\ S = Normalized(setting)
    BY SettingsAgree DEF SettingsDecide, S
  <1>2. /\ channelReady = IsConfigured(S) /\ doctor = Diagnosis(S) /\ channel = setting.channel
        /\ IF Refusal(S) = "none" THEN result.class \notin Refusals ELSE result.class = Refusal(S)
    BY DEF SettingsDecide
  <1>3. ConfiguredMeansComplete
    BY <1>1, <1>2 DEF Agree, ConfiguredMeansComplete, Refusals
  <1>4. DiagnosticsFollowTheNotifiers
    BY <1>1, <1>2 DEF Agree, DiagnosticsFollowTheNotifiers, Refusals
  <1> QED  BY <1>3, <1>4

\* A channel that the destinations page calls configured is not refused for a
\* missing setting, one that it does not is; and the diagnostics foretell a
\* refusal but for the cases that the property names.
THEOREM SettingsSound == ChannelSpec => []SettingsTellWhatIsSent
  <1>1. ChannelInit => SettingsDecide
    BY DEF ChannelInit, SettingsDecide, S, Refusals
  <1> QED  BY <1>1, SettingsStep, SettingsFollow, PTL DEF ChannelSpec

-----------------------------------------------------------------------------
(* What the Issues page tells of one Form 4 (Issues).                      *)

Filing == [status : {"absent", "success", "failed"}, summary : Texts \cup {Blank},
           rewrite : Texts \cup {Blank}, url : BOOLEAN, updated : Nat]

Stages == {"form4_accession", "form4_parser", "form4_xml_locator", "reparse", "openai_rewrite"}

Types ==
    /\ now \in Nat /\ parsed \in Nat /\ cleared \in Nat
    /\ filing \in Filing
    /\ errors \subseteq [stage : Stages, at : Nat]

\* Nothing was written after now.
Times == parsed <= now /\ cleared <= now /\ filing.updated <= now

\* A row that says success was last written by a parse, or by a reparse that
\* cleared a rewrite; without a row nothing was parsed.
SuccessIsDated ==
    /\ filing.status = "success" => filing.updated >= parsed /\ filing.updated \in {parsed, cleared}
    /\ filing.status = "absent" => parsed = 0

\* The errors that can stand for a failed filing.
Failure(e) == e.stage \in {"form4_xml_locator", "reparse"} /\ e.at > parsed

\* A failed filing has such an error, and one that is about to fail has it.
FailureIsDated ==
    \/ job # "mark-failed" /\ (filing.status = "failed" => job = "record-missing" \/ unrecorded)
    \/ \E e \in errors : Failure(e)

IssuesInv == Types /\ Times /\ RewriteFitsTheParse /\ SuccessIsDated /\ FailureIsDated

-----------------------------------------------------------------------------
\* What is left of the row, if another one is written or not.
LEMMA Updated ==
    ASSUME filing \in Filing, NEW new \in Filing, NEW at \in Nat
    PROVE  /\ Update(new, at) \in Filing
           /\ \/ Update(new, at) = filing /\ filing.status = new.status
              \/ /\ Update(new, at).status = new.status
                 /\ Update(new, at).summary = new.summary
                 /\ Update(new, at).rewrite = new.rewrite
                 /\ Update(new, at).updated = at
  <1>1. CASE [new EXCEPT !.updated = 0] = [filing EXCEPT !.updated = 0]
    <2>1. [new EXCEPT !.updated = 0].status = new.status
      BY DEF Filing
    <2>2. [filing EXCEPT !.updated = 0].status = filing.status
      BY DEF Filing
    <2> QED  BY <1>1, <2>1, <2>2 DEF Update
  <1>2. CASE [new EXCEPT !.updated = 0] # [filing EXCEPT !.updated = 0]
    <2>1. Update(new, at) = [new EXCEPT !.updated = at]
      BY <1>2 DEF Update
    <2> QED  BY <2>1 DEF Filing
  <1> QED  BY <1>1, <1>2

\* A row that is written has another updated_at than it had.
LEMMA WrittenIsLater ==
    ASSUME Types, Times, now' \in Nat, now' > now, filing'.updated = now'
    PROVE  filing' # filing
  BY DEF Types, Times, Filing

-----------------------------------------------------------------------------
\* What is written is dated by the new now.
LEMMA TimesKept ==
    ASSUME Types, Times, now' \in Nat, now' >= now,
           parsed' \in {parsed, now'}, cleared' \in {cleared, now'},
           filing' \in Filing, filing' = filing \/ filing'.updated = now',
           errors' \subseteq [stage : Stages, at : Nat]
    PROVE  Types' /\ Times'
  <1>1. Types'
    <2>1. parsed' \in Nat /\ cleared' \in Nat
      BY DEF Types
    <2> QED  BY <2>1 DEF Types
  <1>2. parsed' <= now' /\ cleared' <= now'
    BY DEF Types, Times
  <1>3. filing'.updated <= now'
    <2>1. filing.updated \in Nat
      BY DEF Types, Filing
    <2> QED  BY <2>1 DEF Types, Times
  <1> QED  BY <1>1, <1>2, <1>3 DEF Times

\* At the start there is neither filing nor error.
LEMMA InitHolds == IssuesInit => IssuesInv
  BY IssuesAssumption
  DEF IssuesInit, IssuesInv, Types, Times, Filing, NoFiling, RewriteFitsTheParse, SuccessIsDated,
      FailureIsDated

\* A handler that raises leaves the row; its error is later than the last parse.
LEMMA FailsKeepsInv ==
    ASSUME IssuesInv, NEW stage \in Stages, job # "mark-failed",
           now' = now + 1, errors' = errors \cup {Error(stage, now')},
           UNCHANGED <<filing, parsed, cleared, unrecorded>>,
           job' = "mark-failed" \/ job = "record-missing"
               => stage \in {"form4_xml_locator", "reparse"}
    PROVE  IssuesInv'
  <1>1. errors' = errors \cup {[stage |-> stage, at |-> now']}
    BY DEF Error
  <1>3. Types' /\ Times'
    <2>1. now \in Nat /\ filing \in Filing /\ errors \subseteq [stage : Stages, at : Nat]
      BY DEF IssuesInv, Types
    <2> QED  BY <1>1, <2>1, TimesKept DEF IssuesInv
  <1>4. RewriteFitsTheParse' /\ SuccessIsDated'
    BY <1>1 DEF IssuesInv, RewriteFitsTheParse, SuccessIsDated
  <1>5. FailureIsDated'
    <2>1. CASE job' = "mark-failed" \/ job = "record-missing"
      <3> DEFINE e == [stage |-> stage, at |-> now']
      <3>1. now' > parsed'
        BY <1>1 DEF IssuesInv, Types, Times
      <3>2. e.stage \in {"form4_xml_locator", "reparse"} /\ e.at > parsed'
        BY <2>1, <3>1
      <3>3. e \in errors'
        BY <1>1
      <3>4. \E x \in errors' : x.stage \in {"form4_xml_locator", "reparse"} /\ x.at > parsed'
        BY <3>2, <3>3
      <3> QED  BY <3>4 DEF FailureIsDated, Failure
    <2>2. CASE job' # "mark-failed" /\ job # "record-missing"
      BY <1>1, <2>2 DEF FailureIsDated, IssuesInv, Failure
    <2> QED  BY <2>1, <2>2
  <1> QED  BY <1>3, <1>4, <1>5 DEF IssuesInv

\* reparse_filing() clears the rewrite and nothing else.
LEMMA ReparseKeepsInv ==
    ASSUME IssuesInv, Reparse
    PROVE  IssuesInv'
  <1> DEFINE new == [filing EXCEPT !.rewrite = Blank]
  <1>1. /\ now' = now + 1 /\ filing' = Update(new, now')
        /\ cleared' = IF filing' # filing THEN now' ELSE cleared
        /\ UNCHANGED <<errors, parsed, unrecorded>>
        /\ job = "none" /\ job' = "reparse" /\ filing.status # "absent"
    BY DEF Reparse, Starts, Ticks
  <1>2. now \in Nat /\ now' \in Nat /\ now' > now /\ filing \in Filing
    BY <1>1 DEF IssuesInv, Types
  <1>3. new \in Filing /\ new.rewrite = Blank /\ new.status = filing.status
    BY <1>2 DEF Filing
  <1>4. /\ filing' \in Filing
        /\ \/ filing' = filing
           \/ /\ filing'.status = filing.status
              /\ filing'.rewrite = Blank
              /\ filing'.updated = now'
    <2> HIDE DEF new
    <2> QED  BY <1>1, <1>2, <1>3, Updated
  <1>5. filing' # filing => filing'.updated = now' /\ cleared' = now'
    BY <1>1, <1>4
  <1>6. Types' /\ Times'
    <2>1. errors' \subseteq [stage : Stages, at : Nat]
      BY <1>1 DEF IssuesInv, Types
    <2> QED  BY <1>1, <1>2, <1>4, <1>5, <2>1, TimesKept DEF IssuesInv
  <1>7. RewriteFitsTheParse'
    BY <1>4 DEF IssuesInv, RewriteFitsTheParse
  <1>8. SuccessIsDated'
    BY <1>1, <1>2, <1>4, <1>5 DEF IssuesInv, SuccessIsDated, Types, Times
  <1>9. FailureIsDated'
    BY <1>1, <1>4 DEF IssuesInv, FailureIsDated, Failure
  <1> QED  BY <1>6, <1>7, <1>8, <1>9 DEF IssuesInv

\* A parse that changes something is dated by now.
LEMMA StoreKeepsInv ==
    ASSUME IssuesInv, Store
    PROVE  IssuesInv'
  <1>1. PICK text \in Texts, touched \in BOOLEAN, outcome \in Rewrites :
          LET written == touched \/ ~filing.url
              new == [status |-> "success", summary |-> text, url |-> TRUE,
                      rewrite |-> RewriteOf(outcome, text), updated |-> 0]
          IN  IF outcome = "failure" /\ written
              THEN Fails(IF job = "process" THEN "form4_accession" ELSE "reparse", FALSE)
              ELSE /\ Ticks(2) /\ job' = "none"
                   /\ filing' = IF touched \/ outcome = "text"
                                THEN [new EXCEPT !.updated = now'] ELSE Update(new, now')
                   /\ errors' = IF outcome = "failure"
                                THEN errors \cup {Error("openai_rewrite", now' - 1)} ELSE errors
                   /\ parsed' = IF filing' # filing THEN now' ELSE parsed
                   /\ unrecorded' = FALSE
                   /\ UNCHANGED cleared
    BY DEF Store
  <1> DEFINE new == [status |-> "success", summary |-> text, url |-> TRUE,
                     rewrite |-> RewriteOf(outcome, text), updated |-> 0]
  <1>2. job \in {"process", "reparse"}
    BY DEF Store
  <1>3. CASE outcome = "failure" /\ (touched \/ ~filing.url)
    <2>1. Fails(IF job = "process" THEN "form4_accession" ELSE "reparse", FALSE)
      BY <1>1, <1>3
    <2>2. CASE job = "process"
      BY <2>1, <2>2, FailsKeepsInv DEF Fails, Ticks, Stages
    <2>3. CASE job = "reparse"
      BY <2>1, <2>3, FailsKeepsInv DEF Fails, Ticks, Stages
    <2> QED  BY <1>2, <2>2, <2>3
  <1>4. CASE ~(outcome = "failure" /\ (touched \/ ~filing.url))
    <2>1. /\ now' = now + 2 /\ job' = "none"
          /\ filing' = IF touched \/ outcome = "text"
                       THEN [new EXCEPT !.updated = now'] ELSE Update(new, now')
          /\ parsed' = IF filing' # filing THEN now' ELSE parsed
          /\ UNCHANGED cleared
      BY <1>1, <1>4 DEF Ticks
    <2>2. errors' = errors \/ errors' = errors \cup {[stage |-> "openai_rewrite", at |-> now' - 1]}
      BY <1>1, <1>4 DEF Error
    <2>3. now \in Nat /\ now' \in Nat /\ now' > now /\ now' - 1 \in Nat /\ filing \in Filing
      BY <2>1 DEF IssuesInv, Types
    <2>4. RewriteOf(outcome, text) \in {text, Blank}
      BY DEF RewriteOf
    <2>5. /\ new \in Filing /\ new.status = "success" /\ new.summary = text
          /\ new.rewrite \in {text, Blank}
      BY <2>4 DEF Filing
    <2>6. /\ filing' \in Filing /\ filing'.status = "success"
          /\ \/ filing' = filing
             \/ filing'.updated = now' /\ filing'.summary = text /\ filing'.rewrite \in {text, Blank}
      <3>1. CASE touched \/ outcome = "text"
        BY <2>1, <2>3, <2>5, <3>1 DEF Filing
      <3>2. CASE ~(touched \/ outcome = "text")
        <4>1. filing' = Update(new, now')
          BY <2>1, <3>2
        <4> HIDE DEF new
        <4> QED  BY <2>3, <2>5, <4>1, Updated
      <3> QED  BY <3>1, <3>2
    <2>7. filing' # filing => filing'.updated = now' /\ parsed' = now'
      BY <2>1, <2>6
    <2>8. Types' /\ Times'
      <3>0. /\ errors \subseteq [stage : Stages, at : Nat]
            /\ [stage |-> "openai_rewrite", at |-> now' - 1] \in [stage : Stages, at : Nat]
        BY <2>3 DEF IssuesInv, Types, Stages
      <3>1. errors' \subseteq [stage : Stages, at : Nat]
        BY <2>2, <3>0
      <3>2. parsed' \in {parsed, now'}
        BY <2>1
      <3> QED  BY <2>1, <2>3, <2>6, <3>1, <3>2, TimesKept DEF IssuesInv
    <2>9. RewriteFitsTheParse'
      BY <2>6 DEF IssuesInv, RewriteFitsTheParse
    <2>10. SuccessIsDated'
      BY <2>1, <2>3, <2>6, <2>7 DEF IssuesInv, SuccessIsDated, Types, Times
    <2>11. FailureIsDated'
      BY <2>1, <2>6 DEF FailureIsDated
    <2> QED  BY <2>8, <2>9, <2>10, <2>11 DEF IssuesInv
  <1> QED  BY <1>3, <1>4

\* A row that is marked as failed keeps no rewrite.
LEMMA FailedRow ==
    ASSUME IssuesInv, NEW new \in Filing, new.status = "failed", new.rewrite = Blank,
           filing' = Update(new, now') \/ UNCHANGED filing,
           now' = now + 1, UNCHANGED <<errors, parsed, cleared, unrecorded>>
    PROVE  /\ Types' /\ Times' /\ RewriteFitsTheParse' /\ SuccessIsDated'
           /\ filing'.status \in {filing.status, "failed"}
  <1>1. now \in Nat /\ now' \in Nat /\ now' > now /\ filing \in Filing
    BY DEF IssuesInv, Types
  <1>2. /\ filing' \in Filing
        /\ \/ filing' = filing
           \/ filing'.status = "failed" /\ filing'.rewrite = Blank /\ filing'.updated = now'
    BY <1>1, Updated
  <1>3. Types' /\ Times'
    <2>1. errors' \subseteq [stage : Stages, at : Nat]
      BY DEF IssuesInv, Types
    <2> QED  BY <1>1, <1>2, <2>1, TimesKept DEF IssuesInv
  <1>4. RewriteFitsTheParse' /\ SuccessIsDated'
    BY <1>2 DEF IssuesInv, RewriteFitsTheParse, SuccessIsDated
  <1> QED  BY <1>2, <1>3, <1>4

\* A filing without XML is stored as failed, the error to follow.
LEMMA MissingKeepsInv ==
    ASSUME IssuesInv, Missing
    PROVE  IssuesInv'
  <1> DEFINE new == [NoFiling EXCEPT !.status = "failed"]
  <1>1. /\ filing' = Update(new, now') \/ UNCHANGED filing
        /\ now' = now + 1 /\ job' = "record-missing"
        /\ UNCHANGED <<errors, parsed, cleared, unrecorded>>
    BY DEF Missing, Ticks
  <1>2. new \in Filing /\ new.status = "failed" /\ new.rewrite = Blank
    BY DEF NoFiling, Filing
  <1>3. Types' /\ Times' /\ RewriteFitsTheParse' /\ SuccessIsDated'
    <2> HIDE DEF new
    <2> QED  BY <1>1, <1>2, FailedRow
  <1>4. FailureIsDated'
    BY <1>1 DEF FailureIsDated
  <1> QED  BY <1>3, <1>4 DEF IssuesInv

\* A filing whose handler failed is stored as failed, the error to follow.
LEMMA MarkFailedKeepsInv ==
    ASSUME IssuesInv, MarkFailed
    PROVE  IssuesInv'
  <1> DEFINE new == [filing EXCEPT !.status = "failed", !.rewrite = Blank]
  <1>1. /\ filing' = Update(new, now') /\ now' = now + 1
        /\ job = "mark-failed" /\ UNCHANGED <<errors, parsed, cleared, unrecorded>>
    BY DEF MarkFailed, Ticks
  <1>2. new \in Filing /\ new.status = "failed" /\ new.rewrite = Blank
    BY DEF IssuesInv, Types, Filing
  <1>3. Types' /\ Times' /\ RewriteFitsTheParse' /\ SuccessIsDated'
    <2> HIDE DEF new
    <2> QED  BY <1>1, <1>2, FailedRow
  <1>4. FailureIsDated'
    BY <1>1 DEF IssuesInv, FailureIsDated, Failure
  <1> QED  BY <1>3, <1>4 DEF IssuesInv

\* The steps that write neither the row nor an error.
LEMMA QuietKeepsInv ==
    ASSUME IssuesInv, UNCHANGED <<filing, errors, parsed, cleared>>, now' \in {now, now + 1},
           unrecorded => unrecorded',
           job = "record-missing" => job' = "record-missing" \/ unrecorded',
           job' # "mark-failed" \/ job' = job
    PROVE  IssuesInv'
  <1>1. Types' /\ Times'
    <2>1. now \in Nat /\ filing \in Filing /\ errors \subseteq [stage : Stages, at : Nat]
      BY DEF IssuesInv, Types
    <2> QED  BY <2>1, TimesKept DEF IssuesInv
  <1>2. RewriteFitsTheParse' /\ SuccessIsDated'
    BY DEF IssuesInv, RewriteFitsTheParse, SuccessIsDated
  <1>3. FailureIsDated'
    BY DEF IssuesInv, FailureIsDated, Failure
  <1> QED  BY <1>1, <1>2, <1>3 DEF IssuesInv

\* Every step keeps the invariant.
LEMMA StepKeepsInv == IssuesInv /\ [IssuesNext]_issueVars => IssuesInv'
  <1> SUFFICES ASSUME IssuesInv, [IssuesNext]_issueVars
               PROVE  IssuesInv'
    OBVIOUS
  <1>0. now \in Nat
    BY DEF IssuesInv, Types
  <1>1. CASE Process
    BY <1>0, <1>1, QuietKeepsInv DEF Process, Starts, Ticks
  <1>2. CASE Revalidate
    BY <1>0, <1>2, QuietKeepsInv DEF Revalidate, Starts, Ticks
  <1>3. CASE Reparse
    BY <1>3, ReparseKeepsInv
  <1>4. CASE ProcessRaises
    BY <1>4, FailsKeepsInv DEF ProcessRaises, Fails, Ticks, Stages
  <1>5. CASE ReparseRaises
    BY <1>5, FailsKeepsInv DEF ReparseRaises, Fails, Ticks, Stages
  <1>6. CASE Store
    BY <1>6, StoreKeepsInv
  <1>7. CASE Missing
    BY <1>7, MissingKeepsInv
  <1>8. CASE RecordMissing
    BY <1>8, FailsKeepsInv DEF RecordMissing, Fails, Ticks, Stages
  <1>9. CASE MarkFailed
    BY <1>9, MarkFailedKeepsInv
  <1>10. CASE ReturnEarly
    BY <1>0, <1>10, QuietKeepsInv DEF ReturnEarly, Ticks
  <1>11. CASE HandlerDies
    <2>1. unrecorded' = (unrecorded \/ job = "record-missing")
      BY <1>11 DEF HandlerDies
    <2>2. /\ unrecorded => unrecorded'
          /\ job = "record-missing" => unrecorded'
      BY <2>1, Zenon
    <2>3. job' = "none" /\ now' = now /\ UNCHANGED <<filing, errors, parsed, cleared>>
      BY <1>0, <1>11 DEF HandlerDies, Ticks
    <2> QED  BY <2>2, <2>3, QuietKeepsInv
  <1>12. CASE TimePasses
    BY <1>0, <1>12, QuietKeepsInv DEF TimePasses, Ticks
  <1>13. CASE UNCHANGED issueVars
    BY <1>13, QuietKeepsInv DEF issueVars
  <1> QED
    BY <1>1, <1>2, <1>3, <1>4, <1>5, <1>6, <1>7, <1>8, <1>9, <1>10, <1>11, <1>12, <1>13
    DEF IssuesNext

\* The inductive invariant of the record of one Form 4, for both windows and any
\* length of history.
THEOREM IssuesInvariance == IssuesSpec => []IssuesInv
  BY InitHolds, StepKeepsInv, PTL DEF IssuesSpec

-----------------------------------------------------------------------------
\* The rewrite that is on show is of the summary on show: the order in which
\* processing, reparses and failures write the two fields leaves no other.
THEOREM RewriteSound == IssuesSpec => []RewriteFitsTheParse
  <1>1. IssuesInv => RewriteFitsTheParse
    BY DEF IssuesInv
  <1> QED  BY <1>1, IssuesInvariance, PTL

\* What the page calls recovered was parsed or cleared after its error.
LEMMA RecoveredFollows == IssuesInv => RecoveredWasParsed
  <1> SUFFICES ASSUME IssuesInv, NEW e \in errors
               PROVE  /\ IssueState(e) = "recovered" => parsed > e.at \/ cleared > e.at
                      /\ parsed > e.at => IssueState(e) = "recovered" \/ filing.status = "failed"
    BY DEF RecoveredWasParsed
  <1>1. e.at \in Nat /\ parsed \in Nat /\ cleared \in Nat /\ filing \in Filing
    BY DEF IssuesInv, Types
  <1>2. IssueState(e) = "recovered" <=> Recovered(e)
    BY DEF IssueState
  <1>3. filing.status \in {"absent", "success", "failed"} /\ filing.updated \in Nat
    BY <1>1 DEF Filing
  <1> QED  BY <1>1, <1>2, <1>3 DEF Recovered, IssuesInv, SuccessIsDated

\* A failed filing has its error, later than its last parse.
LEMMA FailureFollows == IssuesInv => FailureIsOnRecord
  <1> SUFFICES ASSUME IssuesInv, filing.status = "failed", job # "record-missing", ~unrecorded
               PROVE  \E e \in errors : /\ e.stage \in {"form4_xml_locator", "reparse"}
                                        /\ e.at > parsed
                                        /\ e.at >= now - IssueWindow => Health = "Needs review"
    BY DEF FailureIsOnRecord
  <1>1. PICK e \in errors : Failure(e)
    BY DEF IssuesInv, FailureIsDated
  <1>2. ASSUME e.at >= now - IssueWindow
        PROVE  Health = "Needs review"
    <2>1. ~Recovered(e)
      BY DEF Recovered
    <2>2. IssueState(e) = "current"
      BY <1>2, <2>1 DEF IssueState
    <2> QED  BY <2>2 DEF Health
  <1> QED  BY <1>1, <1>2 DEF Failure

\* An issue is shown as recovered on account of a parse that was stored after it,
\* or of a rewrite that a reparse has cleared since; and a failed filing never goes
\* without an issue, unless the process died between failing it and recording why.
THEOREM IssuesSound == IssuesSpec => []IssuesPageTellsTheRecord
  <1>1. IssuesInv => IssuesPageTellsTheRecord
    BY RecoveredFollows, FailureFollows DEF IssuesPageTellsTheRecord
  <1> QED  BY <1>1, IssuesInvariance, PTL
-----------------------------------------------------------------------------
(* What is stored and shown of one Form 4 (Form4Reading).                  *)

\* A row refers to footnotes at the fields that are stored of its kind.
Fields == UNION {StoredFields(k) : k \in Kinds}
Rows == [kind : Kinds, dated : BOOLEAN,
         refs : SUBSET [field : Fields, id : {1, 2}, inside : BOOLEAN]]

RowIsStored == row \in Rows /\ \A ref \in row.refs : ref.field \in StoredFields(row.kind)

Headline(s) == IF s.score > 0 THEN "purchase" ELSE IF s.score < 0 THEN "sale"
               ELSE IF s.conflict THEN "mixed" ELSE "change"

\* A headline is that of the content, and the last thing that is made of it.
HeadlineIsLast ==
    /\ content \in Content /\ plan \in Plan
    /\ headline # None =>
          /\ f4pc = "done"
          /\ score = ScoreOf(content) /\ headline = Headline(score)
          /\ noted = IF Captured(plan) THEN AdoptionDate(plan) ELSE None

ReadInv == RowIsStored /\ HeadlineIsLast

-----------------------------------------------------------------------------
\* A code is counted if and only if one of the two tables has it.
LEMMA Counted ==
    ASSUME NEW c \in Content, NEW code
    PROVE  /\ Count(c, code) \in Nat
           /\ Count(c, code) > 0 <=> code \in ToSet(c.nonDerivative) \cup ToSet(c.derivative)
  <1> DEFINE nd == c.nonDerivative
             dv == c.derivative
             all == nd \o dv
             hits == {i \in DOMAIN all : all[i] = code}
  <1>1. nd \in Seq(Codes) /\ dv \in Seq(Codes)
    BY DEF Content, UpTo
  <1> HIDE DEF nd, dv
  <1>2. /\ all \in Seq(Codes) /\ Len(nd) \in Nat /\ Len(dv) \in Nat
        /\ DOMAIN all = 1..(Len(nd) + Len(dv))
        /\ DOMAIN nd = 1..Len(nd) /\ DOMAIN dv = 1..Len(dv)
        /\ \A i \in DOMAIN all : all[i] = IF i <= Len(nd) THEN nd[i] ELSE dv[i - Len(nd)]
    BY <1>1
  <1> HIDE DEF all
  <1>3. IsFiniteSet(hits)
    <2>1. IsFiniteSet(1..(Len(nd) + Len(dv)))
      BY <1>2, FS_Interval
    <2> QED  BY <1>2, <2>1, FS_Subset
  <1>4. Cardinality(hits) \in Nat /\ (Cardinality(hits) = 0 <=> hits = {})
    BY <1>3, FS_CardinalityType, FS_EmptySet
  <1>5. hits # {} <=> code \in ToSet(nd) \cup ToSet(dv)
    <2>1. ASSUME NEW i \in hits PROVE code \in ToSet(nd) \cup ToSet(dv)
      <3>1. \/ i \in 1..Len(nd) /\ nd[i] = code
            \/ i - Len(nd) \in 1..Len(dv) /\ dv[i - Len(nd)] = code
        BY <1>2
      <3> QED  BY <1>2, <3>1 DEF ToSet
    <2>2. ASSUME code \in ToSet(nd) PROVE hits # {}
      <3>1. PICK i \in 1..Len(nd) : nd[i] = code
        BY <1>2, <2>2 DEF ToSet
      <3>2. i \in hits
        BY <1>2, <3>1
      <3> QED  BY <3>2
    <2>3. ASSUME code \in ToSet(dv) PROVE hits # {}
      <3>1. PICK i \in 1..Len(dv) : dv[i] = code
        BY <1>2, <2>3 DEF ToSet
      <3>2. Len(nd) + i \in hits
        BY <1>2, <3>1
      <3> QED  BY <3>2
    <2> QED  BY <2>1, <2>2, <2>3
  <1>6. Count(c, code) = Cardinality(hits)
    BY DEF Count, Trades, all, nd, dv
  <1> QED  BY <1>4, <1>5, <1>6 DEF nd, dv

\* Trades go both ways if there are purchases and sales.
LEMMA DirectionsCounted ==
    ASSUME NEW c
    PROVE  Cardinality(Directions(c)) > 1 <=> Count(c, "P") > 0 /\ Count(c, "S") > 0
  <1> DEFINE both == Count(c, "P") > 0 /\ Count(c, "S") > 0
  <1>1. /\ 1 \in Directions(c) <=> Count(c, "P") > 0
        /\ -1 \in Directions(c) <=> Count(c, "S") > 0
        /\ Directions(c) \subseteq {1, -1}
    BY DEF Directions
  <1>2. Cardinality({1, -1}) = 2 /\ Cardinality({1}) = 1 /\ Cardinality({-1}) = 1
        /\ Cardinality({}) = 0
    <2>1. IsFiniteSet({}) /\ Cardinality({}) = 0
      BY FS_EmptySet
    <2>2. Cardinality({1}) = 1 /\ Cardinality({-1}) = 1 /\ IsFiniteSet({1})
      BY FS_Singleton
    <2>3. Cardinality({1} \cup {-1}) = 2
      BY <2>2, FS_AddElement
    <2>4. {1} \cup {-1} = {1, -1}
      OBVIOUS
    <2> QED  BY <2>1, <2>2, <2>3, <2>4
  <1>3. CASE both
    <2>1. Directions(c) = {1, -1}
      BY <1>1, <1>3
    <2> QED  BY <1>2, <1>3, <2>1
  <1>4. CASE ~both
    <2>1. Directions(c) \in {{}, {1}, {-1}}
      BY <1>1, <1>4
    <2> QED  BY <1>2, <1>4, <2>1
  <1> QED  BY <1>3, <1>4

\* The score and the confidence follow which of the two codes occur.
LEMMA Scored ==
    ASSUME NEW c \in Content
    PROVE  LET bought == "P" \in ToSet(c.nonDerivative) \cup ToSet(c.derivative)
               sold == "S" \in ToSet(c.nonDerivative) \cup ToSet(c.derivative)
               s == ScoreOf(c)
           IN  /\ s.score \in Int
               /\ s.score > 0 <=> bought /\ ~sold
               /\ s.score < 0 <=> sold /\ ~bought
               /\ s.conflict <=> bought /\ sold
               /\ s.confidence = IF bought <=> sold THEN "low" ELSE "high"
  <1> DEFINE p == Count(c, "P")
             q == Count(c, "S")
             conflict == Cardinality(Directions(c)) > 1
             x == IF conflict THEN 0 ELSE Clamp(p - q)
  <1>1. p \in Nat /\ q \in Nat
    BY Counted
  <1>2. /\ p > 0 <=> "P" \in ToSet(c.nonDerivative) \cup ToSet(c.derivative)
        /\ q > 0 <=> "S" \in ToSet(c.nonDerivative) \cup ToSet(c.derivative)
    BY Counted
  <1>3. conflict <=> p > 0 /\ q > 0
    BY DirectionsCounted
  <1>4. /\ ScoreOf(c).score = x /\ (ScoreOf(c).conflict <=> conflict)
        /\ ScoreOf(c).confidence = Confidence(x, Directions(c), c.owners, Count(c, "other") > 0)
    BY DEF ScoreOf
  <1> HIDE DEF p, q, conflict
  <1>5. /\ x \in Int
        /\ x > 0 <=> p > 0 /\ ~(q > 0)
        /\ x < 0 <=> q > 0 /\ ~(p > 0)
        /\ x = 0 \/ Abs(x) >= 1
    BY <1>1, <1>3 DEF Clamp, Abs
  <1> HIDE DEF x
  <1>6. Confidence(x, Directions(c), c.owners, Count(c, "other") > 0)
            = IF conflict \/ x = 0 THEN "low" ELSE "high"
    BY <1>5 DEF Confidence, conflict
  <1>7. conflict \/ x = 0 <=> (p > 0 <=> q > 0)
    BY <1>1, <1>3, <1>5
  <1> QED  BY <1>2, <1>3, <1>4, <1>5, <1>6, <1>7

\* The headline and the confidence follow the trades.
LEMMA TradesFollow == HeadlineIsLast => HeadlineTellsTheTrades
  <1> SUFFICES ASSUME HeadlineIsLast, headline # None
               PROVE  HeadlineTellsTheTrades
    BY DEF HeadlineTellsTheTrades
  <1> DEFINE codes == ToSet(content.nonDerivative) \cup ToSet(content.derivative)
             bought == "P" \in codes
             sold == "S" \in codes
  <1>1. content \in Content /\ score = ScoreOf(content) /\ headline = Headline(score)
    BY DEF HeadlineIsLast
  <1>2. /\ score.score \in Int
        /\ score.score > 0 <=> bought /\ ~sold
        /\ score.score < 0 <=> sold /\ ~bought
        /\ score.conflict <=> bought /\ sold
        /\ score.confidence = IF bought <=> sold THEN "low" ELSE "high"
    BY <1>1, Scored
  <1> HIDE DEF codes
  <1>3. headline = CASE bought /\ ~sold -> "purchase"
                     [] sold /\ ~bought -> "sale"
                     [] bought /\ sold -> "mixed"
                     [] OTHER -> "change"
    <2>1. CASE bought /\ ~sold
      BY <1>1, <1>2, <2>1 DEF Headline
    <2>2. CASE sold /\ ~bought
      BY <1>1, <1>2, <2>2 DEF Headline
    <2>3. CASE bought /\ sold
      BY <1>1, <1>2, <2>3 DEF Headline
    <2>4. CASE ~bought /\ ~sold
      BY <1>1, <1>2, <2>4 DEF Headline
    <2> QED  BY <2>1, <2>2, <2>3, <2>4
  <1>4. score.confidence = IF bought = sold THEN "low" ELSE "high"
    BY <1>2
  <1> QED  BY <1>3, <1>4 DEF HeadlineTellsTheTrades, codes

-----------------------------------------------------------------------------
\* The footnote that AdoptionDate takes the date from is one on the plan.
LEMMA DatedByThePlan ==
    ASSUME NEW p \in Plan, ~p.remarks.date
    PROVE  LET sources == {i \in DOMAIN p.footnotes : p.footnotes[i] = [plan |-> TRUE, date |-> TRUE]}
           IN  IF AdoptionDate(p) = None THEN sources = {} ELSE AdoptionDate(p) \in sources
  <1> DEFINE f == p.footnotes
             sources == {i \in DOMAIN f : f[i] = [plan |-> TRUE, date |-> TRUE]}
             dated == {i \in DOMAIN f : f[i].plan /\ f[i].date}
  <1>1. PICK n \in 0..2 : f \in [1..n -> Text]
    BY DEF Plan, UpTo
  <1>2. sources = dated
    <2>1. \A t \in Text : t = [plan |-> TRUE, date |-> TRUE] <=> t.plan /\ t.date
      BY DEF Text
    <2>2. \A i \in DOMAIN f : f[i] \in Text
      BY <1>1
    <2> QED  BY <2>1, <2>2
  <1>3. AdoptionDate(p) = IF dated = {} THEN None
                          ELSE CHOOSE i \in dated : \A j \in dated : i <= j
    BY DEF AdoptionDate
  <1>4. CASE dated = {}
    BY <1>2, <1>3, <1>4
  <1>5. CASE dated # {}
    <2>1. dated \subseteq {1, 2}
      BY <1>1
    <2> HIDE DEF dated
    <2>2. \E i \in dated : \A j \in dated : i <= j
      <3>1. CASE 1 \in dated
        BY <2>1, <3>1
      <3>2. CASE 1 \notin dated
        <4>1. dated = {2}
          BY <1>5, <2>1, <3>2
        <4> QED  BY <4>1
      <3> QED  BY <3>1, <3>2
    <2>3. AdoptionDate(p) \in dated
      BY <1>3, <1>5, <2>2
    <2>4. AdoptionDate(p) # None
      <3>1. AdoptionDate(p) \in {1, 2}
        BY <2>1, <2>3
      <3>2. {1, 2} \subseteq Nat
        OBVIOUS
      <3> QED  BY <3>1, <3>2, Form4Assumption
    <2> QED  BY <1>2, <2>3, <2>4
  <1> QED  BY <1>4, <1>5

\* The date of a plan is from the remarks, whatever they speak of, or else from a
\* footnote on the plan.
LEMMA DateFollows == HeadlineIsLast => AdoptionDateIsOfThePlan
  <1> SUFFICES ASSUME HeadlineIsLast, headline # None, Captured(plan)
               PROVE  AdoptionDateIsOfThePlan
    BY DEF AdoptionDateIsOfThePlan
  <1>1. noted = AdoptionDate(plan) /\ plan \in Plan
    BY DEF HeadlineIsLast
  <1>2. CASE plan.remarks.date
    BY <1>1, <1>2 DEF AdoptionDateIsOfThePlan, AdoptionDate
  <1>3. CASE ~plan.remarks.date
    BY <1>1, <1>3, DatedByThePlan DEF AdoptionDateIsOfThePlan
  <1> QED  BY <1>2, <1>3

\* The footnotes of a row's fields are listed with it.
LEMMA FootnotesFollow == RowIsStored => FootnotesAreListed
  <1> SUFFICES ASSUME RowIsStored, NEW ref \in row.refs,
                      ref.field \notin Coded,
                      ~(ref.field = "exercise_date" /\ row.dated /\ ~ref.inside)
               PROVE  ref.id \in RowFootnotes(row)
    BY DEF FootnotesAreListed
  <1>1. ref.field \in StoredFields(row.kind)
    BY DEF RowIsStored
  <1>2. ref.field \in FootnoteFields(row.kind)
    BY <1>1 DEF StoredFields
  <1>3. ReadAt(row, ref)
    BY <1>2 DEF ReadAt
  <1> QED  BY <1>3 DEF RowFootnotes

-----------------------------------------------------------------------------
\* At first nothing was read.
LEMMA ReadInit == Form4Init => ReadInv
  <1> SUFFICES ASSUME Form4Init PROVE ReadInv
    OBVIOUS
  <1>1. row \in [kind : Kinds, dated : BOOLEAN, refs : {{}}]
    <2>1. row \in IF f4pc = "row" THEN [kind : Kinds, dated : BOOLEAN, refs : {{}}] ELSE {NoRow}
      BY DEF Form4Init
    <2>2. NoRow \in [kind : Kinds, dated : BOOLEAN, refs : {{}}]
      BY DEF NoRow, Kinds
    <2> QED  BY <2>1, <2>2
  <1>2. RowIsStored
    BY <1>1 DEF RowIsStored, Rows
  <1>3. NoContent \in Content
    BY Form4Assumption DEF NoContent, Content, UpTo
  <1>4. NoPlan \in Plan
    BY DEF NoPlan, NoText, Plan, Text, UpTo
  <1>5. HeadlineIsLast
    BY <1>3, <1>4 DEF Form4Init, HeadlineIsLast
  <1> QED  BY <1>2, <1>5 DEF ReadInv

\* Parse and Summarize, or ReadRow, say what the document holds.
LEMMA ReadStep == ReadInv /\ [Form4Next]_form4Vars => ReadInv'
  <1> SUFFICES ASSUME ReadInv, [Form4Next]_form4Vars
               PROVE  ReadInv'
    OBVIOUS
  <1> USE DEF ReadInv
  <1>1. CASE UNCHANGED <<content, plan, row, score, headline, noted>> /\ (f4pc = "done" => f4pc' = "done")
    BY <1>1 DEF RowIsStored, HeadlineIsLast
  <1>2. CASE Parse
    <2>1. content' \in Content /\ plan' \in Plan /\ UNCHANGED <<row, headline>> /\ headline = None
      BY <1>2 DEF Parse, HeadlineIsLast
    <2> QED  BY <2>1 DEF RowIsStored, HeadlineIsLast
  <1>3. CASE Summarize
    <2>1. /\ f4pc' = "done" /\ score' = ScoreOf(content') /\ UNCHANGED <<content, plan, row>>
          /\ noted' = IF Captured(plan') THEN AdoptionDate(plan') ELSE None
      BY <1>3 DEF Summarize
    <2>2. headline' = Headline(score')
      <3>1. PICK s : s = score'
        OBVIOUS
      <3>2. headline' = CASE s.score > 0 -> "purchase"
                          [] s.score < 0 -> "sale"
                          [] OTHER -> IF s.conflict THEN "mixed" ELSE "change"
        BY <1>3, <3>1 DEF Summarize
      <3>3. s.score \in Int
        BY <2>1, <3>1, Scored DEF HeadlineIsLast
      <3>4. CASE s.score > 0
        BY <3>1, <3>2, <3>3, <3>4 DEF Headline
      <3>5. CASE s.score < 0
        BY <3>1, <3>2, <3>3, <3>5 DEF Headline
      <3>6. CASE s.score = 0
        BY <3>1, <3>2, <3>3, <3>6 DEF Headline
      <3> QED  BY <3>3, <3>4, <3>5, <3>6
    <2> QED  BY <2>1, <2>2 DEF RowIsStored, HeadlineIsLast
  <1>4. CASE ReadRow
    <2> DEFINE Refs == [field : StoredFields(row.kind), id : {1, 2}, inside : BOOLEAN]
    <2>1. PICK a \in Refs, b \in Refs : row' = [row EXCEPT !.refs = {a, b}]
      BY <1>4 DEF ReadRow
    <2>2. row \in Rows /\ Refs \subseteq [field : Fields, id : {1, 2}, inside : BOOLEAN]
      <3>1. row \in Rows /\ StoredFields(row.kind) \subseteq Fields
        BY DEF RowIsStored, Rows, Fields
      <3> QED  BY <3>1
    <2>3. row' \in Rows /\ row'.kind = row.kind /\ row'.refs = {a, b}
      BY <2>1, <2>2 DEF Rows
    <2>4. RowIsStored'
      BY <2>1, <2>3 DEF RowIsStored
    <2>5. UNCHANGED <<content, plan, score, headline, noted>> /\ f4pc' = "done"
      BY <1>4 DEF ReadRow
    <2> QED  BY <2>4, <2>5 DEF HeadlineIsLast
  <1> QED  BY <1>1, <1>2, <1>3, <1>4 DEF Form4Next, Locate, LoadCandidate, form4Vars

\* The headline and the confidence are those of the trades themselves; a plan's
\* date is the remarks', which need not speak of the plan, or else that of a
\* footnote that does; and no footnote of a stored field is lost but at the places
\* the property names, however many rows a filing has.
THEOREM Form4ReadRight == Form4Spec => []Form4IsReadRight
  <1>1. ReadInv => Form4IsReadRight
    BY TradesFollow, DateFollows, FootnotesFollow
    DEF ReadInv, Form4IsReadRight, SummaryTellsTheFiling
  <1> QED  BY <1>1, ReadInit, ReadStep, PTL DEF Form4Spec

-----------------------------------------------------------------------------
(* The candidates of one Form 4.                                           *)

\* Of two documents one is ahead.
LEMMA AheadOrders ==
    ASSUME NEW documents, NEW some, some \subseteq Nat
    PROVE  /\ \A i \in some : ~Ahead(documents, i, i)
           /\ \A i, j \in some : i = j \/ Ahead(documents, i, j) \/ Ahead(documents, j, i)
           /\ \A i, j, k \in some :
                 Ahead(documents, i, j) /\ Ahead(documents, j, k) => Ahead(documents, i, k)
  <1>1. \A i : Pass(documents[i]) \in Nat
    BY DEF Pass
  <1> QED  BY <1>1 DEF Ahead

\* Ranks number a finite set of documents from 0.
LEMMA Ranks ==
    ASSUME NEW documents, NEW some, some \subseteq Nat, IsFiniteSet(some)
    PROVE  /\ Cardinality(some) \in Nat
           /\ \A i \in some : Rank(documents, some, i) \in 0..(Cardinality(some) - 1)
           /\ \A i, j \in some : Ahead(documents, i, j) =>
                 Rank(documents, some, i) < Rank(documents, some, j)
           /\ \A n \in 1..Cardinality(some) : \E i \in some : Rank(documents, some, i) = n - 1
  <1> DEFINE before(i) == {j \in some : Ahead(documents, j, i)}
  <1>1. Cardinality(some) \in Nat
    BY FS_CardinalityType
  <1>2. \A i \in some : Rank(documents, some, i) = Cardinality(before(i))
    BY DEF Rank
  <1>3. \A i, j \in some : Ahead(documents, i, j) =>
           before(i) \subseteq before(j) /\ i \in before(j) /\ i \notin before(i)
    BY AheadOrders
  <1>4. \A i \in some : before(i) \subseteq some /\ i \notin before(i)
    BY AheadOrders
  <1> HIDE DEF before
  <1>5. \A i \in some : /\ IsFiniteSet(before(i)) /\ Cardinality(before(i)) \in Nat
                        /\ Cardinality(before(i)) < Cardinality(some)
    <2> SUFFICES ASSUME NEW i \in some
                 PROVE  /\ IsFiniteSet(before(i)) /\ Cardinality(before(i)) \in Nat
                        /\ Cardinality(before(i)) < Cardinality(some)
      OBVIOUS
    <2>1. before(i) \subseteq some /\ before(i) # some
      BY <1>4
    <2>2. IsFiniteSet(before(i)) /\ Cardinality(before(i)) <= Cardinality(some)
          /\ Cardinality(before(i)) # Cardinality(some)
      BY <2>1, FS_Subset
    <2>3. Cardinality(before(i)) \in Nat
      BY <2>2, FS_CardinalityType
    <2> QED  BY <1>1, <2>2, <2>3
  <1>6. \A i, j \in some : Ahead(documents, i, j) =>
           Rank(documents, some, i) < Rank(documents, some, j)
    <2> SUFFICES ASSUME NEW i \in some, NEW j \in some, Ahead(documents, i, j)
                 PROVE  Rank(documents, some, i) < Rank(documents, some, j)
      OBVIOUS
    <2>1. before(i) \subseteq before(j) /\ before(i) # before(j)
      BY <1>3
    <2>2. Cardinality(before(i)) <= Cardinality(before(j))
          /\ Cardinality(before(i)) # Cardinality(before(j))
      BY <1>5, <2>1, FS_Subset
    <2> QED  BY <1>2, <1>5, <2>2
  <1>7. \A i \in some : Rank(documents, some, i) \in 0..(Cardinality(some) - 1)
    BY <1>1, <1>2, <1>5
  <1>8. \A n \in 1..Cardinality(some) : \E i \in some : Rank(documents, some, i) = n - 1
    <2> DEFINE f == [i \in some |-> Rank(documents, some, i) + 1]
               places == 1..Cardinality(some)
    <2>1. f \in [some -> places]
      BY <1>1, <1>7
    <2>2. \A i, j \in some : f[i] = f[j] => i = j
      <3> SUFFICES ASSUME NEW i \in some, NEW j \in some, f[i] = f[j], i # j PROVE FALSE
        OBVIOUS
      <3>1. Ahead(documents, i, j) \/ Ahead(documents, j, i)
        BY AheadOrders
      <3>2. Rank(documents, some, i) \in Nat /\ Rank(documents, some, j) \in Nat
        BY <1>1, <1>7
      <3> QED  BY <1>6, <3>1, <3>2
    <2>3. f \in Injection(some, places)
      BY <2>1, <2>2 DEF Injection, IsInjective
    <2>4. IsFiniteSet(places) /\ Cardinality(places) = Cardinality(some)
      BY <1>1, FS_Interval
    <2>5. f \in Surjection(some, places)
      <3> HIDE DEF f, places
      <3> QED  BY <2>3, <2>4, FS_Injection
    <2>6. \A n \in places : \E i \in some : f[i] = n
      BY <2>5 DEF Surjection
    <2> SUFFICES ASSUME NEW n \in places PROVE \E i \in some : Rank(documents, some, i) = n - 1
      OBVIOUS
    <2>7. PICK i \in some : Rank(documents, some, i) + 1 = n
      BY <2>6
    <2> QED  BY <1>1, <1>7, <2>7
  <1> QED  BY <1>1, <1>6, <1>7, <1>8

\* Of the documents of each URL the one that is taken first is chosen, and one that
\* the filing calls a Form 4 is.
LEMMA ChosenFacts ==
    ASSUME NEW documents \in Seq(Document)
    PROVE  /\ Chosen(documents) \subseteq DOMAIN documents /\ IsFiniteSet(Chosen(documents))
           /\ DOMAIN documents \subseteq Nat
           /\ \A i \in Chosen(documents) : IsXml(documents[i])
           /\ \A i, j \in Chosen(documents) : documents[i].url = documents[j].url => i = j
           /\ \A j \in DOMAIN documents : IsXml(documents[j]) =>
                 \E i \in Chosen(documents) :
                    /\ documents[i].url = documents[j].url
                    /\ documents[j].form4 => documents[i].form4
  <1>1. DOMAIN documents = 1..Len(documents) /\ Len(documents) \in Nat
    OBVIOUS
  <1>2. IsFiniteSet(DOMAIN documents) /\ DOMAIN documents \subseteq Nat
    BY <1>1, FS_Interval
  <1>3. Chosen(documents) \subseteq DOMAIN documents /\ IsFiniteSet(Chosen(documents))
    <2>1. Chosen(documents) \subseteq DOMAIN documents
      BY DEF Chosen
    <2> QED  BY <1>2, <2>1, FS_Subset
  <1>4. \A i \in Chosen(documents) :
           /\ IsXml(documents[i])
           /\ \A j \in DOMAIN documents :
                 IsXml(documents[j]) /\ documents[j].url = documents[i].url
                    => ~Ahead(documents, j, i)
    BY DEF Chosen
  <1>5. \A i, j \in Chosen(documents) : documents[i].url = documents[j].url => i = j
    <2>1. \A i, j \in Chosen(documents) : i = j \/ Ahead(documents, i, j) \/ Ahead(documents, j, i)
      BY <1>2, <1>3, AheadOrders
    <2> QED  BY <1>3, <1>4, <2>1
  <1>6. ASSUME NEW j \in DOMAIN documents, IsXml(documents[j])
        PROVE  \E i \in Chosen(documents) : /\ documents[i].url = documents[j].url
                                            /\ documents[j].form4 => documents[i].form4
    <2> DEFINE same == {k \in DOMAIN documents : IsXml(documents[k]) /\ documents[k].url = documents[j].url}
    <2>1. same \subseteq Nat /\ IsFiniteSet(same) /\ j \in same /\ same \subseteq DOMAIN documents
      <3>1. j \in same /\ same \subseteq DOMAIN documents
        BY <1>6
      <3> HIDE DEF same
      <3> QED  BY <1>2, <3>1, FS_Subset
    <2>2. Cardinality(same) \in Nat /\ Cardinality(same) # 0
      <3> HIDE DEF same
      <3> QED  BY <2>1, FS_CardinalityType, FS_EmptySet
    <2>3. \E i \in same : Rank(documents, same, i) = 0
      <3>1. 1 \in 1..Cardinality(same) /\ 1 - 1 = 0
        BY <2>2
      <3> HIDE DEF same
      <3>2. \E i \in same : Rank(documents, same, i) = 1 - 1
        BY <2>1, <3>1, Ranks
      <3> QED  BY <3>1, <3>2
    <2>4. PICK i \in same : Rank(documents, same, i) = 0
      <3> HIDE DEF same
      <3> QED  BY <2>3
    <2>5. \A k \in same : ~Ahead(documents, k, i)
      <3> DEFINE before == {k \in same : Ahead(documents, k, i)}
      <3>1. Cardinality(before) = 0 /\ before \subseteq same
        BY <2>4 DEF Rank
      <3> HIDE DEF same
      <3>2. IsFiniteSet(before)
        BY <2>1, <3>1, FS_Subset
      <3>3. before = {}
        <4> HIDE DEF before
        <4> QED  BY <3>1, <3>2, FS_EmptySet
      <3> QED  BY <3>3
    <2>6. i \in Chosen(documents) /\ documents[i].url = documents[j].url
      BY <2>4, <2>5 DEF Chosen
    <2>7. documents[j].form4 => documents[i].form4
      <3> SUFFICES ASSUME documents[j].form4 PROVE documents[i].form4
        OBVIOUS
      <3>1. Pass(documents[j]) \in {1, 2}
        BY <1>6 DEF Pass, IsXml
      <3>2. ~(Pass(documents[j]) < Pass(documents[i]))
        BY <2>1, <2>5 DEF Ahead
      <3>3. Pass(documents[i]) # 3
        BY <3>1, <3>2
      <3> QED  BY <3>3 DEF Pass
    <2> QED  BY <2>6, <2>7
  <1> QED  BY <1>2, <1>3, <1>4, <1>5, <1>6

\* The URLs of documents in their order: each is there, at the place of its rank.
LEMMA InOrder ==
    ASSUME NEW documents \in Seq(Document), NEW some, some \subseteq Chosen(documents)
    PROVE  LET u == UrlsInOrder(documents, some)
           IN  /\ u \in Seq(Urls) /\ Len(u) = Cardinality(some)
               /\ \A n \in 1..Len(u) : \E i \in some :
                     u[n] = documents[i].url /\ Rank(documents, some, i) = n - 1
               /\ ToSet(u) = {documents[i].url : i \in some}
               /\ IsInjective(u)
  <1> DEFINE u == UrlsInOrder(documents, some)
             At(n) == CHOOSE i \in some : Rank(documents, some, i) = n - 1
  <1>1. /\ some \subseteq DOMAIN documents /\ some \subseteq Nat /\ IsFiniteSet(some)
        /\ \A i, j \in some : documents[i].url = documents[j].url => i = j
    <2>1. IsFiniteSet(some)
      BY ChosenFacts, FS_Subset
    <2> QED  BY <2>1, ChosenFacts
  <1>2. /\ Cardinality(some) \in Nat
        /\ \A i \in some : Rank(documents, some, i) \in 0..(Cardinality(some) - 1)
        /\ \A n \in 1..Cardinality(some) : \E i \in some : Rank(documents, some, i) = n - 1
    BY <1>1, Ranks
  <1>3. \A n \in 1..Cardinality(some) : At(n) \in some /\ Rank(documents, some, At(n)) = n - 1
    BY <1>2
  <1>4. u = [n \in 1..Cardinality(some) |-> documents[At(n)].url]
    BY DEF UrlsInOrder
  <1> HIDE DEF At, u
  <1>5. \A i \in some : documents[i].url \in Urls
    <2>1. \A i \in DOMAIN documents : documents[i] \in Document
      OBVIOUS
    <2> QED  BY <1>1, <2>1 DEF Document
  <1>6. u \in Seq(Urls) /\ Len(u) = Cardinality(some)
    BY <1>2, <1>3, <1>4, <1>5
  <1>7. \A n \in 1..Len(u) : \E i \in some :
           u[n] = documents[i].url /\ Rank(documents, some, i) = n - 1
    BY <1>3, <1>4, <1>6
  <1>8. ToSet(u) = {documents[i].url : i \in some}
    <2>1. ASSUME NEW i \in some PROVE documents[i].url \in ToSet(u)
      <3> DEFINE n == Rank(documents, some, i) + 1
      <3>1. n \in 1..Cardinality(some) /\ Rank(documents, some, i) = n - 1
        BY <1>2
      <3>2. At(n) \in some /\ Rank(documents, some, At(n)) = Rank(documents, some, i)
        BY <1>3, <3>1
      <3>3. At(n) = i
        <4>1. \/ At(n) = i \/ Ahead(documents, i, At(n)) \/ Ahead(documents, At(n), i)
          BY <1>1, <3>2, AheadOrders
        <4>2. ~Ahead(documents, i, At(n)) /\ ~Ahead(documents, At(n), i)
          <5>1. Rank(documents, some, i) \in Nat
            BY <1>2
          <5>2. \A k, m \in some : Ahead(documents, k, m) =>
                   Rank(documents, some, k) < Rank(documents, some, m)
            BY <1>1, Ranks
          <5> QED  BY <3>2, <5>1, <5>2
        <4> QED  BY <4>1, <4>2
      <3>4. u[n] = documents[i].url /\ n \in DOMAIN u
        BY <1>4, <3>1, <3>3
      <3> QED  BY <3>4 DEF ToSet
    <2>2. ASSUME NEW x \in ToSet(u) PROVE x \in {documents[i].url : i \in some}
      BY <1>3, <1>4, <2>2 DEF ToSet
    <2> QED  BY <2>1, <2>2
  <1>9. IsInjective(u)
    <2> SUFFICES ASSUME NEW m \in 1..Cardinality(some), NEW n \in 1..Cardinality(some), u[m] = u[n]
                 PROVE  m = n
      BY <1>4 DEF IsInjective
    <2>1. At(m) = At(n)
      BY <1>1, <1>3, <1>4
    <2>2. m - 1 = n - 1
      BY <1>3, <2>1
    <2> QED  BY <2>2
  <1> QED  BY <1>6, <1>7, <1>8, <1>9 DEF u

\* A sequence that repeats nothing is as long as its set is large.
LEMMA DistinctCounted ==
    ASSUME NEW T, NEW s \in Seq(T), IsInjective(s)
    PROVE  Len(s) = Cardinality(ToSet(s))
  <1>1. DOMAIN s = 1..Len(s) /\ Len(s) \in Nat /\ IsFiniteSet(1..Len(s))
        /\ Cardinality(1..Len(s)) = Len(s)
    <2>1. DOMAIN s = 1..Len(s) /\ Len(s) \in Nat
      OBVIOUS
    <2>2. \A n \in Nat : IsFiniteSet(1..n) /\ Cardinality(1..n) = n
      <3>1. \A a, b \in Int : IsFiniteSet(a..b) /\ Cardinality(a..b) = IF a > b THEN 0 ELSE b-a+1
        BY FS_Interval
      <3> SUFFICES ASSUME NEW n \in Nat PROVE IsFiniteSet(1..n) /\ Cardinality(1..n) = n
        OBVIOUS
      <3>2. IsFiniteSet(1..n) /\ Cardinality(1..n) = IF 1 > n THEN 0 ELSE n-1+1
        BY <3>1
      <3> QED  BY <3>2
    <2> QED  BY <2>1, <2>2
  <1>2. s \in [1..Len(s) -> ToSet(s)]
    BY <1>1 DEF ToSet
  <1>3. s \in Injection(1..Len(s), ToSet(s)) /\ s \in Surjection(1..Len(s), ToSet(s))
    BY <1>1, <1>2 DEF Injection, Surjection, ToSet
  <1> QED  BY <1>1, <1>3, FS_Surjection

\* The candidates are the known URL and those of the XML documents, each once; the
\* known one is first, and what the filing calls a Form 4 is before the others.
LEMMA CandidatesRanked ==
    ASSUME NEW documents \in Seq(Document), NEW known \in Urls \cup {None}
    PROVE  LET c == CandidateUrls(documents, known)
               listed == ToSet(documents)
               own == {d.url : d \in {x \in listed : x.form4 /\ IsXml(x)}}
               first == {known} \ {None}
           IN  /\ c \in Seq(Urls)
               /\ ToSet(c) = first \cup {d.url : d \in {x \in listed : IsXml(x)}}
               /\ Len(c) = Cardinality(ToSet(c))
               /\ first # {} => c[1] = known
               /\ \A i, j \in DOMAIN c : c[i] \in own /\ c[j] \notin own \cup first => i < j
  <1> DEFINE rest == {i \in Chosen(documents) : documents[i].url # known}
             u == UrlsInOrder(documents, rest)
             head == IF known = None THEN <<>> ELSE <<known>>
             c == CandidateUrls(documents, known)
             listed == ToSet(documents)
             own == {d.url : d \in {x \in listed : x.form4 /\ IsXml(x)}}
             xml == {d.url : d \in {x \in listed : IsXml(x)}}
             first == {known} \ {None}
  <1>1. rest \subseteq Chosen(documents) /\ c = head \o u
    BY DEF CandidateUrls
  <1>2. /\ u \in Seq(Urls) /\ Len(u) = Cardinality(rest)
        /\ \A n \in 1..Len(u) : \E i \in rest :
              u[n] = documents[i].url /\ Rank(documents, rest, i) = n - 1
        /\ ToSet(u) = {documents[i].url : i \in rest}
        /\ IsInjective(u)
    BY <1>1, InOrder
  <1>3. /\ rest \subseteq DOMAIN documents /\ rest \subseteq Nat /\ IsFiniteSet(rest)
        /\ \A i \in rest : IsXml(documents[i]) /\ documents[i].url # known
        /\ \A j \in DOMAIN documents : IsXml(documents[j]) /\ documents[j].url # known =>
              \E i \in rest : documents[i].url = documents[j].url
    <2>1. IsFiniteSet(rest)
      BY <1>1, ChosenFacts, FS_Subset
    <2> QED  BY <2>1, ChosenFacts
  <1>4. head \in Seq(Urls) /\ (known = None => head = <<>>) /\ (known # None => head = <<known>>)
    OBVIOUS
  <1>5. /\ known # None => Len(head) = 1 /\ head[1] = known
        /\ known = None => Len(head) = 0
        /\ ToSet(head) = first
    <2>1. CASE known = None
      BY <1>4, <2>1 DEF ToSet
    <2>2. CASE known # None
      BY <1>4, <2>2 DEF ToSet
    <2> QED  BY <2>1, <2>2
  <1>6. known \notin ToSet(u)
    BY <1>2, <1>3
  <1>7. /\ \A i \in DOMAIN documents : documents[i] \in listed
        /\ \A x \in listed : \E i \in DOMAIN documents : documents[i] = x
    BY DEF ToSet
  <1>8. ToSet(u) = xml \ {known}
    <2>1. ASSUME NEW x \in ToSet(u) PROVE x \in xml \ {known}
      BY <1>2, <1>3, <1>7, <2>1
    <2>2. ASSUME NEW x \in xml \ {known} PROVE x \in ToSet(u)
      <3>1. PICK d \in listed : IsXml(d) /\ d.url = x
        OBVIOUS
      <3>2. PICK j \in DOMAIN documents : documents[j] = d
        BY <1>7
      <3>3. PICK i \in rest : documents[i].url = x
        BY <1>3, <2>2, <3>1, <3>2
      <3> QED  BY <1>2, <3>3
    <2> QED  BY <2>1, <2>2
  <1>9. known # None => known \in first
    OBVIOUS
  <1>10. ASSUME NEW m \in 1..Len(u), NEW n \in 1..Len(u), u[m] \in own, u[n] \notin own
         PROVE  m < n
    <2>1. PICK i \in rest : u[m] = documents[i].url /\ Rank(documents, rest, i) = m - 1
      BY <1>2
    <2>2. PICK k \in rest : u[n] = documents[k].url /\ Rank(documents, rest, k) = n - 1
      BY <1>2
    <2>3. documents[i].form4
      <3>1. PICK d \in listed : d.form4 /\ IsXml(d) /\ d.url = documents[i].url
        BY <1>10, <2>1
      <3>2. PICK j \in DOMAIN documents : documents[j] = d
        BY <1>7
      <3>3. PICK x \in Chosen(documents) : documents[x].url = documents[i].url /\ documents[x].form4
        BY <3>1, <3>2, ChosenFacts
      <3>4. x = i
        BY <3>3, ChosenFacts
      <3> QED  BY <3>3, <3>4
    <2>4. ~documents[k].form4
      <3>1. documents[k] \in listed /\ IsXml(documents[k])
        BY <1>3, <1>7
      <3> QED  BY <1>10, <2>2, <3>1
    <2>5. Ahead(documents, i, k)
      <3>1. Pass(documents[i]) < 3
        BY <1>3, <2>3 DEF Pass, IsXml
      <3>2. Pass(documents[k]) = 3
        BY <2>4 DEF Pass
      <3> QED  BY <3>1, <3>2 DEF Ahead
    <2>6. Rank(documents, rest, i) < Rank(documents, rest, k)
      <3> HIDE DEF rest
      <3> QED  BY <1>3, <2>5, Ranks
    <2> QED  BY <2>1, <2>2, <2>6
  <1> HIDE DEF u, head, c, own, xml, first
  <1>11. /\ c \in Seq(Urls) /\ Len(c) = Len(head) + Len(u) /\ Len(head) \in Nat /\ Len(u) \in Nat
         /\ DOMAIN c = 1..(Len(head) + Len(u)) /\ DOMAIN u = 1..Len(u) /\ DOMAIN head = 1..Len(head)
         /\ \A n \in 1..Len(head) : c[n] = head[n]
         /\ \A n \in 1..(Len(head) + Len(u)) : n > Len(head) =>
               n - Len(head) \in 1..Len(u) /\ c[n] = u[n - Len(head)]
         /\ \A n \in 1..Len(u) : c[Len(head) + n] = u[n]
    <2>1. head \in Seq(Urls) /\ u \in Seq(Urls) /\ c = head \o u
      BY <1>1, <1>2, <1>4
    <2>2. c \in Seq(Urls) /\ Len(c) = Len(head) + Len(u) /\ Len(head) \in Nat /\ Len(u) \in Nat
      BY <2>1
    <2>3. DOMAIN c = 1..(Len(head) + Len(u)) /\ DOMAIN u = 1..Len(u) /\ DOMAIN head = 1..Len(head)
      BY <2>1, <2>2
    <2>4. \A n \in 1..(Len(head) + Len(u)) :
             c[n] = IF n <= Len(head) THEN head[n] ELSE u[n - Len(head)]
      BY <2>1
    <2>5. \A n \in 1..Len(head) : c[n] = head[n]
      BY <2>2, <2>4
    <2>6. \A n \in 1..(Len(head) + Len(u)) : n > Len(head) =>
             n - Len(head) \in 1..Len(u) /\ c[n] = u[n - Len(head)]
      BY <2>2, <2>4
    <2>7. ASSUME NEW n \in 1..Len(u) PROVE c[Len(head) + n] = u[n]
      <3>1. Len(head) + n \in 1..(Len(head) + Len(u)) /\ ~(Len(head) + n <= Len(head))
            /\ Len(head) + n - Len(head) = n
        BY <2>2
      <3> QED  BY <2>4, <3>1
    <2> QED  BY <2>2, <2>3, <2>5, <2>6, <2>7
  <1>12. ToSet(c) = ToSet(head) \cup ToSet(u)
    <2>1. ASSUME NEW n \in DOMAIN c PROVE c[n] \in ToSet(head) \cup ToSet(u)
      <3>1. CASE n \in 1..Len(head)
        BY <1>11, <3>1 DEF ToSet
      <3>2. CASE n \notin 1..Len(head)
        <4>1. n - Len(head) \in 1..Len(u) /\ c[n] = u[n - Len(head)]
          BY <1>11, <3>2
        <4> QED  BY <1>11, <4>1 DEF ToSet
      <3> QED  BY <3>1, <3>2
    <2>2. ASSUME NEW n \in 1..Len(head) PROVE head[n] \in ToSet(c)
      <3>1. n \in DOMAIN c /\ c[n] = head[n]
        BY <1>11
      <3> QED  BY <3>1 DEF ToSet
    <2>3. ASSUME NEW n \in 1..Len(u) PROVE u[n] \in ToSet(c)
      <3>1. Len(head) + n \in DOMAIN c /\ c[Len(head) + n] = u[n]
        BY <1>11
      <3> QED  BY <3>1 DEF ToSet
    <2>4. ToSet(c) \subseteq ToSet(head) \cup ToSet(u)
      BY <2>1 DEF ToSet
    <2>5. ToSet(head) \subseteq ToSet(c)
      BY <1>11, <2>2 DEF ToSet
    <2>6. ToSet(u) \subseteq ToSet(c)
      BY <1>11, <2>3 DEF ToSet
    <2> QED  BY <2>4, <2>5, <2>6
  <1>13. ToSet(c) = first \cup xml
    <2>1. known \in Urls \/ known = None
      OBVIOUS
    <2>2. None \notin xml
      <3>1. \A x \in listed : x \in Document
        BY <1>7
      <3>2. xml \subseteq Urls
        BY <3>1 DEF xml, Document
      <3> QED  BY <3>2, Form4Assumption
    <2> QED  BY <1>5, <1>8, <1>12, <2>2 DEF first
  <1>14. IsInjective(c)
    <2> SUFFICES ASSUME NEW m \in DOMAIN c, NEW n \in DOMAIN c, c[m] = c[n] PROVE m = n
      BY DEF IsInjective
    <2>1. CASE m > Len(head) /\ n > Len(head)
      <3>1. m - Len(head) \in DOMAIN u /\ n - Len(head) \in DOMAIN u
            /\ u[m - Len(head)] = u[n - Len(head)]
        BY <1>11, <2>1
      <3>2. m - Len(head) = n - Len(head)
        BY <1>2, <3>1 DEF IsInjective
      <3> QED  BY <1>11, <3>2
    <2>2. CASE ~(m > Len(head)) /\ ~(n > Len(head))
      BY <1>5, <1>11, <2>2
    <2>3. ASSUME NEW p \in DOMAIN c, NEW q \in DOMAIN c, c[p] = c[q], p > Len(head), ~(q > Len(head))
          PROVE  FALSE
      <3>1. q = 1 /\ Len(head) = 1 /\ c[q] = known
        BY <1>5, <1>11, <2>3
      <3>2. p - Len(head) \in DOMAIN u /\ c[p] = u[p - Len(head)]
        BY <1>11, <2>3
      <3>3. c[p] \in ToSet(u)
        BY <3>2 DEF ToSet
      <3> QED  BY <1>6, <2>3, <3>1, <3>3
    <2> QED  BY <2>1, <2>2, <2>3
  <1>15. Len(c) = Cardinality(ToSet(c))
    BY <1>11, <1>14, DistinctCounted
  <1>16. first # {} => c[1] = known
    BY <1>5, <1>11 DEF first
  <1>17. ASSUME NEW i \in DOMAIN c, NEW j \in DOMAIN c, c[i] \in own, c[j] \notin own \cup first
         PROVE  i < j
    <2>1. j > Len(head) /\ j - Len(head) \in 1..Len(u) /\ c[j] = u[j - Len(head)]
      <3>1. CASE j \in 1..Len(head)
        BY <1>5, <1>11, <1>17, <3>1 DEF first
      <3>2. CASE j \notin 1..Len(head)
        BY <1>11, <3>2
      <3> QED  BY <3>1, <3>2
    <2>2. CASE i \in 1..Len(head)
      BY <1>11, <2>1, <2>2
    <2>3. CASE i \notin 1..Len(head)
      <3>1. i - Len(head) \in 1..Len(u) /\ c[i] = u[i - Len(head)]
        BY <1>11, <2>3
      <3>2. i - Len(head) < j - Len(head)
        BY <1>10, <1>17, <2>1, <3>1
      <3> QED  BY <1>11, <2>1, <3>2
    <2> QED  BY <2>2, <2>3
  <1> QED  BY <1>11, <1>13, <1>15, <1>16, <1>17 DEF c, own, xml, first

Fetch == [url : Urls, answer : Answers]

\* The candidates are those of the page, and the fetches follow them: each failed
\* but the last, and one is still to come as long as the loop goes on.
TriedInv ==
    /\ f4pc \in {"page", "parse", "row", "load", "none", "parsed", "raised", "score", "done"}
    /\ f4pc \in {"page", "load", "none", "parsed", "raised"} =>
          Documents(tables) \in Seq(Document) /\ preferred \in Urls \cup {None}
    /\ f4pc \in {"load", "none", "parsed", "raised"} =>
          urls = CandidateUrls(Documents(tables), preferred)
    /\ f4pc \in {"page", "parse", "row"} => position = 1
    /\ f4pc \notin {"load", "parsed", "raised"} => fetched = <<>>
    /\ fetched \in Seq(Fetch)
    /\ \A i \in DOMAIN fetched :
          /\ fetched[i].url = urls[i]
          /\ fetched[i].answer = "xml" => i = Len(fetched) /\ f4pc = "parsed"
    /\ f4pc = "load" => position = Len(fetched) + 1 /\ position <= Len(urls)
    /\ f4pc = "raised" => Len(fetched) = Len(urls) /\ lastError = ErrorOf(Last(fetched).answer)

\* At first nothing was fetched, and the page lists documents.
LEMMA TriedInit == Form4Init => TriedInv
  <1> SUFFICES ASSUME Form4Init PROVE TriedInv
    OBVIOUS
  <1>1. f4pc \in {"page", "parse", "row"} /\ fetched = <<>> /\ position = 1
    BY DEF Form4Init
  <1>2. ASSUME f4pc = "page"
        PROVE  Documents(tables) \in Seq(Document) /\ preferred \in Urls \cup {None}
    <2>1. PICK first \in Table, second \in Table : tables = <<first, second>>
      BY <1>2 DEF Form4Init
    <2>2. ASSUME NEW t \in Table PROVE t.documents \in Seq(Document)
      <3>1. t.documents \in UpTo(Document, MaxDocuments)
        BY DEF Table
      <3>2. PICK n \in 0..MaxDocuments : t.documents \in [1..n -> Document]
        BY <3>1 DEF UpTo
      <3> QED  BY <3>2, Form4Assumption
    <2>3. tables[1].documents \in Seq(Document) /\ tables[2].documents \in Seq(Document)
      <3>1. tables[1] = first /\ tables[2] = second
        BY <2>1
      <3> QED  BY <2>2, <3>1
    <2>4. tables[1].documents \o tables[2].documents \in Seq(Document)
      BY <2>3
    <2> QED  BY <1>2, <2>3, <2>4 DEF Documents, Form4Init
  <1> QED  BY <1>1, <1>2 DEF TriedInv

\* Locate lists the candidates, and a fetch goes to the next of them.
LEMMA TriedStep == TriedInv /\ [Form4Next]_form4Vars => TriedInv'
  <1> SUFFICES ASSUME TriedInv, [Form4Next]_form4Vars PROVE TriedInv'
    OBVIOUS
  <1>1. CASE Locate
    <2>1. /\ f4pc = "page" /\ urls' = CandidateUrls(Documents(tables), preferred)
          /\ f4pc' = IF urls' = <<>> THEN "none" ELSE "load"
          /\ UNCHANGED <<tables, preferred, position, fetched, lastError>>
      BY <1>1 DEF Locate
    <2>2. Documents(tables) \in Seq(Document) /\ preferred \in Urls \cup {None}
          /\ fetched = <<>> /\ position = 1
      BY <2>1 DEF TriedInv
    <2>3. urls' \in Seq(Urls)
      BY <2>1, <2>2, CandidatesRanked
    <2>4. f4pc' = "load" => 1 <= Len(urls')
      BY <2>1, <2>3
    <2>5. Documents(tables') = Documents(tables)
      BY <2>1
    <2> QED  BY <2>1, <2>2, <2>4, <2>5 DEF TriedInv
  <1>2. CASE LoadCandidate
    <2>1. PICK answer \in Answers :
             /\ fetched' = Append(fetched, [url |-> urls[position], answer |-> answer])
             /\ IF answer = "xml"
                THEN f4pc' = "parsed" /\ UNCHANGED <<position, lastError>>
                ELSE /\ lastError' = ErrorOf(answer)
                     /\ position' = position + 1
                     /\ f4pc' = IF position = Len(urls) THEN "raised" ELSE "load"
      BY <1>2 DEF LoadCandidate
    <2>2. f4pc = "load" /\ UNCHANGED <<tables, preferred, urls>>
      BY <1>2 DEF LoadCandidate
    <2>3. /\ Documents(tables) \in Seq(Document) /\ preferred \in Urls \cup {None}
          /\ urls = CandidateUrls(Documents(tables), preferred)
          /\ fetched \in Seq(Fetch) /\ position = Len(fetched) + 1 /\ position <= Len(urls)
          /\ \A i \in DOMAIN fetched : fetched[i].url = urls[i] /\ fetched[i].answer # "xml"
      BY <2>2 DEF TriedInv
    <2>4. urls \in Seq(Urls) /\ urls[position] \in Urls
      <3>1. urls \in Seq(Urls)
        BY <2>3, CandidatesRanked
      <3> QED  BY <2>3, <3>1
    <2> DEFINE f == [url |-> urls[position], answer |-> answer]
    <2>5. f \in Fetch /\ f.url = urls[position] /\ f.answer = answer
      BY <2>4 DEF Fetch
    <2>6. fetched' = Append(fetched, f)
      BY <2>1
    <2> HIDE DEF f
    <2>7. /\ fetched' \in Seq(Fetch) /\ Len(fetched') = position /\ Len(fetched) \in Nat
          /\ DOMAIN fetched' = 1..position /\ DOMAIN fetched = 1..(position - 1)
          /\ fetched'[position] = f /\ \A i \in 1..(position - 1) : fetched'[i] = fetched[i]
      BY <2>3, <2>5, <2>6
    <2>8. \A i \in DOMAIN fetched' : /\ fetched'[i].url = urls[i]
                                     /\ fetched'[i].answer = "xml" => i = position /\ answer = "xml"
      <3> SUFFICES ASSUME NEW i \in 1..position
                   PROVE  /\ fetched'[i].url = urls[i]
                          /\ fetched'[i].answer = "xml" => i = position /\ answer = "xml"
        BY <2>7
      <3>1. CASE i = position
        BY <2>5, <2>7, <3>1
      <3>2. CASE i # position
        <4>1. i \in 1..(position - 1)
          BY <2>3, <2>7, <3>2
        <4> QED  BY <2>3, <2>7, <4>1
      <3> QED  BY <3>1, <3>2
    <2>9. f4pc' \in {"load", "parsed", "raised"} /\ (answer = "xml" => f4pc' = "parsed")
      BY <2>1
    <2>10. f4pc' = "load" => position' = Len(fetched') + 1 /\ position' <= Len(urls')
      BY <2>1, <2>2, <2>3, <2>4, <2>7
    <2>11. f4pc' = "raised" => Len(fetched') = Len(urls') /\ lastError' = ErrorOf(Last(fetched').answer)
      <3>1. Last(fetched') = f
        BY <2>7 DEF Last
      <3> QED  BY <2>1, <2>2, <2>5, <2>7, <3>1
    <2>12. Documents(tables') = Documents(tables)
      BY <2>2
    <2> QED  BY <2>2, <2>3, <2>7, <2>8, <2>9, <2>10, <2>11, <2>12 DEF TriedInv
  <1>3. CASE Parse \/ Summarize \/ ReadRow \/ UNCHANGED form4Vars
    <2>1. UNCHANGED <<tables, preferred, urls, position, fetched, lastError>>
          /\ \/ f4pc' = f4pc
             \/ f4pc \in {"parse", "row", "score"} /\ f4pc' \in {"score", "done"}
      BY <1>3 DEF Parse, Summarize, ReadRow, form4Vars, form4Page, TriedInv
    <2>2. Documents(tables') = Documents(tables)
      BY <2>1
    <2>3. CASE f4pc' = f4pc
      BY <2>1, <2>2, <2>3 DEF TriedInv
    <2>4. CASE f4pc \in {"parse", "row", "score"} /\ f4pc' \in {"score", "done"}
      BY <2>1, <2>4 DEF TriedInv
    <2> QED  BY <2>1, <2>3, <2>4
  <1> QED  BY <1>1, <1>2, <1>3 DEF Form4Next

\* For every page of documents, every URL known from before and whatever the servers
\* answer: each XML document is a candidate, once and in its order, and a filing is
\* given up with the last error when each of them was fetched in vain.
THEOREM CandidatesTried == Form4Spec => []EveryCandidateIsTried
  <1>1. TriedInv => CandidatesAreRanked
    <2> SUFFICES ASSUME TriedInv, f4pc \in {"load", "parsed", "raised", "none"}
                 PROVE  CandidatesAreRanked
      BY DEF CandidatesAreRanked
    <2>1. /\ Documents(tables) \in Seq(Document) /\ preferred \in Urls \cup {None}
          /\ urls = CandidateUrls(Documents(tables), preferred)
      BY DEF TriedInv
    <2> QED  BY <2>1, CandidatesRanked DEF CandidatesAreRanked
  <1>2. TriedInv => NoCandidateIsPassedOver
    BY DEF TriedInv, NoCandidateIsPassedOver
  <1>3. TriedInv => EveryCandidateIsTried
    BY <1>1, <1>2 DEF EveryCandidateIsTried
  <1> QED  BY <1>3, TriedInit, TriedStep, PTL DEF Form4Spec

-----------------------------------------------------------------------------
(* One 8-K (EightKReading).                                                *)

\* The earliest of some rows is the least of them, and 0 if there is none.
LEMMA EarliestIsFirst ==
    ASSUME NEW rows, rows \subseteq Nat, 0 \notin rows
    PROVE  IF rows = {} THEN Earliest(rows) = 0
           ELSE Earliest(rows) \in rows /\ \A j \in rows : Earliest(rows) <= j
  <1>1. CASE rows = {}
    BY <1>1 DEF Earliest
  <1>2. CASE rows # {}
    <2>1. PICK m \in rows : \A k \in rows : ~(<<k, m>> \in OpToRel(<, Nat))
      BY <1>2, NatLessThanWellFounded, WFMin
    <2>2. \A k \in rows : k \in Nat /\ m \in Nat /\ ~(k < m)
      BY <2>1 DEF OpToRel
    <2>3. \A k \in rows : m <= k
      BY <2>2
    <2> QED  BY <1>2, <2>3 DEF Earliest
  <1> QED  BY <1>1, <1>2

\* The row of a report is the one that PrimaryDocument takes, and the marks of a
\* report are those of its items and phrases.
EightKInv ==
    /\ page \in Seq(PageRow)
    /\ ekPc \in {"locate", "located", "missing", "read", "scored"}
    /\ ekPc \in {"located", "missing"} =>
          report = PrimaryDocument(page) /\ (ekPc = "missing" <=> report = 0)
    /\ ekPc = "scored" =>
          /\ items \subseteq Items /\ body \in Body
          /\ weight = ScoreOfReport(items, body)
          /\ sureness = Sureness(weight, Found(items, body))
          /\ direction = IF weight < 0 THEN "negative"
                         ELSE IF weight > 0 THEN "positive" ELSE "neutral"

\* The document that is taken is the earliest of the listed reports.
LEMMA ReportFollows == EightKInv => ReportIsTheListedOne
  <1> SUFFICES ASSUME EightKInv PROVE ReportIsTheListedOne
    OBVIOUS
  <1> DEFINE reachable == {i \in DOMAIN page : page[i].cells > 3 /\ (page[i].linked \/ page[i].named)}
             own == {i \in reachable : page[i].type # "other"}
             texts == {i \in reachable : page[i].textFile}
  <1>1. /\ DOMAIN page = 1..Len(page) /\ Len(page) \in Nat
        /\ \A i \in DOMAIN page : page[i] \in PageRow
    BY DEF EightKInv
  <1>2. \A i \in DOMAIN page : /\ page[i].cells \in 3..5
                               /\ page[i].type \in {"8-K", "8-K/A", "other"}
    BY <1>1 DEF PageRow
  <1>3. reachable = {i \in DOMAIN page : Usable(page[i])}
    BY <1>2 DEF Usable
  <1>4. own = {i \in reachable : page[i].type \in {"8-K", "8-K/A"}}
    BY <1>2
  <1>5. PrimaryDocument(page) = IF own # {} THEN Earliest(own) ELSE Earliest(texts)
    BY <1>3, <1>4 DEF PrimaryDocument
  <1>6. /\ own \subseteq reachable /\ texts \subseteq reachable
        /\ reachable \subseteq Nat /\ 0 \notin reachable
    BY <1>1
  <1> HIDE DEF reachable, own, texts
  <1>7. /\ own # {} => Earliest(own) \in own /\ \A j \in own : Earliest(own) <= j
        /\ IF texts = {} THEN Earliest(texts) = 0 ELSE Earliest(texts) \in texts
    BY <1>6, EarliestIsFirst
  <1>8. ASSUME ekPc = "located"
        PROVE  report \in reachable /\ (own # {} => report \in own) /\ \A i \in own : report <= i
    <2>1. report = PrimaryDocument(page) /\ report # 0
      BY <1>8 DEF EightKInv
    <2> QED  BY <1>5, <1>6, <1>7, <2>1
  <1>9. ASSUME ekPc = "missing"
        PROVE  own = {} /\ \A i \in reachable : ~page[i].textFile
    <2>1. PrimaryDocument(page) = 0
      BY <1>9 DEF EightKInv
    <2>2. own = {} /\ texts = {}
      BY <1>5, <1>6, <1>7, <2>1
    <2> QED  BY <2>2 DEF texts
  <1> QED  BY <1>8, <1>9 DEF ReportIsTheListedOne, reachable, own

\* The terms of a score before it is cut off.
PhraseTerm(found, n) == IF Phrases[n] \in found THEN PhraseScore(Phrases[n]) ELSE 0
ItemTerm(named, i) == IF i \in named THEN ItemScore(i) ELSE 0
Scoring == {"1.03", "2.04", "2.05", "2.06", "3.01", "4.02"}
\* Six items score, each at least one point down.
LEMMA ItemScores ==
    /\ \A i \in Scoring : ItemScore(i) \in -8..(-4)
    /\ \A i : i \notin Scoring => ItemScore(i) = 0
    /\ Scoring \subseteq Items \ {"5.02"}
  BY DEF ItemScore, Scoring, Items

\* Every category scores, from -2 to 1 in quarters.
LEMMA PhraseScores == \A p : PhraseScore(p) \in -8..4 /\ PhraseScore(p) # 0
  <1> SUFFICES ASSUME NEW p PROVE PhraseScore(p) \in -8..4 /\ PhraseScore(p) # 0
    OBVIOUS
  <1> QED  BY DEF PhraseScore

\* The six terms of the items, and their sum.
LEMMA ItemsAdded ==
    ASSUME NEW named
    PROVE  /\ \A i \in Scoring : ItemTerm(named, i) \in -8..0
           /\ ItemsTotal(named) = ItemTerm(named, "1.03") + ItemTerm(named, "2.04")
                                    + ItemTerm(named, "2.05") + ItemTerm(named, "2.06")
                                    + ItemTerm(named, "3.01") + ItemTerm(named, "4.02")
           /\ ItemsTotal(named) \in Int
  <1>1. \A i \in Scoring : ItemTerm(named, i) \in -8..0
    BY ItemScores DEF ItemTerm
  <1>2. ItemsTotal(named) = ItemTerm(named, "1.03") + ItemTerm(named, "2.04")
                               + ItemTerm(named, "2.05") + ItemTerm(named, "2.06")
                               + ItemTerm(named, "3.01") + ItemTerm(named, "4.02")
    BY DEF ItemsTotal, ItemTerm
  <1> QED  BY <1>1, <1>2 DEF Scoring

\* The eleven terms of the categories, and their sum.
LEMMA PhrasesAdded ==
    ASSUME NEW found
    PROVE  /\ \A n \in 1..11 : PhraseTerm(found, n) \in -8..4
           /\ PhrasesTotal(found) =
                 PhraseTerm(found, 1) + PhraseTerm(found, 2) + PhraseTerm(found, 3)
                   + PhraseTerm(found, 4) + PhraseTerm(found, 5) + PhraseTerm(found, 6)
                   + PhraseTerm(found, 7) + PhraseTerm(found, 8) + PhraseTerm(found, 9)
                   + PhraseTerm(found, 10) + PhraseTerm(found, 11)
           /\ PhrasesTotal(found) \in Int
  <1>1. \A n \in 1..11 : PhraseTerm(found, n) \in -8..4
    BY PhraseScores DEF PhraseTerm
  <1>2. PhrasesTotal(found) =
           PhraseTerm(found, 1) + PhraseTerm(found, 2) + PhraseTerm(found, 3)
             + PhraseTerm(found, 4) + PhraseTerm(found, 5) + PhraseTerm(found, 6)
             + PhraseTerm(found, 7) + PhraseTerm(found, 8) + PhraseTerm(found, 9)
             + PhraseTerm(found, 10) + PhraseTerm(found, 11)
    BY DEF PhrasesTotal, PhraseTerm
  <1> QED  BY <1>1, <1>2

\* The three scores of a change of officers.
LEMMA OfficersScore ==
    ASSUME NEW named, NEW b
    PROVE  OfficerScore(named, b) \in {-4, 0, 1}
  BY DEF OfficerScore

\* Sums of eleven terms compare as the terms do.
LEMMA SumsCompare ==
    ASSUME NEW f, NEW g,
           \A n \in 1..11 : PhraseTerm(f, n) <= PhraseTerm(g, n)
    PROVE  PhrasesTotal(f) <= PhrasesTotal(g)
  <1>1. /\ PhraseTerm(f, 1) <= PhraseTerm(g, 1) /\ PhraseTerm(f, 2) <= PhraseTerm(g, 2)
        /\ PhraseTerm(f, 3) <= PhraseTerm(g, 3) /\ PhraseTerm(f, 4) <= PhraseTerm(g, 4)
        /\ PhraseTerm(f, 5) <= PhraseTerm(g, 5) /\ PhraseTerm(f, 6) <= PhraseTerm(g, 6)
        /\ PhraseTerm(f, 7) <= PhraseTerm(g, 7) /\ PhraseTerm(f, 8) <= PhraseTerm(g, 8)
        /\ PhraseTerm(f, 9) <= PhraseTerm(g, 9) /\ PhraseTerm(f, 10) <= PhraseTerm(g, 10)
        /\ PhraseTerm(f, 11) <= PhraseTerm(g, 11)
    OBVIOUS
  <1>2. ASSUME NEW found
        PROVE  /\ PhraseTerm(found, 1) \in Int /\ PhraseTerm(found, 2) \in Int
               /\ PhraseTerm(found, 3) \in Int /\ PhraseTerm(found, 4) \in Int
               /\ PhraseTerm(found, 5) \in Int /\ PhraseTerm(found, 6) \in Int
               /\ PhraseTerm(found, 7) \in Int /\ PhraseTerm(found, 8) \in Int
               /\ PhraseTerm(found, 9) \in Int /\ PhraseTerm(found, 10) \in Int
               /\ PhraseTerm(found, 11) \in Int
    BY PhrasesAdded
  <1>3. /\ PhrasesTotal(f) =
              PhraseTerm(f, 1) + PhraseTerm(f, 2) + PhraseTerm(f, 3) + PhraseTerm(f, 4)
                + PhraseTerm(f, 5) + PhraseTerm(f, 6) + PhraseTerm(f, 7) + PhraseTerm(f, 8)
                + PhraseTerm(f, 9) + PhraseTerm(f, 10) + PhraseTerm(f, 11)
        /\ PhrasesTotal(g) =
              PhraseTerm(g, 1) + PhraseTerm(g, 2) + PhraseTerm(g, 3) + PhraseTerm(g, 4)
                + PhraseTerm(g, 5) + PhraseTerm(g, 6) + PhraseTerm(g, 7) + PhraseTerm(g, 8)
                + PhraseTerm(g, 9) + PhraseTerm(g, 10) + PhraseTerm(g, 11)
    BY PhrasesAdded
  <1> QED  BY <1>1, <1>2, <1>3

\* The cut to -2..2 keeps the order of scores and their sign.
LEMMA CutOffKeepsOrder ==
    ASSUME NEW x \in Int, NEW y \in Int
    PROVE  /\ x <= y => Within(x) <= Within(y)
           /\ Within(x) \in -8..8
           /\ x < 0 <=> Within(x) < 0
           /\ x > 0 <=> Within(x) > 0
  BY DEF Within

\* Only its own category counts for a phrase.
LEMMA PhraseWeighs ==
    ASSUME NEW named, NEW b \in Body, NEW p \in ToSet(Phrases)
    PROVE  LET more == [b EXCEPT !.phrases = @ \cup {p}]
           IN  IF PhraseScore(p) < 0 THEN ScoreOfReport(named, more) <= ScoreOfReport(named, b)
               ELSE ScoreOfReport(named, more) >= ScoreOfReport(named, b)
  <1> DEFINE more == [b EXCEPT !.phrases = @ \cup {p}]
  <1>1. /\ more.phrases = b.phrases \cup {p} /\ more.title = b.title
        /\ more.departure = b.departure /\ more.appointment = b.appointment
    BY DEF Body
  <1> HIDE DEF more
  <1>2. OfficerScore(named, more) = OfficerScore(named, b)
    BY <1>1 DEF OfficerScore
  <1>3. \A n \in 1..11 : \/ PhraseTerm(more.phrases, n) = PhraseTerm(b.phrases, n)
                         \/ /\ PhraseTerm(more.phrases, n) = PhraseScore(p)
                            /\ PhraseTerm(b.phrases, n) = 0
    BY <1>1 DEF PhraseTerm
  <1>4. PhraseScore(p) \in -8..4
    BY PhraseScores
  <1>5. \A n \in 1..11 : PhraseTerm(b.phrases, n) \in -8..4
    BY PhrasesAdded
  <1>6. IF PhraseScore(p) < 0 THEN PhrasesTotal(more.phrases) <= PhrasesTotal(b.phrases)
        ELSE PhrasesTotal(b.phrases) <= PhrasesTotal(more.phrases)
    <2>1. CASE PhraseScore(p) < 0
      <3>1. \A n \in 1..11 : PhraseTerm(more.phrases, n) <= PhraseTerm(b.phrases, n)
        BY <1>3, <1>4, <1>5, <2>1
      <3> QED  BY <2>1, <3>1, SumsCompare
    <2>2. CASE ~(PhraseScore(p) < 0)
      <3>1. \A n \in 1..11 : PhraseTerm(b.phrases, n) <= PhraseTerm(more.phrases, n)
        BY <1>3, <1>4, <1>5, <2>2
      <3> QED  BY <2>2, <3>1, SumsCompare
    <2> QED  BY <2>1, <2>2
  <1>7. /\ ItemsTotal(named) \in Int /\ OfficerScore(named, b) \in Int
        /\ PhrasesTotal(b.phrases) \in Int /\ PhrasesTotal(more.phrases) \in Int
    BY ItemsAdded, OfficersScore, PhrasesAdded
  <1>8. /\ ScoreOfReport(named, b)
             = Within(ItemsTotal(named) + OfficerScore(named, b) + PhrasesTotal(b.phrases))
        /\ ScoreOfReport(named, more)
             = Within(ItemsTotal(named) + OfficerScore(named, b) + PhrasesTotal(more.phrases))
    BY <1>2 DEF ScoreOfReport
  <1> DEFINE x == ItemsTotal(named) + OfficerScore(named, b) + PhrasesTotal(b.phrases)
             y == ItemsTotal(named) + OfficerScore(named, b) + PhrasesTotal(more.phrases)
  <1>9. /\ x \in Int /\ y \in Int
        /\ IF PhraseScore(p) < 0 THEN y <= x ELSE x <= y
    BY <1>6, <1>7
  <1> HIDE DEF x, y
  <1>10. /\ y <= x => Within(y) <= Within(x)
         /\ x <= y => Within(x) <= Within(y)
         /\ Within(x) \in Int /\ Within(y) \in Int
    BY <1>9, CutOffKeepsOrder
  <1> QED  BY <1>8, <1>9, <1>10 DEF more, x, y

\* No item raises a score; a departure lowers what an appointment raises.
LEMMA ItemsWeigh ==
    ASSUME NEW named, NEW b \in Body
    PROVE  /\ \A i \in Items \ {"5.02"} :
                 ScoreOfReport(named \cup {i}, b) <= ScoreOfReport(named, b)
           /\ ScoreOfReport(named, [b EXCEPT !.departure = TRUE]) <= ScoreOfReport(named, b)
           /\ ScoreOfReport(named, [b EXCEPT !.appointment = TRUE]) >= ScoreOfReport(named, b)
  <1>1. ASSUME NEW m, NEW e,
               ItemsTotal(m) + OfficerScore(m, e) <= ItemsTotal(named) + OfficerScore(named, b),
               e.phrases = b.phrases
        PROVE  ScoreOfReport(m, e) <= ScoreOfReport(named, b)
    <2> DEFINE x == ItemsTotal(m) + OfficerScore(m, e) + PhrasesTotal(b.phrases)
               y == ItemsTotal(named) + OfficerScore(named, b) + PhrasesTotal(b.phrases)
    <2>1. /\ ItemsTotal(m) \in Int /\ ItemsTotal(named) \in Int
          /\ OfficerScore(m, e) \in Int /\ OfficerScore(named, b) \in Int
          /\ PhrasesTotal(b.phrases) \in Int
      BY ItemsAdded, OfficersScore, PhrasesAdded
    <2>2. x \in Int /\ y \in Int /\ x <= y
      BY <1>1, <2>1
    <2>3. ScoreOfReport(m, e) = Within(x) /\ ScoreOfReport(named, b) = Within(y)
      BY <1>1 DEF ScoreOfReport
    <2> QED  BY <2>2, <2>3, CutOffKeepsOrder
  <1>2. ASSUME NEW i \in Items \ {"5.02"}
        PROVE  ScoreOfReport(named \cup {i}, b) <= ScoreOfReport(named, b)
    <2> DEFINE m == named \cup {i}
    <2>1. OfficerScore(m, b) = OfficerScore(named, b)
      BY <1>2 DEF OfficerScore
    <2>2. \A k \in Scoring : ItemTerm(m, k) <= ItemTerm(named, k)
      BY ItemScores DEF ItemTerm
    <2>3. ItemsTotal(m) <= ItemsTotal(named)
      <3>1. /\ ItemTerm(m, "1.03") <= ItemTerm(named, "1.03")
            /\ ItemTerm(m, "2.04") <= ItemTerm(named, "2.04")
            /\ ItemTerm(m, "2.05") <= ItemTerm(named, "2.05")
            /\ ItemTerm(m, "2.06") <= ItemTerm(named, "2.06")
            /\ ItemTerm(m, "3.01") <= ItemTerm(named, "3.01")
            /\ ItemTerm(m, "4.02") <= ItemTerm(named, "4.02")
        BY <2>2 DEF Scoring
      <3>2. ASSUME NEW some
            PROVE  /\ ItemTerm(some, "1.03") \in Int /\ ItemTerm(some, "2.04") \in Int
                   /\ ItemTerm(some, "2.05") \in Int /\ ItemTerm(some, "2.06") \in Int
                   /\ ItemTerm(some, "3.01") \in Int /\ ItemTerm(some, "4.02") \in Int
        BY ItemsAdded DEF Scoring
      <3>3. /\ ItemsTotal(m) = ItemTerm(m, "1.03") + ItemTerm(m, "2.04") + ItemTerm(m, "2.05")
                                 + ItemTerm(m, "2.06") + ItemTerm(m, "3.01") + ItemTerm(m, "4.02")
            /\ ItemsTotal(named) = ItemTerm(named, "1.03") + ItemTerm(named, "2.04")
                                     + ItemTerm(named, "2.05") + ItemTerm(named, "2.06")
                                     + ItemTerm(named, "3.01") + ItemTerm(named, "4.02")
        BY ItemsAdded
      <3> HIDE DEF m
      <3> QED  BY <3>1, <3>2, <3>3
    <2>4. /\ ItemsTotal(m) \in Int /\ ItemsTotal(named) \in Int
          /\ OfficerScore(named, b) \in Int
      BY ItemsAdded, OfficersScore
    <2> HIDE DEF m
    <2>5. ItemsTotal(m) + OfficerScore(m, b) <= ItemsTotal(named) + OfficerScore(named, b)
      BY <2>1, <2>3, <2>4
    <2>6. ScoreOfReport(m, b) <= ScoreOfReport(named, b)
      BY <1>1, <2>5
    <2> QED  BY <2>6 DEF m
  <1>3. ScoreOfReport(named, [b EXCEPT !.departure = TRUE]) <= ScoreOfReport(named, b)
    <2> DEFINE e == [b EXCEPT !.departure = TRUE]
    <2>1. /\ e.phrases = b.phrases /\ e.title = b.title /\ e.departure
          /\ b.departure \in BOOLEAN
      BY DEF Body
    <2> HIDE DEF e
    <2>2. OfficerScore(named, e) <= OfficerScore(named, b)
      BY <2>1 DEF OfficerScore
    <2>3. /\ ItemsTotal(named) \in Int /\ OfficerScore(named, e) \in Int
          /\ OfficerScore(named, b) \in Int
      BY ItemsAdded, OfficersScore
    <2>4. ScoreOfReport(named, e) <= ScoreOfReport(named, b)
      BY <1>1, <2>1, <2>2, <2>3
    <2> QED  BY <2>4 DEF e
  <1>4. ScoreOfReport(named, [b EXCEPT !.appointment = TRUE]) >= ScoreOfReport(named, b)
    <2> DEFINE e == [b EXCEPT !.appointment = TRUE]
               x == ItemsTotal(named) + OfficerScore(named, b) + PhrasesTotal(b.phrases)
               y == ItemsTotal(named) + OfficerScore(named, e) + PhrasesTotal(b.phrases)
    <2>1. /\ e.phrases = b.phrases /\ e.title = b.title /\ e.departure = b.departure
          /\ e.appointment
      BY DEF Body
    <2> HIDE DEF e
    <2>2. OfficerScore(named, b) <= OfficerScore(named, e)
      BY <2>1 DEF OfficerScore
    <2>3. /\ ItemsTotal(named) \in Int /\ OfficerScore(named, e) \in Int
          /\ OfficerScore(named, b) \in Int /\ PhrasesTotal(b.phrases) \in Int
      BY ItemsAdded, OfficersScore, PhrasesAdded
    <2>4. x \in Int /\ y \in Int /\ x <= y
      BY <2>2, <2>3
    <2>5. ScoreOfReport(named, b) = Within(x) /\ ScoreOfReport(named, e) = Within(y)
      BY <2>1 DEF ScoreOfReport
    <2>6. Within(x) <= Within(y) /\ Within(x) \in Int /\ Within(y) \in Int
      BY <2>4, CutOffKeepsOrder
    <2> QED  BY <2>5, <2>6 DEF e
  <1> QED  BY <1>2, <1>3, <1>4

\* The scores of what is found in a report.
Scores(named, b) ==
    {ItemScore(i) : i \in named} \cup {PhraseScore(p) : p \in b.phrases}
        \cup {OfficerScore(named, b)}

\* The eleven categories are all there are.
LEMMA PhrasesListed == ToSet(Phrases) = {Phrases[n] : n \in 1..11}
  <1>1. DOMAIN Phrases = 1..11
    BY DEF Phrases
  <1> QED  BY <1>1 DEF ToSet

\* Each term is a score of something found, or nothing.
LEMMA TermsAreScores ==
    ASSUME NEW named, NEW b \in Body
    PROVE  /\ \A i \in Scoring : ItemTerm(named, i) \in Scores(named, b) \cup {0}
           /\ \A n \in 1..11 : PhraseTerm(b.phrases, n) \in Scores(named, b) \cup {0}
           /\ OfficerScore(named, b) \in Scores(named, b)
           /\ \A x \in Scores(named, b) \ {0} :
                 \/ \E i \in Scoring : ItemTerm(named, i) = x
                 \/ \E n \in 1..11 : PhraseTerm(b.phrases, n) = x
                 \/ OfficerScore(named, b) = x
  <1>1. \A i \in Scoring : ItemTerm(named, i) \in Scores(named, b) \cup {0}
    BY DEF ItemTerm, Scores
  <1>2. \A n \in 1..11 : PhraseTerm(b.phrases, n) \in Scores(named, b) \cup {0}
    BY DEF PhraseTerm, Scores
  <1>3. ASSUME NEW x \in Scores(named, b) \ {0}
        PROVE  \/ \E i \in Scoring : ItemTerm(named, i) = x
               \/ \E n \in 1..11 : PhraseTerm(b.phrases, n) = x
               \/ OfficerScore(named, b) = x
    <2>1. CASE x \in {ItemScore(i) : i \in named}
      <3>1. PICK i \in named : x = ItemScore(i)
        BY <2>1
      <3>2. i \in Scoring /\ ItemTerm(named, i) = x
        BY <1>3, <3>1, ItemScores DEF ItemTerm
      <3> QED  BY <3>2
    <2>2. CASE x \in {PhraseScore(p) : p \in b.phrases}
      <3>1. PICK p \in b.phrases : x = PhraseScore(p)
        BY <2>2
      <3>2. p \in ToSet(Phrases)
        BY DEF Body
      <3>3. PICK n \in 1..11 : Phrases[n] = p
        BY <3>2, PhrasesListed
      <3>4. PhraseTerm(b.phrases, n) = x
        BY <3>1, <3>3 DEF PhraseTerm
      <3> QED  BY <3>4
    <2> QED  BY <1>3, <2>1, <2>2 DEF Scores
  <1> QED  BY <1>1, <1>2, <1>3 DEF Scores

\* A sum of terms of one sign is beyond each of them.
LEMMA PhrasesOfOneSign ==
    ASSUME NEW found
    PROVE  /\ (\A n \in 1..11 : PhraseTerm(found, n) <= 0) =>
                 PhrasesTotal(found) <= 0 /\ \A n \in 1..11 : PhrasesTotal(found) <= PhraseTerm(found, n)
           /\ (\A n \in 1..11 : PhraseTerm(found, n) >= 0) =>
                 PhrasesTotal(found) >= 0 /\ \A n \in 1..11 : PhrasesTotal(found) >= PhraseTerm(found, n)
  <1> DEFINE t(n) == PhraseTerm(found, n)
  <1>1. /\ t(1) \in Int /\ t(2) \in Int /\ t(3) \in Int /\ t(4) \in Int /\ t(5) \in Int
        /\ t(6) \in Int /\ t(7) \in Int /\ t(8) \in Int /\ t(9) \in Int /\ t(10) \in Int
        /\ t(11) \in Int
    BY PhrasesAdded
  <1>2. PhrasesTotal(found) = t(1) + t(2) + t(3) + t(4) + t(5) + t(6) + t(7) + t(8) + t(9)
                                + t(10) + t(11)
    BY PhrasesAdded
  <1>3. ASSUME \A n \in 1..11 : t(n) <= 0
        PROVE  PhrasesTotal(found) <= 0 /\ \A n \in 1..11 : PhrasesTotal(found) <= t(n)
    <2>1. /\ t(1) <= 0 /\ t(2) <= 0 /\ t(3) <= 0 /\ t(4) <= 0 /\ t(5) <= 0 /\ t(6) <= 0
          /\ t(7) <= 0 /\ t(8) <= 0 /\ t(9) <= 0 /\ t(10) <= 0 /\ t(11) <= 0
      BY <1>3
    <2> HIDE DEF t
    <2>2. /\ PhrasesTotal(found) <= 0
          /\ PhrasesTotal(found) <= t(1) /\ PhrasesTotal(found) <= t(2)
          /\ PhrasesTotal(found) <= t(3) /\ PhrasesTotal(found) <= t(4)
          /\ PhrasesTotal(found) <= t(5) /\ PhrasesTotal(found) <= t(6)
          /\ PhrasesTotal(found) <= t(7) /\ PhrasesTotal(found) <= t(8)
          /\ PhrasesTotal(found) <= t(9) /\ PhrasesTotal(found) <= t(10)
          /\ PhrasesTotal(found) <= t(11)
      BY <1>1, <1>2, <2>1
    <2>3. \A n \in 1..11 : n \in {1, 2, 3, 4, 5, 6, 7, 8, 9, 10, 11}
      OBVIOUS
    <2> QED  BY <2>2, <2>3
  <1>4. ASSUME \A n \in 1..11 : t(n) >= 0
        PROVE  PhrasesTotal(found) >= 0 /\ \A n \in 1..11 : PhrasesTotal(found) >= t(n)
    <2>1. /\ t(1) >= 0 /\ t(2) >= 0 /\ t(3) >= 0 /\ t(4) >= 0 /\ t(5) >= 0 /\ t(6) >= 0
          /\ t(7) >= 0 /\ t(8) >= 0 /\ t(9) >= 0 /\ t(10) >= 0 /\ t(11) >= 0
      BY <1>4
    <2> HIDE DEF t
    <2>2. /\ PhrasesTotal(found) >= 0
          /\ PhrasesTotal(found) >= t(1) /\ PhrasesTotal(found) >= t(2)
          /\ PhrasesTotal(found) >= t(3) /\ PhrasesTotal(found) >= t(4)
          /\ PhrasesTotal(found) >= t(5) /\ PhrasesTotal(found) >= t(6)
          /\ PhrasesTotal(found) >= t(7) /\ PhrasesTotal(found) >= t(8)
          /\ PhrasesTotal(found) >= t(9) /\ PhrasesTotal(found) >= t(10)
          /\ PhrasesTotal(found) >= t(11)
      BY <1>1, <1>2, <2>1
    <2>3. \A n \in 1..11 : n \in {1, 2, 3, 4, 5, 6, 7, 8, 9, 10, 11}
      OBVIOUS
    <2> QED  BY <2>2, <2>3
  <1> QED  BY <1>3, <1>4

\* The items' sum is not positive, and at most each of its terms.
LEMMA ItemsOfOneSign ==
    ASSUME NEW named
    PROVE  ItemsTotal(named) <= 0 /\ \A i \in Scoring : ItemsTotal(named) <= ItemTerm(named, i)
  <1> DEFINE t(i) == ItemTerm(named, i)
  <1>1. /\ t("1.03") \in Int /\ t("2.04") \in Int /\ t("2.05") \in Int
        /\ t("2.06") \in Int /\ t("3.01") \in Int /\ t("4.02") \in Int
        /\ t("1.03") <= 0 /\ t("2.04") <= 0 /\ t("2.05") <= 0
        /\ t("2.06") <= 0 /\ t("3.01") <= 0 /\ t("4.02") <= 0
    BY ItemsAdded DEF Scoring
  <1>2. ItemsTotal(named) = t("1.03") + t("2.04") + t("2.05") + t("2.06") + t("3.01") + t("4.02")
    BY ItemsAdded
  <1> HIDE DEF t
  <1>3. /\ ItemsTotal(named) <= 0
        /\ ItemsTotal(named) <= t("1.03") /\ ItemsTotal(named) <= t("2.04")
        /\ ItemsTotal(named) <= t("2.05") /\ ItemsTotal(named) <= t("2.06")
        /\ ItemsTotal(named) <= t("3.01") /\ ItemsTotal(named) <= t("4.02")
    BY <1>1, <1>2
  <1> QED  BY <1>3 DEF Scoring, t

\* News of one kind decides the sign, and no news is neutral.
LEMMA NewsDecides ==
    ASSUME NEW named, NEW b \in Body
    PROVE  LET found == Scores(named, b)
               x == ScoreOfReport(named, b)
           IN  /\ x \in -8..8
               /\ found = {0} => x = 0
               /\ (\A s \in found : s <= 0) /\ found # {0} => x < 0
               /\ (\A s \in found : s >= 0) /\ found # {0} => x > 0
  <1> DEFINE found == Scores(named, b)
             items1 == ItemsTotal(named)
             officer == OfficerScore(named, b)
             phrases1 == PhrasesTotal(b.phrases)
             sum == items1 + officer + phrases1
  <1>1. ScoreOfReport(named, b) = Within(sum)
    BY DEF ScoreOfReport
  <1>2. items1 \in Int /\ officer \in Int /\ phrases1 \in Int /\ officer \in found
    BY ItemsAdded, OfficersScore, PhrasesAdded, TermsAreScores
  <1>3. /\ \A i \in Scoring : ItemTerm(named, i) \in found \cup {0}
        /\ \A n \in 1..11 : PhraseTerm(b.phrases, n) \in found \cup {0}
        /\ \A s \in found \ {0} : \/ \E i \in Scoring : ItemTerm(named, i) = s
                                  \/ \E n \in 1..11 : PhraseTerm(b.phrases, n) = s
                                  \/ officer = s
    BY TermsAreScores
  <1>a. items1 <= 0 /\ \A i \in Scoring : items1 <= ItemTerm(named, i) /\ ItemTerm(named, i) \in Int
    BY ItemsOfOneSign, ItemsAdded
  <1>b. \A n \in 1..11 : PhraseTerm(b.phrases, n) \in Int
    BY PhrasesAdded
  <1> HIDE DEF found, items1, officer
  <1>4. ASSUME \A s \in found : s <= 0
        PROVE  officer <= 0 /\ phrases1 <= 0 /\ (found # {0} => sum < 0)
    <2>1. \A n \in 1..11 : PhraseTerm(b.phrases, n) <= 0
      BY <1>3, <1>4
    <2>2. phrases1 <= 0 /\ \A n \in 1..11 : phrases1 <= PhraseTerm(b.phrases, n)
      BY <2>1, PhrasesOfOneSign
    <2>3. officer <= 0
      BY <1>2, <1>4
    <2> HIDE DEF phrases1
    <2>4. ASSUME found # {0} PROVE sum < 0
      <3>1. PICK s \in found : s # 0
        BY <1>2, <2>4
      <3>2. s <= 0
        BY <1>4, <3>1
      <3>3. CASE \E i \in Scoring : ItemTerm(named, i) = s
        <4>1. s \in Int /\ items1 <= s
          BY <1>a, <3>3
        <4>2. items1 < 0
          BY <1>2, <3>1, <3>2, <4>1
        <4> QED  BY <1>2, <2>2, <2>3, <4>2
      <3>4. CASE \E n \in 1..11 : PhraseTerm(b.phrases, n) = s
        <4>1. s \in Int /\ phrases1 <= s
          BY <1>b, <2>2, <3>4
        <4>2. phrases1 < 0
          BY <1>2, <3>1, <3>2, <4>1
        <4> QED  BY <1>2, <1>a, <2>3, <4>2
      <3>5. CASE officer = s
        <4>1. officer < 0
          BY <1>2, <3>1, <3>2, <3>5
        <4> QED  BY <1>2, <1>a, <2>2, <4>1
      <3> QED  BY <1>3, <3>1, <3>3, <3>4, <3>5
    <2> QED  BY <2>2, <2>3, <2>4
  <1>5. ASSUME \A s \in found : s >= 0
        PROVE  items1 = 0 /\ officer >= 0 /\ phrases1 >= 0 /\ (found # {0} => sum > 0)
    <2>1. \A n \in 1..11 : PhraseTerm(b.phrases, n) >= 0
      BY <1>3, <1>5
    <2>2. phrases1 >= 0 /\ \A n \in 1..11 : phrases1 >= PhraseTerm(b.phrases, n)
      BY <2>1, PhrasesOfOneSign
    <2>3. officer >= 0
      BY <1>2, <1>5
    <2>4. \A i \in Scoring : ItemTerm(named, i) = 0
      <3>1. \A i \in Scoring : ItemTerm(named, i) \in -8..0
        BY ItemsAdded
      <3>2. \A i \in Scoring : ItemTerm(named, i) >= 0
        BY <1>3, <1>5
      <3> QED  BY <3>1, <3>2
    <2>5. items1 = 0
      <3>1. items1 = ItemTerm(named, "1.03") + ItemTerm(named, "2.04")
                       + ItemTerm(named, "2.05") + ItemTerm(named, "2.06")
                       + ItemTerm(named, "3.01") + ItemTerm(named, "4.02")
        BY ItemsAdded DEF items1
      <3> QED  BY <2>4, <3>1 DEF Scoring
    <2> HIDE DEF phrases1
    <2>6. ASSUME found # {0} PROVE sum > 0
      <3>1. PICK s \in found : s # 0
        BY <1>2, <2>6
      <3>2. s >= 0 /\ ~(\E i \in Scoring : ItemTerm(named, i) = s)
        BY <1>5, <2>4, <3>1
      <3>3. CASE \E n \in 1..11 : PhraseTerm(b.phrases, n) = s
        <4>1. s \in Int /\ phrases1 >= s
          BY <1>b, <2>2, <3>3
        <4>2. phrases1 > 0
          BY <1>2, <3>1, <3>2, <4>1
        <4> QED  BY <1>2, <2>3, <2>5, <4>2
      <3>4. CASE officer = s
        <4>1. officer > 0
          BY <1>2, <3>1, <3>2, <3>4
        <4> QED  BY <1>2, <2>2, <2>5, <4>1
      <3> QED  BY <1>3, <3>1, <3>2, <3>3, <3>4
    <2> QED  BY <2>2, <2>3, <2>5, <2>6
  <1> HIDE DEF phrases1
  <1>6. found = {0} => sum = 0
    BY <1>2, <1>4, <1>5
  <1>7. sum \in Int
    BY <1>2
  <1> HIDE DEF sum
  <1>8. Within(sum) \in -8..8 /\ (sum < 0 <=> Within(sum) < 0) /\ (sum > 0 <=> Within(sum) > 0)
    BY <1>7, CutOffKeepsOrder
  <1>9. sum = 0 => Within(sum) = 0
    BY <1>7, <1>8
  <1> QED  BY <1>1, <1>4, <1>5, <1>6, <1>8, <1>9 DEF found

\* Where no term scores, nothing was found.
LEMMA NothingFound ==
    ASSUME NEW named, NEW b
    PROVE  Found(named, b) = {} <=> Scores(named, b) = {0}
  <1>1. \A p \in b.phrases : PhraseScore(p) # 0
    BY PhraseScores
  <1>2. Found(named, b) = {} <=> /\ \A i \in named : ItemScore(i) = 0
                                 /\ b.phrases = {} /\ OfficerScore(named, b) = 0
    BY DEF Found
  <1>3. Scores(named, b) = {0} <=> /\ \A i \in named : ItemScore(i) = 0
                                   /\ b.phrases = {} /\ OfficerScore(named, b) = 0
    BY <1>1 DEF Scores
  <1> QED  BY <1>2, <1>3

\* What a scored report has on record follows from its news.
LEMMA NewsFollows == EightKInv => NewsWeighsItsWay
  <1> SUFFICES ASSUME EightKInv, ekPc = "scored" PROVE NewsWeighsItsWay
    BY DEF NewsWeighsItsWay
  <1> DEFINE found == Scores(items, body)
  <1>1. /\ items \subseteq Items /\ body \in Body
        /\ weight = ScoreOfReport(items, body)
        /\ sureness = Sureness(weight, Found(items, body))
        /\ direction = IF weight < 0 THEN "negative"
                       ELSE IF weight > 0 THEN "positive" ELSE "neutral"
    BY DEF EightKInv
  <1>2. \A p \in ToSet(Phrases) :
           LET more == [body EXCEPT !.phrases = @ \cup {p}]
           IN  IF PhraseScore(p) < 0 THEN ScoreOfReport(items, more) <= weight
               ELSE ScoreOfReport(items, more) >= weight
    BY <1>1, PhraseWeighs
  <1>3. /\ \A i \in Items \ {"5.02"} : ScoreOfReport(items \cup {i}, body) <= weight
        /\ ScoreOfReport(items, [body EXCEPT !.departure = TRUE]) <= weight
        /\ ScoreOfReport(items, [body EXCEPT !.appointment = TRUE]) >= weight
    BY <1>1, ItemsWeigh
  <1>4. /\ weight \in -8..8
        /\ found = {0} => weight = 0
        /\ (\A s \in found : s <= 0) /\ found # {0} => weight < 0
        /\ (\A s \in found : s >= 0) /\ found # {0} => weight > 0
    BY <1>1, NewsDecides
  <1>5. Found(items, body) = {} <=> found = {0}
    BY NothingFound
  <1> HIDE DEF found
  <1>6. sureness = "low" <=> found = {0}
    <2>1. CASE found = {0}
      BY <1>1, <1>4, <1>5, <2>1 DEF Sureness
    <2>2. CASE found # {0}
      BY <1>1, <1>4, <1>5, <2>2 DEF Sureness
    <2> QED  BY <2>1, <2>2
  <1>7. /\ (\A s \in found : s <= 0) /\ found # {0} => direction = "negative"
        /\ (\A s \in found : s >= 0) /\ found # {0} => direction = "positive"
    BY <1>1, <1>4
  <1> QED  BY <1>2, <1>3, <1>6, <1>7 DEF NewsWeighsItsWay, found, Scores

\* A page is a sequence of rows.
LEMMA EightKInitInv == EightKInit => EightKInv
  <1> SUFFICES ASSUME EightKInit PROVE EightKInv
    OBVIOUS
  <1>1. page \in Seq(PageRow)
    <2>1. \A rows \in Pages : rows \in Seq(PageRow)
      <3> SUFFICES ASSUME NEW rows \in Pages PROVE rows \in Seq(PageRow)
        OBVIOUS
      <3>1. PICK n \in 0..MaxPageRows : rows \in [1..n -> {r \in PageRow : r.textFile => r.named}]
        BY DEF Pages
      <3>2. n \in Nat /\ rows \in [1..n -> PageRow]
        BY <3>1, EightKAssumption
      <3> QED  BY <3>2
    <2>2. page \in Pages \cup {<<>>}
      BY DEF EightKInit
    <2>3. <<>> \in Seq(PageRow)
      OBVIOUS
    <2> QED  BY <2>1, <2>2, <2>3
  <1> QED  BY <1>1 DEF EightKInit, EightKInv

\* The report is located once, and scored once.
LEMMA EightKStepInv == EightKInv /\ [EightKNext]_eightKVars => EightKInv'
  <1> SUFFICES ASSUME EightKInv, [EightKNext]_eightKVars PROVE EightKInv'
    OBVIOUS
  <1>1. CASE LocateReport
    BY <1>1 DEF LocateReport, EightKInv
  <1>2. CASE ReadReport
    <2>1. /\ items' \subseteq Items /\ body' \in Body /\ ekPc' = "scored" /\ page' = page
          /\ weight' = ScoreOfReport(items', body')
          /\ sureness' = Sureness(weight', Found(items', body'))
          /\ direction' = IF weight' < 0 THEN "negative"
                          ELSE IF weight' > 0 THEN "positive" ELSE "neutral"
      BY <1>2 DEF ReadReport
    <2> QED  BY <2>1 DEF EightKInv
  <1>3. CASE UNCHANGED eightKVars
    BY <1>3 DEF eightKVars, EightKInv
  <1> QED  BY <1>1, <1>2, <1>3 DEF EightKNext

\* For every page and every set of items and phrases: the report is the listed one,
\* no bad news raises its score, and news of one kind decides the direction.
THEOREM EightKSound == EightKSpec => []EightKIsJudgedByItsReport
  <1>1. EightKInv => EightKIsJudgedByItsReport
    BY ReportFollows, NewsFollows DEF EightKIsJudgedByItsReport
  <1> QED  BY <1>1, EightKInitInv, EightKStepInv, PTL DEF EightKSpec
=============================================================================
