-------------------------------- MODULE Channels --------------------------------
(***************************************************************************)
(* One message to one destination: what the settings must hold, the HTTP   *)
(* post or the SMTP dialogue, the result and the attempt on record         *)
(* (app/services/notify/, app/services/alerts.py, config.py), and what the *)
(* diagnostics say of the same settings (app/release.py).                  *)
(*                                                                         *)
(* FilingPipeline takes the result of a send as a choice; this is what it  *)
(* is a choice of.  A setting is absent, blank or a value; of a value it   *)
(* counts what the code distinguishes.  smtplib and the servers are        *)
(* external.                                                               *)
(***************************************************************************)
EXTENDS Integers, FiniteSets

CONSTANTS Absent   \* a setting that is not there

ASSUME ChannelAssumption ==
    Absent \notin {"slack", "webhook", "smtp", "blank", "https", "http", "local", "remote",
                   "465", "25", "name only", "address", "value"}

VARIABLES
    chPc,
    channel, purpose,     \* purpose: an alert or a test message
    setting,              \* the channel's settings as they are written
    secured, loggedIn,    \* the SMTP connection
    accepted,             \* history: the receiver has taken the message
    redirected,           \* history: Slack has answered with a redirect
    failure,              \* the exception that QUIT is sent in the wake of
    result, attempt,      \* the NotificationResult, and the rows that record it
    channelReady, doctor  \* is_configured(), and the verdict of the diagnostics

exchange == <<secured, loggedIn, accepted, redirected, failure>>
channelVars == <<chPc, channel, purpose, setting, exchange, result, attempt, channelReady, doctor>>

Result == [status : {"sent", "failed"}, retryable : BOOLEAN, class : STRING]
Failed(class, retryable) == [status |-> "failed", retryable |-> retryable, class |-> class]
Sent == [status |-> "sent", retryable |-> FALSE, class |-> "none"]

SlackUrls == {Absent, "blank", "https", "http"}
Given == {Absent, "blank", "value"}

\* The webhook's URL is looked at twice: urlparse() finds a scheme and a host,
\* which is this one or another, in any letters and behind any user; startswith()
\* finds how the text begins, where http://127.0.0.1 counts as http://localhost.
WebhookForms ==
    {u \in [scheme : {"https", "http", "other"}, localHost : BOOLEAN,
            begins : {"https://", "http://localhost", "other"}] :
        /\ u.begins = "https://" => u.scheme = "https"
        /\ u.begins = "http://localhost" => u.scheme = "http"}

Settings ==
    [channel : {"slack"}, url : SlackUrls]
    \cup [channel : {"webhook"}, url : Given, form : WebhookForms, testMode : BOOLEAN]
    \cup [channel : {"smtp"}, host : {Absent, "blank", "local", "remote"},
          port : {Absent, "blank", "465", "25"}, from : {Absent, "value"},
          to : {Absent, "blank", "name only", "address"}, user : Given, password : {Absent, "value"}]

-----------------------------------------------------------------------------
\* The validators of Settings: what is blank counts as absent.
Normal(v) == IF v = "blank" THEN Absent ELSE v
Normalized(s) == [f \in DOMAIN s |-> IF f \in {"form", "testMode"} THEN s[f] ELSE Normal(s[f])]

Credentials(s) == s.user # Absent /\ s.password # Absent
Local(s) == s.host = "local"

\* SlackNotifier.allowed(), WebhookNotifier._validate_url(): the parsed scheme
\* and host.
UrlAllowed(s) ==
    IF s.channel = "slack" THEN s.url = "https"
    ELSE \/ s.form.scheme = "https"
         \/ s.testMode /\ s.form.scheme = "http" /\ s.form.localHost

\* _validate_configuration() and _recipient_list().
SmtpMissing(s) == Absent \in {s.host, s.port, s.from, s.to} \/ s.to # "address"

Refusal(s) ==
    CASE s.channel = "smtp" -> IF SmtpMissing(s) THEN "MissingConfiguration" ELSE "none"
      [] OTHER -> CASE s.url = Absent -> "MissingConfiguration"
                    [] s.url # Absent /\ ~UrlAllowed(s) -> "InvalidConfiguration"
                    [] OTHER -> "none"

\* is_configured() of the three notifiers.
IsConfigured(s) ==
    IF s.channel = "smtp"
    THEN Absent \notin {s.host, s.port, s.from} /\ s.to = "address"
    ELSE s.url # Absent

\* Faulty variant of Diagnosis: the webhook is looked at like Slack.
DiagnosisOfPresence(s) ==
    IF s.channel = "smtp"
    THEN IF Absent \in {s.host, s.port, s.from, s.to} THEN "warn" ELSE "pass"
    ELSE IF s.url = Absent THEN "warn" ELSE "pass"

\* build_release_diagnostics(): any Slack URL and any SMTP_TO will do, and the
\* webhook's URL is compared by its beginning.
Diagnosis(s) ==
    LET good == CASE s.channel = "smtp" -> Absent \notin {s.host, s.port, s.from, s.to}
                  [] s.channel = "slack" -> s.url # Absent
                  [] s.channel = "webhook" ->
                        /\ s.url # Absent
                        /\ \/ s.form.begins = "https://"
                           \/ s.testMode /\ s.form.begins = "http://localhost"
    IN  IF good THEN "pass" ELSE "warn"

\* The except clauses of SmtpNotifier.send_alert(), in their order.
ResultOf(exception) ==
    Failed(exception, exception \in {"SMTPException", "OSError"})

-----------------------------------------------------------------------------
ChannelIdle ==
    /\ chPc = "idle"
    /\ channel = "slack" /\ purpose = "test" /\ setting = [channel |-> "slack", url |-> Absent]
    /\ secured = FALSE /\ loggedIn = FALSE /\ accepted = FALSE /\ redirected = FALSE /\ failure = "none"
    /\ result = Failed("none", FALSE) /\ attempt = {} /\ channelReady = FALSE /\ doctor = "warn"

ChannelInit ==
    /\ chPc = "dispatch"
    /\ setting \in Settings /\ channel = setting.channel
    /\ purpose \in {"alert", "test"}
    /\ secured = FALSE /\ loggedIn = FALSE /\ accepted = FALSE /\ redirected = FALSE /\ failure = "none"
    /\ result = Failed("none", FALSE) /\ attempt = {}
    /\ channelReady = IsConfigured(Normalized(setting))
    /\ doctor = Diagnosis(Normalized(setting))

Fixed == UNCHANGED <<channel, purpose, setting, channelReady, doctor, attempt>>
S == Normalized(setting)

Ends(r) == chPc' = "record" /\ result' = r
Goes(to) == chPc' = to /\ UNCHANGED result
\* An exception inside the with block: QUIT is sent, then it goes on.
Raises(exception) == chPc' = "quit" /\ failure' = exception /\ UNCHANGED result

\* send_alert() and send_test_message(), which calls it, up to the connection;
\* a header may be refused before it is made.
Dispatch ==
    /\ chPc = "dispatch"
    /\ \/ Refusal(S) # "none" /\ Ends(Failed(Refusal(S), FALSE))
       \/ Refusal(S) = "none" /\ channel = "smtp" /\ (Goes("connect") \/ Ends(Failed("Unexpected", FALSE)))
       \/ Refusal(S) = "none" /\ channel # "smtp" /\ Goes("post")
    /\ UNCHANGED exchange /\ Fixed

\* Slack takes any answer below 400, the webhook only 2xx.
Post ==
    /\ chPc = "post"
    /\ \E answer \in {"2xx", "3xx", "4xx", "5xx", "timeout", "broken", "raises"} :
          /\ accepted' \in IF answer \in {"timeout", "broken"} THEN BOOLEAN ELSE {answer = "2xx"}
          /\ redirected' = (answer = "3xx" /\ channel = "slack")
          /\ Ends(CASE answer = "2xx" \/ (answer = "3xx" /\ channel = "slack") -> Sent
                    [] answer = "raises" -> Failed("Unexpected", FALSE)
                    [] answer \in {"timeout", "broken"} -> Failed("HTTPError", TRUE)
                    [] OTHER -> Failed("HttpError", answer = "5xx"))
    /\ UNCHANGED <<secured, loggedIn, failure>> /\ Fixed

-----------------------------------------------------------------------------
\* SmtpNotifier._send(): SMTP_SSL on port 465, otherwise SMTP.
Connect ==
    /\ chPc = "connect"
    /\ \/ Goes("ehlo") /\ secured' = (S.port = "465")
       \/ \E e \in {"SMTPException", "OSError"} : Ends(ResultOf(e)) /\ UNCHANGED secured
    /\ UNCHANGED <<loggedIn, accepted, redirected, failure>> /\ Fixed

\* Faulty variant of Ehlo: whoever the server is, the session goes on in clear.
EhloInClear ==
    /\ chPc = "ehlo"
    /\ \/ Raises("SMTPException")
       \/ secured /\ Goes("login") /\ UNCHANGED failure
       \/ ~secured /\ Goes("starttls") /\ UNCHANGED failure
       \/ ~secured /\ Goes("login") /\ UNCHANGED failure
    /\ UNCHANGED <<secured, loggedIn, accepted, redirected>> /\ Fixed

\* The server offers STARTTLS or does not.
Ehlo ==
    /\ chPc = "ehlo"
    /\ \/ Raises("SMTPException")
       \/ secured /\ Goes("login") /\ UNCHANGED failure
       \/ ~secured /\ Goes("starttls") /\ UNCHANGED failure
       \/ ~secured /\ IF Credentials(S) /\ ~Local(S)
                      THEN Raises("SMTPNotSupportedError")
                      ELSE Goes("login") /\ UNCHANGED failure
    /\ UNCHANGED <<secured, loggedIn, accepted, redirected>> /\ Fixed

StartTls ==
    /\ chPc = "starttls"
    /\ \/ Goes("login") /\ secured' = TRUE /\ UNCHANGED failure
       \/ \E e \in {"SMTPException", "OSError"} : Raises(e) /\ UNCHANGED secured
    /\ UNCHANGED <<loggedIn, accepted, redirected>> /\ Fixed

Login ==
    /\ chPc = "login"
    /\ \/ ~Credentials(S) /\ Goes("mail") /\ UNCHANGED <<loggedIn, failure>>
       \/ Credentials(S) /\ loggedIn' = TRUE
          /\ \/ Goes("mail") /\ UNCHANGED failure
             \/ \E e \in {"SMTPAuthenticationError", "SMTPNotSupportedError", "SMTPException"} :
                   Raises(e)
    /\ UNCHANGED <<secured, accepted, redirected>> /\ Fixed

\* smtp.send_message(): taken for some recipient, refused for all, or the
\* connection is lost, perhaps with the answer.
Mail ==
    /\ chPc = "mail"
    /\ \/ Goes("quit") /\ accepted' = TRUE /\ UNCHANGED failure
       \/ Raises("SMTPException") /\ accepted' \in BOOLEAN
    /\ UNCHANGED <<secured, loggedIn, redirected>> /\ Fixed

\* Faulty variant of Quit: another answer than 221 ends in a failure for good.
QuitForGood ==
    /\ chPc = "quit"
    /\ \/ Ends(IF failure = "none" THEN Sent ELSE ResultOf(failure))
       \/ Ends(Failed("SMTPResponseException", FALSE))
    /\ UNCHANGED exchange /\ Fixed

\* The end of the with block: any other answer to QUIT than 221 raises an
\* SMTPException of its own, also after the message was accepted.
Quit ==
    /\ chPc = "quit"
    /\ \/ Ends(IF failure = "none" THEN Sent ELSE ResultOf(failure))
       \/ Ends(ResultOf("SMTPException"))
    /\ UNCHANGED exchange /\ Fixed

-----------------------------------------------------------------------------
\* Faulty variant of Record: a guard that answers for the notifier's exception
\* without a row.
RecordResultsOnly ==
    /\ chPc = "record"
    /\ chPc' = "done"
    /\ attempt' = IF result.class = "Unexpected" THEN {}
                  ELSE {[row |-> "DeliveryAttempt", status |-> result.status]}
    /\ UNCHANGED <<channel, purpose, setting, exchange, result, channelReady, doctor>>

\* send_test_message() and _send_and_log_attempt(): the attempt, and a
\* StageError for an exception of the notifier while it sends an alert.
Record ==
    /\ chPc = "record"
    /\ chPc' = "done"
    /\ attempt' = {[row |-> "DeliveryAttempt", status |-> result.status]}
                    \cup IF purpose = "alert" /\ result.class = "Unexpected"
                         THEN {[row |-> "StageError", status |-> "failed"]} ELSE {}
    /\ UNCHANGED <<channel, purpose, setting, exchange, result, channelReady, doctor>>

ChannelNext ==
    \/ Dispatch \/ Post \/ Connect \/ Ehlo \/ StartTls \/ Login \/ Mail \/ Quit \/ Record

ChannelSpec == ChannelInit /\ [][ChannelNext]_channelVars

-----------------------------------------------------------------------------
\* A user name and password leave only over TLS, or to this host.
CredentialsAreProtected == loggedIn => secured \/ Local(S)

\* What is recorded as sent was taken by the receiver, unless Slack answered with
\* a redirect, which counts as sent although nothing was taken; each try is
\* recorded, also one that ends in an exception; and what may have been taken is
\* never recorded as a failure for good.
RecordTellsTheExchange ==
    chPc = "done" =>
        /\ [row |-> "DeliveryAttempt", status |-> result.status] \in attempt
        /\ result.status = "sent" => accepted \/ redirected
        /\ accepted /\ result.status = "failed" => result.retryable

\* A channel that the destinations page shows as configured is never refused
\* for a missing setting, and one it shows as not configured always is.
ConfiguredMeansComplete ==
    chPc = "done" => (channelReady <=> result.class # "MissingConfiguration")

\* What the diagnostics warn of is not sent, but for a webhook whose URL the
\* notifier allows although its text begins in another way than they expect (in
\* capitals, or with a user before localhost); and what they pass is refused only
\* in three cases: Slack without https, an SMTP_TO without an address, a host
\* that merely begins with localhost.
DiagnosticsFollowTheNotifiers ==
    chPc = "done" =>
        LET refused == result.class \in {"MissingConfiguration", "InvalidConfiguration"}
        IN  /\ doctor = "warn" =>
                  \/ refused
                  \/ channel = "webhook" /\ setting.form.begins = "other"
            /\ doctor = "pass" /\ refused =>
                  CASE channel = "slack" -> setting.url = "http"
                    [] channel = "smtp" -> setting.to = "name only"
                    [] channel = "webhook" -> /\ setting.form.begins = "http://localhost"
                                              /\ ~setting.form.localHost

\* The destinations page and the diagnostics agree with what a send does.
SettingsTellWhatIsSent == ConfiguredMeansComplete /\ DiagnosticsFollowTheNotifiers
=============================================================================
