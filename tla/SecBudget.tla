------------------------------ MODULE SecBudget ------------------------------
(***************************************************************************)
(* The requests to the SEC: SecHttpClient._request() in                    *)
(* app/services/sec/client.py with its three attempts, and the token       *)
(* bucket, SecRequestBroker.can_issue_request(), each attempt waits at.    *)
(*                                                                         *)
(* SEC_RATE_LIMIT_RPS is RateNum / RateDen; a second has Second ticks of   *)
(* the clock.  Tokens are counted in units of which a tick brings RateNum  *)
(* and a request costs Cost, so that all numbers are natural.  The callers *)
(* are the threads of the worker: nothing else talks to the SEC.           *)
(***************************************************************************)
EXTENDS Naturals, FiniteSets

CONSTANTS Callers, RateNum, RateDen, Second,
          MaxWindow    \* bound: longest window of time that is looked at

\* config.py, validate_sec_rate_limit()
ASSUME BudgetAssumption ==
    /\ IsFiniteSet(Callers)
    /\ RateNum \in Nat \ {0} /\ RateDen \in Nat \ {0}
    /\ RateNum <= 10 * RateDen
    /\ Second \in Nat \ {0}
    /\ MaxWindow \in Nat \ {0}

Capacity == RateNum * Second
Cost == RateDen * Second

VARIABLES
    tokens,     \* _tokens
    elapsed,    \* clock since _last_refill; a second or more fills the bucket
    reqPc,      \* where each caller is in _request()
    attempt,    \* its loop variable
    window,     \* history: length of the window of time that is looked at,
    sent,       \*   requests that left in it,
    carried     \*   and tokens that were granted before it and not yet used

bucket == <<tokens, elapsed>>
history == <<window, sent, carried>>
budgetVars == <<bucket, reqPc, attempt, history>>

BudgetTypeOK ==
    /\ tokens \in 0..Capacity
    /\ elapsed \in 0..Second
    /\ reqPc \in [Callers -> {"idle", "wait", "send", "answer", "sleep"}]
    /\ attempt \in [Callers -> 0..2]
    /\ window \in 0..MaxWindow
    /\ sent \in Nat
    /\ carried \in Nat

BudgetInit ==
    /\ tokens = Capacity
    /\ elapsed = 0
    /\ reqPc = [c \in Callers |-> "idle"]
    /\ attempt = [c \in Callers |-> 0]
    /\ window = 0 /\ sent = 0 /\ carried = 0

\* Callers that were granted a token and have not sent their request yet.
Granted == {c \in Callers : reqPc[c] = "send"}

\* The bucket as the next call of can_issue_request() finds it.
Available ==
    LET refilled == tokens + elapsed * RateNum
    IN  IF refilled > Capacity THEN Capacity ELSE refilled

-----------------------------------------------------------------------------
\* Time passes; a new window may begin.
Tick ==
    /\ elapsed' = IF elapsed < Second THEN elapsed + 1 ELSE elapsed
    /\ \/ /\ window < MaxWindow
          /\ window' = window + 1
          /\ UNCHANGED <<sent, carried>>
       \/ /\ window' = 0
          /\ sent' = 0
          /\ carried' = Cardinality(Granted)
    /\ UNCHANGED <<tokens, reqPc, attempt>>

Proceed(c, from, to) == reqPc[c] = from /\ reqPc' = [reqPc EXCEPT ![c] = to]

\* get_json(), get_text(), get_text_response(), download_json()
Request(c) ==
    /\ Proceed(c, "idle", "wait")
    /\ attempt' = [attempt EXCEPT ![c] = 0]
    /\ UNCHANGED <<bucket, history>>

\* Faulty variants of Wait: no look at the tokens; a refill that is counted
\* again; a refill that is lost when it does not suffice.
WaitUnchecked(c) ==
    /\ Proceed(c, "wait", "send")
    /\ tokens' = Available - Cost
    /\ elapsed' = 0
    /\ UNCHANGED <<attempt, history>>

WaitKeepsClock(c) ==
    /\ reqPc[c] = "wait"
    /\ IF Available >= Cost
       THEN tokens' = Available - Cost /\ Proceed(c, "wait", "send")
       ELSE tokens' = Available /\ UNCHANGED reqPc
    /\ UNCHANGED <<elapsed, attempt, history>>

WaitForfeits(c) ==
    /\ reqPc[c] = "wait"
    /\ IF Available >= Cost
       THEN tokens' = Available - Cost /\ Proceed(c, "wait", "send")
       ELSE UNCHANGED <<tokens, reqPc>>
    /\ elapsed' = 0
    /\ UNCHANGED <<attempt, history>>

\* One round of _wait_for_budget(): can_issue_request()
Wait(c) ==
    /\ reqPc[c] = "wait"
    /\ IF Available >= Cost
       THEN tokens' = Available - Cost /\ Proceed(c, "wait", "send")
       ELSE tokens' = Available /\ UNCHANGED reqPc
    /\ elapsed' = 0
    /\ UNCHANGED <<attempt, history>>

\* The request leaves.
Send(c) ==
    /\ Proceed(c, "send", "answer")
    /\ sent' = sent + 1
    /\ UNCHANGED <<bucket, attempt, window, carried>>

\* No answer, 429 or 5xx, on one of the first two attempts.
Retry(c) ==
    /\ attempt[c] < 2
    /\ Proceed(c, "answer", "sleep")
    /\ attempt' = [attempt EXCEPT ![c] = @ + 1]
    /\ UNCHANGED <<bucket, history>>

Wake(c) ==
    /\ Proceed(c, "sleep", "wait")
    /\ UNCHANGED <<bucket, attempt, history>>

\* A response is returned or an error raised.
End(c) ==
    /\ Proceed(c, "answer", "idle")
    /\ UNCHANGED <<bucket, attempt, history>>

Step(c) == Wait(c) \/ Send(c) \/ Retry(c) \/ Wake(c) \/ End(c)

BudgetNext == Tick \/ \E c \in Callers : Request(c) \/ Step(c)

BudgetSpec == BudgetInit /\ [][BudgetNext]_budgetVars

-----------------------------------------------------------------------------
\* docs/STATUS_REPORT.md:85, "Token-bucket rate limiter for SEC API requests":
\* in any window of time, the requests that leave, retries included, are at
\* most one second's worth and what the rate allows for the window, next to
\* those whose token was granted before it.  A redirect that httpx follows on
\* its own is not counted.
RequestsWithinRate ==
    sent * Cost <= Capacity + window * RateNum + carried * Cost

\* With a rate of one per second or more, as long as requests wait at the
\* bucket, one of them is let through: polling the bucket from several threads
\* writes its refill down again and again, and loses none of it.
AcceptedRateServes ==
    (\E c \in Callers : reqPc[c] = "wait") ~> (\E c \in Callers : reqPc[c] = "send")
=============================================================================
