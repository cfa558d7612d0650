--------------------------- MODULE SecBudgetProofs ---------------------------
(***************************************************************************)
(* The rate limit holds for every rate, every number of callers and every  *)
(* window of time.                                                         *)
(***************************************************************************)
EXTENDS SecBudget, FiniteSetTheorems, TLAPS

\* What has left in the window, what was granted and has not left, and what
\* the bucket holds were all paid for: by a full bucket, by the refill of the
\* window, or before it.
Paid ==
    (sent + Cardinality(Granted)) * Cost + Available
        <= Capacity + window * RateNum + carried * Cost

Inv == BudgetTypeOK /\ Paid

\* Products of natural numbers: natural, and additive.
LEMMA Times ==
    ASSUME NEW a \in Nat, NEW b \in Nat, NEW k \in Nat
    PROVE  /\ a * k \in Nat
           /\ (a + b) * k = a * k + b * k
  OBVIOUS

\* The bucket's size and the price of a request are positive numbers.
LEMMA Units == Capacity \in Nat /\ Cost \in Nat /\ Cost > 0
  <1>1. RateNum \in Nat /\ RateDen \in Nat /\ Second \in Nat
    BY BudgetAssumption
  <1>2. RateNum * Second \in Nat /\ RateDen * Second \in Nat
    BY <1>1, Times
  <1>3. RateDen > 0 /\ Second > 0
    BY BudgetAssumption
  <1>4. RateDen * Second > 0
    BY <1>1, <1>3
  <1> QED
    BY <1>2, <1>4 DEF Capacity, Cost

\* What can_issue_request() finds is never more than a full bucket.
LEMMA AvailableFits ==
    ASSUME tokens \in 0..Capacity, elapsed \in 0..Second
    PROVE  Available \in 0..Capacity
  <1>1. elapsed * RateNum \in Nat
    BY Times, BudgetAssumption
  <1> QED
    BY <1>1, Units DEF Available

\* The threads with an unused token are finitely many.
LEMMA GrantedFinite == IsFiniteSet(Granted) /\ Cardinality(Granted) \in Nat
  <1>1. Granted \in SUBSET Callers
    BY DEF Granted
  <1>2. IsFiniteSet(Callers)
    BY BudgetAssumption
  <1>3. IsFiniteSet(Granted)
    BY <1>1, <1>2, FS_Subset
  <1> QED
    BY <1>3, FS_CardinalityType

-----------------------------------------------------------------------------
\* Each action of the client and of the clock keeps the types.
LEMMA TypeStep ==
    ASSUME BudgetTypeOK, [BudgetNext]_budgetVars
    PROVE  BudgetTypeOK'
  <1>1. CASE Tick
    BY <1>1, GrantedFinite, BudgetAssumption DEF BudgetTypeOK, Tick
  <1>2. ASSUME NEW c \in Callers, Request(c)
        PROVE  BudgetTypeOK'
    BY <1>2 DEF BudgetTypeOK, Request, Proceed, bucket, history
  <1>3. ASSUME NEW c \in Callers, Wait(c)
        PROVE  BudgetTypeOK'
    <2>1. Available \in 0..Capacity
      BY AvailableFits DEF BudgetTypeOK
    <2>2. tokens' \in 0..Capacity
      BY <1>3, <2>1, Units DEF Wait
    <2>3. elapsed' \in 0..Second
      BY <1>3, BudgetAssumption DEF Wait
    <2>4. reqPc' \in [Callers -> {"idle", "wait", "send", "answer", "sleep"}]
      BY <1>3 DEF Wait, Proceed, BudgetTypeOK
    <2> QED
      BY <1>3, <2>2, <2>3, <2>4 DEF Wait, BudgetTypeOK, history
  <1>4. ASSUME NEW c \in Callers, Send(c)
        PROVE  BudgetTypeOK'
    BY <1>4 DEF BudgetTypeOK, Send, Proceed, bucket
  <1>5. ASSUME NEW c \in Callers, Retry(c)
        PROVE  BudgetTypeOK'
    <2>1. attempt' \in [Callers -> 0..2]
      BY <1>5 DEF BudgetTypeOK, Retry
    <2> QED
      BY <1>5, <2>1 DEF BudgetTypeOK, Retry, Proceed, bucket, history
  <1>6. ASSUME NEW c \in Callers, Wake(c) \/ End(c)
        PROVE  BudgetTypeOK'
    BY <1>6 DEF BudgetTypeOK, Wake, End, Proceed, bucket, history
  <1>7. CASE UNCHANGED budgetVars
    BY <1>7 DEF BudgetTypeOK, budgetVars, bucket, history
  <1> QED
    BY <1>1, <1>2, <1>3, <1>4, <1>5, <1>6, <1>7 DEF BudgetNext, Step

\* A caller that neither takes nor uses a token leaves the account as it is.
LEMMA AccountUntouched ==
    ASSUME Paid, Granted' = Granted, UNCHANGED <<bucket, history>>
    PROVE  Paid'
  BY DEF Paid, Available, bucket, history

\* The clock: a tick brings the bucket at most what it adds to the window, and
\* a new window starts with a bucket that is at most full.
LEMMA TickPaid ==
    ASSUME Inv, Tick
    PROVE  Paid'
  <1>g. Granted' = Granted
    BY DEF Tick, Granted
  <1> DEFINE held == Cardinality(Granted)
  <1>h. held \in Nat /\ Cardinality(Granted)' = held
    BY <1>g, GrantedFinite
  <1>t. BudgetTypeOK'
    BY TypeStep DEF Inv, BudgetNext
  <1>1. CASE window' = window + 1 /\ UNCHANGED <<sent, carried>>
    <2>n. window \in Nat /\ elapsed \in Nat /\ RateNum \in Nat /\ tokens \in Nat
      BY BudgetAssumption DEF Inv, BudgetTypeOK
    <2>1. window' * RateNum = window * RateNum + RateNum
      <3>1. (window + 1) * RateNum = window * RateNum + 1 * RateNum
        BY <2>n, Times
      <3> QED
        BY <1>1, <2>n, <3>1
    <2>2. Available' <= Available + RateNum
      <3>1. CASE elapsed' = elapsed
        <4>1. Available' = Available
          BY <3>1 DEF Available, Tick
        <4>2. Available \in Nat
          BY AvailableFits, Units DEF Inv, BudgetTypeOK
        <4> QED
          BY <4>1, <4>2, <2>n
      <3>2. CASE elapsed' = elapsed + 1
        <4>1. (elapsed + 1) * RateNum = elapsed * RateNum + 1 * RateNum
          BY <2>n, Times
        <4>2. elapsed * RateNum \in Nat
          BY <2>n, Times
        <4>3. elapsed' * RateNum = elapsed * RateNum + RateNum
          BY <3>2, <4>1, <2>n
        <4>4. tokens' = tokens
          BY DEF Tick
        <4> QED
          BY <4>2, <4>3, <4>4, <2>n, Units DEF Available
      <3> QED
        BY <3>1, <3>2 DEF Tick
    <2>3. /\ (sent + held) * Cost \in Nat
          /\ carried * Cost \in Nat
          /\ window * RateNum \in Nat
      BY <1>h, <2>n, Units, Times DEF Inv, BudgetTypeOK
    <2>4. Available \in Nat /\ Available' \in Nat
      <3>1. Available \in Nat
        BY AvailableFits, Units DEF Inv, BudgetTypeOK
      <3>2. tokens' \in Nat /\ elapsed' \in Nat
        BY <1>t, Units, BudgetAssumption DEF BudgetTypeOK, Capacity
      <3>3. elapsed' * RateNum \in Nat
        BY <3>2, <2>n, Times
      <3> QED
        BY <3>1, <3>2, <3>3, Units DEF Available, Capacity
    <2>5. (sent + held) * Cost + Available
             <= Capacity + window * RateNum + carried * Cost
      BY DEF Inv, Paid
    <2>6. (sent + held) * Cost + Available'
             <= Capacity + window' * RateNum + carried * Cost
      BY <2>1, <2>2, <2>3, <2>4, <2>5, <2>n, Units
    <2> QED
      BY <1>1, <1>h, <2>6 DEF Paid, Capacity, Cost
  <1>2. CASE window' = 0 /\ sent' = 0 /\ carried' = held
    <2>1. Available' <= Capacity /\ Available' \in Nat
      <3>1. tokens' \in 0..Capacity /\ elapsed' \in 0..Second
        BY <1>t DEF BudgetTypeOK, Capacity
      <3>n. elapsed' \in Nat /\ RateNum \in Nat
        BY <3>1, BudgetAssumption
      <3>2. elapsed' * RateNum \in Nat
        BY <3>n, Times
      <3> QED
        BY <3>1, <3>2, Units DEF Available, Capacity
    <2>2. held * Cost \in Nat
      BY <1>h, Units, Times
    <2>3. window' * RateNum = 0
      BY <1>2, BudgetAssumption
    <2>4. (sent' + held) * Cost = held * Cost
      <3>1. sent' + held = held
        BY <1>2, <1>h
      <3> QED
        BY <3>1
    <2>5. (sent' + held) * Cost + Available'
             <= Capacity + window' * RateNum + carried' * Cost
      BY <1>2, <2>1, <2>2, <2>3, <2>4, Units
    <2> QED
      BY <1>h, <2>5 DEF Paid, Capacity, Cost
  <1> QED
    BY <1>1, <1>2 DEF Tick
-----------------------------------------------------------------------------
\* can_issue_request() takes the price of a token out of the bucket and hands
\* the token to the caller; a refusal only writes the refill down.
LEMMA WaitPaid ==
    ASSUME Inv, NEW c \in Callers, Wait(c)
    PROVE  Paid'
  <1> DEFINE held == Cardinality(Granted)
  <1>n. /\ sent \in Nat /\ carried \in Nat /\ held \in Nat
        /\ sent' = sent /\ carried' = carried /\ window' = window
    BY GrantedFinite DEF Inv, BudgetTypeOK, Wait, history
  <1>a. Available \in 0..Capacity
    BY AvailableFits DEF Inv, BudgetTypeOK
  <1>p. (sent + held) * Cost + Available
           <= Capacity + window * RateNum + carried * Cost
    BY DEF Inv, Paid
  <1>m. /\ (sent + held) * Cost \in Nat
        /\ carried * Cost \in Nat
        /\ window * RateNum \in Nat
    BY <1>n, Units, Times, BudgetAssumption DEF Inv, BudgetTypeOK
  <1>e. tokens' \in 0..Capacity => Available' = tokens'
    <2>1. elapsed' * RateNum = 0
      BY BudgetAssumption DEF Wait
    <2> QED
      BY <2>1, Units DEF Available, Capacity
  <1>1. CASE Available >= Cost
    <2>1. tokens' = Available - Cost /\ reqPc' = [reqPc EXCEPT ![c] = "send"]
      BY <1>1 DEF Wait, Proceed
    <2>2. Available' = Available - Cost
      BY <1>e, <1>a, <1>1, <2>1, Units
    <2>3. Granted' = Granted \cup {c} /\ c \notin Granted
      BY <2>1 DEF Granted, Wait, Inv, BudgetTypeOK
    <2>4. Cardinality(Granted)' = held + 1
      <3>1. Cardinality(Granted \cup {c}) = held + 1
        BY <2>3, GrantedFinite, FS_AddElement
      <3> QED
        BY <2>3, <3>1
    <2>5. (sent + (held + 1)) * Cost = (sent + held) * Cost + Cost
      <3>1. ((sent + held) + 1) * Cost = (sent + held) * Cost + 1 * Cost
        BY <1>n, Units, Times
      <3>2. (sent + held) + 1 = sent + (held + 1) /\ 1 * Cost = Cost
        BY <1>n, Units
      <3> QED
        BY <3>1, <3>2
    <2>6. (sent + (held + 1)) * Cost + Available'
             <= Capacity + window * RateNum + carried * Cost
      BY <1>p, <1>m, <1>a, <2>2, <2>5, Units
    <2> QED
      BY <1>n, <2>4, <2>6 DEF Paid, Capacity, Cost
  <1>2. CASE ~(Available >= Cost)
    <2>1. tokens' = Available /\ reqPc' = reqPc
      BY <1>2 DEF Wait
    <2>2. Available' = Available
      BY <1>e, <1>a, <2>1
    <2>3. Granted' = Granted
      BY <2>1 DEF Granted
    <2> QED
      BY <1>n, <1>p, <2>2, <2>3 DEF Paid, Capacity, Cost
  <1> QED
    BY <1>1, <1>2

\* A request that leaves uses up the token of its caller.
LEMMA SendPaid ==
    ASSUME Inv, NEW c \in Callers, Send(c)
    PROVE  Paid'
  <1> DEFINE held == Cardinality(Granted)
  <1>1. Granted' = Granted \ {c} /\ c \in Granted
    BY DEF Granted, Send, Proceed, Inv, BudgetTypeOK
  <1>2. Cardinality(Granted)' = held - 1 /\ held \in Nat
    <2>1. Cardinality(Granted \ {c}) = held - 1
      BY <1>1, GrantedFinite, FS_RemoveElement
    <2> QED
      BY <1>1, <2>1, GrantedFinite
  <1>3. sent' = sent + 1 /\ sent \in Nat
    BY DEF Send, Inv, BudgetTypeOK
  <1>4. sent' + Cardinality(Granted)' = sent + held
    BY <1>2, <1>3
  <1>5. Available' = Available /\ window' = window /\ carried' = carried
    BY DEF Available, Send, bucket
  <1> QED
    BY <1>4, <1>5 DEF Inv, Paid, Capacity, Cost

\* Inv is inductive.
LEMMA Inductive == Inv /\ [BudgetNext]_budgetVars => Inv'
  <1> SUFFICES ASSUME Inv, [BudgetNext]_budgetVars
               PROVE  Inv'
    OBVIOUS
  <1>1. BudgetTypeOK'
    BY TypeStep DEF Inv
  <1>2. Paid'
    <2>1. CASE Tick
      BY <2>1, TickPaid
    <2>2. ASSUME NEW c \in Callers, Request(c)
          PROVE  Paid'
      <3>1. Granted' = Granted
        BY <2>2 DEF Request, Proceed, Granted, Inv, BudgetTypeOK
      <3> QED
        BY <2>2, <3>1, AccountUntouched DEF Inv, Request
    <2>3. ASSUME NEW c \in Callers, Wait(c)
          PROVE  Paid'
      BY <2>3, WaitPaid
    <2>4. ASSUME NEW c \in Callers, Send(c)
          PROVE  Paid'
      BY <2>4, SendPaid
    <2>5. ASSUME NEW c \in Callers, Retry(c) \/ Wake(c) \/ End(c)
          PROVE  Paid'
      <3>1. Granted' = Granted
        BY <2>5 DEF Retry, Wake, End, Proceed, Granted, Inv, BudgetTypeOK
      <3> QED
        BY <2>5, <3>1, AccountUntouched DEF Inv, Retry, Wake, End
    <2>6. CASE UNCHANGED budgetVars
      <3>1. Granted' = Granted
        BY <2>6 DEF Granted, budgetVars
      <3> QED
        BY <2>6, <3>1, AccountUntouched DEF Inv, budgetVars
    <2> QED
      BY <2>1, <2>2, <2>3, <2>4, <2>5, <2>6 DEF BudgetNext, Step
  <1> QED
    BY <1>1, <1>2 DEF Inv

\* The bucket is full, and nothing has left, when the process starts.
LEMMA Initially == BudgetInit => Inv
  <1> SUFFICES ASSUME BudgetInit
               PROVE  Inv
    OBVIOUS
  <1>1. BudgetTypeOK
    BY Units, BudgetAssumption DEF BudgetInit, BudgetTypeOK
  <1>2. Granted = {}
    BY DEF BudgetInit, Granted
  <1>3. Cardinality(Granted) = 0
    BY <1>2, FS_EmptySet
  <1>4. Available = Capacity
    <2>1. elapsed * RateNum = 0
      BY BudgetAssumption DEF BudgetInit
    <2> QED
      BY <2>1, Units DEF BudgetInit, Available
  <1>5. window * RateNum = 0 /\ carried * Cost = 0
    BY BudgetAssumption, Units DEF BudgetInit
  <1>6. (sent + Cardinality(Granted)) * Cost = 0
    <2>1. sent + Cardinality(Granted) = 0
      BY <1>3 DEF BudgetInit
    <2> QED
      BY <2>1, Units
  <1>7. Paid
    BY <1>4, <1>5, <1>6, Units DEF Paid
  <1> QED
    BY <1>1, <1>7 DEF Inv

\* What the account says bounds the requests that have left.
LEMMA PaidBoundsRequests == Inv => RequestsWithinRate
  <1> SUFFICES ASSUME Inv
               PROVE  RequestsWithinRate
    OBVIOUS
  <1> DEFINE held == Cardinality(Granted)
  <1>1. sent \in Nat /\ carried \in Nat /\ window \in Nat /\ held \in Nat
    BY GrantedFinite DEF Inv, BudgetTypeOK
  <1>2. (sent + held) * Cost = sent * Cost + held * Cost
    BY <1>1, Units, Times
  <1>3. /\ sent * Cost \in Nat /\ held * Cost \in Nat
        /\ carried * Cost \in Nat /\ window * RateNum \in Nat
    BY <1>1, Units, Times, BudgetAssumption
  <1>4. Available \in 0..Capacity
    BY AvailableFits DEF Inv, BudgetTypeOK
  <1>5. (sent + held) * Cost + Available
           <= Capacity + window * RateNum + carried * Cost
    BY DEF Inv, Paid
  <1> QED
    BY <1>2, <1>3, <1>4, <1>5, Units DEF RequestsWithinRate

\* The inductive invariant holds in every reachable state.
THEOREM Invariance == BudgetSpec => []Inv
  BY Initially, Inductive, PTL DEF BudgetSpec

\* Type correctness of client and bucket, for every rate the settings accept.
THEOREM TypeCorrect == BudgetSpec => []BudgetTypeOK
  <1>1. Inv => BudgetTypeOK
    BY DEF Inv
  <1> QED
    BY <1>1, Invariance, PTL

\* can_issue_request() and _request(): no window of time sees more requests
\* than the rate, whatever the rate, the number of threads and their timing.
THEOREM RateIsKept == BudgetSpec => []RequestsWithinRate
  BY PaidBoundsRequests, Invariance, PTL
=============================================================================
