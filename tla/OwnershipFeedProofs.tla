-------------------------- MODULE OwnershipFeedProofs --------------------------
(***************************************************************************)
(* No row of a page of the SEC's Form 4 feed is lost between the two       *)
(* cursors and the line of jobs that move them, for every size of the      *)
(* page, if a cursor can place it: the row tells when the SEC accepted it. *)
(***************************************************************************)
EXTENDS OwnershipFeed, FiniteSetTheorems, TLAPS

\* A filing that is settled, on its way, or was taken by a crash.
Seen(f) == status[f] # "unseen" \/ Queued(f) \/ f \in lost

\* The SEC lists in order.
Gapless == \A f \in listed : \A g \in Filings : g <= f => g \in listed

\* No cursor is ahead of the listing.
CursorIsListed == \A s \in Cursors : \A f \in Filings \ listed : cursor[s] < f

\* Where the worker holds a page, a job, or neither.
WorkerShape ==
    /\ pc \notin {"compare", "enqueue"} => page = {}
    /\ pc # "enqueue" => todo = {}
    /\ pc \in {"idle", "compare", "enqueue"} => job = NoJob
    /\ pc \in {"detail", "cursor", "document"} => job \in Jobs
    /\ pc = "cursor" => job.source \in Cursors

\* The rows that a poll has read, or will read if it comes now.
InView(f) == f \in page \/ f \in Newest(PageSize)

\* A page was the top of the listing when it was read.
PageIsTop == \A f \in page : \A g \in Newest(PageSize) : g <= f => g \in page

\* Up to a cursor, and up to a job that will move one, every row in view that a
\* cursor can place is seen or about to be.
CursorCovers == \A s \in Cursors : \A f \in Placed : InView(f) /\ f <= cursor[s] => Seen(f)

Moves(j) == j.source \in Cursors /\ (j \in ToSet(jobs) \/ j = job)
JobsCover ==
    \A j \in Jobs : Moves(j) =>
        \A f \in Placed : InView(f) /\ f <= j.filing => Seen(f) \/ f \in todo

PollCovers == pc = "enqueue" => \A f \in page \cap Placed : Seen(f) \/ f \in todo

JobsAreListed == \A j \in ToSet(jobs) \cup {job} : j.filing \in listed \cup {NoFiling}

\* Types, and who holds what.
Shape == TypeOK /\ Gapless /\ CursorIsListed /\ WorkerShape /\ JobsAreListed

-----------------------------------------------------------------------------
(* Sequences, filings and the newest of them.                              *)

\* What is in a line of jobs when one is added or taken.
LEMMA Elements ==
    ASSUME NEW s \in Seq(Jobs), NEW j \in Jobs
    PROVE  /\ ToSet(s) \subseteq Jobs
           /\ ToSet(Append(s, j)) = ToSet(s) \cup {j}
           /\ s # <<>> => /\ Head(s) \in Jobs /\ Tail(s) \in Seq(Jobs)
                          /\ ToSet(s) = {Head(s)} \cup ToSet(Tail(s))
           /\ ToSet(<<>>) = {}
  <1>1. ToSet(s) \subseteq Jobs /\ ToSet(<<>>) = {}
    BY DEF ToSet
  <1>2. ToSet(Append(s, j)) = ToSet(s) \cup {j}
    <2>1. ASSUME NEW x \in ToSet(Append(s, j)) PROVE x \in ToSet(s) \cup {j}
      BY <2>1 DEF ToSet
    <2>2. ToSet(s) \subseteq ToSet(Append(s, j))
      <3> SUFFICES ASSUME NEW i \in DOMAIN s PROVE s[i] \in ToSet(Append(s, j))
        BY DEF ToSet
      <3>1. i \in DOMAIN Append(s, j) /\ Append(s, j)[i] = s[i]
        OBVIOUS
      <3> QED  BY <3>1 DEF ToSet
    <2>3. j \in ToSet(Append(s, j))
      <3>1. Len(s) + 1 \in DOMAIN Append(s, j) /\ Append(s, j)[Len(s) + 1] = j
        OBVIOUS
      <3> QED  BY <3>1 DEF ToSet
    <2> QED  BY <2>1, <2>2, <2>3
  <1>3. ASSUME s # <<>>
        PROVE  /\ Head(s) \in Jobs /\ Tail(s) \in Seq(Jobs)
               /\ ToSet(s) = {Head(s)} \cup ToSet(Tail(s))
    <2>1. Head(s) \in Jobs /\ Tail(s) \in Seq(Jobs)
      BY <1>3
    <2>2. ToSet(s) \subseteq {Head(s)} \cup ToSet(Tail(s))
      <3> SUFFICES ASSUME NEW i \in DOMAIN s, i # 1 PROVE s[i] \in ToSet(Tail(s))
        BY <1>3 DEF ToSet
      <3>1. i - 1 \in DOMAIN Tail(s) /\ Tail(s)[i - 1] = s[i]
        BY <1>3
      <3> QED  BY <3>1 DEF ToSet
    <2>3. Head(s) \in ToSet(s)
      BY <1>3 DEF ToSet
    <2>4. ToSet(Tail(s)) \subseteq ToSet(s)
      <3> SUFFICES ASSUME NEW i \in DOMAIN Tail(s) PROVE Tail(s)[i] \in ToSet(s)
        BY DEF ToSet
      <3>1. i + 1 \in DOMAIN s /\ s[i + 1] = Tail(s)[i]
        BY <1>3
      <3> QED  BY <3>1 DEF ToSet
    <2> QED  BY <2>1, <2>2, <2>3, <2>4
  <1> QED  BY <1>1, <1>2, <1>3

\* There are finitely many filings.
LEMMA FilingsFinite == IsFiniteSet(Filings)
  BY FeedAssumption, FS_Interval DEF Filings

\* Filings are ordered as numbers are.
LEMMA FilingsOrder ==
    /\ MaxFiling \in Nat
    /\ \A f \in Filings : f \in Nat /\ f > 0 /\ f > -MaxFiling-1
    /\ \A f, g, h \in Filings : /\ ~ (f > f)
                               /\ f > g /\ g > h => f > h
                               /\ f <= g <=> ~ (f > g)
  BY FeedAssumption DEF Filings

\* A non-empty set of filings has a latest one: the one with the fewest after
\* it.
LEMMA LatestExists ==
    ASSUME NEW rows \in SUBSET Filings, rows # {}
    PROVE  Latest(rows) \in rows /\ \A g \in rows : g <= Latest(rows)
  <1> DEFINE After(f) == {g \in Filings : g > f}
             Tails == {After(f) : f \in rows}
  <1>1. Tails \subseteq FiniteSubsetsOf(Filings) /\ Tails # {}
    <2>1. \A f \in rows : After(f) \subseteq Filings
      OBVIOUS
    <2>2. \A f \in rows : IsFiniteSet(After(f))
      BY <2>1, FilingsFinite, FS_Subset
    <2> QED
      BY <2>1, <2>2 DEF FiniteSubsetsOf
  <1>2. IsWellFoundedOn(StrictSubsetOrdering(Filings), FiniteSubsetsOf(Filings))
    BY FS_StrictSubsetOrderingWellFounded
  <1>3. PICK x \in Tails : \A y \in Tails : <<y, x>> \notin StrictSubsetOrdering(Filings)
    <2> HIDE DEF Tails
    <2> QED
      BY <1>1, <1>2, WFMin
  <1>4. PICK m \in rows : x = After(m)
    OBVIOUS
  <1>5. \A g \in rows : g <= m
    <2> SUFFICES ASSUME NEW g \in rows, g > m PROVE FALSE
      BY FilingsOrder
    <2>1. After(g) \subseteq After(m) /\ g \in After(m) /\ g \notin After(g)
      <3>1. \A i \in Filings : i > g => i > m
        BY FilingsOrder
      <3>2. ~ (g > g)
        BY FilingsOrder
      <3> QED
        BY <3>1, <3>2
    <2>2. <<After(g), After(m)>> \in StrictSubsetOrdering(Filings)
      BY <2>1 DEF StrictSubsetOrdering
    <2> QED
      BY <1>3, <1>4, <2>2
  <1> QED
    BY <1>5 DEF Latest


\* A later listing puts no old row back into view.
LEMMA NewestShrinks ==
    ASSUME listed \in SUBSET Filings, listed' \in SUBSET Filings, listed \subseteq listed',
           NEW f \in listed, f \in Newest(PageSize)'
    PROVE  f \in Newest(PageSize)
  <1> DEFINE Before == {g \in listed : g > f}
             After == {g \in listed' : g > f}
  <1>1. IsFiniteSet(After)
    BY FilingsFinite, FS_Subset
  <1>2. IsFiniteSet(Before) /\ Cardinality(Before) <= Cardinality(After)
    BY <1>1, FS_Subset
  <1>3. Cardinality(Before) \in Nat /\ Cardinality(After) \in Nat
    BY <1>1, <1>2, FS_CardinalityType
  <1>4. Cardinality(After) < PageSize
    BY DEF Newest
  <1>5. Cardinality(Before) < PageSize
    BY <1>2, <1>3, <1>4, FeedAssumption
  <1> QED  BY <1>5 DEF Newest

\* What is published is later than all that is listed.
LEMMA PublishedIsLatest ==
    ASSUME TypeOK, Gapless, NEW f \in Filings \ listed, NEW g \in listed
    PROVE  g < f
  BY FilingsOrder DEF TypeOK, Gapless

\* A filing is queued if a job in the line or in hand is for it.
LEMMA QueuedIs ==
    ASSUME NEW f
    PROVE  /\ Queued(f) <=> (\E j \in ToSet(jobs) : j.filing = f) \/ job.filing = f
           /\ Queued(f)' <=> (\E j \in ToSet(jobs)' : j.filing = f) \/ job'.filing = f
  BY DEF Queued

\* enqueue() leaves the job, if another one has its key, or puts it last.
LEMMA EnqueueKeeps ==
    ASSUME jobs \in Seq(Jobs), NEW f \in Filings, NEW s \in Cursors \cup {"index"},
           Enqueued(f, s), UNCHANGED job
    PROVE  /\ jobs' \in Seq(Jobs)
           /\ ToSet(jobs)' \subseteq ToSet(jobs) \cup {[filing |-> f, source |-> s]}
           /\ ToSet(jobs) \subseteq ToSet(jobs)'
           /\ Queued(f)'
  <1> DEFINE new == [filing |-> f, source |-> s]
  <1>1. new \in Jobs /\ new.filing = f
    BY DEF Jobs
  <1>2. CASE Queued(f)
    <2>1. UNCHANGED jobs
      BY <1>2 DEF Enqueued
    <2> QED  BY <1>2, <2>1, QueuedIs
  <1>3. CASE ~Queued(f)
    <2>1. jobs' = Append(jobs, new)
      BY <1>3 DEF Enqueued
    <2> HIDE DEF new
    <2>2. jobs' \in Seq(Jobs) /\ ToSet(jobs') = ToSet(jobs) \cup {new}
      BY <1>1, <2>1, Elements
    <2> QED  BY <1>1, <2>2, QueuedIs DEF new
  <1> QED  BY <1>2, <1>3

-----------------------------------------------------------------------------
(* Shape.                                                                  *)

\* At the start nothing is seen and the line is empty.
LEMMA InitShape == Init => Shape
  <1> SUFFICES ASSUME Init PROVE Shape
    OBVIOUS
  <1> USE DEF Init
  <1>1. TypeOK
    <2>1. listed \subseteq Filings /\ faults \in 0..MaxFaults /\ jobs \in Seq(Jobs)
      BY FeedAssumption DEF Filings
    <2>2. cursor \in [Cursors -> -MaxFiling-1 .. MaxFiling]
      BY FeedAssumption
    <2> QED  BY <2>1, <2>2 DEF TypeOK, Cursors
  <1>2. Gapless
    BY FeedAssumption DEF Gapless, Filings
  <1>3. CursorIsListed
    BY FilingsOrder DEF CursorIsListed
  <1>4. WorkerShape
    BY DEF WorkerShape
  <1>5. JobsAreListed
    BY DEF JobsAreListed, ToSet, NoJob
  <1> QED  BY <1>1, <1>2, <1>3, <1>4, <1>5 DEF Shape

\* The parts of Shape for a step that leaves the listing and the queue alone
\* and returns to idle, or keeps the job.
LEMMA IdleShape ==
    ASSUME Shape, Idle, UNCHANGED <<listed, cursor>>,
           status' \in [Filings -> {"unseen", "stored", "not-wanted", "error"}],
           jobs' = jobs \/ jobs' = <<>>,
           paged' \subseteq listed, lost' \subseteq listed, faults' \in 0..MaxFaults
    PROVE  Shape'
  <1> USE DEF Idle
  <1>1. jobs' \in Seq(Jobs) /\ ToSet(jobs)' \subseteq ToSet(jobs)
    <2>1. jobs \in Seq(Jobs)
      BY DEF Shape, TypeOK
    <2>2. CASE jobs' = jobs
      BY <2>1, <2>2
    <2>3. CASE jobs' = <<>>
      <3>1. ToSet(jobs)' = {} /\ jobs' \in Seq(Jobs)
        BY <2>3 DEF ToSet
      <3> QED  BY <3>1
    <2> QED  BY <2>2, <2>3
  <1>2. TypeOK'
    BY <1>1 DEF Shape, TypeOK
  <1>3. Gapless' /\ CursorIsListed'
    BY DEF Shape, Gapless, CursorIsListed
  <1>4. WorkerShape'
    BY DEF WorkerShape
  <1>5. JobsAreListed'
    BY <1>1 DEF Shape, JobsAreListed, NoJob
  <1> QED  BY <1>2, <1>3, <1>4, <1>5 DEF Shape

\* The job in hand is for a listed filing, and no poll is under way.
LEMMA JobInHand ==
    ASSUME Shape, pc \in {"detail", "cursor", "document"}
    PROVE  job \in Jobs /\ job.filing \in Filings /\ job.filing \in listed
           /\ page = {} /\ todo = {}
  <1>1. job \in Jobs /\ page = {} /\ todo = {}
    BY DEF Shape, WorkerShape
  <1>2. job.filing \in Filings
    BY <1>1 DEF Jobs
  <1>3. job.filing \in listed
    BY <1>2, FeedAssumption DEF Shape, JobsAreListed
  <1> QED  BY <1>1, <1>2, <1>3

\* The SEC lists the next filing.
LEMMA PublishShape == ASSUME Shape, Publish PROVE Shape'
  <1>1. PICK f \in Filings \ listed : Filings \ listed \subseteq f..MaxFiling /\ listed' = listed \cup {f}
    BY DEF Publish
  <1>2. UNCHANGED <<status, cursor, jobs, pc, job, polling, page, todo, paged, lost, faults>>
    BY DEF Publish, worker
  <1>3. TypeOK'
    BY <1>1, <1>2 DEF Shape, TypeOK
  <1>4. Gapless'
    <2> SUFFICES ASSUME NEW h \in listed', NEW g \in Filings, g <= h, g \notin listed
                 PROVE  g = f
      BY <1>1 DEF Gapless
    <2>1. h = f
      BY <1>1 DEF Shape, Gapless
    <2>2. g \in f..MaxFiling
      BY <1>1
    <2> QED  BY <2>1, <2>2, FilingsOrder
  <1>5. CursorIsListed'
    BY <1>1, <1>2 DEF Shape, CursorIsListed
  <1>6. WorkerShape'
    BY <1>2 DEF Shape, WorkerShape
  <1>7. JobsAreListed'
    BY <1>1, <1>2 DEF Shape, JobsAreListed
  <1> QED  BY <1>3, <1>4, <1>5, <1>6, <1>7 DEF Shape

\* The steps of a poll and of a job that leave listing, queue and cursor.
LEMMA WorkerMoves ==
    ASSUME Shape, UNCHANGED <<listed, status, cursor, jobs, job, paged, lost, faults>>,
           pc' \in {"compare", "enqueue", "cursor", "document"}, polling' \in Cursors,
           page' \subseteq listed, todo' \subseteq page', WorkerShape'
    PROVE  Shape'
  <1>1. TypeOK'
    BY DEF Shape, TypeOK
  <1>2. Gapless' /\ CursorIsListed'
    BY DEF Shape, Gapless, CursorIsListed
  <1>3. JobsAreListed'
    BY DEF Shape, JobsAreListed
  <1> QED  BY <1>1, <1>2, <1>3 DEF Shape

\* A poll or a job reads, and moves on.
LEMMA PollShape ==
    ASSUME Shape, \/ \E s \in Cursors : Fetch(s)
                  \/ Compare
                  \/ Detail
    PROVE  Shape'
  <1>1. ASSUME NEW s \in Cursors, Fetch(s) PROVE Shape'
    <2>1. Newest(PageSize) \subseteq listed
      BY DEF Newest
    <2>2. pc = "idle" /\ pc' = "compare" /\ todo' = todo
      BY <1>1 DEF Fetch
    <2>3. todo = {} /\ job = NoJob
      BY <2>2 DEF Shape, WorkerShape
    <2>4. WorkerShape'
      BY <1>1, <2>2, <2>3 DEF Fetch, WorkerShape
    <2> QED  BY <1>1, <2>1, <2>2, <2>3, <2>4, WorkerMoves DEF Fetch
  <1>2. CASE Compare
    <2>1. WorkerShape'
      BY <1>2 DEF Compare, Shape, WorkerShape
    <2>2. polling \in Cursors /\ page \subseteq listed /\ todo' \subseteq page /\ page' = page
      BY <1>2 DEF Compare, Shape, TypeOK
    <2> QED  BY <1>2, <2>1, <2>2, WorkerMoves DEF Compare
  <1>3. CASE Detail
    <2>1. job.source \in Cursors \/ pc' = "document"
      BY <1>3 DEF Detail
    <2>2. pc = "detail" /\ pc' \in {"cursor", "document"}
          /\ UNCHANGED <<listed, status, cursor, jobs, job, polling, page, todo, paged, lost, faults>>
      BY <1>3 DEF Detail
    <2>3. page = {} /\ todo = {} /\ job \in Jobs
      BY <2>2, JobInHand
    <2>4. WorkerShape'
      BY <2>1, <2>2, <2>3 DEF WorkerShape
    <2>5. polling \in Cursors
      BY DEF Shape, TypeOK
    <2> QED  BY <2>2, <2>3, <2>4, <2>5, WorkerMoves
  <1> QED  BY <1>1, <1>2, <1>3

\* A job is put in line, and a row of the poll is dealt with.
LEMMA EnqueueShape ==
    ASSUME Shape, NEW f \in listed, NEW s \in Cursors \cup {"index"}, Enqueued(f, s),
           UNCHANGED <<listed, status, cursor, pc, job, polling, page, paged, lost, faults>>,
           todo' \subseteq todo
    PROVE  Shape'
  <1>1. f \in Filings /\ jobs \in Seq(Jobs)
    BY DEF Shape, TypeOK
  <1>2. /\ jobs' \in Seq(Jobs)
        /\ ToSet(jobs)' \subseteq ToSet(jobs) \cup {[filing |-> f, source |-> s]}
    BY <1>1, EnqueueKeeps
  <1>3. TypeOK'
    BY <1>2 DEF Shape, TypeOK
  <1>4. Gapless' /\ CursorIsListed' /\ WorkerShape'
    BY DEF Shape, Gapless, CursorIsListed, WorkerShape
  <1>5. JobsAreListed'
    <2> SUFFICES ASSUME NEW j \in ToSet(jobs)' \cup {job'}
                 PROVE  j.filing \in listed \cup {NoFiling}
      BY DEF JobsAreListed
    <2>1. CASE j \in ToSet(jobs) \cup {job}
      BY <2>1 DEF Shape, JobsAreListed
    <2>2. CASE j = [filing |-> f, source |-> s]
      BY <2>2
    <2> QED  BY <1>2, <2>1, <2>2
  <1> QED  BY <1>3, <1>4, <1>5 DEF Shape

\* The row that is enqueued next.
LEMMA NextRow ==
    ASSUME Shape, EnqueueRow
    PROVE  /\ Latest(todo) \in todo /\ Latest(todo) \in page /\ Latest(todo) \in listed
           /\ Latest(todo) \in Filings /\ polling \in Cursors
  <1>1. todo # {} /\ todo \subseteq page /\ page \subseteq listed /\ listed \subseteq Filings
        /\ polling \in Cursors
    BY DEF EnqueueRow, Shape, TypeOK
  <1>2. todo \in SUBSET Filings
    BY <1>1
  <1> QED  BY <1>1, <1>2, LatestExists

\* The worker takes the first job.
LEMMA BeginShape == ASSUME Shape, Begin PROVE Shape'
  <1>1. /\ pc = "idle" /\ jobs # <<>> /\ pc' = "detail"
        /\ job' = Head(jobs) /\ jobs' = Tail(jobs)
        /\ UNCHANGED <<listed, status, cursor, polling, page, todo, paged, lost, faults>>
    BY DEF Begin
  <1>2. jobs \in Seq(Jobs) /\ page = {} /\ todo = {}
    BY <1>1 DEF Shape, TypeOK, WorkerShape
  <1>3. /\ Head(jobs) \in Jobs /\ Tail(jobs) \in Seq(Jobs)
        /\ ToSet(jobs) = {Head(jobs)} \cup ToSet(Tail(jobs))
    <2>1. \E j : j \in Jobs
      <3>1. jobs[1] \in Jobs
        BY <1>1, <1>2
      <3> QED  BY <3>1
    <2> QED  BY <1>1, <1>2, <2>1, Elements
  <1>4. TypeOK'
    BY <1>1, <1>3 DEF Shape, TypeOK
  <1>5. Gapless' /\ CursorIsListed'
    BY <1>1 DEF Shape, Gapless, CursorIsListed
  <1>6. WorkerShape'
    BY <1>1, <1>2, <1>3 DEF WorkerShape
  <1>7. JobsAreListed'
    BY <1>1, <1>3 DEF Shape, JobsAreListed
  <1> QED  BY <1>4, <1>5, <1>6, <1>7 DEF Shape

\* The key that the detail page confirms is no later than the row it is for.
LEMMA KeyIsNoLater ==
    ASSUME NEW f \in Filings, NEW key \in ConfirmedKeys(f)
    PROVE  key \in -MaxFiling-1 .. MaxFiling /\ key <= f
  BY FeedAssumption DEF ConfirmedKeys, FeedKey, Filings

\* A job leaves each cursor where it is, or moves it, but not past its filing.
LEMMA Advances ==
    ASSUME cursor \in [Cursors -> -MaxFiling-1 .. MaxFiling], job.filing \in Filings,
           AdvanceCursor
    PROVE  /\ cursor' \in [Cursors -> -MaxFiling-1 .. MaxFiling]
           /\ \A s \in Cursors : cursor'[s] = cursor[s] \/ cursor'[s] <= job.filing
  <1>1. PICK key \in ConfirmedKeys(job.filing) :
          cursor' = [cursor EXCEPT ![job.source] =
                       IF key > cursor[job.source] THEN key ELSE cursor[job.source]]
    BY DEF AdvanceCursor
  <1>2. key \in -MaxFiling-1 .. MaxFiling /\ key <= job.filing
    BY KeyIsNoLater
  <1> QED  BY <1>1, <1>2

\* A job moves the cursor, but not past its filing.
LEMMA AdvanceShape == ASSUME Shape, AdvanceCursor PROVE Shape'
  <1>1. /\ pc = "cursor" /\ pc' = "document"
        /\ UNCHANGED <<listed, status, jobs, job, polling, page, todo, paged, lost, faults>>
    BY DEF AdvanceCursor
  <1>2. job \in Jobs /\ job.filing \in listed /\ job.filing \in Filings /\ page = {} /\ todo = {}
    BY <1>1, JobInHand
  <1>3. /\ cursor \in [Cursors -> -MaxFiling-1 .. MaxFiling]
        /\ cursor' \in [Cursors -> -MaxFiling-1 .. MaxFiling]
        /\ \A s \in Cursors : cursor'[s] = cursor[s] \/ cursor'[s] <= job.filing
    BY <1>2, Advances DEF Shape, TypeOK
  <1>4. TypeOK'
    BY <1>1, <1>3 DEF Shape, TypeOK
  <1>5. CursorIsListed'
    <2> SUFFICES ASSUME NEW s \in Cursors, NEW f \in Filings, f \notin listed
                 PROVE  cursor'[s] < f
      BY <1>1 DEF CursorIsListed
    <2>1. cursor[s] < f
      BY DEF Shape, CursorIsListed
    <2>2. job.filing < f
      BY <1>2, PublishedIsLatest DEF Shape
    <2>3. cursor'[s] \in Int /\ cursor[s] \in Int
      BY <1>3
    <2> QED  BY <1>2, <1>3, <2>1, <2>2, <2>3, FilingsOrder
  <1>6. Gapless'
    BY <1>1 DEF Shape, Gapless
  <1>7. WorkerShape'
    BY <1>1, <1>2 DEF WorkerShape
  <1>8. JobsAreListed'
    BY <1>1 DEF Shape, JobsAreListed
  <1> QED  BY <1>4, <1>5, <1>6, <1>7, <1>8 DEF Shape

\* How a job ends.
LEMMA Settles ==
    ASSUME Store \/ NotWanted \/ Fails
    PROVE  /\ pc \in {"detail", "cursor", "document"}
           /\ \E outcome \in {"stored", "not-wanted", "error"} : Settled(outcome)
           /\ faults' = faults \/ (faults < MaxFaults /\ faults' = faults + 1)
  BY DEF Store, NotWanted, Fails

\* A job ends, and its filing is settled.
LEMMA SettledShape == ASSUME Shape, Store \/ NotWanted \/ Fails PROVE Shape'
  <1>1. PICK outcome \in {"stored", "not-wanted", "error"} : Settled(outcome)
    BY Settles
  <1>2. faults' \in 0..MaxFaults
    BY Settles, FeedAssumption DEF Shape, TypeOK
  <1>3. status' \in [Filings -> {"unseen", "stored", "not-wanted", "error"}]
    BY <1>1 DEF Settled, Shape, TypeOK
  <1>4. paged \subseteq listed /\ lost \subseteq listed
    BY DEF Shape, TypeOK
  <1> QED  BY <1>1, <1>2, <1>3, <1>4, IdleShape DEF Settled

\* A crash empties the line.
LEMMA CrashShape == ASSUME Shape, Crash PROVE Shape'
  <1>1. lost' \subseteq listed
    <2> SUFFICES ASSUME NEW f \in Filings, Queued(f) PROVE f \in listed
      BY DEF Crash, Shape, TypeOK
    <2>1. PICK j \in ToSet(jobs) \cup {job} : j.filing = f
      BY QueuedIs
    <2> QED  BY <2>1, FeedAssumption DEF Shape, JobsAreListed
  <1>2. faults' \in 0..MaxFaults
    BY FeedAssumption DEF Crash, Shape, TypeOK
  <1>3. status \in [Filings -> {"unseen", "stored", "not-wanted", "error"}] /\ paged \subseteq listed
    BY DEF Shape, TypeOK
  <1> QED  BY <1>1, <1>2, <1>3, IdleShape DEF Crash

\* Every step keeps the shape of pages, jobs and cursors.
LEMMA ShapeStep == Shape /\ [Next]_vars => Shape'
  <1> SUFFICES ASSUME Shape, [Next]_vars PROVE Shape'
    OBVIOUS
  <1>1. CASE Publish
    BY <1>1, PublishShape
  <1>2. CASE Crash
    BY <1>2, CrashShape
  <1>3. CASE (\E s \in Cursors : Fetch(s)) \/ Compare \/ Detail
    BY <1>3, PollShape
  <1>4. CASE EnqueueRow
    BY <1>4, NextRow, EnqueueShape DEF EnqueueRow
  <1>5. CASE EndPoll
    <2>1. paged' \subseteq listed /\ lost \subseteq listed /\ faults \in 0..MaxFaults
          /\ status \in [Filings -> {"unseen", "stored", "not-wanted", "error"}]
      BY <1>5 DEF EndPoll, Shape, TypeOK
    <2> QED  BY <1>5, <2>1, IdleShape DEF EndPoll
  <1>6. ASSUME NEW f \in Filings, IndexRow(f) PROVE Shape'
    BY <1>6, EnqueueShape DEF IndexRow, worker
  <1>7. CASE Begin
    BY <1>7, BeginShape
  <1>8. CASE AdvanceCursor
    BY <1>8, AdvanceShape
  <1>9. CASE Store \/ NotWanted \/ Fails
    BY <1>9, SettledShape
  <1>10. CASE UNCHANGED vars
    BY <1>10 DEF vars, worker, Shape, TypeOK, Gapless, CursorIsListed, WorkerShape, JobsAreListed
  <1> QED  BY <1>1, <1>2, <1>3, <1>4, <1>5, <1>6, <1>7, <1>8, <1>9, <1>10 DEF Next
-----------------------------------------------------------------------------
(* What is seen and what is covered.                                       *)

\* The sets that only a publication, a poll and a step of the worker move.
Covered == PageIsTop /\ CursorCovers /\ JobsCover /\ PollCovers /\ PagedRowsAreAccountedFor

\* The rows that a cursor can place are filings.
LEMMA PlacedFilings == Placed \subseteq Filings
  BY FeedAssumption DEF Placed

\* A step that makes no row unseen, puts none into view and moves no cursor
\* keeps what is covered, if its new jobs and its page are.
LEMMA CoverKept ==
    ASSUME Shape, Covered, Shape',
           \A f \in Filings : Seen(f) => Seen(f)',
           \A f \in Filings : InView(f)' => InView(f),
           PageIsTop', PollCovers', UNCHANGED cursor,
           \A j \in Jobs : Moves(j)' =>
               \/ Moves(j)
               \/ \A f \in Placed : InView(f)' /\ f <= j.filing => Seen(f)' \/ f \in todo',
           \A f \in Filings : f \in todo => Seen(f)' \/ f \in todo',
           \A f \in paged' \cap Placed : f \in paged \/ Seen(f)'
    PROVE  Covered'
  <1>1. CursorCovers'
    BY PlacedFilings DEF Covered, CursorCovers
  <1>2. JobsCover'
    BY PlacedFilings DEF Covered, JobsCover
  <1>3. PagedRowsAreAccountedFor'
    <2>1. \A f \in paged \cap Placed : f \in Filings /\ Seen(f)
      BY DEF Shape, TypeOK, Covered, PagedRowsAreAccountedFor, Seen
    <2>2. \A f \in paged' \cap Placed : Seen(f)'
      BY <2>1
    <2> QED  BY <2>2 DEF PagedRowsAreAccountedFor, Seen
  <1> QED  BY <1>1, <1>2, <1>3 DEF Covered

\* What stays seen if no filing is forgotten.
LEMMA SeenKept ==
    ASSUME NEW f, status[f] # "unseen" => status'[f] # "unseen",
           Queued(f) => Seen(f)', lost \subseteq lost', Seen(f)
    PROVE  Seen(f)'
  BY DEF Seen

\* A new filing is later than every cursor.
LEMMA PublishCovers == ASSUME Shape, Covered, Publish, Shape' PROVE Covered'
  <1>1. PICK x \in Filings \ listed : listed' = listed \cup {x}
    BY DEF Publish
  <1>2. UNCHANGED <<status, cursor, jobs, pc, job, polling, page, todo, paged, lost, faults>>
    BY DEF Publish, worker
  <1>3. listed \in SUBSET Filings /\ listed' \in SUBSET Filings /\ listed \subseteq listed'
        /\ page \subseteq listed /\ cursor \in [Cursors -> Int]
    BY <1>1 DEF Shape, TypeOK
  <1>4. \A f \in listed : InView(f)' => InView(f)
    BY <1>2, <1>3, NewestShrinks DEF InView
  <1>5. \A f \in Filings : InView(f)' => f \in listed \cup {x}
    BY <1>1, <1>2, <1>3 DEF InView, Newest
  <1>6. \A g \in listed : ~ (x <= g)
    <2>1. \A g \in listed : g < x
      BY <1>1, PublishedIsLatest DEF Shape
    <2> QED  BY <1>1, <1>3, <2>1, FilingsOrder
  <1>7. \A f \in Filings : Seen(f)' <=> Seen(f)
    BY <1>2 DEF Seen, Queued
  <1>8. PageIsTop'
    <2> SUFFICES ASSUME NEW f \in page, NEW g \in Newest(PageSize)', g <= f PROVE g \in page
      BY <1>2 DEF PageIsTop
    <2>1. g \in listed
      BY <1>1, <1>3, <1>6 DEF Newest
    <2>2. g \in Newest(PageSize)
      BY <1>3, <2>1, NewestShrinks
    <2> QED  BY <2>2 DEF Covered, PageIsTop
  <1>9. CursorCovers'
    <2> SUFFICES ASSUME NEW s \in Cursors, NEW f \in Placed, InView(f)', f <= cursor[s] PROVE Seen(f)
      BY <1>2, <1>7, PlacedFilings DEF CursorCovers
    <2>0. f \in Filings
      BY PlacedFilings
    <2>1. f # x
      <3>1. cursor[s] < x /\ cursor[s] \in Int
        BY <1>1, <1>3 DEF Shape, CursorIsListed
      <3>2. x \in Int
        BY <1>1, FilingsOrder
      <3> QED  BY <3>1, <3>2
    <2>2. InView(f)
      BY <1>4, <1>5, <2>0, <2>1
    <2> QED  BY <2>2 DEF Covered, CursorCovers
  <1>10. JobsCover'
    <2> SUFFICES ASSUME NEW j \in Jobs, Moves(j), NEW f \in Placed, InView(f)', f <= j.filing
                 PROVE  Seen(f) \/ f \in todo
      BY <1>2, <1>7, PlacedFilings DEF JobsCover, Moves
    <2>0. f \in Filings
      BY PlacedFilings
    <2>1. f # x
      <3>1. j.filing \in listed
        BY FeedAssumption DEF Moves, Shape, JobsAreListed, Jobs
      <3> QED  BY <1>6, <3>1
    <2>2. InView(f)
      BY <1>4, <1>5, <2>0, <2>1
    <2> QED  BY <2>2 DEF Covered, JobsCover
  <1>11. PollCovers'
    <2>1. \A f \in page : f \in Filings
      BY <1>3
    <2> QED  BY <1>2, <1>7, <2>1 DEF Covered, PollCovers
  <1>12. PagedRowsAreAccountedFor'
    BY <1>2 DEF Covered, PagedRowsAreAccountedFor, Queued
  <1> QED  BY <1>8, <1>9, <1>10, <1>11, <1>12 DEF Covered
\* The page of a poll is in view, as it was before.
LEMMA FetchCovers ==
    ASSUME Shape, Covered, NEW s \in Cursors, Fetch(s), Shape'
    PROVE  Covered'
  <1>1. /\ pc = "idle" /\ pc' = "compare" /\ page' = Newest(PageSize)
        /\ UNCHANGED <<listed, status, cursor, jobs, job, todo, paged, lost, faults>>
    BY DEF Fetch
  <1>2. Newest(PageSize)' = Newest(PageSize)
    BY <1>1 DEF Newest
  <1>3. \A f \in Filings : Seen(f)' <=> Seen(f)
    BY <1>1 DEF Seen, Queued
  <1>4. \A f \in Filings : InView(f)' => InView(f)
    BY <1>1, <1>2 DEF InView
  <1>5. PageIsTop' /\ PollCovers'
    BY <1>1, <1>2 DEF PageIsTop, PollCovers
  <1>6. \A j \in Jobs : Moves(j)' => Moves(j)
    BY <1>1 DEF Moves
  <1> QED  BY <1>1, <1>3, <1>4, <1>5, <1>6, CoverKept

\* Rows that are not behind the cursor are seen, if a cursor can place them; and so
\* are those behind which manual ingest gives up, as one of the rows before them
\* has a time and is not behind the cursor.
LEMMA CompareCovers ==
    ASSUME Shape, Covered, Compare, Shape'
    PROVE  Covered'
  <1> DEFINE old == {f \in page : FeedKey(f) <= cursor[polling]}
  <1>1. /\ pc = "compare" /\ pc' = "enqueue"
        /\ \A f \in page \ old : f \in todo' \/ \E g \in page : g .. g+StopAfter-1 \subseteq old /\ ~(g < f)
        /\ UNCHANGED <<listed, status, cursor, jobs, job, polling, page, paged, lost, faults>>
    BY DEF Compare
  <1>2. /\ page \subseteq Filings /\ polling \in Cursors /\ todo = {}
        /\ cursor[polling] \in Int
    BY <1>1 DEF Shape, TypeOK, WorkerShape
  <1>3. \A f \in Filings : Seen(f)' <=> Seen(f)
    BY <1>1 DEF Seen, Queued
  <1>4. \A f \in Filings : InView(f)' <=> InView(f)
    BY <1>1 DEF InView, Newest
  <1>5. PageIsTop'
    BY <1>1 DEF Covered, PageIsTop, Newest
  <1>6. PollCovers'
    <2> SUFFICES ASSUME NEW f \in page \cap Placed, f \notin todo' PROVE Seen(f)
      BY <1>1, <1>2, <1>3 DEF PollCovers
    <2>1. f \in Filings /\ f \in Dated
      BY PlacedFilings DEF Placed
    <2>2. f <= cursor[polling]
      <3>1. CASE f \in old
        BY <2>1, <3>1 DEF FeedKey
      <3>2. CASE f \notin old
        <4>1. PICK g \in page : g .. g+StopAfter-1 \subseteq old /\ ~(g < f)
          BY <1>1, <3>2
        <4>2. g \in Filings /\ g \in g .. g+StopAfter-1
          BY <1>2, <4>1, FeedAssumption, FilingsOrder
        <4>3. f # g
          BY <3>2, <4>1, <4>2
        <4>4. g > f
          BY <2>1, <4>1, <4>2, <4>3, FilingsOrder
        <4>5. PICK h \in g .. g+StopAfter-1 : h \notin Filings \ Dated
          BY <2>1, <4>2, <4>4 DEF Placed
        <4>6. h \in old /\ h \in Dated /\ h \in Int /\ h >= g
          BY <1>2, <4>1, <4>2, <4>5, FilingsOrder
        <4>7. h <= cursor[polling]
          BY <4>6 DEF FeedKey
        <4> QED  BY <1>2, <2>1, <4>2, <4>4, <4>6, <4>7, FilingsOrder
      <3> QED  BY <3>1, <3>2
    <2> QED  BY <1>2, <2>1, <2>2 DEF Covered, CursorCovers, InView
  <1>7. \A j \in Jobs : Moves(j)' => Moves(j)
    BY <1>1 DEF Moves
  <1> QED  BY <1>1, <1>2, <1>3, <1>4, <1>5, <1>6, <1>7, CoverKept

\* The newest row of the rest is enqueued: every older one that is in view is in
\* the page, so seen or yet to be enqueued.
LEMMA EnqueueCovers ==
    ASSUME Shape, Covered, EnqueueRow, Shape'
    PROVE  Covered'
  <1>0. PICK row \in Filings, source \in Cursors : row = Latest(todo) /\ source = polling
    BY NextRow
  <1> DEFINE new == [filing |-> row, source |-> source]
  <1>1. /\ pc = "enqueue" /\ Enqueued(row, source) /\ todo' = todo \ {row}
        /\ UNCHANGED <<listed, status, cursor, pc, job, polling, page, paged, lost, faults>>
    BY <1>0 DEF EnqueueRow
  <1>2. row \in todo /\ row \in page
    BY <1>0, NextRow
  <1>3. jobs \in Seq(Jobs)
    BY DEF Shape, TypeOK
  <1>4. /\ ToSet(jobs)' \subseteq ToSet(jobs) \cup {new}
        /\ ToSet(jobs) \subseteq ToSet(jobs)'
        /\ Queued(row)'
    BY <1>1, <1>2, <1>3, EnqueueKeeps
  <1>5. \A f \in Filings : Seen(f) => Seen(f)'
    <2> SUFFICES ASSUME NEW f \in Filings, Seen(f) PROVE Seen(f)'
      OBVIOUS
    <2>1. Queued(f) => Queued(f)'
      BY <1>1, <1>4, QueuedIs
    <2> QED  BY <1>1, <2>1 DEF Seen
  <1>6. Seen(row)'
    BY <1>4 DEF Seen
  <1>7. \A f \in Filings : InView(f)' <=> InView(f)
    BY <1>1 DEF InView, Newest
  <1>8. PageIsTop'
    BY <1>1 DEF Covered, PageIsTop, Newest
  <1>9. PollCovers'
    <2> SUFFICES ASSUME NEW f \in page \cap Placed, f \notin todo' PROVE Seen(f)'
      BY <1>1 DEF PollCovers
    <2>1. f \in Filings
      BY PlacedFilings
    <2>2. f = row \/ Seen(f)
      BY <1>1 DEF Covered, PollCovers
    <2> QED  BY <1>5, <1>6, <2>1, <2>2
  <1>10. ASSUME NEW j \in Jobs, Moves(j)', ~Moves(j),
                NEW f \in Placed, InView(f)', f <= j.filing
         PROVE  Seen(f)' \/ f \in todo'
    <2>1. j = new
      BY <1>1, <1>4, <1>10 DEF Moves
    <2>2. f <= row /\ InView(f)
      BY <1>7, <1>10, <2>1, PlacedFilings
    <2>3. f \in page
      BY <1>2, <2>2 DEF InView, Covered, PageIsTop
    <2> QED  BY <1>1, <1>9, <2>3 DEF PollCovers
  <1>11. \A f \in Filings : f \in todo => Seen(f)' \/ f \in todo'
    BY <1>1, <1>6
  <1> QED  BY <1>1, <1>5, <1>7, <1>8, <1>9, <1>10, <1>11, CoverKept

\* When nothing is left to enqueue, the whole page is seen.
LEMMA EndPollCovers ==
    ASSUME Shape, Covered, EndPoll, Shape'
    PROVE  Covered'
  <1>1. /\ pc = "enqueue" /\ pc' = "idle" /\ todo = {} /\ todo' = {} /\ page' = {}
        /\ paged' = paged \cup page /\ job' = NoJob
        /\ UNCHANGED <<listed, status, cursor, jobs, lost, faults>>
    BY DEF EndPoll, Idle
  <1>2. job = NoJob
    BY <1>1 DEF Shape, WorkerShape
  <1>3. \A f \in Filings : Seen(f)' <=> Seen(f)
    BY <1>1, <1>2 DEF Seen, Queued
  <1>4. \A f \in Filings : InView(f)' => InView(f)
    BY <1>1 DEF InView, Newest
  <1>5. PageIsTop' /\ PollCovers'
    BY <1>1 DEF PageIsTop, PollCovers
  <1>6. \A j \in Jobs : Moves(j)' => Moves(j)
    BY <1>1, <1>2 DEF Moves
  <1>7. \A f \in paged' \cap Placed : f \in paged \/ Seen(f)'
    <2>1. \A f \in page \cap Placed : f \in Filings /\ Seen(f)
      BY <1>1 DEF Shape, TypeOK, Covered, PollCovers
    <2> QED  BY <1>1, <1>3, <2>1
  <1> QED  BY <1>1, <1>3, <1>4, <1>5, <1>6, <1>7, CoverKept

\* A row of the daily index brings a job that moves no cursor.
LEMMA IndexCovers ==
    ASSUME Shape, Covered, NEW x \in Filings, IndexRow(x), Shape'
    PROVE  Covered'
  <1>1. /\ pc = "idle" /\ Enqueued(x, "index")
        /\ UNCHANGED <<listed, status, cursor, pc, job, polling, page, todo, paged, lost, faults>>
    BY DEF IndexRow, worker
  <1>2. jobs \in Seq(Jobs)
    BY DEF Shape, TypeOK
  <1>3. /\ ToSet(jobs)' \subseteq ToSet(jobs) \cup {[filing |-> x, source |-> "index"]}
        /\ ToSet(jobs) \subseteq ToSet(jobs)'
    BY <1>1, <1>2, EnqueueKeeps
  <1>4. \A f \in Filings : Seen(f) => Seen(f)'
    <2> SUFFICES ASSUME NEW f \in Filings, Seen(f) PROVE Seen(f)'
      OBVIOUS
    <2>1. Queued(f) => Queued(f)'
      BY <1>1, <1>3, QueuedIs
    <2> QED  BY <1>1, <2>1 DEF Seen
  <1>5. \A f \in Filings : InView(f)' => InView(f)
    BY <1>1 DEF InView, Newest
  <1>6. PageIsTop' /\ PollCovers'
    BY <1>1 DEF Covered, PageIsTop, PollCovers, Newest
  <1>7. \A j \in Jobs : Moves(j)' => Moves(j)
    BY <1>1, <1>3 DEF Moves, Cursors
  <1> QED  BY <1>1, <1>4, <1>5, <1>6, <1>7, CoverKept

\* The first job goes from the line into the worker's hands.
LEMMA BeginCovers ==
    ASSUME Shape, Covered, Begin, Shape'
    PROVE  Covered'
  <1>1. /\ pc = "idle" /\ jobs # <<>> /\ pc' = "detail"
        /\ job' = Head(jobs) /\ jobs' = Tail(jobs)
        /\ UNCHANGED <<listed, status, cursor, polling, page, todo, paged, lost, faults>>
    BY DEF Begin
  <1>2. job = NoJob /\ jobs \in Seq(Jobs) /\ page = {}
    BY <1>1 DEF Shape, TypeOK, WorkerShape
  <1>3. ToSet(jobs) = {job'} \cup ToSet(jobs')
    <2>1. jobs[1] \in Jobs
      BY <1>1, <1>2
    <2> QED  BY <1>1, <1>2, <2>1, Elements
  <1>4. \A f \in Filings : Seen(f) => Seen(f)'
    <2> SUFFICES ASSUME NEW f \in Filings, Seen(f) PROVE Seen(f)'
      OBVIOUS
    <2>1. job.filing # f
      BY <1>2, FeedAssumption DEF NoJob
    <2>2. Queued(f) => Queued(f)'
      BY <1>3, <2>1, QueuedIs
    <2> QED  BY <1>1, <2>2 DEF Seen
  <1>5. \A f \in Filings : InView(f)' => InView(f)
    BY <1>1 DEF InView, Newest
  <1>6. PageIsTop' /\ PollCovers'
    BY <1>1, <1>2 DEF PageIsTop, PollCovers
  <1>7. \A j \in Jobs : Moves(j)' => Moves(j)
    BY <1>3 DEF Moves
  <1> QED  BY <1>1, <1>4, <1>5, <1>6, <1>7, CoverKept

\* Reading the detail page changes no row's state.
LEMMA DetailCovers ==
    ASSUME Shape, Covered, Detail, Shape'
    PROVE  Covered'
  <1>1. /\ pc = "detail" /\ pc' \in {"cursor", "document"}
        /\ UNCHANGED <<listed, status, cursor, jobs, job, polling, page, todo, paged, lost, faults>>
    BY DEF Detail
  <1>2. \A f \in Filings : Seen(f)' <=> Seen(f)
    BY <1>1 DEF Seen, Queued
  <1>3. \A f \in Filings : InView(f)' => InView(f)
    BY <1>1 DEF InView, Newest
  <1>4. PageIsTop' /\ PollCovers'
    BY <1>1 DEF Covered, PageIsTop, PollCovers, Newest
  <1>5. \A j \in Jobs : Moves(j)' => Moves(j)
    BY <1>1 DEF Moves
  <1> QED  BY <1>1, <1>2, <1>3, <1>4, <1>5, CoverKept

\* The cursor does not move past a filing up to which every row in view is seen.
LEMMA AdvanceCovers ==
    ASSUME Shape, Covered, AdvanceCursor, Shape'
    PROVE  Covered'
  <1>1. /\ pc = "cursor" /\ pc' = "document"
        /\ UNCHANGED <<listed, status, jobs, job, polling, page, todo, paged, lost, faults>>
    BY DEF AdvanceCursor
  <1>2. job \in Jobs /\ job.source \in Cursors /\ todo = {} /\ page = {}
    BY <1>1, JobInHand DEF Shape, WorkerShape
  <1>3. \A f \in Filings : Seen(f)' <=> Seen(f)
    BY <1>1 DEF Seen, Queued
  <1>4. \A f \in Filings : InView(f)' <=> InView(f)
    BY <1>1 DEF InView, Newest
  <1>5. CursorCovers'
    <2> SUFFICES ASSUME NEW s \in Cursors, NEW f \in Placed, InView(f), f <= cursor'[s]
                 PROVE  Seen(f)
      BY <1>3, <1>4, PlacedFilings DEF CursorCovers
    <2>1. job.filing \in Filings /\ cursor \in [Cursors -> -MaxFiling-1 .. MaxFiling]
      BY <1>1, JobInHand DEF Shape, TypeOK
    <2>2. cursor'[s] \in Int /\ (cursor'[s] = cursor[s] \/ cursor'[s] <= job.filing)
      BY <2>1, Advances
    <2>3. CASE cursor'[s] = cursor[s]
      BY <2>3 DEF Covered, CursorCovers
    <2>4. CASE cursor'[s] <= job.filing
      <3>1. f <= job.filing
        BY <2>1, <2>2, <2>4, PlacedFilings, FilingsOrder
      <3> QED  BY <1>2, <3>1 DEF Covered, JobsCover, Moves
    <2> QED  BY <2>2, <2>3, <2>4
  <1>6. JobsCover'
    BY <1>1, <1>3, <1>4, PlacedFilings DEF Covered, JobsCover, Moves
  <1>7. PageIsTop' /\ PollCovers'
    BY <1>1, <1>2 DEF PageIsTop, PollCovers
  <1>8. PagedRowsAreAccountedFor'
    BY <1>1 DEF Covered, PagedRowsAreAccountedFor, Queued
  <1> QED  BY <1>5, <1>6, <1>7, <1>8 DEF Covered

\* A job leaves its filing settled.
LEMMA SettledCovers ==
    ASSUME Shape, Covered, Store \/ NotWanted \/ Fails, Shape'
    PROVE  Covered'
  <1>1. PICK outcome \in {"stored", "not-wanted", "error"} : Settled(outcome)
    BY Settles
  <1>2. /\ status' = [status EXCEPT ![job.filing] =
                        IF status[job.filing] = "stored" THEN status[job.filing] ELSE outcome]
        /\ pc' = "idle" /\ job' = NoJob /\ page' = {} /\ todo' = {}
        /\ UNCHANGED <<listed, cursor, jobs, paged, lost>>
    BY <1>1 DEF Settled, Idle
  <1>3. job \in Jobs /\ job.filing \in Filings /\ todo = {}
        /\ status \in [Filings -> {"unseen", "stored", "not-wanted", "error"}]
    BY Settles, JobInHand DEF Shape, TypeOK
  <1>4. \A f \in Filings : Seen(f) => Seen(f)'
    <2> SUFFICES ASSUME NEW f \in Filings, Seen(f) PROVE Seen(f)'
      OBVIOUS
    <2>1. CASE f = job.filing
      BY <1>2, <1>3, <2>1 DEF Seen
    <2>2. CASE f # job.filing
      <3>1. Queued(f) => Queued(f)'
        BY <1>2, <2>2, QueuedIs
      <3> QED  BY <1>2, <1>3, <2>2, <3>1 DEF Seen
    <2> QED  BY <2>1, <2>2
  <1>5. \A f \in Filings : InView(f)' => InView(f)
    BY <1>2 DEF InView, Newest
  <1>6. PageIsTop' /\ PollCovers'
    BY <1>2 DEF PageIsTop, PollCovers
  <1>7. \A j \in Jobs : Moves(j)' => Moves(j)
    <2>1. NoJob \notin Jobs
      BY FeedAssumption DEF NoJob, Jobs
    <2> QED  BY <1>2, <2>1 DEF Moves
  <1> QED  BY <1>2, <1>3, <1>4, <1>5, <1>6, <1>7, CoverKept

\* The jobs that a crash takes count as lost.
LEMMA CrashCovers ==
    ASSUME Shape, Covered, Crash, Shape'
    PROVE  Covered'
  <1>1. /\ lost' = lost \cup {f \in Filings : Queued(f)}
        /\ jobs' = <<>> /\ pc' = "idle" /\ job' = NoJob /\ page' = {} /\ todo' = {}
        /\ UNCHANGED <<listed, status, cursor, paged>>
    BY DEF Crash, Idle
  <1>2. \A f \in Filings : Seen(f) \/ f \in todo => Seen(f)' \/ f \in todo
    BY <1>1 DEF Seen
  <1>3. \A f \in Filings : InView(f)' => InView(f)
    BY <1>1 DEF InView, Newest
  <1>4. PageIsTop' /\ PollCovers'
    BY <1>1 DEF PageIsTop, PollCovers
  <1>5. JobsCover'
    <2>1. NoJob \notin Jobs
      BY FeedAssumption DEF NoJob, Jobs
    <2> QED  BY <1>1, <2>1 DEF JobsCover, Moves, ToSet
  <1>6. CursorCovers'
    <2>1. \A f \in Filings : Seen(f) => Seen(f)'
      BY <1>1 DEF Seen
    <2> QED  BY <1>1, <1>3, <2>1, PlacedFilings DEF Covered, CursorCovers
  <1>7. PagedRowsAreAccountedFor'
    <2>1. \A f \in paged : f \in Filings
      BY DEF Shape, TypeOK
    <2> QED  BY <1>1, <2>1 DEF Covered, PagedRowsAreAccountedFor
  <1> QED  BY <1>4, <1>5, <1>6, <1>7 DEF Covered

\* Every step keeps what is seen up to the cursors.
LEMMA CoveredStep == Shape /\ Covered /\ Shape' /\ [Next]_vars => Covered'
  <1> SUFFICES ASSUME Shape, Covered, Shape', [Next]_vars PROVE Covered'
    OBVIOUS
  <1>1. CASE Publish
    BY <1>1, PublishCovers
  <1>2. CASE Crash
    BY <1>2, CrashCovers
  <1>3. CASE \E s \in Cursors : Fetch(s)
    BY <1>3, FetchCovers
  <1>4. CASE Compare
    BY <1>4, CompareCovers
  <1>5. CASE EnqueueRow
    BY <1>5, EnqueueCovers
  <1>6. CASE EndPoll
    BY <1>6, EndPollCovers
  <1>7. CASE \E f \in Filings : IndexRow(f)
    BY <1>7, IndexCovers
  <1>8. CASE Begin
    BY <1>8, BeginCovers
  <1>9. CASE Detail
    BY <1>9, DetailCovers
  <1>10. CASE AdvanceCursor
    BY <1>10, AdvanceCovers
  <1>11. CASE Store \/ NotWanted \/ Fails
    BY <1>11, SettledCovers
  <1>12. CASE UNCHANGED vars
    BY <1>12
    DEF vars, worker, Covered, PageIsTop, CursorCovers, JobsCover, PollCovers, InView, Newest,
        Moves, Seen, Queued, PagedRowsAreAccountedFor
  <1> QED
    BY <1>1, <1>2, <1>3, <1>4, <1>5, <1>6, <1>7, <1>8, <1>9, <1>10, <1>11, <1>12 DEF Next

\* Without cursor and jobs there is nothing to cover.
LEMMA InitCovered == Init => Covered
  <1> SUFFICES ASSUME Init PROVE Covered
    OBVIOUS
  <1>1. PageIsTop /\ PollCovers /\ PagedRowsAreAccountedFor
    BY DEF Init, PageIsTop, PollCovers, PagedRowsAreAccountedFor
  <1>2. CursorCovers
    BY FilingsOrder, PlacedFilings DEF Init, CursorCovers
  <1>3. JobsCover
    BY FeedAssumption DEF Init, JobsCover, Moves, ToSet, NoJob, Jobs
  <1> QED  BY <1>1, <1>2, <1>3 DEF Covered

-----------------------------------------------------------------------------
\* Whatever polls, jobs, publications and crashes come, in any order, the
\* discovery of Form 4 filings keeps its types.
THEOREM TypeCorrect == Spec => []TypeOK
  <1>1. Shape => TypeOK
    BY DEF Shape
  <1> QED  BY <1>1, InitShape, ShapeStep, PTL DEF Spec

\* A row of a page that a poll has gone through is stored, not wanted, on record as
\* an error or on its way, or its job was taken by a crash, if the row has its
\* accepted_at and no StopAfter rows in a row without one come before it: that
\* the jobs of either source move a cursor before they have stored anything, and
\* that the time of the detail page may lag, loses no such row.
THEOREM PagedRowsSound == Spec => []PagedRowsAreAccountedFor
  <1>1. Init => Shape /\ Covered
    BY InitShape, InitCovered
  <1>2. Shape /\ Covered /\ [Next]_vars => Shape' /\ Covered'
    BY ShapeStep, CoveredStep
  <1>3. Covered => PagedRowsAreAccountedFor
    BY DEF Covered
  <1> QED  BY <1>1, <1>2, <1>3, PTL DEF Spec
=============================================================================
