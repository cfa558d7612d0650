-------------------------- MODULE RecoveryRunsProofs --------------------------
(***************************************************************************)
(* For every watchlist, every index and every number of requests and       *)
(* crashes: a run key is taken exactly as long as one chain answers for    *)
(* it, a run that completes has taken every row once, urgent work waits    *)
(* for at most one row of the index, and the row of a run that is over     *)
(* stays as it is.                                                         *)
(***************************************************************************)
EXTENDS RecoveryRuns, FiniteSetTheorems, WellFoundedInduction, TLAPS

Jobs == [key : RunKeys, priority : Priorities, sequence : Nat \ {0}, work : Payloads]
Chunks == [day : Days \cup {NoDay}, remaining : Seq(Days), offset : Nat,
           targets : SUBSET Entries, index : SUBSET Nat, taken : Nat,
           failed : Nat]

Handling == {"resolve", "load", "check", "row", "mark-progress", "advance"}
Completing == {"revalidate", "recheck", "redeliver", "mark-completed", "finish-run"}
Ending == {"revalidate", "recheck", "redeliver", "mark-completed", "record-error", "mark-failed",
           "finish-run"}

Types ==
    /\ queue \subseteq Jobs /\ jobKeys \subseteq RunKeys /\ inflight \subseteq RunKeys
    /\ sequence \in Nat
    /\ activeRuns \subseteq Chains
    /\ watch \in [Entries -> {"absent", "paused", "enabled"}]
    /\ rows \in [RunIds -> {"absent", "open", "queued", "running", "completed", "failed"}]
    /\ route \in [pc : {"idle", "start", "insert", "enqueue", "commit", "undo", "delete"},
                  chain : Chains, run : RunIds \cup {NoRun}]
    /\ wpc \in {"idle", "process", "deliver", "orchestrate", "mark-queued", "step-zero",
                "begin", "finish"} \cup Handling \cup Ending
    /\ job \in Jobs /\ chunk \in Chunks /\ requests \in 0..MaxRequests

SeenFits ==
    /\ DOMAIN seen = Chains
    /\ \A c \in Chains : /\ DOMAIN seen[c] = Days
                         /\ \A d \in Days : DOMAIN seen[c][d] = DOMAIN IndexRows[d]

\* A row has the number of a request, and none has that of a later one.
RowsNumbered ==
    /\ route.pc \in {"start", "insert"} => requests > 0
    /\ \A r \in RunIds : rows[r] # "absent" =>
          r <= requests /\ (route.pc \in {"start", "insert"} => r < requests)

-----------------------------------------------------------------------------
\* What the key of a job says of its payload.
ChunkFits(j) ==
    LET w == j.work
    IN  /\ IsInjective(w.remaining) /\ ToSet(w.remaining) \subseteq ToSet(DaysOf(w.chain))
        /\ \/ /\ w.day = NoDay /\ w.offset = 0 /\ j.key = StepZero(w.chain)
              /\ w.remaining = IF w.chain = Repair THEN RepairDays ELSE <<>>
           \/ /\ w.day = NoDay /\ w.offset = 0 /\ w.remaining # <<>>
              /\ j.key = Key(w.chain, "next-day", Head(w.remaining), 0)
           \/ /\ w.day \in ToSet(DaysOf(w.chain)) \ ToSet(w.remaining)
              /\ j.key = Key(w.chain, "offset", w.day, w.offset)

JobFits(j) ==
    /\ j.work.task = "other" => j.key = OtherKey
    /\ j.work.task = "repair-now" => j.work.chain = Repair /\ j.key = ManualKey
    /\ j.work.task = "repair-scheduled" =>
          j.work.chain = Repair /\ j.key = ScheduledKey /\ j.work.run = NoRun
    /\ j.work.task = "chunk" => ChunkFits(j)

JobsFit == (\A j \in queue : JobFits(j)) /\ JobFits(job)

\* A key that is refused is that of a job in the queue or in hand.
KeysAreOfJobs ==
    /\ \A k \in jobKeys : \E j \in queue : j.key = k
    /\ inflight \subseteq {job.key}
    /\ wpc = "idle" => inflight = {}

\* Where the worker is in which job, and what it knows of the chunk there.
WorkerFits ==
    /\ wpc \in {"process", "deliver"} => job.work.task = "other"
    /\ wpc \in {"orchestrate", "mark-queued", "step-zero"} =>
          job.work.task \in {"repair-now", "repair-scheduled"}
    /\ wpc \in {"begin"} \cup Handling \cup Ending => job.work.task = "chunk"
    /\ wpc \in Handling =>
          /\ chunk.day \in ToSet(DaysOf(Chain)) \ ToSet(chunk.remaining)
          /\ ToSet(chunk.remaining) \subseteq ToSet(DaysOf(Chain)) /\ IsInjective(chunk.remaining)
          /\ job.key \in {StepZero(Chain), Key(Chain, "next-day", chunk.day, 0),
                          Key(Chain, "offset", chunk.day, chunk.offset)}
    /\ wpc \in {"resolve", "load"} => chunk.taken = 0
    /\ wpc \in {"mark-progress", "advance"} /\ chunk.taken = 0 =>
          ~(chunk.offset < Cardinality(chunk.index))

\* Who answers for a run key, without counting.
OneCarrier ==
    /\ stranded \subseteq activeRuns
    /\ \A c \in Chains :
          /\ c \in activeRuns \ stranded <=>
                RouteCarries(c) \/ QueueCarries(c) # {} \/ WorkerCarries(c)
          /\ RouteCarries(c) => QueueCarries(c) = {} /\ ~WorkerCarries(c)
          /\ WorkerCarries(c) => QueueCarries(c) = {}
          /\ \A j, k \in QueueCarries(c) : j = k

\* A row that is over has no job any more, and no two jobs have the same row.
Live(r) == rows[r] \notin {"absent", "completed", "failed"}
AtWork == wpc \notin {"idle", "finish-run", "finish"} /\ job.work.run # NoRun

RunsOwned ==
    /\ \A j \in queue : j.work.run # NoRun => Live(j.work.run)
    /\ \A j, k \in queue : j.work.run # NoRun /\ j.work.run = k.work.run => j = k
    /\ AtWork => Live(job.work.run) /\ \A j \in queue : j.work.run # job.work.run
    /\ route.pc \in {"enqueue", "commit", "undo", "delete"} =>
          route.run \in RunIds /\ rows[route.run] = "open"
    /\ route.pc \in {"enqueue", "undo", "delete"} =>
          /\ \A j \in queue : j.work.run # route.run
          /\ AtWork => job.work.run # route.run

\* Once a row was taken while urgent work waited, the chunk is on its way out,
\* though a repair looks at the failed filings on that way.
Yields ==
    /\ overtaken \in Nat
    /\ overtaken > 0 =>
          /\ HasQueuedHigherPriorityThan(3)
          /\ wpc \in {"check", "mark-progress", "advance", "finish", "idle"} \cup Ending
          /\ wpc = "check" => chunk.taken > 0

-----------------------------------------------------------------------------
\* The rows of a day that a run over the targets t is to take.
Due(t, d) == IF t = {} THEN {} ELSE Filtered(d, t)

\* Of the chain c, s counts every due row of the days in done, and the first n
\* of day, once, and no others.
Taken(c, s, t, done, day, n) ==
    \A d \in ToSet(DaysOf(c)) : \A i \in DOMAIN IndexRows[d] :
        s[d][i] = IF i \in Due(t, d) /\ (d \in done \/ (d = day /\ Place(i, Due(t, d)) < n))
                  THEN 1 ELSE 0

\* Days that are neither ahead nor the present one are behind.
TakenUpTo(c, s, t, remaining, day, n) ==
    Taken(c, s, t, ToSet(DaysOf(c)) \ (ToSet(remaining) \cup {day}), day, n)

Covered(c, remaining, day, n) ==
    c \in steady => TakenUpTo(c, seen[c], Targets(c), remaining, day, n)

DaysAhead(w) ==
    IF w.chain # Repair /\ w.day = NoDay /\ w.remaining = <<>> THEN BackfillDays ELSE w.remaining

JobCovers(w) == Covered(w.chain, DaysAhead(w), w.day, w.offset)

\* The chain has got to its chunks.
Begun(c) ==
    \/ \E j \in queue : j.work.chain = c /\ j.work.task = "chunk"
    \/ Chain = c /\ wpc \in {"begin"} \cup Handling \cup Ending

NotBegunUnseen == \A c \in Chains : ~Begun(c) => seen[c] = NothingSeen

QueueCovers == \A j \in queue : j.work.task = "chunk" => JobCovers(j.work)

WorkerCovers ==
    \A c \in Chains : Chain = c =>
        /\ wpc = "begin" => Covered(c, DaysAhead(job.work), job.work.day, job.work.offset)
        /\ wpc \in Handling => Covered(c, chunk.remaining, chunk.day, chunk.offset + chunk.taken)
        /\ wpc \in Handling \ {"resolve"} /\ c \in steady =>
              chunk.targets = Targets(c) /\ chunk.targets # {}
        /\ wpc \in Handling \ {"resolve", "load"} => chunk.index = Filtered(chunk.day, chunk.targets)
        /\ wpc \in Completing /\ c \in steady =>
              Taken(c, seen[c], Targets(c), ToSet(DaysOf(c)), NoDay, 0)
        /\ wpc = "mark-failed" => c \notin steady

Covers == NotBegunUnseen /\ QueueCovers /\ WorkerCovers

Inv ==
    /\ Types /\ SeenFits /\ RowsNumbered /\ JobsFit /\ KeysAreOfJobs /\ WorkerFits /\ OneCarrier
    /\ RunsOwned /\ Yields /\ Covers

-----------------------------------------------------------------------------
(* Facts about the constants and the operators of the model.               *)

\* The chains, and the days each of them has.
LEMMA Constants ==
    /\ Chains = Entries \cup {Repair} /\ Repair \notin Entries /\ Repair \in Chains
    /\ NoDay \notin Days /\ NoRun \notin RunIds
    /\ \A c \in Chains : /\ DaysOf(c) \in Seq(Days) /\ DaysOf(c) # <<>>
                         /\ ToSet(DaysOf(c)) \subseteq Days /\ IsInjective(DaysOf(c))
    /\ RepairDays = DaysOf(Repair)
    /\ \A e \in Entries : DaysOf(e) = BackfillDays
  <1>1. Chains = Entries \cup {Repair} /\ Repair \notin Entries /\ Repair \in Chains
    BY RecoveryAssumption DEF Chains
  <1>2. NoDay \notin Days /\ NoRun \notin RunIds
    BY RecoveryAssumption DEF NoRun, RunIds
  <1>3. \A c \in Chains : DaysOf(c) \in Seq(Days) /\ DaysOf(c) # <<>> /\ IsInjective(DaysOf(c))
    BY RecoveryAssumption
  <1>4. \A c \in Chains : ToSet(DaysOf(c)) \subseteq Days
    BY <1>3 DEF ToSet
  <1>5. RepairDays = DaysOf(Repair) /\ \A e \in Entries : DaysOf(e) = BackfillDays
    BY <1>1 DEF DaysOf
  <1> QED  BY <1>1, <1>2, <1>3, <1>4, <1>5

\* The types of a job's parts.
LEMMA JobParts ==
    ASSUME NEW j \in Jobs
    PROVE  /\ j.key \in RunKeys /\ j.priority \in Priorities /\ j.work \in Payloads
           /\ j.work.chain \in Chains /\ j.work.day \in Days \cup {NoDay} /\ j.work.offset \in Nat
           /\ j.work.remaining \in Seq(Days) /\ j.work.run \in RunIds \cup {NoRun}
           /\ j.work.task \in {"repair-now", "repair-scheduled", "chunk", "other"}
  BY DEF Jobs, Payloads
\* The keys that the code makes are keys.
LEMMA KeysFit ==
    /\ ManualKey \in RunKeys /\ ScheduledKey \in RunKeys /\ OtherKey \in RunKeys
    /\ \A c \in Chains : StepZero(c) \in RunKeys
    /\ \A c \in Chains, d \in Days, n \in Nat :
          Key(c, "next-day", d, 0) \in RunKeys /\ Key(c, "offset", d, n) \in RunKeys
  BY Constants DEF ManualKey, ScheduledKey, OtherKey, StepZero, Key, RunKeys

\* The payloads that the code makes are payloads.
LEMMA PayloadFits ==
    ASSUME NEW task \in {"repair-now", "repair-scheduled", "chunk", "other"}, NEW c \in Chains,
           NEW r \in RunIds \cup {NoRun}, NEW remaining \in Seq(Days),
           NEW d \in Days \cup {NoDay}, NEW n \in Nat
    PROVE  Payload(task, c, r, remaining, d, n) \in Payloads
  BY DEF Payload, Payloads

\* Urgent work belongs to no run.
LEMMA OtherFits == Other \in Payloads /\ Other.task = "other" /\ Other.run = NoRun /\ NoJob \in Jobs
  <1>1. Other \in Payloads
    <2>1. <<>> \in Seq(Days) /\ NoRun \in RunIds \cup {NoRun} /\ NoDay \in Days \cup {NoDay}
      OBVIOUS
    <2> QED  BY <2>1, Constants, PayloadFits DEF Other
  <1>2. Other.task = "other" /\ Other.run = NoRun
    BY DEF Other, Payload
  <1>3. NoJob \in Jobs
    BY <1>1, KeysFit DEF NoJob, Jobs, Priorities
  <1> QED  BY <1>1, <1>2, <1>3

\* A job is added with its key.
LEMMA Enqueued ==
    ASSUME Types, NEW k \in RunKeys, NEW p \in Priorities, NEW w \in Payloads, Enqueue(k, p, w)
    PROVE  /\ \E new \in Jobs : /\ new.key = k /\ new.priority = p /\ new.work = w
                                /\ queue' = queue \cup {new}
           /\ jobKeys' = jobKeys \cup {k} /\ inflight' = inflight /\ sequence' \in Nat
           /\ k \notin jobKeys /\ k \notin inflight
  <1> DEFINE new == [key |-> k, priority |-> p, sequence |-> sequence + 1, work |-> w]
  <1>1. /\ queue' = queue \cup {new} /\ jobKeys' = jobKeys \cup {k} /\ inflight' = inflight
        /\ sequence' = sequence + 1 /\ k \notin jobKeys /\ k \notin inflight
    BY DEF Enqueue, Accepts
  <1>2. sequence \in Nat
    BY DEF Types
  <1>3. new \in Jobs
    BY <1>2 DEF Jobs
  <1>4. new.key = k /\ new.priority = p /\ new.work = w
    OBVIOUS
  <1> QED  BY <1>1, <1>2, <1>3, <1>4

\* The first of some days, and the others.
LEMMA HeadAndTail ==
    ASSUME NEW S, NEW s \in Seq(S), s # <<>>, IsInjective(s)
    PROVE  /\ Head(s) \in ToSet(s) /\ Head(s) \in S
           /\ Tail(s) \in Seq(S) /\ IsInjective(Tail(s))
           /\ ToSet(Tail(s)) = ToSet(s) \ {Head(s)}
  <1>1. /\ Len(s) \in Nat \ {0} /\ DOMAIN s = 1..Len(s) /\ Head(s) = s[1]
        /\ Tail(s) \in Seq(S) /\ Len(Tail(s)) = Len(s) - 1
        /\ DOMAIN Tail(s) = 1..(Len(s) - 1)
        /\ \A i \in 1..(Len(s) - 1) : Tail(s)[i] = s[i + 1]
    OBVIOUS
  <1>2. \A i, k \in 1..Len(s) : s[i] = s[k] => i = k
    BY <1>1 DEF IsInjective
  <1>3. Head(s) \in ToSet(s) /\ Head(s) \in S
    BY <1>1 DEF ToSet
  <1>4. IsInjective(Tail(s))
    <2> SUFFICES ASSUME NEW i \in 1..(Len(s) - 1), NEW k \in 1..(Len(s) - 1), Tail(s)[i] = Tail(s)[k]
                 PROVE  i = k
      BY <1>1 DEF IsInjective
    <2>1. i + 1 \in 1..Len(s) /\ k + 1 \in 1..Len(s) /\ s[i + 1] = s[k + 1]
      BY <1>1
    <2>2. i + 1 = k + 1
      BY <1>2, <2>1
    <2> QED  BY <2>2
  <1>5. ToSet(Tail(s)) = ToSet(s) \ {Head(s)}
    <2>1. ASSUME NEW x \in ToSet(Tail(s)) PROVE x \in ToSet(s) \ {Head(s)}
      <3>1. PICK i \in 1..(Len(s) - 1) : x = Tail(s)[i]
        BY <1>1, <2>1 DEF ToSet
      <3>2. i + 1 \in 1..Len(s) /\ x = s[i + 1] /\ 1 \in 1..Len(s) /\ i + 1 # 1
        BY <1>1, <3>1
      <3>3. x # s[1]
        BY <1>2, <3>2
      <3> QED  BY <1>1, <3>2, <3>3 DEF ToSet
    <2>2. ASSUME NEW x \in ToSet(s) \ {Head(s)} PROVE x \in ToSet(Tail(s))
      <3>1. PICK i \in 1..Len(s) : x = s[i]
        BY <1>1, <2>2 DEF ToSet
      <3>2. i # 1
        BY <1>1, <2>2, <3>1
      <3>3. i - 1 \in 1..(Len(s) - 1) /\ Tail(s)[i - 1] = x
        BY <1>1, <3>1, <3>2
      <3> QED  BY <1>1, <3>3 DEF ToSet
    <2> QED  BY <2>1, <2>2
  <1> QED  BY <1>1, <1>3, <1>4, <1>5

\* What ChunkBegin makes of a job: the first of the days ahead, or the rest of
\* the job's day.
LEMMA Begins ==
    ASSUME Types, JobsFit, WorkerFits, ChunkBegin
    PROVE  LET w == job.work
               ahead == DaysAhead(w)
           IN  /\ wpc = "begin" /\ wpc' = "resolve" /\ w.task = "chunk"
               /\ ahead \in Seq(Days) /\ IsInjective(ahead)
               /\ ToSet(ahead) \subseteq ToSet(DaysOf(w.chain))
               /\ chunk' \in Chunks /\ chunk'.taken = 0
               /\ \/ /\ w.day = NoDay /\ w.offset = 0 /\ ahead # <<>>
                     /\ chunk'.day = Head(ahead) /\ chunk'.remaining = Tail(ahead)
                     /\ chunk'.offset = 0
                     /\ job.key \in {StepZero(w.chain), Key(w.chain, "next-day", Head(ahead), 0)}
                  \/ /\ w.day \in ToSet(DaysOf(w.chain)) \ ToSet(w.remaining)
                     /\ ahead = w.remaining
                     /\ chunk'.day = w.day /\ chunk'.remaining = w.remaining
                     /\ chunk'.offset = w.offset
                     /\ job.key = Key(w.chain, "offset", w.day, w.offset)
  <1> DEFINE w == job.work
             ahead == DaysAhead(w)
  <1>1. wpc = "begin" /\ job \in Jobs /\ w.task = "chunk" /\ ChunkFits(job)
    BY DEF ChunkBegin, Go, WorkerFits, Types, JobsFit, JobFits
  <1>2. w.chain \in Chains /\ w.remaining \in Seq(Days) /\ w.day \in Days \cup {NoDay} /\ w.offset \in Nat
    BY <1>1, JobParts
  <1>3. /\ IsInjective(w.remaining) /\ ToSet(w.remaining) \subseteq ToSet(DaysOf(w.chain))
        /\ \/ /\ w.day = NoDay /\ w.offset = 0 /\ job.key = StepZero(w.chain)
              /\ w.remaining = IF w.chain = Repair THEN RepairDays ELSE <<>>
           \/ /\ w.day = NoDay /\ w.offset = 0 /\ w.remaining # <<>>
              /\ job.key = Key(w.chain, "next-day", Head(w.remaining), 0)
           \/ /\ w.day \in ToSet(DaysOf(w.chain)) \ ToSet(w.remaining)
              /\ job.key = Key(w.chain, "offset", w.day, w.offset)
    BY <1>1 DEF ChunkFits
  <1>4. ToSet(DaysOf(w.chain)) \subseteq Days /\ NoDay \notin Days
    BY <1>2, Constants
  <1>5. ahead \in Seq(Days) /\ IsInjective(ahead) /\ ToSet(ahead) \subseteq ToSet(DaysOf(w.chain))
    <2>1. CASE w.chain # Repair /\ w.day = NoDay /\ w.remaining = <<>>
      <3>1. ahead = DaysOf(w.chain)
        BY <1>2, <2>1, Constants DEF DaysAhead
      <3> QED  BY <1>2, <3>1, Constants
    <2>2. CASE ~(w.chain # Repair /\ w.day = NoDay /\ w.remaining = <<>>)
      <3>1. ahead = w.remaining
        BY <2>2 DEF DaysAhead
      <3> QED  BY <1>2, <1>3, <3>1
    <2> QED  BY <2>1, <2>2
  <1>6. w.day = NoDay => ahead # <<>> /\ w.offset = 0
                         /\ job.key \in {StepZero(w.chain), Key(w.chain, "next-day", Head(ahead), 0)}
    BY <1>2, <1>3, <1>4, Constants DEF DaysAhead
  <1>7. w.day # NoDay => /\ w.day \in ToSet(DaysOf(w.chain)) \ ToSet(w.remaining)
                         /\ ahead = w.remaining
                         /\ job.key = Key(w.chain, "offset", w.day, w.offset)
    BY <1>3 DEF DaysAhead
  <1>8. NoChunk \in Chunks /\ NoChunk.taken = 0 /\ NoChunk.offset = 0
    BY DEF NoChunk, Chunks
  <1>9. /\ wpc' = "resolve"
        /\ chunk' = IF w.day = NoDay
                    THEN [NoChunk EXCEPT !.day = Head(ahead), !.remaining = Tail(ahead)]
                    ELSE [NoChunk EXCEPT !.day = w.day, !.remaining = ahead, !.offset = w.offset]
    BY <1>6 DEF ChunkBegin, Go, DaysAhead
  <1> HIDE DEF w, ahead
  <1>10. CASE w.day = NoDay
    <2>1. Head(ahead) \in Days /\ Tail(ahead) \in Seq(Days)
      BY <1>5, <1>6, <1>10, HeadAndTail
    <2>2. chunk' = [NoChunk EXCEPT !.day = Head(ahead), !.remaining = Tail(ahead)]
      BY <1>9, <1>10
    <2>3. /\ chunk' \in Chunks /\ chunk'.day = Head(ahead) /\ chunk'.remaining = Tail(ahead)
          /\ chunk'.offset = 0 /\ chunk'.taken = 0
      BY <1>8, <2>1, <2>2 DEF Chunks
    <2> QED  BY <1>1, <1>5, <1>6, <1>9, <1>10, <2>3 DEF w, ahead
  <1>11. CASE w.day # NoDay
    <2>1. chunk' = [NoChunk EXCEPT !.day = w.day, !.remaining = ahead, !.offset = w.offset]
      BY <1>9, <1>11
    <2>2. /\ chunk' \in Chunks /\ chunk'.day = w.day /\ chunk'.remaining = ahead
          /\ chunk'.offset = w.offset /\ chunk'.taken = 0
      BY <1>2, <1>5, <1>8, <2>1 DEF Chunks
    <2> QED  BY <1>1, <1>5, <1>7, <1>9, <1>11, <2>2 DEF w, ahead
  <1> QED  BY <1>10, <1>11
\* No job of a chain's own chunks waits while the worker carries the chain, so
\* none has a key of theirs.
Fresh(k) == k.step \in {"step", "next-day", "offset"} /\ k # job.key

\* A key that no job in the queue can have, nor the one in hand, is accepted.
LEMMA FreshIsAccepted ==
    ASSUME Types, JobsFit, KeysAreOfJobs, NEW k \in RunKeys, Fresh(k), QueueCarries(k.chain) = {}
    PROVE  Accepts(k)
  <1>1. k \notin inflight
    BY DEF KeysAreOfJobs, Fresh
  <1>2. ASSUME k \in jobKeys PROVE FALSE
    <2>1. PICK j \in queue : j.key = k
      BY <1>2 DEF KeysAreOfJobs
    <2>2. j \in Jobs /\ JobFits(j)
      BY DEF Types, JobsFit
    <2>3. j.work.task = "chunk"
      <3>1. j.work.task \in {"repair-now", "repair-scheduled", "chunk", "other"}
        BY <2>2, JobParts
      <3>2. ManualKey.step = "manual" /\ ScheduledKey.step = "scheduled" /\ OtherKey.step = "other"
        BY DEF ManualKey, ScheduledKey, OtherKey, Key
      <3> QED  BY <2>1, <2>2, <3>1, <3>2 DEF JobFits, Fresh
    <2>4. ChunkFits(j)
      BY <2>2, <2>3 DEF JobFits
    <2>5. \A c, s, d, n : Key(c, s, d, n).chain = c
      BY DEF Key
    <2>6. k.chain = j.work.chain
      BY <2>1, <2>4, <2>5 DEF ChunkFits, StepZero
    <2> QED  BY <2>1, <2>3, <2>6 DEF QueueCarries
  <1> QED  BY <1>1, <1>2 DEF Accepts

\* The job after a chunk is never refused: it is for a later row of the day, or
\* for another day.
LEMMA Advances ==
    ASSUME Types, JobsFit, KeysAreOfJobs, WorkerFits, OneCarrier, Advance
    PROVE  LET next == chunk.offset + chunk.taken
               Hands(k, d, n) ==
                   /\ wpc' = "finish" /\ k \in RunKeys /\ k.chain = Chain
                   /\ Payload("chunk", Chain, job.work.run, chunk.remaining, d, n) \in Payloads
                   /\ Enqueue(k, 3, Payload("chunk", Chain, job.work.run, chunk.remaining, d, n))
           IN  /\ wpc = "advance" /\ job.work.task = "chunk" /\ WorkerCarries(Chain)
               /\ chunk.offset \in Nat /\ chunk.taken \in Nat /\ chunk.day \in Days
               /\ \/ /\ next < Cardinality(chunk.index)
                     /\ Hands(Key(Chain, "offset", chunk.day, next), chunk.day, next)
                  \/ /\ ~(next < Cardinality(chunk.index)) /\ chunk.remaining # <<>>
                     /\ Hands(Key(Chain, "next-day", Head(chunk.remaining), 0), NoDay, 0)
                  \/ /\ ~(next < Cardinality(chunk.index)) /\ chunk.remaining = <<>>
                     /\ wpc' \in {"revalidate", "mark-completed"} /\ UNCHANGED queueVars
  <1> DEFINE next == chunk.offset + chunk.taken
             sameDay == next < Cardinality(chunk.index)
             Work1(d, n) == Payload("chunk", Chain, job.work.run, chunk.remaining, d, n)
  <1>1. /\ wpc = "advance" /\ job.work.task = "chunk"
        /\ chunk.day \in ToSet(DaysOf(Chain)) \ ToSet(chunk.remaining)
        /\ IsInjective(chunk.remaining)
        /\ job.key \in {StepZero(Chain), Key(Chain, "next-day", chunk.day, 0),
                        Key(Chain, "offset", chunk.day, chunk.offset)}
    BY DEF Advance, Go, WorkerFits, Handling
  <1>2. /\ job \in Jobs /\ Chain \in Chains /\ job.work.run \in RunIds \cup {NoRun}
        /\ chunk.remaining \in Seq(Days) /\ chunk.offset \in Nat /\ chunk.taken \in Nat
        /\ next \in Nat
    BY JobParts DEF Types, Chunks, Chain
  <1>3. chunk.day \in Days /\ chunk.day # NoDay
    BY <1>1, <1>2, Constants
  <1>4. WorkerCarries(Chain) /\ QueueCarries(Chain) = {}
    <2>1. WorkerCarries(Chain)
      BY <1>1 DEF WorkerCarries
    <2> QED  BY <1>2, <2>1 DEF OneCarrier
  <1>5. \A c, s, d, n : /\ Key(c, s, d, n).chain = c /\ Key(c, s, d, n).step = s
                        /\ Key(c, s, d, n).day = d /\ Key(c, s, d, n).offset = n
    BY DEF Key
  <1>6. CASE sameDay
    <2> DEFINE k == Key(Chain, "offset", chunk.day, next)
    <2>1. chunk.taken # 0
      <3>1. chunk.taken = 0 => ~(chunk.offset < Cardinality(chunk.index))
        BY <1>1 DEF WorkerFits
      <3>2. chunk.taken = 0 => chunk.offset + chunk.taken = chunk.offset
        BY <1>2
      <3> QED  BY <1>6, <3>1, <3>2
    <2>2. k \in RunKeys
      BY <1>2, <1>3, KeysFit
    <2>3. k # job.key
      BY <1>1, <1>2, <1>5, <2>1 DEF StepZero
    <2>4. Accepts(k)
      BY <1>4, <1>5, <2>2, <2>3, FreshIsAccepted DEF Fresh
    <2>5. Work1(chunk.day, next) \in Payloads
      BY <1>2, <1>3, PayloadFits
    <2>6. wpc' = "finish" /\ Enqueue(k, 3, Work1(chunk.day, next))
      BY <1>3, <1>6, <2>4 DEF Advance, SuccessorKey, Go
    <2>7. k.chain = Chain
      BY <1>5
    <2> QED  BY <1>1, <1>2, <1>3, <1>4, <1>6, <2>2, <2>5, <2>6, <2>7
  <1>7. CASE ~sameDay /\ chunk.remaining # <<>>
    <2> DEFINE k == Key(Chain, "next-day", Head(chunk.remaining), 0)
    <2>1. Head(chunk.remaining) \in ToSet(chunk.remaining) /\ Head(chunk.remaining) \in Days
      BY <1>1, <1>2, <1>7, HeadAndTail
    <2>2. k \in RunKeys
      BY <1>2, <2>1, KeysFit
    <2>3. k # job.key
      BY <1>1, <1>5, <2>1 DEF StepZero
    <2>4. Accepts(k)
      BY <1>4, <1>5, <2>2, <2>3, FreshIsAccepted DEF Fresh
    <2>5. Work1(NoDay, 0) \in Payloads
      BY <1>2, PayloadFits
    <2>6. wpc' = "finish" /\ Enqueue(k, 3, Work1(NoDay, 0))
      BY <1>7, <2>4 DEF Advance, SuccessorKey, Go
    <2>7. k.chain = Chain
      BY <1>5
    <2> QED  BY <1>1, <1>2, <1>3, <1>4, <1>7, <2>2, <2>5, <2>6, <2>7
  <1>8. CASE ~sameDay /\ chunk.remaining = <<>>
    <2>1. wpc' \in {"revalidate", "mark-completed"} /\ UNCHANGED queueVars
      BY <1>8 DEF Advance, EndOfRun, Go
    <2> QED  BY <1>1, <1>2, <1>3, <1>4, <1>8, <2>1
  <1> QED  BY <1>6, <1>7, <1>8

\* Nor is the first chunk of a repair.
LEMMA RepairBegins ==
    ASSUME Types, JobsFit, KeysAreOfJobs, WorkerFits, OneCarrier, RepairStepZero
    PROVE  LET w == Payload("chunk", Repair, job.work.run, RepairDays, NoDay, 0)
           IN  /\ wpc = "step-zero" /\ wpc' = "finish"
               /\ job.work.task \in {"repair-now", "repair-scheduled"}
               /\ Chain = Repair /\ WorkerCarries(Repair)
               /\ StepZero(Repair) \in RunKeys /\ w \in Payloads
               /\ Enqueue(StepZero(Repair), 3, w)
  <1>1. wpc = "step-zero" /\ job.work.task \in {"repair-now", "repair-scheduled"}
    BY DEF RepairStepZero, Go, WorkerFits
  <1>2. JobFits(job) /\ job \in Jobs
    BY DEF JobsFit, Types
  <1>3. Chain = Repair /\ job.key \in {ManualKey, ScheduledKey}
    BY <1>1, <1>2 DEF JobFits, Chain
  <1>4. WorkerCarries(Repair) /\ QueueCarries(Repair) = {}
    <2>1. WorkerCarries(Repair)
      BY <1>1, <1>3 DEF WorkerCarries
    <2> QED  BY <2>1, Constants DEF OneCarrier
  <1>5. StepZero(Repair) \in RunKeys
    BY KeysFit, Constants
  <1>6. Fresh(StepZero(Repair)) /\ StepZero(Repair).chain = Repair
    BY <1>3 DEF Fresh, StepZero, ManualKey, ScheduledKey, Key
  <1>7. Accepts(StepZero(Repair))
    BY <1>4, <1>5, <1>6, FreshIsAccepted
  <1>8. Payload("chunk", Repair, job.work.run, RepairDays, NoDay, 0) \in Payloads
    <2>1. RepairDays \in Seq(Days) /\ job.work.run \in RunIds \cup {NoRun}
      BY <1>2, JobParts, Constants
    <2> QED  BY <2>1, PayloadFits, Constants
  <1>9. wpc' = "finish" /\ Enqueue(StepZero(Repair), 3, Payload("chunk", Repair, job.work.run, RepairDays, NoDay, 0))
    BY <1>7 DEF RepairStepZero, Go
  <1> QED  BY <1>1, <1>3, <1>4, <1>5, <1>8, <1>9
-----------------------------------------------------------------------------
(* The rows of runs.                                                       *)

\* A set of numbers up to n has a largest one.
LEMMA MaxFacts ==
    ASSUME NEW n \in Nat, NEW S \in SUBSET (0..n), S # {}
    PROVE  Max(S) \in S /\ \A x \in S : x <= Max(S)
  <1> DEFINE T == {k \in Nat : \A x \in S : x <= k}
  <1>1. n \in T /\ T \subseteq Nat
    OBVIOUS
  <1>2. PICK m \in T : \A k \in T : ~(<<k, m>> \in OpToRel(<, Nat))
    BY <1>1, NatLessThanWellFounded, WFMin
  <1>3. \A k \in T : ~(k < m)
    BY <1>2 DEF OpToRel
  <1>4. m \in S
    <2>1. SUFFICES ASSUME m \notin S PROVE FALSE
      OBVIOUS
    <2>2. \A x \in S : x <= m /\ x # m /\ x \in Nat
      BY <2>1
    <2>3. m # 0
      <3>1. PICK y \in S : TRUE
        OBVIOUS
      <3> QED  BY <2>2, <3>1
    <2>4. m - 1 \in T
      BY <2>2, <2>3
    <2> QED  BY <1>3, <2>4
  <1>5. m \in S /\ \A x \in S : m >= x
    BY <1>4
  <1>6. Max(S) = CHOOSE x \in S : \A y \in S : x >= y
    BY DEF Max
  <1>7. Max(S) \in S /\ \A y \in S : Max(S) >= y
    BY <1>5, <1>6
  <1> QED  BY <1>7

\* The row that RouteInsert adds is a new one.
LEMMA Inserted ==
    ASSUME Types, RowsNumbered, RouteInsert
    PROVE  \E r \in RunIds :
              /\ rows[r] = "absent" /\ r <= requests /\ r # NoRun
              /\ rows' = [rows EXCEPT ![r] = "open"]
              /\ route' = [route EXCEPT !.pc = "enqueue", !.run = r]
  <1> DEFINE S == {0} \cup {q \in RunIds : rows[q] # "absent"}
  <1>1. route.pc = "insert" /\ requests \in Nat /\ requests <= MaxRequests /\ MaxRequests \in Nat
    BY RecoveryAssumption DEF RouteInsert, Types
  <1>2. requests > 0 /\ \A q \in RunIds : rows[q] # "absent" => q < requests
    BY <1>1 DEF RowsNumbered
  <1>3. S \in SUBSET (0..(requests - 1)) /\ S # {} /\ requests - 1 \in Nat
    BY <1>1, <1>2 DEF RunIds
  <1>4. Max(S) \in S /\ \A x \in S : x <= Max(S)
    BY <1>3, MaxFacts
  <1> DEFINE r == Max(S) + 1
  <1>5. r \in RunIds /\ r <= requests /\ rows[r] = "absent"
    BY <1>1, <1>3, <1>4 DEF RunIds
  <1>6. rows' = [rows EXCEPT ![r] = "open"] /\ route' = [route EXCEPT !.pc = "enqueue", !.run = r]
    BY DEF RouteInsert
  <1> HIDE DEF r
  <1> QED  BY <1>5, <1>6, Constants

\* _mark_run_status() writes one row at most, and only one that is committed.
LEMMA Marked ==
    ASSUME Types, NEW s \in {"running", "completed", "failed"}, NEW r, MarkRun(r, s)
    PROVE  /\ rows' \in [RunIds -> {"absent", "open", "queued", "running", "completed", "failed"}]
           /\ \A q \in RunIds : \/ rows'[q] = rows[q]
                                \/ /\ q = r /\ r # NoRun /\ rows'[q] = s
                                   /\ rows[q] \notin {"absent", "open"}
  BY DEF Types, MarkRun
-----------------------------------------------------------------------------
\* At the start nothing is queued, nothing runs and no row is there.
LEMMA InitInv == Init => Inv
  <1> SUFFICES ASSUME Init PROVE Inv
    OBVIOUS
  <1> USE DEF Init, BrokerInit
  <1>1. Types
    <2>1. route \in [pc : {"idle", "start", "insert", "enqueue", "commit", "undo", "delete"},
                     chain : Chains, run : RunIds \cup {NoRun}]
      BY Constants DEF NoRequest
    <2>2. chunk \in Chunks
      BY DEF NoChunk, Chunks
    <2>3. rows \in [RunIds -> {"absent", "open", "queued", "running", "completed", "failed"}]
      OBVIOUS
    <2> QED  BY <2>1, <2>2, <2>3, OtherFits, RecoveryAssumption DEF Types
  <1>2. SeenFits
    BY DEF SeenFits, NothingSeen
  <1>3. RowsNumbered
    BY DEF RowsNumbered, NoRequest
  <1>4. job.work = Other /\ job.work.task = "other" /\ job.work.run = NoRun /\ job.key = OtherKey
    BY OtherFits DEF NoJob
  <1>5. JobsFit /\ KeysAreOfJobs /\ WorkerFits
    BY <1>4 DEF JobsFit, JobFits, KeysAreOfJobs, WorkerFits, Handling, Ending
  <1>6. OneCarrier
    BY <1>4 DEF OneCarrier, RouteCarries, QueueCarries, WorkerCarries, NoRequest
  <1>7. RunsOwned
    BY <1>4 DEF RunsOwned, AtWork, NoRequest
  <1>8. Yields
    BY DEF Yields
  <1>9. Covers
    BY DEF Covers, NotBegunUnseen, QueueCovers, WorkerCovers, Handling
  <1> QED  BY <1>1, <1>2, <1>3, <1>5, <1>6, <1>7, <1>8, <1>9 DEF Inv

-----------------------------------------------------------------------------
\* The broker's part of the types after a job was added.
LEMMA EnqueuedTypes ==
    ASSUME Types, NEW k \in RunKeys, NEW p \in Priorities, NEW w \in Payloads, Enqueue(k, p, w)
    PROVE  queue' \subseteq Jobs /\ jobKeys' \subseteq RunKeys /\ inflight' \subseteq RunKeys
           /\ sequence' \in Nat
  <1>1. PICK new \in Jobs : queue' = queue \cup {new}
    BY Enqueued
  <1>2. jobKeys' = jobKeys \cup {k} /\ inflight' = inflight /\ sequence' \in Nat
    BY Enqueued
  <1> QED  BY <1>1, <1>2 DEF Types

\* The second look at failed filings leaves all but the worker's place and the
\* number of filings that are left as it is.
LEMMA Rechecked ==
    ASSUME Rechecks
    PROVE  /\ wpc \in {"revalidate", "recheck", "redeliver"}
           /\ wpc' \in {"recheck", "redeliver", "mark-completed"}
           /\ UNCHANGED <<queueVars, queue, activeRuns, watch, rows, routeVars, route, requests, job,
                          crashes, seen, steady, owed, stranded>>
           /\ overtaken' = overtaken \/ (wpc = "recheck" /\ Overtakes)
  <1>1. CASE Revalidate
    BY <1>1 DEF Revalidate, Go, queueVars, routeVars, historyVars
  <1>2. CASE Recheck
    BY <1>2 DEF Recheck, Go, queueVars, routeVars
  <1>3. CASE RecheckCommit \/ RecheckEnds
    BY <1>3 DEF RecheckCommit, RecheckEnds, WorkerSteps, Go, queueVars, routeVars, historyVars
  <1> QED  BY <1>1, <1>2, <1>3 DEF Rechecks

\* That number stays one.
LEMMA RechecksCount ==
    ASSUME chunk \in Chunks, Rechecks
    PROVE  chunk' \in Chunks
  <1>1. CASE Revalidate
    <2>1. PICK n \in 0..MaxFailed : chunk' = [chunk EXCEPT !.failed = n]
      BY <1>1 DEF Revalidate
    <2>2. n \in Nat
      BY RecoveryAssumption
    <2> QED  BY <2>1, <2>2 DEF Chunks
  <1>2. CASE Recheck
    <2>1. chunk.failed > 0 /\ chunk.failed \in Nat /\ chunk' = [chunk EXCEPT !.failed = @ - 1]
      BY <1>2 DEF Recheck, Chunks
    <2>2. chunk.failed - 1 \in Nat
      BY <2>1
    <2> QED  BY <2>1, <2>2 DEF Chunks
  <1>3. CASE RecheckCommit \/ RecheckEnds
    BY <1>3 DEF RecheckCommit, RecheckEnds, WorkerSteps
  <1> QED  BY <1>1, <1>2, <1>3 DEF Rechecks

\* Every step keeps the types.
LEMMA TypesStep == Inv /\ [Next]_vars => Types'
  <1> SUFFICES ASSUME Inv, [Next]_vars PROVE Types'
    OBVIOUS
  <1>0. Types /\ JobsFit /\ KeysAreOfJobs /\ WorkerFits /\ OneCarrier /\ RowsNumbered
    BY DEF Inv
  <1> DEFINE BrokerKept == UNCHANGED <<queue, jobKeys, inflight, sequence>>
             Pcs == {"idle", "start", "insert", "enqueue", "commit", "undo", "delete"}
             RouteType == [pc : Pcs, chain : Chains, run : RunIds \cup {NoRun}]
  <1>a. route \in RouteType /\ requests \in 0..MaxRequests /\ MaxRequests \in Nat
    BY <1>0, RecoveryAssumption DEF Types
  <1>b. NoRequest \in RouteType /\ \A c \in Chains : StartOf(c) \in RouteType
    BY Constants DEF NoRequest, StartOf
  <1>c. \A p \in Pcs : [route EXCEPT !.pc = p] \in RouteType
    BY <1>a
  <1> HIDE DEF RouteType
  <1>1. CASE Routes
    <2>1. ASSUME NEW next \in RouteType, Request(next) PROVE route' \in RouteType /\ requests' \in 0..MaxRequests
      BY <1>a, <2>1 DEF Request
    <2>2. route' \in RouteType /\ requests' \in 0..MaxRequests
      BY <1>1, <1>b, <2>1, Constants
      DEF Routes, RepairNow, BackfillNow, CreateEntry, ToggleEntry, DeleteEntry
    <2>3. watch' \in [Entries -> {"absent", "paused", "enabled"}]
      BY <1>0, <1>1
      DEF Types, Routes, RepairNow, BackfillNow, CreateEntry, ToggleEntry, DeleteEntry, SetWatch
    <2>4. BrokerKept /\ UNCHANGED <<activeRuns, rows, wpc, job, chunk>>
      BY <1>1 DEF Routes, RepairNow, BackfillNow, CreateEntry, ToggleEntry, DeleteEntry, Request,
                  queueVars, workerVars
    <2> QED  BY <1>0, <2>2, <2>3, <2>4 DEF Types, RouteType
  <1>2. CASE RouteStart \/ RouteRefused \/ RouteTimesOut \/ RouteUndo
    <2>1. route' \in RouteType
      BY <1>2, <1>b, <1>c DEF RouteStart, RouteRefused, RouteTimesOut, RouteUndo
    <2>2. activeRuns' \subseteq Chains
      BY <1>0, <1>2 DEF Types, RouteStart, StartRun, RouteRefused, RouteTimesOut, RouteUndo
    <2>3. BrokerKept /\ UNCHANGED <<watch, rows, wpc, job, chunk, requests>>
      BY <1>2 DEF RouteStart, RouteRefused, RouteTimesOut, RouteUndo, queueVars, workerVars
    <2> QED  BY <1>0, <2>1, <2>2, <2>3 DEF Types, RouteType
  <1>3. CASE RouteInsert
    <2>1. PICK r \in RunIds : /\ rows' = [rows EXCEPT ![r] = "open"]
                              /\ route' = [route EXCEPT !.pc = "enqueue", !.run = r]
      BY <1>0, <1>3, Inserted
    <2>2. route' \in RouteType
      BY <1>a, <2>1 DEF RouteType
    <2>3. BrokerKept /\ UNCHANGED <<activeRuns, watch, wpc, job, chunk, requests>>
      BY <1>3 DEF RouteInsert, queueVars, workerVars
    <2> QED  BY <1>0, <2>1, <2>2, <2>3 DEF Types, RouteType
  <1>4. CASE RouteEnqueue
    <2>1. route' \in RouteType
      BY <1>4, <1>c DEF RouteEnqueue
    <2>2. queue' \subseteq Jobs /\ jobKeys' \subseteq RunKeys /\ inflight' \subseteq RunKeys /\ sequence' \in Nat
      <3> DEFINE c == route.chain
                 key == IF c = Repair THEN ManualKey ELSE StepZero(c)
                 w == Payload(IF c = Repair THEN "repair-now" ELSE "chunk", c, route.run, <<>>, NoDay, 0)
      <3>1. c \in Chains /\ route.run \in RunIds \cup {NoRun}
        BY <1>a DEF RouteType
      <3>2. key \in RunKeys
        BY <3>1, KeysFit
      <3>3. w \in Payloads
        <4>1. <<>> \in Seq(Days)
          OBVIOUS
        <4> QED  BY <3>1, <4>1, PayloadFits
      <3>4. BrokerKept \/ Enqueue(key, 3, w)
        BY <1>4 DEF RouteEnqueue, queueVars
      <3>5. CASE BrokerKept
        BY <1>0, <3>5 DEF Types
      <3>6. CASE Enqueue(key, 3, w)
        <4> HIDE DEF key, w
        <4> QED  BY <1>0, <3>2, <3>3, <3>6, EnqueuedTypes DEF Priorities
      <3> QED  BY <3>4, <3>5, <3>6
    <2>3. UNCHANGED <<activeRuns, watch, rows, wpc, job, chunk, requests>>
      BY <1>4 DEF RouteEnqueue, workerVars
    <2> QED  BY <1>0, <2>1, <2>2, <2>3 DEF Types, RouteType
  <1>5. CASE RouteCommit \/ RouteDelete
    <2>1. rows' \in [RunIds -> {"absent", "open", "queued", "running", "completed", "failed"}]
      BY <1>0, <1>5 DEF Types, RouteCommit, RouteDelete
    <2>2. route' \in RouteType
      BY <1>5, <1>b DEF RouteCommit, RouteDelete
    <2>3. BrokerKept /\ UNCHANGED <<activeRuns, watch, wpc, job, chunk, requests>>
      BY <1>5 DEF RouteCommit, RouteDelete, queueVars, workerVars
    <2> QED  BY <1>0, <2>1, <2>2, <2>3 DEF Types, RouteType
  <1>6. CASE ScheduleRepair \/ OtherArrives
    <2>1. \E k \in RunKeys, p \in Priorities, w \in Payloads : Arrive(k, p, w)
      <3>1. <<>> \in Seq(Days)
        OBVIOUS
      <3>2. Payload("repair-scheduled", Repair, NoRun, <<>>, NoDay, 0) \in Payloads
        BY <3>1, PayloadFits, Constants
      <3> QED  BY <1>6, <3>2, KeysFit, OtherFits DEF ScheduleRepair, OtherArrives, Priorities
    <2>2. PICK k \in RunKeys, p \in Priorities, w \in Payloads : Arrive(k, p, w)
      BY <2>1
    <2>3. queue' \subseteq Jobs /\ jobKeys' \subseteq RunKeys /\ inflight' \subseteq RunKeys /\ sequence' \in Nat
      BY <1>0, <2>2, EnqueuedTypes DEF Arrive
    <2>4. requests' \in 0..MaxRequests
      BY <1>a, <2>2 DEF Arrive
    <2>5. UNCHANGED <<activeRuns, watch, rows, route, wpc, job, chunk>>
      BY <2>2 DEF Arrive, workerVars
    <2> QED  BY <1>0, <2>3, <2>4, <2>5 DEF Types
  <1>7. CASE WorkerPop
    <2>1. PICK j \in queue : /\ PopNext(j) /\ job' = j
                             /\ Go("idle", CASE j.work.task = "other" -> "process"
                                              [] j.work.task = "chunk" -> "begin"
                                              [] OTHER -> "orchestrate")
      BY <1>7 DEF WorkerPop
    <2>2. j \in Jobs /\ j.key \in RunKeys
      BY <1>0, JobParts DEF Types
    <2>3. wpc' \in {"process", "begin", "orchestrate"}
      BY <2>1 DEF Go
    <2>4. queue' \subseteq Jobs /\ jobKeys' \subseteq RunKeys /\ inflight' \subseteq RunKeys /\ sequence' \in Nat
      BY <1>0, <2>1, <2>2 DEF Types, PopNext
    <2>5. UNCHANGED <<activeRuns, watch, rows, route, requests, chunk>>
      BY <1>7 DEF WorkerPop, routeVars
    <2> QED  BY <1>0, <2>1, <2>2, <2>3, <2>4, <2>5 DEF Types
  <1>8. CASE Deliver \/ DeliverCommit \/ CheckUrgentWork \/ ChunkRaises
    <2>1. /\ wpc' \in {"deliver", "finish", "row", "mark-progress", "record-error"}
          /\ BrokerKept /\ UNCHANGED <<activeRuns, watch, rows, route, requests, job, chunk>>
      BY <1>8 DEF Deliver, DeliverCommit, CheckUrgentWork, ChunkRaises, WorkerSteps, Go, queueVars,
                  routeVars
    <2> QED  BY <1>0, <2>1 DEF Types, Handling, Ending
  <1>9. CASE WorkerComplete
    <2>1. NoChunk \in Chunks
      BY DEF NoChunk, Chunks
    <2>2. /\ wpc' = "idle" /\ UNCHANGED <<queue, jobKeys, sequence>> /\ inflight' \subseteq inflight
          /\ job' = NoJob /\ chunk' = NoChunk /\ UNCHANGED <<activeRuns, watch, rows, route, requests>>
      BY <1>9 DEF WorkerComplete, Go, Complete, routeVars
    <2> QED  BY <1>0, <2>1, <2>2, OtherFits DEF Types
  <1>10. CASE OrchestrateRepair
    <2>1. /\ wpc' \in {"mark-queued", "finish"} /\ activeRuns' \in {activeRuns, activeRuns \cup {Repair}}
          /\ BrokerKept /\ UNCHANGED <<watch, rows, route, requests, job, chunk>>
      BY <1>10 DEF OrchestrateRepair, StartRun, Go, queueVars, routeVars
    <2> QED  BY <1>0, <2>1, Constants DEF Types
  <1>11. CASE RepairMarkQueued \/ MarkProgress \/ MarkCompleted \/ MarkFailed
    <2>1. PICK s \in {"running", "completed", "failed"} : MarkRun(job.work.run, s)
      BY <1>11 DEF RepairMarkQueued, MarkProgress, MarkCompleted, MarkFailed, WorkerMarks
    <2>2. rows' \in [RunIds -> {"absent", "open", "queued", "running", "completed", "failed"}]
      BY <1>0, <2>1, Marked
    <2>3. /\ wpc' \in {"step-zero", "advance", "finish-run"}
          /\ BrokerKept /\ UNCHANGED <<activeRuns, watch, route, requests, job, chunk>>
      BY <1>11 DEF RepairMarkQueued, MarkProgress, MarkCompleted, MarkFailed, WorkerMarks, Go,
                   queueVars, routeVars
    <2> QED  BY <1>0, <2>2, <2>3 DEF Types, Handling, Ending
  <1>12. CASE RepairStepZero
    <2>1. /\ wpc' = "finish"
          /\ UNCHANGED <<activeRuns, watch, rows, route, requests, job, chunk>>
      BY <1>0, <1>12, RepairBegins DEF RepairStepZero, routeVars
    <2>2. queue' \subseteq Jobs /\ jobKeys' \subseteq RunKeys /\ inflight' \subseteq RunKeys /\ sequence' \in Nat
      BY <1>0, <1>12, RepairBegins, EnqueuedTypes DEF Priorities
    <2> QED  BY <1>0, <2>1, <2>2 DEF Types
  <1>13. CASE ChunkBegin
    <2>1. wpc' = "resolve" /\ chunk' \in Chunks
      BY <1>0, <1>13, Begins
    <2>2. BrokerKept /\ UNCHANGED <<activeRuns, watch, rows, route, requests, job>>
      BY <1>13 DEF ChunkBegin, queueVars, routeVars
    <2> QED  BY <1>0, <2>1, <2>2 DEF Types, Handling
  <1>14. CASE ResolveTargets \/ LoadIndex
    <2>1. chunk' \in Chunks
      <3>1. chunk \in Chunks
        BY <1>0 DEF Types
      <3>2. CASE ResolveTargets
        <4>1. chunk' = [chunk EXCEPT !.targets = Targets(Chain)] /\ Targets(Chain) \subseteq Entries
          BY <3>2 DEF ResolveTargets, Targets, Wanted
        <4> QED  BY <3>1, <4>1 DEF Chunks
      <3>3. CASE LoadIndex
        <4>1. chunk' = [chunk EXCEPT !.index = Filtered(chunk.day, chunk.targets)]
          BY <3>3 DEF LoadIndex
        <4>2. chunk.day \in Days
          <5>1. wpc = "load" /\ Chain \in Chains
            BY <1>0, <3>3, JobParts DEF LoadIndex, Go, Types, Chain
          <5> QED  BY <1>0, <5>1, Constants DEF WorkerFits, Handling
        <4>3. Filtered(chunk.day, chunk.targets) \subseteq Nat
          BY <4>2, RecoveryAssumption DEF Filtered
        <4> QED  BY <3>1, <4>1, <4>3 DEF Chunks
      <3> QED  BY <1>14, <3>2, <3>3
    <2>2. /\ wpc' \in {"mark-completed", "load", "check"}
          /\ BrokerKept /\ UNCHANGED <<activeRuns, watch, rows, route, requests, job>>
      BY <1>14 DEF ResolveTargets, LoadIndex, Go, queueVars, routeVars
    <2> QED  BY <1>0, <2>1, <2>2 DEF Types, Handling, Ending
  <1>15. CASE ProcessRow
    <2>1. chunk' \in Chunks
      <3>1. chunk \in Chunks /\ chunk' = [chunk EXCEPT !.taken = @ + 1]
        BY <1>0, <1>15 DEF ProcessRow, Types
      <3> QED  BY <3>1 DEF Chunks
    <2>2. queue' \subseteq Jobs /\ jobKeys' \subseteq RunKeys /\ inflight' \subseteq RunKeys /\ sequence' \in Nat
      <3>1. Enqueue(OtherKey, 1, Other) \/ BrokerKept
        BY <1>15 DEF ProcessRow, queueVars
      <3>2. CASE Enqueue(OtherKey, 1, Other)
        BY <1>0, <3>2, KeysFit, OtherFits, EnqueuedTypes DEF Priorities
      <3>3. CASE BrokerKept
        BY <1>0, <3>3 DEF Types
      <3> QED  BY <3>1, <3>2, <3>3
    <2>3. wpc' = "check" /\ UNCHANGED <<activeRuns, watch, rows, route, requests, job>>
      BY <1>15 DEF ProcessRow, Go, routeVars
    <2> QED  BY <1>0, <2>1, <2>2, <2>3 DEF Types, Handling
  <1>16. CASE Advance
    <2>1. UNCHANGED <<activeRuns, watch, rows, route, requests, job, chunk>>
      BY <1>16 DEF Advance, routeVars
    <2>2. \/ wpc' \in {"revalidate", "mark-completed"} /\ BrokerKept
          \/ wpc' = "finish" /\ \E k \in RunKeys, w \in Payloads : Enqueue(k, 3, w)
      BY <1>0, <1>16, Advances DEF queueVars
    <2>3. queue' \subseteq Jobs /\ jobKeys' \subseteq RunKeys /\ inflight' \subseteq RunKeys /\ sequence' \in Nat
      <3>1. CASE BrokerKept
        BY <1>0, <3>1 DEF Types
      <3>2. ASSUME NEW k \in RunKeys, NEW w \in Payloads, Enqueue(k, 3, w)
            PROVE  queue' \subseteq Jobs /\ jobKeys' \subseteq RunKeys /\ inflight' \subseteq RunKeys
                   /\ sequence' \in Nat
        BY <1>0, <3>2, EnqueuedTypes DEF Priorities
      <3> QED  BY <2>2, <3>1, <3>2
    <2>4. wpc' \in {"revalidate", "mark-completed", "finish"}
      BY <2>2
    <2> QED  BY <1>0, <2>1, <2>3, <2>4 DEF Types, Ending
  <1>20. CASE Rechecks
    <2>1. wpc' \in Ending /\ chunk' \in Chunks
      BY <1>0, <1>20, Rechecked, RechecksCount DEF Types, Ending
    <2>2. BrokerKept /\ UNCHANGED <<activeRuns, watch, rows, route, requests, job>>
      BY <1>20, Rechecked DEF queueVars
    <2> QED  BY <1>0, <2>1, <2>2 DEF Types
  <1>17. CASE RecordError \/ FinishRun
    <2>1. /\ wpc' \in {"mark-failed", "finish"} /\ activeRuns' \subseteq activeRuns
          /\ BrokerKept /\ UNCHANGED <<watch, rows, route, requests, job, chunk>>
      BY <1>17 DEF RecordError, FinishRun, Go, queueVars, routeVars
    <2> QED  BY <1>0, <2>1 DEF Types, Ending
  <1>18. CASE Crash
    <2>1. NoChunk \in Chunks
      BY DEF NoChunk, Chunks
    <2>2. rows' \in [RunIds -> {"absent", "open", "queued", "running", "completed", "failed"}]
      BY <1>0, <1>18 DEF Crash, Types
    <2>3. /\ queue' = {} /\ jobKeys' = {} /\ inflight' = {} /\ sequence' = 0 /\ activeRuns' = {}
          /\ route' = NoRequest /\ wpc' = "idle" /\ job' = NoJob /\ chunk' = NoChunk
          /\ UNCHANGED <<watch, requests>>
      BY <1>18 DEF Crash
    <2> QED  BY <1>0, <1>b, <2>1, <2>2, <2>3, OtherFits DEF Types, RouteType
  <1>19. CASE UNCHANGED vars
    BY <1>0, <1>19 DEF vars, queueVars, routeVars, workerVars, Types
  <1> QED
    BY <1>1, <1>2, <1>3, <1>4, <1>5, <1>6, <1>7, <1>8, <1>9, <1>10, <1>11, <1>12, <1>13, <1>14,
       <1>15, <1>16, <1>17, <1>18, <1>19, <1>20
    DEF Next, RouteSteps, Worker
-----------------------------------------------------------------------------
\* The routes and whoever enqueues work leave the worker alone, and it them.
LEMMA RoutesFrame ==
    ASSUME Routes \/ RouteSteps \/ ScheduleRepair \/ OtherArrives \/ UNCHANGED vars
    PROVE  /\ UNCHANGED <<wpc, job, chunk, seen, overtaken>>
           /\ requests' = requests \/ requests' = requests + 1
  <1>1. CASE Routes
    BY <1>1 DEF Routes, RepairNow, BackfillNow, CreateEntry, ToggleEntry, DeleteEntry, Request,
                workerVars
  <1>2. CASE RouteSteps
    BY <1>2 DEF RouteSteps, RouteStart, StartRun, RouteRefused, RouteInsert, RouteTimesOut,
                RouteEnqueue, RouteCommit, RouteUndo, RouteDelete, workerVars, historyVars
  <1>3. CASE ScheduleRepair \/ OtherArrives
    BY <1>3 DEF ScheduleRepair, OtherArrives, Arrive, workerVars, historyVars
  <1>4. CASE UNCHANGED vars
    BY <1>4 DEF vars, workerVars, routeVars, historyVars
  <1> QED  BY <1>1, <1>2, <1>3, <1>4

\* The worker leaves the watchlist and the requests alone.
LEMMA WorkerFrame ==
    ASSUME Worker
    PROVE  UNCHANGED <<watch, route, requests, stranded>>
  BY Rechecked DEF Worker, WorkerPop, Deliver, DeliverCommit, WorkerSteps, WorkerComplete, OrchestrateRepair,
         RepairMarkQueued, WorkerMarks, RepairStepZero, ChunkBegin, ResolveTargets, LoadIndex,
         CheckUrgentWork, ProcessRow, MarkProgress, Advance, MarkCompleted, ChunkRaises,
         RecordError, MarkFailed, FinishRun, routeVars, historyVars

\* The history of what was taken keeps its shape.
LEMMA SeenStep == Inv /\ [Next]_vars => SeenFits'
  <1> SUFFICES ASSUME Inv, [Next]_vars PROVE SeenFits'
    OBVIOUS
  <1>0. SeenFits
    BY DEF Inv
  <1>1. CASE UNCHANGED seen
    BY <1>0, <1>1 DEF SeenFits
  <1>2. CASE ProcessRow
    <2>1. PICK i : seen' = [seen EXCEPT ![Chain][chunk.day][i] = @ + 1]
      BY <1>2 DEF ProcessRow
    <2> QED  BY <1>0, <2>1 DEF SeenFits
  <1>3. CASE FinishRun
    BY <1>0, <1>3 DEF SeenFits, FinishRun, NothingSeen
  <1>4. CASE Crash
    BY <1>4 DEF SeenFits, Crash, NothingSeen
  <1>5. Worker => UNCHANGED seen \/ ProcessRow \/ FinishRun
    BY Rechecked DEF Worker, WorkerPop, Deliver, DeliverCommit, WorkerSteps, WorkerComplete, OrchestrateRepair,
           StartRun, RepairMarkQueued, WorkerMarks, RepairStepZero, ChunkBegin, ResolveTargets,
           LoadIndex, CheckUrgentWork, MarkProgress, Advance, MarkCompleted, ChunkRaises,
           RecordError, MarkFailed, historyVars
  <1> QED  BY <1>1, <1>2, <1>3, <1>4, <1>5, RoutesFrame DEF Next

\* Rows are numbered by the requests.
LEMMA NumbersStep == Inv /\ [Next]_vars => RowsNumbered'
  <1> SUFFICES ASSUME Inv, [Next]_vars PROVE RowsNumbered'
    OBVIOUS
  <1>0. RowsNumbered /\ Types
    BY DEF Inv
  <1>a. requests \in Nat /\ \A r \in RunIds : r \in Nat
    BY <1>0 DEF Types, RunIds
  <1>1. CASE Routes
    <2>1. requests' = requests + 1 /\ rows' = rows
      BY <1>1 DEF Routes, RepairNow, BackfillNow, CreateEntry, ToggleEntry, DeleteEntry, Request
    <2> QED  BY <1>0, <1>a, <2>1 DEF RowsNumbered
  <1>2. CASE RouteStart \/ RouteRefused \/ RouteTimesOut \/ RouteUndo \/ RouteEnqueue
    <2>1. UNCHANGED <<requests, rows>> /\ (route'.pc \in {"start", "insert"} => route.pc = "start")
      BY <1>0, <1>2 DEF Types, RouteStart, RouteRefused, RouteTimesOut, RouteUndo, RouteEnqueue, NoRequest
    <2> QED  BY <1>0, <2>1 DEF RowsNumbered
  <1>3. CASE RouteInsert
    <2>1. PICK r \in RunIds : /\ r <= requests /\ rows' = [rows EXCEPT ![r] = "open"]
                              /\ route' = [route EXCEPT !.pc = "enqueue", !.run = r]
      BY <1>0, <1>3, Inserted
    <2>2. route'.pc = "enqueue" /\ requests' = requests
      BY <1>0, <1>3, <2>1 DEF Types, RouteInsert
    <2>3. \A q \in RunIds : rows'[q] # "absent" => q = r \/ rows[q] # "absent"
      BY <1>0, <2>1 DEF Types
    <2> QED  BY <1>0, <2>1, <2>2, <2>3 DEF RowsNumbered
  <1>4. CASE RouteCommit \/ RouteDelete
    <2>1. requests' = requests /\ route'.pc = "idle" /\ route.run \in RunIds
      <3>1. route.run \in RunIds
        BY <1>4 DEF Inv, RunsOwned, RouteCommit, RouteDelete
      <3> QED  BY <1>4, <3>1 DEF RouteCommit, RouteDelete, NoRequest
    <2>2. rows[route.run] # "absent"
      BY <1>4 DEF Inv, RunsOwned, RouteCommit, RouteDelete
    <2>3. \A q \in RunIds : rows'[q] # "absent" => rows[q] # "absent"
      BY <1>0, <1>4, <2>1, <2>2 DEF Types, RouteCommit, RouteDelete
    <2> QED  BY <1>0, <2>1, <2>3 DEF RowsNumbered
  <1>5. CASE ScheduleRepair \/ OtherArrives
    <2>1. requests' = requests + 1 /\ UNCHANGED <<rows, route>>
      BY <1>5 DEF ScheduleRepair, OtherArrives, Arrive
    <2> QED  BY <1>0, <1>a, <2>1 DEF RowsNumbered
  <1>6. CASE Worker
    <2>1. UNCHANGED <<route, requests>>
      BY <1>6, WorkerFrame
    <2>2. CASE RepairMarkQueued \/ MarkProgress \/ MarkCompleted \/ MarkFailed
      <3>1. PICK s \in {"running", "completed", "failed"} : MarkRun(job.work.run, s)
        BY <2>2 DEF RepairMarkQueued, MarkProgress, MarkCompleted, MarkFailed, WorkerMarks
      <3>2. \A q \in RunIds : rows'[q] # "absent" => rows[q] # "absent"
        BY <1>0, <3>1, Marked
      <3> QED  BY <1>0, <2>1, <3>2 DEF RowsNumbered
    <2>3. CASE UNCHANGED rows
      BY <1>0, <2>1, <2>3 DEF RowsNumbered
    <2> QED
      BY <1>6, <2>2, <2>3, Rechecked
      DEF Worker, WorkerPop, Deliver, DeliverCommit, WorkerSteps, WorkerComplete, OrchestrateRepair,
          RepairStepZero, ChunkBegin, ResolveTargets, LoadIndex, CheckUrgentWork, ProcessRow,
          Advance, ChunkRaises, RecordError, FinishRun
  <1>7. CASE Crash
    <2>1. /\ requests' = requests /\ route'.pc = "idle"
          /\ \A q \in RunIds : rows'[q] # "absent" => rows[q] # "absent"
      BY <1>7 DEF Crash, NoRequest
    <2> QED  BY <1>0, <2>1 DEF RowsNumbered
  <1>8. CASE UNCHANGED vars
    BY <1>0, <1>8 DEF RowsNumbered, vars, routeVars
  <1> QED  BY <1>1, <1>2, <1>3, <1>4, <1>5, <1>6, <1>7, <1>8 DEF Next, RouteSteps
-----------------------------------------------------------------------------
(* Jobs and keys.                                                          *)

\* A job that joins the queue fits, and so does its key.
LEMMA JobJoins ==
    ASSUME Types, JobsFit, KeysAreOfJobs, NEW k \in RunKeys, NEW p \in Priorities,
           NEW w \in Payloads, Enqueue(k, p, w),
           \A j \in Jobs : j.key = k /\ j.work = w => JobFits(j),
           job' = job, wpc' # "idle" \/ wpc' = wpc
    PROVE  JobsFit' /\ KeysAreOfJobs'
  <1>1. PICK new \in Jobs : new.key = k /\ new.work = w /\ queue' = queue \cup {new}
    BY Enqueued
  <1>2. jobKeys' = jobKeys \cup {k} /\ inflight' = inflight
    BY Enqueued
  <1>3. JobFits(new) /\ JobFits(job)
    BY <1>1 DEF JobsFit
  <1>4. JobsFit'
    BY <1>1, <1>3 DEF JobsFit
  <1>5. KeysAreOfJobs'
    BY <1>1, <1>2 DEF KeysAreOfJobs
  <1> QED  BY <1>4, <1>5

\* The first chunk of a backfill or of a repair.
LEMMA FirstChunkFits ==
    ASSUME NEW j, NEW c \in Chains, NEW r, NEW remaining,
           remaining = IF c = Repair THEN RepairDays ELSE <<>>,
           j.key = StepZero(c), j.work = Payload("chunk", c, r, remaining, NoDay, 0)
    PROVE  JobFits(j)
  <1>1. /\ j.work.task = "chunk" /\ j.work.chain = c /\ j.work.day = NoDay /\ j.work.offset = 0
        /\ j.work.remaining = remaining
    BY DEF Payload
  <1>2. IsInjective(remaining) /\ ToSet(remaining) \subseteq ToSet(DaysOf(c))
    <2>1. CASE c = Repair
      BY <2>1, Constants
    <2>2. CASE c # Repair
      BY <2>2 DEF IsInjective, ToSet
    <2> QED  BY <2>1, <2>2
  <1>3. ChunkFits(j)
    BY <1>1, <1>2 DEF ChunkFits
  <1> QED  BY <1>1, <1>3 DEF JobFits

\* The successor of a chunk.
LEMMA NextChunkFits ==
    ASSUME NEW j, NEW c, NEW r, NEW remaining, NEW d, NEW n,
           IsInjective(remaining), ToSet(remaining) \subseteq ToSet(DaysOf(c)),
           j.work = Payload("chunk", c, r, remaining, d, n),
           \/ d \in ToSet(DaysOf(c)) \ ToSet(remaining) /\ j.key = Key(c, "offset", d, n)
           \/ d = NoDay /\ n = 0 /\ remaining # <<>> /\ j.key = Key(c, "next-day", Head(remaining), 0)
    PROVE  JobFits(j)
  <1>1. /\ j.work.task = "chunk" /\ j.work.chain = c /\ j.work.day = d /\ j.work.offset = n
        /\ j.work.remaining = remaining
    BY DEF Payload
  <1>2. ChunkFits(j)
    BY <1>1 DEF ChunkFits
  <1> QED  BY <1>1, <1>2 DEF JobFits

\* The job of urgent work fits.
LEMMA OtherJobFits ==
    ASSUME NEW j, j.key = OtherKey, j.work = Other
    PROVE  JobFits(j)
  BY OtherFits DEF JobFits

\* Every step keeps what keys tell of payloads, and which keys are refused.
LEMMA JobsStep == Inv /\ [Next]_vars => JobsFit' /\ KeysAreOfJobs'
  <1> SUFFICES ASSUME Inv, [Next]_vars PROVE JobsFit' /\ KeysAreOfJobs'
    OBVIOUS
  <1>0. Types /\ JobsFit /\ KeysAreOfJobs /\ WorkerFits /\ OneCarrier
    BY DEF Inv
  <1>1. CASE UNCHANGED <<queueVars, job>> /\ (wpc' # "idle" \/ wpc' = wpc)
    BY <1>0, <1>1 DEF queueVars, JobsFit, KeysAreOfJobs
  <1>2. CASE RouteEnqueue
    <2> DEFINE c == route.chain
               key == IF c = Repair THEN ManualKey ELSE StepZero(c)
               task == IF c = Repair THEN "repair-now" ELSE "chunk"
               w == Payload(task, c, route.run, <<>>, NoDay, 0)
    <2>1. c \in Chains /\ route.run \in RunIds \cup {NoRun}
      BY <1>0 DEF Types
    <2>2. key \in RunKeys
      BY <2>1, KeysFit
    <2>3. w \in Payloads
      <3>1. <<>> \in Seq(Days)
        OBVIOUS
      <3> QED  BY <2>1, <3>1, PayloadFits
    <2>4. UNCHANGED <<wpc, job>>
      BY <1>2 DEF RouteEnqueue, workerVars
    <2>5. ASSUME NEW j \in Jobs, j.key = key, j.work = w PROVE JobFits(j)
      <3>1. CASE c = Repair
        BY <2>5, <3>1 DEF Payload, JobFits
      <3>2. CASE c # Repair
        BY <2>1, <2>5, <3>2, FirstChunkFits
      <3> QED  BY <3>1, <3>2
    <2>6. UNCHANGED queueVars \/ Enqueue(key, 3, w)
      BY <1>2 DEF RouteEnqueue
    <2> HIDE DEF key, w
    <2>7. CASE Enqueue(key, 3, w)
      <3>1. 3 \in Priorities
        BY DEF Priorities
      <3> QED  BY <1>0, <2>2, <2>3, <2>4, <2>5, <2>7, <3>1, JobJoins
    <2> QED  BY <1>1, <2>4, <2>6, <2>7
  <1>3. CASE ScheduleRepair \/ OtherArrives
    <2>1. UNCHANGED <<wpc, job>>
      BY <1>3, RoutesFrame
    <2>2. 1 \in Priorities /\ 3 \in Priorities
      BY DEF Priorities
    <2>3. CASE ScheduleRepair
      <3> DEFINE w == Payload("repair-scheduled", Repair, NoRun, <<>>, NoDay, 0)
      <3>1. <<>> \in Seq(Days)
        OBVIOUS
      <3>2. w \in Payloads
        BY <3>1, PayloadFits, Constants
      <3>3. \A j \in Jobs : j.key = ScheduledKey /\ j.work = w => JobFits(j)
        BY DEF Payload, JobFits
      <3>4. Enqueue(ScheduledKey, 3, w)
        BY <2>3 DEF ScheduleRepair, Arrive
      <3> HIDE DEF w
      <3> QED  BY <1>0, <2>1, <2>2, <3>2, <3>3, <3>4, KeysFit, JobJoins
    <2>4. CASE OtherArrives
      <3>1. Enqueue(OtherKey, 1, Other)
        BY <2>4 DEF OtherArrives, Arrive
      <3> QED  BY <1>0, <2>1, <2>2, <3>1, KeysFit, OtherFits, OtherJobFits, JobJoins
    <2> QED  BY <1>3, <2>3, <2>4
  <1>4. CASE WorkerPop
    <2>1. PICK j \in queue : PopNext(j) /\ job' = j
      BY <1>4 DEF WorkerPop
    <2>2. wpc = "idle" /\ wpc' # "idle"
      BY <1>4 DEF WorkerPop, Go
    <2>3. /\ queue' = queue \ {j} /\ jobKeys' = jobKeys \ {j.key} /\ inflight' = inflight \cup {j.key}
      BY <2>1 DEF PopNext
    <2>4. inflight = {}
      BY <1>0, <2>2 DEF KeysAreOfJobs
    <2>5. JobFits(j) /\ \A i \in queue' : JobFits(i)
      BY <1>0, <2>3 DEF JobsFit
    <2>6. JobsFit'
      BY <2>1, <2>5 DEF JobsFit
    <2>7. \A k \in jobKeys' : \E i \in queue' : i.key = k
      BY <1>0, <2>3 DEF KeysAreOfJobs
    <2>8. KeysAreOfJobs'
      BY <2>1, <2>2, <2>3, <2>4, <2>7 DEF KeysAreOfJobs
    <2> QED  BY <2>6, <2>8
  <1>5. CASE WorkerComplete
    <2>1. /\ job' = NoJob /\ UNCHANGED <<queue, jobKeys>> /\ inflight' = inflight \ {job.key}
      BY <1>5 DEF WorkerComplete, Complete
    <2>2. inflight' = {}
      BY <1>0, <2>1 DEF KeysAreOfJobs
    <2>3. JobFits(NoJob)
      BY OtherJobFits DEF NoJob
    <2>4. JobsFit'
      BY <1>0, <2>1, <2>3 DEF JobsFit
    <2> QED  BY <1>0, <2>1, <2>2, <2>4 DEF KeysAreOfJobs
  <1>6. CASE RepairStepZero
    <2> DEFINE w == Payload("chunk", Repair, job.work.run, RepairDays, NoDay, 0)
    <2>1. /\ wpc' = "finish" /\ StepZero(Repair) \in RunKeys /\ w \in Payloads
          /\ Enqueue(StepZero(Repair), 3, w)
      BY <1>0, <1>6, RepairBegins
    <2>2. job' = job
      BY <1>6 DEF RepairStepZero
    <2>3. ASSUME NEW j \in Jobs, j.key = StepZero(Repair), j.work = w PROVE JobFits(j)
      BY <2>3, FirstChunkFits, Constants
    <2>4. 3 \in Priorities
      BY DEF Priorities
    <2> HIDE DEF w
    <2> QED  BY <1>0, <2>1, <2>2, <2>3, <2>4, JobJoins
  <1>7. CASE ProcessRow
    <2>1. UNCHANGED queueVars \/ Enqueue(OtherKey, 1, Other)
      BY <1>7 DEF ProcessRow
    <2>2. job' = job /\ wpc' = "check"
      BY <1>7 DEF ProcessRow, Go
    <2>3. 1 \in Priorities
      BY DEF Priorities
    <2>4. CASE Enqueue(OtherKey, 1, Other)
      BY <1>0, <2>2, <2>3, <2>4, KeysFit, OtherFits, OtherJobFits, JobJoins
    <2> QED  BY <1>1, <2>1, <2>2, <2>4
  <1>8. CASE Advance
    <2> DEFINE next == chunk.offset + chunk.taken
               Work1(d, n) == Payload("chunk", Chain, job.work.run, chunk.remaining, d, n)
    <2>1. job' = job
      BY <1>8 DEF Advance
    <2>2. /\ IsInjective(chunk.remaining) /\ ToSet(chunk.remaining) \subseteq ToSet(DaysOf(Chain))
          /\ chunk.day \in ToSet(DaysOf(Chain)) \ ToSet(chunk.remaining)
      BY <1>0, <1>8 DEF WorkerFits, Handling, Advance, Go
    <2>3. 3 \in Priorities
      BY DEF Priorities
    <2>4. ASSUME NEW k \in RunKeys, NEW d, NEW n, Work1(d, n) \in Payloads, wpc' = "finish",
                 Enqueue(k, 3, Work1(d, n)),
                 \/ d \in ToSet(DaysOf(Chain)) \ ToSet(chunk.remaining) /\ k = Key(Chain, "offset", d, n)
                 \/ /\ d = NoDay /\ n = 0 /\ chunk.remaining # <<>>
                    /\ k = Key(Chain, "next-day", Head(chunk.remaining), 0)
          PROVE  JobsFit' /\ KeysAreOfJobs'
      <3>1. \A j \in Jobs : j.key = k /\ j.work = Work1(d, n) => JobFits(j)
        BY <2>2, <2>4, NextChunkFits
      <3> HIDE DEF Work1
      <3> QED  BY <1>0, <2>1, <2>3, <2>4, <3>1, JobJoins
    <2>5. \/ wpc' \in {"revalidate", "mark-completed"} /\ UNCHANGED queueVars
          \/ /\ wpc' = "finish" /\ Key(Chain, "offset", chunk.day, next) \in RunKeys
             /\ Work1(chunk.day, next) \in Payloads
             /\ Enqueue(Key(Chain, "offset", chunk.day, next), 3, Work1(chunk.day, next))
          \/ /\ wpc' = "finish" /\ Key(Chain, "next-day", Head(chunk.remaining), 0) \in RunKeys
             /\ chunk.remaining # <<>> /\ Work1(NoDay, 0) \in Payloads
             /\ Enqueue(Key(Chain, "next-day", Head(chunk.remaining), 0), 3, Work1(NoDay, 0))
      BY <1>0, <1>8, Advances
    <2> HIDE DEF Work1
    <2> QED  BY <1>1, <2>1, <2>2, <2>4, <2>5
  <1>9. CASE Crash
    <2>1. queue' = {} /\ jobKeys' = {} /\ inflight' = {} /\ job' = NoJob
      BY <1>9 DEF Crash
    <2>2. JobFits(NoJob)
      BY OtherJobFits DEF NoJob
    <2> QED  BY <2>1, <2>2 DEF JobsFit, KeysAreOfJobs
  <1>10. CASE \/ Routes \/ RouteStart \/ RouteRefused \/ RouteInsert \/ RouteTimesOut \/ RouteCommit
              \/ RouteUndo \/ RouteDelete \/ UNCHANGED vars
    <2>1. UNCHANGED <<wpc, job>>
      BY <1>10, RoutesFrame DEF RouteSteps
    <2>2. UNCHANGED queueVars
      BY <1>10 DEF Routes, RepairNow, BackfillNow, CreateEntry, ToggleEntry, DeleteEntry, Request,
                   RouteStart, RouteRefused, RouteInsert, RouteTimesOut, RouteCommit, RouteUndo,
                   RouteDelete, vars
    <2> QED  BY <1>1, <2>1, <2>2
  <1>12. CASE Rechecks
    <2>1. UNCHANGED <<queueVars, job>> /\ wpc' \in {"recheck", "redeliver", "mark-completed"}
      BY <1>12, Rechecked
    <2>2. wpc' # "idle"
      BY <2>1
    <2> QED  BY <1>1, <2>1, <2>2
  <1>11. CASE \/ Deliver \/ DeliverCommit \/ OrchestrateRepair \/ RepairMarkQueued \/ ChunkBegin
              \/ ResolveTargets \/ LoadIndex \/ CheckUrgentWork \/ MarkProgress \/ MarkCompleted
              \/ ChunkRaises \/ RecordError \/ MarkFailed \/ FinishRun
    <2>1. UNCHANGED <<queueVars, job>> /\ wpc' # "idle"
      BY <1>11 DEF Deliver, DeliverCommit, WorkerSteps, OrchestrateRepair, RepairMarkQueued,
                   WorkerMarks, ChunkBegin, ResolveTargets, LoadIndex, CheckUrgentWork,
                   MarkProgress, MarkCompleted, ChunkRaises, RecordError, MarkFailed, FinishRun, Go,
                   EndOfRun
    <2> QED  BY <1>1, <2>1
  <1> QED
    BY <1>2, <1>3, <1>4, <1>5, <1>6, <1>7, <1>8, <1>9, <1>10, <1>11, <1>12
    DEF Next, RouteSteps, Worker
-----------------------------------------------------------------------------
(* The worker.                                                             *)

\* Every step keeps what the worker's place tells of its job and chunk.
LEMMA WorkerFitsStep == Inv /\ [Next]_vars => WorkerFits'
  <1> SUFFICES ASSUME Inv, [Next]_vars PROVE WorkerFits'
    OBVIOUS
  <1>0. Types /\ JobsFit /\ KeysAreOfJobs /\ WorkerFits /\ OneCarrier
    BY DEF Inv
  <1>a. chunk \in Chunks /\ chunk.offset \in Nat /\ chunk.taken \in Nat /\ ChunkSize \in Nat \ {0}
    BY <1>0, RecoveryAssumption DEF Types, Chunks
  <1>1. CASE UNCHANGED <<wpc, job, chunk>>
    BY <1>0, <1>1 DEF WorkerFits, Chain
  <1>2. CASE wpc' \in {"idle", "finish"}
    BY <1>2 DEF WorkerFits, Handling, Ending
  <1>3. CASE WorkerPop
    <2>1. PICK j \in queue : /\ job' = j
                             /\ Go("idle", CASE j.work.task = "other" -> "process"
                                              [] j.work.task = "chunk" -> "begin"
                                              [] OTHER -> "orchestrate")
      BY <1>3 DEF WorkerPop
    <2>2. j.work.task \in {"repair-now", "repair-scheduled", "chunk", "other"}
      BY <1>0, JobParts DEF Types
    <2>3. \/ wpc' = "process" /\ job'.work.task = "other"
          \/ wpc' = "begin" /\ job'.work.task = "chunk"
          \/ wpc' = "orchestrate" /\ job'.work.task \in {"repair-now", "repair-scheduled"}
      BY <2>1, <2>2 DEF Go
    <2> QED  BY <2>3 DEF WorkerFits, Handling, Ending
  <1>4. CASE Deliver \/ RepairMarkQueued \/ (OrchestrateRepair /\ wpc' # "finish")
    <2>1. /\ job' = job
          /\ \/ wpc = "process" /\ wpc' = "deliver"
             \/ wpc = "mark-queued" /\ wpc' = "step-zero"
             \/ wpc = "orchestrate" /\ wpc' = "mark-queued"
      BY <1>4 DEF Deliver, WorkerSteps, RepairMarkQueued, WorkerMarks, OrchestrateRepair, Go
    <2> QED  BY <1>0, <2>1 DEF WorkerFits, Handling, Ending
  <1>5. CASE /\ job' = job /\ wpc' \in Ending
             /\ job.work.task = "chunk"
    BY <1>5 DEF WorkerFits, Handling, Ending
  <1>6. CASE ChunkBegin
    <2> DEFINE w == job.work
               ahead == DaysAhead(w)
    <2>1. /\ wpc' = "resolve" /\ w.task = "chunk" /\ job' = job
          /\ ahead \in Seq(Days) /\ IsInjective(ahead) /\ ToSet(ahead) \subseteq ToSet(DaysOf(w.chain))
          /\ chunk'.taken = 0
      BY <1>0, <1>6, Begins DEF ChunkBegin
    <2>2. \/ /\ ahead # <<>>
             /\ chunk'.day = Head(ahead) /\ chunk'.remaining = Tail(ahead)
             /\ job.key \in {StepZero(w.chain), Key(w.chain, "next-day", Head(ahead), 0)}
          \/ /\ w.day \in ToSet(DaysOf(w.chain)) \ ToSet(w.remaining)
             /\ ahead = w.remaining
             /\ chunk'.day = w.day /\ chunk'.remaining = w.remaining
             /\ chunk'.offset = w.offset
             /\ job.key = Key(w.chain, "offset", w.day, w.offset)
      BY <1>0, <1>6, Begins
    <2>3. /\ chunk'.day \in ToSet(DaysOf(w.chain)) \ ToSet(chunk'.remaining)
          /\ ToSet(chunk'.remaining) \subseteq ToSet(DaysOf(w.chain)) /\ IsInjective(chunk'.remaining)
          /\ job.key \in {StepZero(w.chain), Key(w.chain, "next-day", chunk'.day, 0),
                          Key(w.chain, "offset", chunk'.day, chunk'.offset)}
      <3> HIDE DEF w, ahead
      <3>1. CASE ahead # <<>> /\ chunk'.day = Head(ahead) /\ chunk'.remaining = Tail(ahead)
                 /\ job.key \in {StepZero(w.chain), Key(w.chain, "next-day", Head(ahead), 0)}
        <4>1. /\ Head(ahead) \in ToSet(ahead) /\ IsInjective(Tail(ahead))
              /\ ToSet(Tail(ahead)) = ToSet(ahead) \ {Head(ahead)}
          BY <2>1, <3>1, HeadAndTail
        <4> QED  BY <2>1, <3>1, <4>1
      <3>2. CASE /\ w.day \in ToSet(DaysOf(w.chain)) \ ToSet(w.remaining)
                 /\ ahead = w.remaining
                 /\ chunk'.day = w.day /\ chunk'.remaining = w.remaining
                 /\ chunk'.offset = w.offset
                 /\ job.key = Key(w.chain, "offset", w.day, w.offset)
        BY <2>1, <3>2
      <3> QED  BY <2>2, <3>1, <3>2
    <2> QED  BY <2>1, <2>3 DEF WorkerFits, Handling, Ending, Chain
  <1>7. CASE ResolveTargets \/ LoadIndex \/ CheckUrgentWork \/ ProcessRow \/ MarkProgress
    <2>1. wpc \in Handling /\ job' = job
      BY <1>7 DEF ResolveTargets, LoadIndex, CheckUrgentWork, WorkerSteps, ProcessRow, MarkProgress,
                  WorkerMarks, Go, Handling
    <2>2. chunk'.day = chunk.day /\ chunk'.remaining = chunk.remaining /\ chunk'.offset = chunk.offset
      BY <1>7, <1>a DEF Chunks, ResolveTargets, LoadIndex, CheckUrgentWork, WorkerSteps, ProcessRow,
                        MarkProgress, WorkerMarks
    <2>3. wpc' \in {"load", "check", "row", "mark-progress", "advance", "mark-completed"}
      BY <1>7 DEF ResolveTargets, LoadIndex, CheckUrgentWork, WorkerSteps, ProcessRow, MarkProgress,
                  WorkerMarks, Go
    <2>4. wpc' \in {"resolve", "load"} => chunk'.taken = 0
      <3>1. CASE ResolveTargets
        BY <1>0, <1>a, <3>1 DEF ResolveTargets, Go, WorkerFits, Chunks
      <3>2. CASE ~ResolveTargets
        BY <1>7, <3>2 DEF LoadIndex, CheckUrgentWork, WorkerSteps, ProcessRow, MarkProgress,
                          WorkerMarks, Go
      <3> QED  BY <3>1, <3>2
    <2>5. wpc' \in {"mark-progress", "advance"} /\ chunk'.taken = 0 =>
             ~(chunk'.offset < Cardinality(chunk'.index))
      <3>1. CASE MarkProgress
        BY <1>0, <3>1 DEF MarkProgress, WorkerMarks, Go, WorkerFits
      <3>2. CASE CheckUrgentWork
        <4>1. chunk' = chunk
          BY <3>2 DEF CheckUrgentWork, WorkerSteps
        <4>2. ASSUME wpc' = "mark-progress", chunk.taken = 0
              PROVE  ~(chunk.offset < Cardinality(chunk.index))
          <5>1. ~(chunk.taken < ChunkSize /\ chunk.offset + chunk.taken < Cardinality(chunk.index))
            <6>1. ~(chunk.taken > 0)
              BY <4>2
            <6> QED  BY <3>2, <4>2, <6>1 DEF CheckUrgentWork, WorkerSteps, Go
          <5>2. chunk.taken < ChunkSize /\ chunk.offset + chunk.taken = chunk.offset
            BY <1>a, <4>2
          <5> QED  BY <5>1, <5>2
        <4>3. wpc' # "advance"
          BY <3>2 DEF CheckUrgentWork, WorkerSteps, Go
        <4> QED  BY <4>1, <4>2, <4>3
      <3>3. CASE ResolveTargets \/ LoadIndex \/ ProcessRow
        BY <3>3 DEF ResolveTargets, LoadIndex, ProcessRow, Go
      <3> QED  BY <1>7, <3>1, <3>2, <3>3
    <2>6. /\ job'.work.task = "chunk" /\ Chain' = Chain
          /\ chunk'.day \in ToSet(DaysOf(Chain)) \ ToSet(chunk'.remaining)
          /\ ToSet(chunk'.remaining) \subseteq ToSet(DaysOf(Chain)) /\ IsInjective(chunk'.remaining)
          /\ job'.key \in {StepZero(Chain), Key(Chain, "next-day", chunk'.day, 0),
                           Key(Chain, "offset", chunk'.day, chunk'.offset)}
      BY <1>0, <2>1, <2>2 DEF WorkerFits, Chain
    <2> QED  BY <2>3, <2>4, <2>5, <2>6 DEF WorkerFits, Handling, Ending
  <1>8. CASE RepairStepZero
    BY <1>0, <1>2, <1>8, RepairBegins
  <1>9. CASE Advance
    <2>1. job' = job /\ job.work.task = "chunk" /\ wpc' \in {"finish", "revalidate", "mark-completed"}
      BY <1>0, <1>9, Advances DEF Advance
    <2> QED  BY <1>2, <1>5, <2>1 DEF Ending
  <1>10. CASE MarkCompleted \/ ChunkRaises \/ RecordError \/ MarkFailed
    <2>1. job' = job /\ wpc' \in Ending
      BY <1>10 DEF MarkCompleted, ChunkRaises, RecordError, MarkFailed, WorkerSteps, WorkerMarks, Go,
                   Ending
    <2>2. job.work.task = "chunk"
      BY <1>0, <1>10 DEF WorkerFits, MarkCompleted, ChunkRaises, RecordError, MarkFailed, WorkerMarks,
                         Go, Ending
    <2> QED  BY <1>5, <2>1, <2>2
  <1>13. CASE Rechecks
    <2>1. job' = job /\ wpc \in Ending /\ wpc' \in Ending
      BY <1>13, Rechecked DEF Ending
    <2> QED  BY <1>0, <1>5, <2>1 DEF WorkerFits
  <1>11. CASE WorkerComplete \/ DeliverCommit \/ FinishRun \/ Crash \/ (OrchestrateRepair /\ wpc' = "finish")
    BY <1>2, <1>11 DEF WorkerComplete, DeliverCommit, WorkerSteps, FinishRun, Go, Crash
  <1>12. CASE Routes \/ RouteSteps \/ ScheduleRepair \/ OtherArrives \/ UNCHANGED vars
    BY <1>1, <1>12, RoutesFrame
  <1> QED
    BY <1>3, <1>4, <1>6, <1>7, <1>8, <1>9, <1>10, <1>11, <1>12, <1>13 DEF Next, Worker
-----------------------------------------------------------------------------
(* Who answers for a run key.                                              *)

Carries(w) == w.task \in {"repair-now", "chunk"}

\* A job that carries nothing changes no chain's carriers.
LEMMA QueueCarriesKept ==
    ASSUME Types, NEW k \in RunKeys, NEW p \in Priorities, NEW w \in Payloads, Enqueue(k, p, w),
           ~Carries(w)
    PROVE  \A c : QueueCarries(c)' = QueueCarries(c)
  <1>1. PICK new \in Jobs : new.work = w /\ queue' = queue \cup {new}
    BY Enqueued
  <1> QED  BY <1>1 DEF QueueCarries, Carries

\* Where nobody hands anything on, carriers stay.
LEMMA CarriersKept ==
    ASSUME OneCarrier, UNCHANGED <<activeRuns, stranded>>,
           \A c \in Chains : /\ QueueCarries(c)' = QueueCarries(c)
                             /\ RouteCarries(c)' <=> RouteCarries(c)
                             /\ WorkerCarries(c)' <=> WorkerCarries(c)
    PROVE  OneCarrier'
  BY Zenon DEF OneCarrier

\* A request or the worker hands its chain on to a job.
LEMMA HandedOn ==
    ASSUME Types, OneCarrier, NEW c0 \in Chains, RouteCarries(c0) \/ WorkerCarries(c0),
           NEW k \in RunKeys, NEW p \in Priorities, NEW w \in Payloads, Enqueue(k, p, w),
           Carries(w), w.chain = c0, UNCHANGED <<activeRuns, stranded>>,
           ~RouteCarries(c0)', ~WorkerCarries(c0)',
           \A c \in Chains \ {c0} : /\ RouteCarries(c)' <=> RouteCarries(c)
                                    /\ WorkerCarries(c)' <=> WorkerCarries(c)
    PROVE  OneCarrier'
  <1>1. PICK new \in Jobs : new.work = w /\ queue' = queue \cup {new}
    BY Enqueued
  <1>2. \A c \in Chains \ {c0} : QueueCarries(c)' = QueueCarries(c)
    BY <1>1 DEF QueueCarries
  <1>3. QueueCarries(c0) = {}
    BY DEF OneCarrier
  <1>4. QueueCarries(c0)' = {new}
    BY <1>1, <1>3 DEF QueueCarries, Carries
  <1>5. c0 \in activeRuns \ stranded
    BY DEF OneCarrier
  <1>6. ASSUME NEW c \in Chains
        PROVE  /\ c \in activeRuns \ stranded <=>
                     RouteCarries(c)' \/ QueueCarries(c)' # {} \/ WorkerCarries(c)'
               /\ RouteCarries(c)' => QueueCarries(c)' = {} /\ ~WorkerCarries(c)'
               /\ WorkerCarries(c)' => QueueCarries(c)' = {}
               /\ \A i, j \in QueueCarries(c)' : i = j
    <2>1. CASE c = c0
      <3>1. ~RouteCarries(c)' /\ ~WorkerCarries(c)'
        BY <2>1, Zenon
      <3>2. QueueCarries(c)' = {new} /\ c \in activeRuns \ stranded
        BY <1>4, <1>5, <2>1
      <3>3. QueueCarries(c)' # {} /\ \A i, j \in QueueCarries(c)' : i = j
        BY <3>2
      <3> QED  BY <3>1, <3>2, <3>3, Zenon
    <2>2. CASE c # c0
      <3>1. /\ QueueCarries(c)' = QueueCarries(c) /\ (RouteCarries(c)' <=> RouteCarries(c))
            /\ (WorkerCarries(c)' <=> WorkerCarries(c))
        BY <1>2, <2>2
      <3>2. /\ c \in activeRuns \ stranded <=>
                  RouteCarries(c) \/ QueueCarries(c) # {} \/ WorkerCarries(c)
            /\ RouteCarries(c) => QueueCarries(c) = {} /\ ~WorkerCarries(c)
            /\ WorkerCarries(c) => QueueCarries(c) = {}
            /\ \A i, j \in QueueCarries(c) : i = j
        BY DEF OneCarrier
      <3> QED  BY <3>1, <3>2
    <2> QED  BY <2>1, <2>2
  <1> QED  BY <1>6 DEF OneCarrier

\* Every step leaves a run key in use with one carrier.
LEMMA CarrierStep == Inv /\ [Next]_vars => OneCarrier'
  <1> SUFFICES ASSUME Inv, [Next]_vars PROVE OneCarrier'
    OBVIOUS
  <1>0. Types /\ JobsFit /\ KeysAreOfJobs /\ WorkerFits /\ OneCarrier
    BY DEF Inv
  <1>a. job \in Jobs /\ Chain \in Chains /\ JobFits(job) /\ route.chain \in Chains
        /\ job.work.task \in {"repair-now", "repair-scheduled", "chunk", "other"}
    BY <1>0, JobParts DEF Types, JobsFit, Chain
  <1>b. \A c \in Chains : c \notin activeRuns => /\ ~RouteCarries(c) /\ ~WorkerCarries(c)
                                                /\ QueueCarries(c) = {} /\ c \notin stranded
    BY <1>0 DEF OneCarrier
  <1>c. ASSUME UNCHANGED <<wpc, job>> PROVE \A c : WorkerCarries(c)' <=> WorkerCarries(c)
    BY <1>c DEF WorkerCarries, Chain
  <1>d. ASSUME UNCHANGED route PROVE \A c : RouteCarries(c)' <=> RouteCarries(c)
    BY <1>d DEF RouteCarries
  <1>e. ASSUME UNCHANGED queue PROVE \A c : QueueCarries(c)' = QueueCarries(c)
    BY <1>e DEF QueueCarries
  <1>1. CASE Routes \/ RouteRefused \/ RouteInsert \/ RouteCommit \/ RouteDelete
    <2>1. UNCHANGED <<queue, activeRuns, stranded>>
      BY <1>1 DEF Routes, RepairNow, BackfillNow, CreateEntry, ToggleEntry, DeleteEntry, Request,
                  RouteRefused, RouteInsert, RouteCommit, RouteDelete, queueVars, historyVars
    <2>2. UNCHANGED <<wpc, job>>
      BY <1>1, RoutesFrame DEF RouteSteps
    <2>3. \A c \in Chains : RouteCarries(c)' <=> RouteCarries(c)
      <3>1. CASE RouteInsert
        <4>1. route.pc = "insert" /\ route'.pc = "enqueue" /\ route'.chain = route.chain
          <5>1. PICK r \in RunIds : route' = [route EXCEPT !.pc = "enqueue", !.run = r]
            BY <1>0, <3>1, Inserted DEF Inv
          <5> QED  BY <1>0, <3>1, <5>1 DEF RouteInsert, Types
        <4> QED  BY <4>1 DEF RouteCarries
      <3>2. CASE Routes \/ RouteRefused \/ RouteCommit \/ RouteDelete
        <4>1. route.pc \in {"idle", "start", "commit", "delete"} /\ route'.pc \in {"idle", "start"}
          BY <3>2 DEF Routes, RepairNow, BackfillNow, CreateEntry, ToggleEntry, DeleteEntry, Request,
                      StartOf, NoRequest, RouteRefused, RouteCommit, RouteDelete
        <4> QED  BY <4>1 DEF RouteCarries
      <3> QED  BY <1>1, <3>1, <3>2
    <2> QED  BY <1>0, <1>c, <1>e, <2>1, <2>2, <2>3, CarriersKept
  <1>2. CASE RouteStart
    <2> DEFINE c0 == route.chain
    <2>1. /\ c0 \notin activeRuns /\ activeRuns' = activeRuns \cup {c0} /\ route'.chain = c0
          /\ route.pc = "start" /\ route'.pc = "insert" /\ UNCHANGED <<queue, stranded, wpc, job>>
      BY <1>0, <1>2 DEF RouteStart, StartRun, Types, queueVars, workerVars
    <2>2. \A c \in Chains : QueueCarries(c)' = QueueCarries(c) /\ (WorkerCarries(c)' <=> WorkerCarries(c))
      BY <1>c, <1>e, <2>1
    <2>3. \A c \in Chains : RouteCarries(c)' <=> c = c0
      BY <2>1 DEF RouteCarries
    <2>4. \A c \in Chains : ~RouteCarries(c)
      BY <2>1 DEF RouteCarries
    <2>5. ~WorkerCarries(c0) /\ QueueCarries(c0) = {} /\ c0 \notin stranded
      BY <1>a, <1>b, <2>1
    <2> HIDE DEF c0
    <2>6. stranded' \subseteq activeRuns'
      BY <1>0, <2>1 DEF OneCarrier
    <2>7. ASSUME NEW c \in Chains
          PROVE  /\ c \in activeRuns' \ stranded' <=>
                       RouteCarries(c)' \/ QueueCarries(c)' # {} \/ WorkerCarries(c)'
                 /\ RouteCarries(c)' => QueueCarries(c)' = {} /\ ~WorkerCarries(c)'
                 /\ WorkerCarries(c)' => QueueCarries(c)' = {}
                 /\ \A i, j \in QueueCarries(c)' : i = j
      <3>1. CASE c = c0
        BY <2>1, <2>2, <2>3, <2>5, <3>1
      <3>2. CASE c # c0
        <4>1. c \in activeRuns' \ stranded' <=> c \in activeRuns \ stranded
          BY <2>1, <3>2
        <4> QED  BY <1>0, <2>2, <2>3, <2>4, <3>2, <4>1, Zenon DEF OneCarrier
      <3> QED  BY <3>1, <3>2
    <2> QED  BY <2>6, <2>7 DEF OneCarrier
  <1>3. CASE RouteTimesOut \/ RouteUndo
    <2> DEFINE c0 == route.chain
    <2>1. /\ RouteCarries(c0) /\ UNCHANGED <<queue, wpc, job>> /\ route'.pc \in {"idle", "delete"}
          /\ \/ UNCHANGED activeRuns /\ stranded' = stranded \cup {c0}
             \/ UNCHANGED stranded /\ activeRuns' = activeRuns \ {c0}
      BY <1>0, <1>3 DEF RouteTimesOut, RouteUndo, RouteCarries, NoRequest, Types, queueVars, workerVars,
                        historyVars
    <2>2. \A c \in Chains : QueueCarries(c)' = QueueCarries(c) /\ (WorkerCarries(c)' <=> WorkerCarries(c))
      BY <1>c, <1>e, <2>1
    <2>3. \A c \in Chains : ~RouteCarries(c)'
      BY <2>1 DEF RouteCarries
    <2>4. \A c \in Chains : RouteCarries(c) => c = c0
      BY DEF RouteCarries
    <2>5. ~WorkerCarries(c0) /\ QueueCarries(c0) = {} /\ c0 \in activeRuns \ stranded
      BY <1>0, <1>a, <2>1 DEF OneCarrier
    <2> HIDE DEF c0
    <2>6. stranded' \subseteq activeRuns'
      BY <1>0, <2>1, <2>5 DEF OneCarrier
    <2>7. ASSUME NEW c \in Chains
          PROVE  /\ c \in activeRuns' \ stranded' <=>
                       RouteCarries(c)' \/ QueueCarries(c)' # {} \/ WorkerCarries(c)'
                 /\ RouteCarries(c)' => QueueCarries(c)' = {} /\ ~WorkerCarries(c)'
                 /\ WorkerCarries(c)' => QueueCarries(c)' = {}
                 /\ \A i, j \in QueueCarries(c)' : i = j
      <3>1. CASE c = c0
        BY <2>1, <2>2, <2>3, <2>5, <3>1
      <3>2. CASE c # c0
        <4>1. c \in activeRuns' \ stranded' <=> c \in activeRuns \ stranded
          BY <2>1, <3>2
        <4> QED  BY <1>0, <2>2, <2>3, <2>4, <3>2, <4>1, Zenon DEF OneCarrier
      <3> QED  BY <3>1, <3>2
    <2> QED  BY <2>6, <2>7 DEF OneCarrier
  <1>4. CASE RouteEnqueue
    <2>0. PICK c0 \in Chains : c0 = route.chain
      BY <1>a
    <2> DEFINE key == IF c0 = Repair THEN ManualKey ELSE StepZero(c0)
               w == Payload(IF c0 = Repair THEN "repair-now" ELSE "chunk", c0, route.run, <<>>, NoDay, 0)
    <2>1. /\ route.pc = "enqueue" /\ RouteCarries(c0) /\ UNCHANGED <<activeRuns, stranded, wpc, job>>
          /\ route'.chain = c0
      BY <1>0, <1>4, <2>0 DEF RouteEnqueue, RouteCarries, Types, workerVars, historyVars
    <2>2. \/ Enqueue(key, 3, w) /\ route'.pc = "commit"
          \/ UNCHANGED queue /\ route'.pc = "undo"
      BY <1>0, <1>4, <2>0 DEF RouteEnqueue, Types, queueVars
    <2>3. CASE UNCHANGED queue /\ route'.pc = "undo"
      <3>1. \A c \in Chains : RouteCarries(c)' <=> RouteCarries(c)
        BY <2>1, <2>3 DEF RouteCarries
      <3> QED  BY <1>0, <1>c, <1>e, <2>1, <2>3, <3>1, CarriersKept
    <2>4. CASE Enqueue(key, 3, w) /\ route'.pc = "commit"
      <3>1. key \in RunKeys /\ 3 \in Priorities
        BY KeysFit DEF Priorities
      <3>2. w \in Payloads
        <4>1. <<>> \in Seq(Days) /\ route.run \in RunIds \cup {NoRun}
          BY <1>0 DEF Types
        <4> QED  BY <4>1, PayloadFits
      <3>3. w.chain = c0 /\ Carries(w)
        BY DEF Payload, Carries
      <3>4. \A c \in Chains : ~RouteCarries(c)' /\ (RouteCarries(c) => c = c0)
        BY <2>0, <2>1, <2>4 DEF RouteCarries
      <3>5. ~WorkerCarries(c0)
        BY <1>0, <2>1 DEF OneCarrier
      <3>6. ~RouteCarries(c0)' /\ ~WorkerCarries(c0)'
        BY <1>c, <2>1, <3>4, <3>5
      <3>7. \A c \in Chains \ {c0} : /\ RouteCarries(c)' <=> RouteCarries(c)
                                     /\ WorkerCarries(c)' <=> WorkerCarries(c)
        BY <1>c, <2>1, <3>4
      <3>8. /\ ~RouteCarries(c0)' /\ ~WorkerCarries(c0)' /\ RouteCarries(c0)
            /\ \A c \in Chains \ {c0} : /\ RouteCarries(c)' <=> RouteCarries(c)
                                        /\ WorkerCarries(c)' <=> WorkerCarries(c)
            /\ UNCHANGED <<activeRuns, stranded>>
        BY <2>1, <3>6, <3>7
      <3> HIDE DEF key, w
      <3> QED  BY <1>0, <2>4, <3>1, <3>2, <3>3, <3>8, HandedOn
    <2> QED  BY <2>2, <2>3, <2>4
  <1>5. CASE ScheduleRepair \/ OtherArrives
    <2>1. UNCHANGED <<activeRuns, stranded, route, wpc, job>>
      BY <1>5 DEF ScheduleRepair, OtherArrives, Arrive, workerVars, historyVars
    <2>2. \A c : QueueCarries(c)' = QueueCarries(c)
      <3>1. 1 \in Priorities /\ 3 \in Priorities
        BY DEF Priorities
      <3>2. CASE ScheduleRepair
        <4> DEFINE w == Payload("repair-scheduled", Repair, NoRun, <<>>, NoDay, 0)
        <4>1. <<>> \in Seq(Days)
          OBVIOUS
        <4>2. w \in Payloads
          BY <4>1, PayloadFits, Constants
        <4>3. Enqueue(ScheduledKey, 3, w) /\ ~Carries(w)
          BY <3>2 DEF ScheduleRepair, Arrive, Carries, Payload
        <4> HIDE DEF w
        <4> QED  BY <1>0, <3>1, <4>2, <4>3, KeysFit, QueueCarriesKept
      <3>3. CASE OtherArrives
        <4>1. Enqueue(OtherKey, 1, Other) /\ ~Carries(Other)
          BY <3>3, OtherFits DEF OtherArrives, Arrive, Carries
        <4> QED  BY <1>0, <3>1, <4>1, KeysFit, OtherFits, QueueCarriesKept
      <3> QED  BY <1>5, <3>2, <3>3
    <2> QED  BY <1>0, <1>c, <1>d, <2>1, <2>2, CarriersKept
  <1>6. CASE WorkerPop
    <2>1. PICK j \in queue : /\ PopNext(j) /\ job' = j
                             /\ Go("idle", CASE j.work.task = "other" -> "process"
                                              [] j.work.task = "chunk" -> "begin"
                                              [] OTHER -> "orchestrate")
      BY <1>6 DEF WorkerPop
    <2>2. j.work.task \in {"repair-now", "repair-scheduled", "chunk", "other"} /\ j.work.chain \in Chains
      BY <1>0, JobParts DEF Types
    <2>3. queue' = queue \ {j} /\ UNCHANGED <<activeRuns, stranded, route>>
      BY <1>6, <2>1 DEF WorkerPop, PopNext, routeVars
    <2>4. \A c : ~WorkerCarries(c)
      BY <2>1 DEF WorkerCarries, Go
    <2>5. \A c : WorkerCarries(c)' <=> c = j.work.chain /\ Carries(j.work)
      <3>1. Chain' = j.work.chain /\ job'.work.task = j.work.task
        BY <2>1 DEF Chain
      <3>2. \/ wpc' = "process" /\ j.work.task = "other"
            \/ wpc' = "begin" /\ j.work.task = "chunk"
            \/ wpc' = "orchestrate" /\ j.work.task \in {"repair-now", "repair-scheduled"}
        BY <2>1, <2>2 DEF Go
      <3> QED  BY <3>1, <3>2 DEF WorkerCarries, Carries
    <2>6. \A c : QueueCarries(c)' = QueueCarries(c) \ {j}
      BY <2>3 DEF QueueCarries
    <2>7. Carries(j.work) => j \in QueueCarries(j.work.chain)
      BY DEF Carries, QueueCarries
    <2>8. \A c : j \in QueueCarries(c) => c = j.work.chain /\ Carries(j.work)
      BY DEF Carries, QueueCarries
    <2>9. \A c : RouteCarries(c)' <=> RouteCarries(c)
      BY <1>d, <2>3
    <2>10. ASSUME NEW c \in Chains
           PROVE  /\ c \in activeRuns' \ stranded' <=>
                        RouteCarries(c)' \/ QueueCarries(c)' # {} \/ WorkerCarries(c)'
                  /\ RouteCarries(c)' => QueueCarries(c)' = {} /\ ~WorkerCarries(c)'
                  /\ WorkerCarries(c)' => QueueCarries(c)' = {}
                  /\ \A i, k \in QueueCarries(c)' : i = k
      <3>1. CASE c = j.work.chain /\ Carries(j.work)
        <4>1. QueueCarries(c)' = {} /\ j \in QueueCarries(c) /\ WorkerCarries(c)'
          BY <1>0, <2>5, <2>6, <2>7, <3>1 DEF OneCarrier
        <4>2. ~RouteCarries(c) /\ c \in activeRuns \ stranded
          BY <1>0, <4>1 DEF OneCarrier
        <4> QED  BY <2>3, <2>9, <4>1, <4>2
      <3>2. CASE ~(c = j.work.chain /\ Carries(j.work))
        <4>1. QueueCarries(c)' = QueueCarries(c) /\ ~WorkerCarries(c)' /\ ~WorkerCarries(c)
          BY <2>4, <2>5, <2>6, <2>8, <3>2
        <4> QED  BY <1>0, <2>3, <2>9, <4>1, Zenon DEF OneCarrier
      <3> QED  BY <3>1, <3>2
    <2> QED  BY <1>0, <2>3, <2>10 DEF OneCarrier
  <1>7. CASE OrchestrateRepair /\ wpc' = "mark-queued" /\ job.work.task = "repair-scheduled"
    <2>1. /\ Repair \notin activeRuns /\ activeRuns' = activeRuns \cup {Repair}
          /\ UNCHANGED <<queue, stranded, route, job>> /\ wpc = "orchestrate"
      BY <1>7 DEF OrchestrateRepair, StartRun, Go, queueVars, routeVars
    <2>2. Chain = Repair
      BY <1>7, <1>a DEF JobFits, Chain
    <2>3. \A c \in Chains : ~WorkerCarries(c)
      BY <1>7, <2>1 DEF WorkerCarries
    <2>4. \A c \in Chains : WorkerCarries(c)' <=> c = Repair
      BY <1>7, <2>1, <2>2 DEF WorkerCarries, Chain
    <2>5. \A c \in Chains : QueueCarries(c)' = QueueCarries(c) /\ (RouteCarries(c)' <=> RouteCarries(c))
      BY <1>d, <1>e, <2>1
    <2>6. ~RouteCarries(Repair) /\ QueueCarries(Repair) = {} /\ Repair \notin stranded
      BY <1>b, <2>1, Constants
    <2>7. stranded' \subseteq activeRuns'
      BY <1>0, <2>1 DEF OneCarrier
    <2>8. ASSUME NEW c \in Chains
          PROVE  /\ c \in activeRuns' \ stranded' <=>
                       RouteCarries(c)' \/ QueueCarries(c)' # {} \/ WorkerCarries(c)'
                 /\ RouteCarries(c)' => QueueCarries(c)' = {} /\ ~WorkerCarries(c)'
                 /\ WorkerCarries(c)' => QueueCarries(c)' = {}
                 /\ \A i, j \in QueueCarries(c)' : i = j
      <3>1. CASE c = Repair
        <4>1. WorkerCarries(c)' /\ ~RouteCarries(c)' /\ QueueCarries(c)' = {} /\ c \notin stranded
          BY <2>4, <2>5, <2>6, <3>1
        <4>2. c \in activeRuns' \ stranded' /\ \A i, j \in QueueCarries(c)' : i = j
          BY <2>1, <3>1, <4>1
        <4> QED  BY <4>1, <4>2, Zenon
      <3>2. CASE c # Repair
        <4>1. c \in activeRuns' \ stranded' <=> c \in activeRuns \ stranded
          BY <2>1, <3>2
        <4>2. /\ c \in activeRuns \ stranded <=>
                    RouteCarries(c) \/ QueueCarries(c) # {} \/ WorkerCarries(c)
              /\ RouteCarries(c) => QueueCarries(c) = {} /\ ~WorkerCarries(c)
              /\ WorkerCarries(c) => QueueCarries(c) = {}
              /\ \A i, j \in QueueCarries(c) : i = j
          BY <1>0 DEF OneCarrier
        <4>3. ~WorkerCarries(c)' /\ ~WorkerCarries(c)
          BY <2>3, <2>4, <3>2
        <4>4. QueueCarries(c)' = QueueCarries(c) /\ (RouteCarries(c)' <=> RouteCarries(c))
          BY <2>5
        <4> QED  BY <4>1, <4>2, <4>3, <4>4
      <3> QED  BY <3>1, <3>2
    <2> QED  BY <2>7, <2>8 DEF OneCarrier
  <1>8. CASE UNCHANGED <<queue, activeRuns, stranded, route>>
             /\ (\A c \in Chains : WorkerCarries(c)' <=> WorkerCarries(c))
    BY <1>0, <1>d, <1>e, <1>8, CarriersKept
  <1>9. CASE OrchestrateRepair /\ ~(wpc' = "mark-queued" /\ job.work.task = "repair-scheduled")
    <2>1. /\ UNCHANGED <<queue, activeRuns, stranded, route, job>> /\ wpc = "orchestrate"
          /\ \/ job.work.task = "repair-now" /\ wpc' = "mark-queued"
             \/ job.work.task = "repair-scheduled" /\ wpc' = "finish"
      BY <1>9 DEF OrchestrateRepair, StartRun, Go, queueVars, routeVars
    <2>2. \A c \in Chains : WorkerCarries(c)' <=> WorkerCarries(c)
      BY <2>1 DEF WorkerCarries, Chain
    <2> QED  BY <1>8, <2>1, <2>2
  <1>10. CASE Deliver \/ DeliverCommit \/ WorkerComplete
    <2>1. UNCHANGED <<queue, activeRuns, stranded, route>>
      BY <1>10 DEF Deliver, DeliverCommit, WorkerSteps, WorkerComplete, Complete, queueVars, routeVars,
                   historyVars
    <2>2. \A c \in Chains : WorkerCarries(c)' <=> WorkerCarries(c)
      <3>1. CASE WorkerComplete
        BY <3>1 DEF WorkerComplete, Go, WorkerCarries
      <3>2. CASE Deliver \/ DeliverCommit
        <4>1. job' = job /\ wpc \in {"process", "deliver"}
          BY <3>2 DEF Deliver, DeliverCommit, WorkerSteps, Go
        <4>2. job.work.task = "other" /\ job'.work.task = "other"
          BY <1>0, <4>1 DEF WorkerFits
        <4> QED  BY <4>2 DEF WorkerCarries
      <3> QED  BY <1>10, <3>1, <3>2
    <2> QED  BY <1>8, <2>1, <2>2
  <1>11. CASE \/ RepairMarkQueued \/ ChunkBegin \/ ResolveTargets \/ LoadIndex \/ CheckUrgentWork
              \/ MarkProgress \/ MarkCompleted \/ ChunkRaises \/ RecordError \/ MarkFailed
    <2>1. UNCHANGED <<queue, activeRuns, stranded, route, job>>
      BY <1>11 DEF RepairMarkQueued, WorkerMarks, ChunkBegin, ResolveTargets, LoadIndex,
                   CheckUrgentWork, WorkerSteps, MarkProgress, MarkCompleted, ChunkRaises,
                   RecordError, MarkFailed, queueVars, routeVars, historyVars
    <2>2. wpc \notin {"idle", "finish", "orchestrate"} /\ wpc' \notin {"idle", "finish", "orchestrate"}
      BY <1>11 DEF RepairMarkQueued, WorkerMarks, ChunkBegin, ResolveTargets, LoadIndex,
                   CheckUrgentWork, WorkerSteps, MarkProgress, MarkCompleted, ChunkRaises,
                   RecordError, MarkFailed, Go, EndOfRun
    <2>3. \A c \in Chains : WorkerCarries(c)' <=> WorkerCarries(c)
      BY <2>1, <2>2 DEF WorkerCarries, Chain
    <2> QED  BY <1>8, <2>1, <2>3
  <1>17. CASE Rechecks
    <2>1. /\ UNCHANGED <<queue, activeRuns, stranded, route, job>>
          /\ wpc \in {"revalidate", "recheck", "redeliver"}
          /\ wpc' \in {"recheck", "redeliver", "mark-completed"}
      BY <1>17, Rechecked
    <2>2. wpc \notin {"idle", "finish", "orchestrate"} /\ wpc' \notin {"idle", "finish", "orchestrate"}
      BY <2>1
    <2>3. \A c \in Chains : WorkerCarries(c)' <=> WorkerCarries(c)
      BY <2>1, <2>2 DEF WorkerCarries, Chain
    <2> QED  BY <1>8, <2>1, <2>3
  <1>12. CASE ProcessRow
    <2>1. UNCHANGED <<activeRuns, stranded, route, job>> /\ wpc = "row" /\ wpc' = "check"
      BY <1>12 DEF ProcessRow, Go, routeVars
    <2>2. \A c \in Chains : WorkerCarries(c)' <=> WorkerCarries(c)
      BY <2>1 DEF WorkerCarries, Chain
    <2>3. Enqueue(OtherKey, 1, Other) \/ UNCHANGED queue
      BY <1>12 DEF ProcessRow, queueVars
    <2>4. CASE Enqueue(OtherKey, 1, Other)
      <3>1. ~Carries(Other) /\ 1 \in Priorities
        BY OtherFits DEF Carries, Priorities
      <3>2. \A c : QueueCarries(c)' = QueueCarries(c)
        BY <1>0, <2>4, <3>1, KeysFit, OtherFits, QueueCarriesKept
      <3> QED  BY <1>0, <1>d, <2>1, <2>2, <3>2, CarriersKept
    <2> QED  BY <1>8, <2>1, <2>2, <2>3, <2>4
  <1>13. CASE RepairStepZero \/ Advance
    <2>1. UNCHANGED <<activeRuns, stranded, route, job>>
      BY <1>13 DEF RepairStepZero, Advance, routeVars, historyVars
    <2>2. ASSUME NEW k \in RunKeys, NEW w \in Payloads, Enqueue(k, 3, w), wpc' = "finish",
                 WorkerCarries(Chain), Carries(w), w.chain = Chain
          PROVE  OneCarrier'
      <3>1. \A c \in Chains : ~WorkerCarries(c)' /\ (WorkerCarries(c) => c = Chain)
        BY <2>2 DEF WorkerCarries
      <3>2. ~RouteCarries(Chain)
        BY <1>0, <1>a, <2>2 DEF OneCarrier
      <3>3. \A c \in Chains : RouteCarries(c)' <=> RouteCarries(c)
        BY <1>d, <2>1
      <3>4. 3 \in Priorities
        BY DEF Priorities
      <3>5. PICK c0 \in Chains : c0 = Chain
        BY <1>a
      <3>6. /\ ~RouteCarries(c0)' /\ ~WorkerCarries(c0)' /\ WorkerCarries(c0) /\ w.chain = c0
            /\ \A c \in Chains \ {c0} : /\ RouteCarries(c)' <=> RouteCarries(c)
                                        /\ WorkerCarries(c)' <=> WorkerCarries(c)
        BY <2>2, <3>1, <3>2, <3>3, <3>5
      <3> QED  BY <1>0, <2>1, <2>2, <3>4, <3>6, HandedOn
    <2>3. CASE RepairStepZero
      <3> DEFINE w == Payload("chunk", Repair, job.work.run, RepairDays, NoDay, 0)
      <3>1. /\ wpc' = "finish" /\ Chain = Repair /\ WorkerCarries(Chain)
            /\ StepZero(Repair) \in RunKeys /\ w \in Payloads /\ Enqueue(StepZero(Repair), 3, w)
        BY <1>0, <2>3, RepairBegins
      <3>2. Carries(w) /\ w.chain = Repair
        BY DEF Payload, Carries
      <3> HIDE DEF w
      <3> QED  BY <2>2, <3>1, <3>2
    <2>4. CASE Advance
      <3> DEFINE Work1(d, n) == Payload("chunk", Chain, job.work.run, chunk.remaining, d, n)
      <3>1. \A d, n : Carries(Work1(d, n)) /\ Work1(d, n).chain = Chain
        BY DEF Payload, Carries
      <3>2. /\ wpc = "advance" /\ WorkerCarries(Chain)
            /\ \/ wpc' \in {"revalidate", "mark-completed"} /\ UNCHANGED queueVars
               \/ \E k \in RunKeys : \E d, n :
                     wpc' = "finish" /\ Work1(d, n) \in Payloads /\ Enqueue(k, 3, Work1(d, n))
        <4>1. wpc = "advance" /\ WorkerCarries(Chain)
          BY <1>0, <2>4, Advances
        <4>2. \/ wpc' \in {"revalidate", "mark-completed"} /\ UNCHANGED queueVars
              \/ \E k \in RunKeys : \E d, n :
                    wpc' = "finish" /\ Work1(d, n) \in Payloads /\ Enqueue(k, 3, Work1(d, n))
          <5> HIDE DEF Work1
          <5>1. \/ wpc' \in {"revalidate", "mark-completed"} /\ UNCHANGED queueVars
                \/ \E k \in RunKeys : /\ wpc' = "finish" /\ Work1(chunk.day, chunk.offset + chunk.taken) \in Payloads
                                      /\ Enqueue(k, 3, Work1(chunk.day, chunk.offset + chunk.taken))
                \/ \E k \in RunKeys : /\ wpc' = "finish" /\ Work1(NoDay, 0) \in Payloads
                                      /\ Enqueue(k, 3, Work1(NoDay, 0))
            BY <1>0, <2>4, Advances DEF Work1
          <5> QED  BY <5>1
        <4> QED  BY <4>1, <4>2
      <3> HIDE DEF Work1
      <3>3. CASE wpc' \in {"revalidate", "mark-completed"} /\ UNCHANGED queueVars
        <4>1. \A c \in Chains : WorkerCarries(c)' <=> WorkerCarries(c)
          BY <2>1, <3>2, <3>3 DEF WorkerCarries, Chain
        <4> QED  BY <1>8, <2>1, <3>3, <4>1 DEF queueVars
      <3> QED  BY <2>2, <3>1, <3>2, <3>3
    <2> QED  BY <1>13, <2>3, <2>4
  <1>14. CASE FinishRun
    <2>1. /\ wpc = "finish-run" /\ wpc' = "finish" /\ activeRuns' = activeRuns \ {Chain}
          /\ UNCHANGED <<queue, stranded, route, job>>
      BY <1>14 DEF FinishRun, Go, queueVars, routeVars
    <2>2. WorkerCarries(Chain)
      <3>1. job.work.task = "chunk"
        BY <1>0, <2>1 DEF WorkerFits, Ending
      <3> QED  BY <2>1, <3>1 DEF WorkerCarries
    <2>3. \A c \in Chains : ~WorkerCarries(c)' /\ (WorkerCarries(c) => c = Chain)
      BY <2>1 DEF WorkerCarries
    <2>4. ~RouteCarries(Chain) /\ QueueCarries(Chain) = {} /\ Chain \notin stranded
      BY <1>0, <1>a, <2>2 DEF OneCarrier
    <2>5. \A c \in Chains : QueueCarries(c)' = QueueCarries(c) /\ (RouteCarries(c)' <=> RouteCarries(c))
      BY <1>d, <1>e, <2>1
    <2>6. stranded' \subseteq activeRuns'
      BY <1>0, <2>1, <2>4 DEF OneCarrier
    <2>7. ASSUME NEW c \in Chains
          PROVE  /\ c \in activeRuns' \ stranded' <=>
                       RouteCarries(c)' \/ QueueCarries(c)' # {} \/ WorkerCarries(c)'
                 /\ RouteCarries(c)' => QueueCarries(c)' = {} /\ ~WorkerCarries(c)'
                 /\ WorkerCarries(c)' => QueueCarries(c)' = {}
                 /\ \A i, j \in QueueCarries(c)' : i = j
      <3>1. CASE c = Chain
        <4>1. ~WorkerCarries(c)' /\ ~RouteCarries(c)' /\ QueueCarries(c)' = {}
          BY <2>3, <2>4, <2>5, <3>1
        <4>2. c \notin activeRuns' \ stranded' /\ \A i, j \in QueueCarries(c)' : i = j
          BY <2>1, <3>1, <4>1
        <4> QED  BY <4>1, <4>2, Zenon
      <3>2. CASE c # Chain
        <4>1. c \in activeRuns' \ stranded' <=> c \in activeRuns \ stranded
          BY <2>1, <3>2
        <4>2. /\ c \in activeRuns \ stranded <=>
                    RouteCarries(c) \/ QueueCarries(c) # {} \/ WorkerCarries(c)
              /\ RouteCarries(c) => QueueCarries(c) = {} /\ ~WorkerCarries(c)
              /\ WorkerCarries(c) => QueueCarries(c) = {}
              /\ \A i, j \in QueueCarries(c) : i = j
          BY <1>0 DEF OneCarrier
        <4>3. ~WorkerCarries(c)' /\ ~WorkerCarries(c)
          BY <2>3, <3>2
        <4>4. QueueCarries(c)' = QueueCarries(c) /\ (RouteCarries(c)' <=> RouteCarries(c))
          BY <2>5
        <4> QED  BY <4>1, <4>2, <4>3, <4>4
      <3> QED  BY <3>1, <3>2
    <2> QED  BY <2>6, <2>7 DEF OneCarrier
  <1>15. CASE Crash
    <2>1. queue' = {} /\ activeRuns' = {} /\ stranded' = {} /\ route'.pc = "idle" /\ wpc' = "idle"
      BY <1>15 DEF Crash, NoRequest
    <2> QED  BY <2>1 DEF OneCarrier, RouteCarries, QueueCarries, WorkerCarries
  <1>16. CASE UNCHANGED vars
    <2>1. UNCHANGED <<queue, activeRuns, stranded, route, wpc, job>>
      BY <1>16 DEF vars, queueVars, routeVars, workerVars, historyVars
    <2> QED  BY <1>8, <1>c, <2>1
  <1> QED
    BY <1>1, <1>2, <1>3, <1>4, <1>5, <1>6, <1>7, <1>9, <1>10, <1>11, <1>12, <1>13, <1>14, <1>15,
       <1>16, <1>17
    DEF Next, RouteSteps, Worker
-----------------------------------------------------------------------------
(* Whose rows are whose.                                                   *)

\* A job without a row joins the queue, or the worker's next one.
LEMMA OwnedJoins ==
    ASSUME Types, RunsOwned, NEW k \in RunKeys, NEW p \in Priorities, NEW w \in Payloads,
           Enqueue(k, p, w), UNCHANGED <<rows, route, job>>,
           \/ w.run = NoRun /\ (AtWork' => AtWork)
           \/ w.run = job.work.run /\ (w.run # NoRun => AtWork) /\ ~AtWork'
    PROVE  RunsOwned'
  <1>1. PICK new \in Jobs : new.work = w /\ queue' = queue \cup {new}
    BY Enqueued
  <1>2. \A r : Live(r)' <=> Live(r)
    BY DEF Live
  <1>3. route.run \in RunIds => route.run # NoRun
    BY Constants
  <1>4. \A j \in queue' : j.work.run # NoRun => Live(j.work.run)
    BY <1>1 DEF RunsOwned
  <1>5. \A i, j \in queue' : i.work.run # NoRun /\ i.work.run = j.work.run => i = j
    BY <1>1 DEF RunsOwned
  <1>6. AtWork' => Live(job.work.run) /\ \A j \in queue' : j.work.run # job.work.run
    BY <1>1 DEF RunsOwned, AtWork
  <1>7. route.pc \in {"enqueue", "commit", "undo", "delete"} =>
          route.run \in RunIds /\ rows[route.run] = "open"
    BY DEF RunsOwned
  <1>8. ASSUME route.pc \in {"enqueue", "undo", "delete"}
        PROVE  /\ \A j \in queue' : j.work.run # route.run
               /\ AtWork' => job.work.run # route.run
    BY <1>1, <1>3, <1>7, <1>8 DEF RunsOwned
  <1> QED  BY <1>2, <1>4, <1>5, <1>6, <1>7, <1>8 DEF RunsOwned

\* The queue, the route and the rows that jobs have stay.
LEMMA OwnedKept ==
    ASSUME Types, RunsOwned, UNCHANGED <<queue, route, job>>, AtWork' => AtWork,
           \A r \in RunIds : rows[r] = "open" => rows'[r] = "open",
           \A j \in queue : j.work.run # NoRun => Live(j.work.run)',
           AtWork' => rows'[job.work.run] \notin {"absent", "completed", "failed"}
    PROVE  RunsOwned'
  <1>1. \A j \in queue' : j.work.run # NoRun => Live(j.work.run)'
    OBVIOUS
  <1>2. \A i, j \in queue : i.work.run # NoRun /\ i.work.run = j.work.run => i = j
    BY DEF RunsOwned
  <1>3. AtWork' => Live(job.work.run)' /\ \A j \in queue : j.work.run # job.work.run
    BY DEF RunsOwned, Live
  <1>4. route.pc \in {"enqueue", "commit", "undo", "delete"} =>
          route.run \in RunIds /\ rows'[route.run] = "open"
    BY DEF RunsOwned
  <1>5. route.pc \in {"enqueue", "undo", "delete"} =>
          /\ \A j \in queue : j.work.run # route.run
          /\ AtWork' => job.work.run # route.run
    BY DEF RunsOwned
  <1> QED  BY <1>1, <1>2, <1>3, <1>4, <1>5 DEF RunsOwned, Live

\* Every step leaves a row with one job or request at most.
LEMMA OwnedStep == Inv /\ [Next]_vars => RunsOwned'
  <1> SUFFICES ASSUME Inv, [Next]_vars PROVE RunsOwned'
    OBVIOUS
  <1>0. Types /\ JobsFit /\ KeysAreOfJobs /\ WorkerFits /\ OneCarrier /\ RunsOwned /\ RowsNumbered
    BY DEF Inv
  <1>a. /\ rows \in [RunIds -> {"absent", "open", "queued", "running", "completed", "failed"}]
        /\ job \in Jobs /\ queue \subseteq Jobs /\ NoRun \notin RunIds
        /\ \A j \in Jobs : j.work.run \in RunIds \cup {NoRun}
    BY <1>0, JobParts, Constants DEF Types
  <1>b. /\ \A j \in queue : j.work.run # NoRun => Live(j.work.run)
        /\ \A j, k \in queue : j.work.run # NoRun /\ j.work.run = k.work.run => j = k
        /\ AtWork => Live(job.work.run) /\ \A j \in queue : j.work.run # job.work.run
        /\ route.pc \in {"enqueue", "commit", "undo", "delete"} =>
              route.run \in RunIds /\ rows[route.run] = "open"
        /\ route.pc \in {"enqueue", "undo", "delete"} =>
              /\ \A j \in queue : j.work.run # route.run
              /\ AtWork => job.work.run # route.run
    BY <1>0 DEF RunsOwned
  <1>1. CASE Routes \/ RouteStart \/ RouteRefused \/ RouteTimesOut
    <2>1. UNCHANGED <<queue, rows>> /\ route'.pc \in {"idle", "start", "insert"}
      <3>1. CASE RouteStart
        BY <1>0, <3>1 DEF RouteStart, Types, queueVars
      <3>2. CASE Routes \/ RouteRefused \/ RouteTimesOut
        BY <3>2 DEF Routes, RepairNow, BackfillNow, CreateEntry, ToggleEntry, DeleteEntry, Request,
                    RouteRefused, RouteTimesOut, NoRequest, StartOf, queueVars
      <3> QED  BY <1>1, <3>1, <3>2
    <2>2. UNCHANGED <<wpc, job>>
      BY <1>1, RoutesFrame DEF RouteSteps
    <2> QED  BY <1>0, <2>1, <2>2 DEF RunsOwned, AtWork, Live
  <1>2. CASE RouteInsert
    <2>1. PICK r \in RunIds : /\ rows[r] = "absent" /\ r # NoRun /\ rows' = [rows EXCEPT ![r] = "open"]
                              /\ route' = [route EXCEPT !.pc = "enqueue", !.run = r]
      BY <1>0, <1>2, Inserted
    <2> DEFINE StillLive(q) == rows'[q] \notin {"absent", "completed", "failed"}
    <2>2. route'.pc = "enqueue" /\ route'.run = r /\ UNCHANGED <<queue, wpc, job>>
      BY <1>0, <1>2, <2>1 DEF Types, RouteInsert, queueVars, workerVars
    <2>3. \A q \in RunIds : Live(q) => q # r /\ StillLive(q)
      BY <1>a, <2>1 DEF Live
    <2>4. \A j \in queue : j.work.run # r /\ (j.work.run # NoRun => StillLive(j.work.run))
      BY <1>a, <1>b, <2>1, <2>3
    <2>5. AtWork' <=> AtWork
      BY <2>2 DEF AtWork
    <2>6. AtWork => job.work.run # r /\ StillLive(job.work.run)
      <3>1. AtWork => job.work.run \in RunIds
        BY <1>a DEF AtWork
      <3> QED  BY <1>b, <2>3, <3>1
    <2>7. rows'[r] = "open"
      BY <1>a, <2>1
    <2>8. /\ \A j \in queue' : j.work.run # NoRun => StillLive(j.work.run)
          /\ \A j, k \in queue' : j.work.run # NoRun /\ j.work.run = k.work.run => j = k
      BY <1>b, <2>2, <2>4
    <2>9. AtWork' => StillLive(job'.work.run) /\ \A j \in queue' : j.work.run # job'.work.run
      BY <1>b, <2>2, <2>5, <2>6
    <2>10. /\ route'.run \in RunIds /\ rows'[route'.run] = "open"
           /\ \A j \in queue' : j.work.run # route'.run
           /\ AtWork' => job'.work.run # route'.run
      BY <2>2, <2>4, <2>5, <2>6, <2>7
    <2> QED  BY <2>8, <2>9, <2>10 DEF RunsOwned, Live
  <1>3. CASE RouteEnqueue
    <2>1. /\ route.pc = "enqueue" /\ route'.run = route.run /\ UNCHANGED <<rows, wpc, job>>
      BY <1>0, <1>3 DEF RouteEnqueue, Types, workerVars
    <2>2. \A r : Live(r)' <=> Live(r)
      BY <2>1 DEF Live
    <2>3. AtWork' <=> AtWork
      BY <2>1 DEF AtWork
    <2> DEFINE c == route.chain
               key == IF c = Repair THEN ManualKey ELSE StepZero(c)
               w == Payload(IF c = Repair THEN "repair-now" ELSE "chunk", c, route.run, <<>>, NoDay, 0)
    <2>4. \/ Enqueue(key, 3, w) /\ route'.pc = "commit"
          \/ UNCHANGED queue /\ route'.pc = "undo"
      BY <1>0, <1>3 DEF RouteEnqueue, Types, queueVars
    <2>5. CASE UNCHANGED queue /\ route'.pc = "undo"
      BY <1>b, <2>1, <2>2, <2>3, <2>5 DEF RunsOwned, Live
    <2>6. CASE Enqueue(key, 3, w) /\ route'.pc = "commit"
      <3>1. key \in RunKeys /\ w \in Payloads /\ w.run = route.run /\ 3 \in Priorities
        <4>1. c \in Chains /\ <<>> \in Seq(Days) /\ route.run \in RunIds \cup {NoRun}
          BY <1>0 DEF Types
        <4>2. key \in RunKeys
          BY <4>1, KeysFit
        <4>3. w \in Payloads
          BY <4>1, PayloadFits
        <4>4. w.run = route.run
          BY DEF Payload
        <4> QED  BY <4>2, <4>3, <4>4 DEF Priorities
      <3> HIDE DEF key, w
      <3>2. PICK new \in Jobs : new.work = w /\ queue' = queue \cup {new}
        BY <1>0, <2>6, <3>1, Enqueued
      <3>3. new.work.run = route.run /\ route.run \in RunIds /\ rows[route.run] = "open"
        BY <1>b, <2>1, <3>1, <3>2
      <3>4. Live(route.run)
        BY <3>3 DEF Live
      <3>5. \A j \in queue' : j.work.run # NoRun => Live(j.work.run)
        BY <1>b, <3>2, <3>3, <3>4
      <3>6. \A j, i \in queue' : j.work.run # NoRun /\ j.work.run = i.work.run => j = i
        BY <1>b, <2>1, <3>2, <3>3
      <3>7. AtWork => Live(job.work.run) /\ \A j \in queue' : j.work.run # job.work.run
        BY <1>b, <2>1, <3>2, <3>3
      <3> QED  BY <2>1, <2>2, <2>3, <2>6, <3>3, <3>5, <3>6, <3>7 DEF RunsOwned
    <2> QED  BY <2>4, <2>5, <2>6
  <1>4. CASE RouteCommit \/ RouteDelete
    <2>1. /\ route.pc \in {"commit", "delete"} /\ route'.pc = "idle" /\ UNCHANGED <<queue, wpc, job>>
          /\ \A r \in RunIds : r # route.run => rows'[r] = rows[r]
          /\ route.pc = "commit" => rows'[route.run] = "queued"
      BY <1>4, <1>a, <1>b DEF RouteCommit, RouteDelete, NoRequest, queueVars, workerVars
    <2> DEFINE StillLive(q) == rows'[q] \notin {"absent", "completed", "failed"}
    <2>2. \A r \in RunIds : Live(r) /\ (route.pc = "delete" => r # route.run) => StillLive(r)
      BY <2>1 DEF Live
    <2>3. AtWork' <=> AtWork
      BY <2>1 DEF AtWork
    <2>4. \A j \in queue : j.work.run # NoRun => StillLive(j.work.run)
      BY <1>a, <1>b, <2>1, <2>2
    <2>5. AtWork => StillLive(job.work.run) /\ \A j \in queue : j.work.run # job.work.run
      BY <1>a, <1>b, <2>1, <2>2 DEF AtWork
    <2> QED  BY <1>b, <2>1, <2>3, <2>4, <2>5 DEF RunsOwned, Live
  <1>5. CASE RouteUndo
    <2>1. /\ route.pc = "undo" /\ route'.pc = "delete" /\ route'.run = route.run
          /\ UNCHANGED <<queue, rows, wpc, job>>
      BY <1>0, <1>5 DEF RouteUndo, Types, queueVars, workerVars
    <2> QED  BY <1>b, <2>1 DEF RunsOwned, AtWork, Live
  <1>6. CASE ScheduleRepair \/ OtherArrives
    <2>1. UNCHANGED <<rows, route, wpc, job>>
      BY <1>6 DEF ScheduleRepair, OtherArrives, Arrive, workerVars
    <2>2. AtWork' => AtWork
      BY <2>1 DEF AtWork
    <2>3. 1 \in Priorities /\ 3 \in Priorities
      BY DEF Priorities
    <2>4. CASE ScheduleRepair
      <3> DEFINE w == Payload("repair-scheduled", Repair, NoRun, <<>>, NoDay, 0)
      <3>1. <<>> \in Seq(Days)
        OBVIOUS
      <3>2. w \in Payloads /\ w.run = NoRun
        BY <3>1, PayloadFits, Constants DEF Payload
      <3>3. Enqueue(ScheduledKey, 3, w)
        BY <2>4 DEF ScheduleRepair, Arrive
      <3> HIDE DEF w
      <3> QED  BY <1>0, <2>1, <2>2, <2>3, <3>2, <3>3, KeysFit, OwnedJoins
    <2>5. CASE OtherArrives
      <3>1. Enqueue(OtherKey, 1, Other)
        BY <2>5 DEF OtherArrives, Arrive
      <3> QED  BY <1>0, <2>1, <2>2, <2>3, <3>1, KeysFit, OtherFits, OwnedJoins
    <2> QED  BY <1>6, <2>4, <2>5
  <1>7. CASE WorkerPop
    <2>1. PICK j \in queue : PopNext(j) /\ job' = j
      BY <1>7 DEF WorkerPop
    <2>2. queue' = queue \ {j} /\ UNCHANGED <<rows, route>> /\ wpc = "idle"
      BY <1>7, <2>1 DEF WorkerPop, PopNext, routeVars, Go
    <2>3. AtWork' => j.work.run # NoRun
      BY <2>1 DEF AtWork
    <2>4. /\ \A i \in queue' : i.work.run # NoRun => Live(i.work.run)
          /\ \A i, k \in queue' : i.work.run # NoRun /\ i.work.run = k.work.run => i = k
          /\ j.work.run # NoRun => Live(j.work.run) /\ \A i \in queue' : i.work.run # j.work.run
          /\ route.pc \in {"enqueue", "undo", "delete"} =>
                j.work.run # route.run /\ \A i \in queue' : i.work.run # route.run
      BY <1>b, <2>2
    <2>5. AtWork' => Live(j.work.run) /\ \A i \in queue' : i.work.run # j.work.run
      BY <2>3, <2>4
    <2> QED  BY <1>b, <2>1, <2>2, <2>4, <2>5 DEF RunsOwned, Live
  <1>8. CASE UNCHANGED <<queue, rows, route, job>> /\ (AtWork' => AtWork)
    <2>1. \A r : Live(r)' <=> Live(r)
      BY <1>8 DEF Live
    <2> QED  BY <1>0, <1>8, <2>1 DEF RunsOwned
  <1>9. CASE WorkerComplete
    <2>1. wpc' = "idle" /\ UNCHANGED <<queue, rows, route>>
      BY <1>9 DEF WorkerComplete, Go, Complete, routeVars
    <2>2. ~AtWork'
      BY <2>1 DEF AtWork
    <2> QED  BY <1>b, <2>1, <2>2 DEF RunsOwned, Live
  <1>10. CASE \/ Deliver \/ DeliverCommit \/ OrchestrateRepair \/ ChunkBegin \/ ResolveTargets
              \/ LoadIndex \/ CheckUrgentWork \/ ChunkRaises \/ RecordError \/ FinishRun
    <2>1. UNCHANGED <<queue, rows, route, job>>
      BY <1>10 DEF Deliver, DeliverCommit, WorkerSteps, OrchestrateRepair, ChunkBegin, ResolveTargets,
                   LoadIndex, CheckUrgentWork, ChunkRaises, RecordError, FinishRun, queueVars, routeVars
    <2>2. wpc \notin {"idle", "finish-run", "finish"} \/ wpc' = "finish"
      BY <1>10 DEF Deliver, DeliverCommit, WorkerSteps, OrchestrateRepair, ChunkBegin, ResolveTargets,
                   LoadIndex, CheckUrgentWork, ChunkRaises, RecordError, FinishRun, Go
    <2>3. AtWork' => AtWork
      BY <2>1, <2>2 DEF AtWork
    <2> QED  BY <1>8, <2>1, <2>3
  <1>16. CASE Rechecks
    <2>1. UNCHANGED <<queue, rows, route, job>> /\ wpc \notin {"idle", "finish-run", "finish"}
      BY <1>16, Rechecked
    <2>2. AtWork' => AtWork
      BY <2>1 DEF AtWork
    <2> QED  BY <1>8, <2>1, <2>2
  <1>11. CASE RepairMarkQueued \/ MarkProgress \/ MarkCompleted \/ MarkFailed
    <2>1. /\ UNCHANGED <<queue, route, job>> /\ wpc \in {"mark-queued", "mark-progress", "mark-completed", "mark-failed"}
          /\ \E s \in {"running", "completed", "failed"} :
                MarkRun(job.work.run, s) /\ (s = "running" \/ wpc' = "finish-run")
      BY <1>11 DEF RepairMarkQueued, MarkProgress, MarkCompleted, MarkFailed, WorkerMarks, Go,
                   queueVars, routeVars
    <2>2. PICK s \in {"running", "completed", "failed"} :
             MarkRun(job.work.run, s) /\ (s = "running" \/ wpc' = "finish-run")
      BY <2>1
    <2>3. \A q \in RunIds : \/ rows'[q] = rows[q]
                            \/ /\ q = job.work.run /\ job.work.run # NoRun /\ rows'[q] = s
                               /\ rows[q] \notin {"absent", "open"}
      BY <1>0, <2>2, Marked
    <2>4. job.work.run # NoRun => AtWork
      BY <2>1 DEF AtWork
    <2>5. AtWork' => AtWork /\ s = "running"
      BY <2>1, <2>2, <2>4 DEF AtWork
    <2>6. \A r \in RunIds : rows[r] = "open" => rows'[r] = "open"
      BY <2>3
    <2>7. \A q \in RunIds : q # job.work.run /\ Live(q) => Live(q)'
      BY <2>3 DEF Live
    <2>8. \A j \in queue : j.work.run # NoRun => Live(j.work.run)'
      <3> SUFFICES ASSUME NEW j \in queue, j.work.run # NoRun PROVE Live(j.work.run)'
        OBVIOUS
      <3>1. j.work.run \in RunIds /\ Live(j.work.run)
        BY <1>a, <1>b
      <3>2. j.work.run # job.work.run
        BY <1>b, <2>4
      <3> QED  BY <2>7, <3>1, <3>2
    <2>9. AtWork' => rows'[job.work.run] \notin {"absent", "completed", "failed"}
      <3> SUFFICES ASSUME AtWork' PROVE rows'[job.work.run] \notin {"absent", "completed", "failed"}
        OBVIOUS
      <3>1. AtWork /\ s = "running"
        BY <2>5
      <3>2. job.work.run \in RunIds /\ Live(job.work.run)
        BY <1>a, <1>b, <3>1 DEF AtWork
      <3> QED  BY <2>3, <3>1, <3>2 DEF Live
    <2>10. AtWork' => AtWork
      BY <2>5
    <2> QED  BY <1>0, <2>1, <2>6, <2>8, <2>9, <2>10, OwnedKept
  <1>12. CASE ProcessRow
    <2>1. UNCHANGED <<rows, route, job>> /\ wpc = "row"
      BY <1>12 DEF ProcessRow, Go, routeVars
    <2>2. AtWork' => AtWork
      BY <2>1 DEF AtWork
    <2>3. Enqueue(OtherKey, 1, Other) \/ UNCHANGED queue
      BY <1>12 DEF ProcessRow, queueVars
    <2>4. CASE Enqueue(OtherKey, 1, Other)
      <3>1. 1 \in Priorities
        BY DEF Priorities
      <3> QED  BY <1>0, <2>1, <2>2, <2>4, <3>1, KeysFit, OtherFits, OwnedJoins
    <2> QED  BY <1>8, <2>1, <2>2, <2>3, <2>4
  <1>13. CASE RepairStepZero \/ Advance
    <2>1. UNCHANGED <<rows, route, job>> /\ wpc \in {"step-zero", "advance"}
      BY <1>13 DEF RepairStepZero, Advance, Go, routeVars
    <2>2. job.work.run # NoRun => AtWork
      BY <2>1 DEF AtWork
    <2>3. ASSUME NEW k \in RunKeys, NEW w \in Payloads, Enqueue(k, 3, w), wpc' = "finish",
                 w.run = job.work.run
          PROVE  RunsOwned'
      <3>1. ~AtWork'
        BY <2>3 DEF AtWork
      <3>2. 3 \in Priorities
        BY DEF Priorities
      <3>3. w.run # NoRun => AtWork
        BY <2>2, <2>3
      <3> QED  BY <1>0, <2>1, <2>3, <3>1, <3>2, <3>3, OwnedJoins
    <2>4. CASE RepairStepZero
      <3> DEFINE w == Payload("chunk", Repair, job.work.run, RepairDays, NoDay, 0)
      <3>1. wpc' = "finish" /\ StepZero(Repair) \in RunKeys /\ w \in Payloads /\ Enqueue(StepZero(Repair), 3, w)
        BY <1>0, <2>4, RepairBegins
      <3>2. w.run = job.work.run
        BY DEF Payload
      <3> HIDE DEF w
      <3> QED  BY <2>3, <3>1, <3>2
    <2>5. CASE Advance
      <3> DEFINE Work1(d, n) == Payload("chunk", Chain, job.work.run, chunk.remaining, d, n)
      <3>1. \A d, n : Work1(d, n).run = job.work.run
        BY DEF Payload
      <3> HIDE DEF Work1
      <3>2. \/ wpc' \in {"revalidate", "mark-completed"} /\ UNCHANGED queueVars
            \/ \E k \in RunKeys : /\ wpc' = "finish" /\ Work1(chunk.day, chunk.offset + chunk.taken) \in Payloads
                                  /\ Enqueue(k, 3, Work1(chunk.day, chunk.offset + chunk.taken))
            \/ \E k \in RunKeys : /\ wpc' = "finish" /\ Work1(NoDay, 0) \in Payloads
                                  /\ Enqueue(k, 3, Work1(NoDay, 0))
        BY <1>0, <2>5, Advances DEF Work1
      <3>3. CASE wpc' \in {"revalidate", "mark-completed"} /\ UNCHANGED queueVars
        <4>1. AtWork' => AtWork
          BY <2>1, <2>2 DEF AtWork
        <4> QED  BY <1>8, <2>1, <3>3, <4>1 DEF queueVars
      <3> QED  BY <2>3, <3>1, <3>2, <3>3
    <2> QED  BY <1>13, <2>4, <2>5
  <1>14. CASE Crash
    <2>1. queue' = {} /\ route'.pc = "idle" /\ wpc' = "idle"
      BY <1>14 DEF Crash, NoRequest
    <2> QED  BY <2>1 DEF RunsOwned, AtWork
  <1>15. CASE UNCHANGED vars
    <2>1. UNCHANGED <<queue, rows, route, wpc, job>>
      BY <1>15 DEF vars, queueVars, routeVars, workerVars
    <2>2. AtWork' => AtWork
      BY <2>1 DEF AtWork
    <2> QED  BY <1>8, <2>1, <2>2
  <1> QED
    BY <1>1, <1>2, <1>3, <1>4, <1>5, <1>6, <1>7, <1>9, <1>10, <1>11, <1>12, <1>13, <1>14, <1>15,
       <1>16
    DEF Next, RouteSteps, Worker
-----------------------------------------------------------------------------
(* Urgent work.                                                            *)

\* What changes the count: a job that is popped, a crash, and a row or a failed
\* filing that is taken.
LEMMA CountStep ==
    ASSUME [Next]_vars
    PROVE  \/ overtaken' = overtaken
           \/ overtaken' = 0
           \/ (ProcessRow \/ wpc = "recheck") /\ Overtakes
  <1>1. CASE Routes \/ RouteSteps \/ ScheduleRepair \/ OtherArrives \/ UNCHANGED vars
    BY <1>1, RoutesFrame
  <1>2. CASE WorkerPop \/ ProcessRow \/ Rechecks \/ Crash
    BY <1>2, Rechecked DEF WorkerPop, ProcessRow, Crash
  <1>3. CASE Worker /\ ~WorkerPop /\ ~ProcessRow /\ ~Rechecks
    BY <1>3
    DEF Worker, Deliver, DeliverCommit, WorkerSteps, WorkerComplete, OrchestrateRepair,
        RepairMarkQueued, WorkerMarks, RepairStepZero, ChunkBegin, ResolveTargets, LoadIndex,
        CheckUrgentWork, MarkProgress, Advance, MarkCompleted, ChunkRaises, RecordError,
        MarkFailed, FinishRun, historyVars
  <1> QED  BY <1>1, <1>2, <1>3 DEF Next

\* A chunk that was overtaken takes no other row.
LEMMA YieldsStep == Inv /\ [Next]_vars => Yields'
  <1> SUFFICES ASSUME Inv, [Next]_vars PROVE Yields'
    OBVIOUS
  <1>0. Types /\ WorkerFits /\ Yields
    BY DEF Inv
  <1> DEFINE Out == {"mark-progress", "advance", "finish", "idle"} \cup Ending
  <1>a. /\ overtaken \in Nat
        /\ overtaken > 0 =>
              /\ HasQueuedHigherPriorityThan(3)
              /\ wpc \in {"check"} \cup Out
              /\ wpc = "check" => chunk.taken > 0
    BY <1>0 DEF Yields
  <1>b. ASSUME queue \subseteq queue', HasQueuedHigherPriorityThan(3)
        PROVE  HasQueuedHigherPriorityThan(3)'
    BY <1>b DEF HasQueuedHigherPriorityThan
  <1>c. ASSUME overtaken' \in Nat, HasQueuedHigherPriorityThan(3)', wpc' \in Out PROVE Yields'
    <2>1. wpc' \in {"check", "mark-progress", "advance", "finish", "idle"} \cup Ending /\ wpc' # "check"
      BY <1>c DEF Ending
    <2> QED  BY <1>c, <2>1 DEF Yields
  <1>1. CASE overtaken' = 0
    BY <1>1 DEF Yields
  <1>2. CASE Routes \/ RouteSteps \/ ScheduleRepair \/ OtherArrives \/ UNCHANGED vars
    <2>1. UNCHANGED <<wpc, chunk, overtaken>>
      BY <1>2, RoutesFrame
    <2>2. queue \subseteq queue'
      BY <1>2
      DEF Routes, RepairNow, BackfillNow, CreateEntry, ToggleEntry, DeleteEntry, Request, RouteSteps,
          RouteStart, RouteRefused, RouteInsert, RouteTimesOut, RouteEnqueue, RouteCommit, RouteUndo,
          RouteDelete, ScheduleRepair, OtherArrives, Arrive, Enqueue, vars, queueVars
    <2> QED  BY <1>0, <1>b, <2>1, <2>2 DEF Yields
  <1>3. CASE WorkerPop
    <2>1. PICK j \in queue : /\ PopNext(j) /\ overtaken' = IF j.priority < 3 THEN 0 ELSE overtaken
      BY <1>3 DEF WorkerPop
    <2>2. ASSUME overtaken > 0 PROVE j.priority < 3
      <3>1. PICK i \in queue : i.priority < 3
        BY <1>a, <2>2 DEF HasQueuedHigherPriorityThan
      <3>2. i = j \/ Before(j, i)
        BY <2>1 DEF PopNext
      <3>3. j.priority \in Nat /\ i.priority \in Nat
        BY <1>0, JobParts DEF Types, Priorities
      <3> QED  BY <3>1, <3>2, <3>3 DEF Before
    <2> QED  BY <1>1, <1>a, <2>1, <2>2
  <1>4. CASE ProcessRow
    <2>1. /\ wpc = "row" /\ wpc' = "check" /\ chunk' = [chunk EXCEPT !.taken = @ + 1]
          /\ overtaken' = IF HasQueuedHigherPriorityThan(3) THEN overtaken + 1 ELSE overtaken
      BY <1>4 DEF ProcessRow, Go, Overtakes
    <2>2. overtaken = 0
      BY <1>a, <2>1 DEF Ending
    <2>3. queue \subseteq queue'
      BY <1>4 DEF ProcessRow, Enqueue, queueVars
    <2>4. chunk'.taken > 0
      <3>1. chunk \in Chunks
        BY <1>0 DEF Types
      <3> QED  BY <2>1, <3>1 DEF Chunks
    <2>5. CASE HasQueuedHigherPriorityThan(3)
      <3>1. overtaken' \in Nat /\ HasQueuedHigherPriorityThan(3)'
        BY <1>b, <2>1, <2>2, <2>3, <2>5
      <3> QED  BY <2>1, <2>4, <3>1 DEF Yields
    <2>6. CASE ~HasQueuedHigherPriorityThan(3)
      BY <1>1, <2>1, <2>2, <2>6
    <2> QED  BY <2>5, <2>6
  <1>5. CASE Crash
    BY <1>1, <1>5 DEF Crash
  <1>6. CASE Rechecks
    <2>1. /\ wpc' \in Out /\ queue' = queue
          /\ \/ overtaken' = overtaken
             \/ overtaken' = IF HasQueuedHigherPriorityThan(3) THEN overtaken + 1 ELSE overtaken
      BY <1>6, Rechecked DEF Ending, Overtakes
    <2>2. CASE HasQueuedHigherPriorityThan(3)
      <3>1. overtaken' \in Nat
        BY <1>a, <2>1
      <3> QED  BY <1>b, <1>c, <2>1, <2>2, <3>1
    <2>3. CASE ~HasQueuedHigherPriorityThan(3)
      <3>1. overtaken' = 0
        BY <1>a, <2>1, <2>3
      <3> QED  BY <1>1, <3>1
    <2> QED  BY <2>2, <2>3
  <1>7. CASE Worker /\ ~WorkerPop /\ ~ProcessRow /\ ~Rechecks
    <2>1. overtaken' = overtaken /\ queue \subseteq queue'
      BY <1>7
      DEF Worker, Deliver, DeliverCommit, WorkerSteps, WorkerComplete, Complete, OrchestrateRepair,
          RepairMarkQueued, WorkerMarks, RepairStepZero, ChunkBegin, ResolveTargets, LoadIndex,
          CheckUrgentWork, MarkProgress, Advance, MarkCompleted, ChunkRaises, RecordError,
          MarkFailed, FinishRun, Enqueue, historyVars, queueVars
    <2>2. CASE overtaken = 0
      BY <1>1, <2>1, <2>2
    <2>3. CASE overtaken > 0
      <3>1. HasQueuedHigherPriorityThan(3)'
        BY <1>a, <1>b, <2>1, <2>3
      <3>2. CASE CheckUrgentWork
        <4>1. wpc' = "mark-progress"
          BY <1>a, <2>3, <3>2 DEF CheckUrgentWork, WorkerSteps, Go
        <4> QED  BY <1>a, <1>c, <2>1, <3>1, <4>1
      <3>3. CASE ~CheckUrgentWork
        <4>1. wpc \in Out
          BY <1>7, <1>a, <2>3, <3>3
          DEF Worker, Deliver, DeliverCommit, WorkerSteps, WorkerComplete, OrchestrateRepair,
              RepairMarkQueued, WorkerMarks, RepairStepZero, ChunkBegin, ResolveTargets, LoadIndex,
              MarkProgress, Advance, MarkCompleted, ChunkRaises, RecordError, MarkFailed, FinishRun, Go
        <4>2. wpc' \in Out
          BY <1>7, <3>3, <4>1
          DEF Worker, Deliver, DeliverCommit, WorkerSteps, WorkerComplete, OrchestrateRepair,
              RepairMarkQueued, WorkerMarks, RepairStepZero, ChunkBegin, ResolveTargets, LoadIndex,
              MarkProgress, Advance, EndOfRun, MarkCompleted, ChunkRaises, RecordError, MarkFailed,
              FinishRun, Go, Ending
        <4> QED  BY <1>a, <1>c, <2>1, <3>1, <4>2
      <3> QED  BY <3>2, <3>3
    <2> QED  BY <1>a, <2>2, <2>3
  <1> QED  BY <1>2, <1>3, <1>4, <1>5, <1>6, <1>7 DEF Next
-----------------------------------------------------------------------------
(* What has been taken.                                                    *)

\* The filtered rows of a day have different places, from 0 to their number.
LEMMA Places ==
    ASSUME NEW S \in SUBSET Nat, IsFiniteSet(S)
    PROVE  /\ Cardinality(S) \in Nat
           /\ \A i \in S : Place(i, S) \in Nat /\ Place(i, S) < Cardinality(S)
           /\ \A i, k \in S : Place(i, S) = Place(k, S) => i = k
  <1> DEFINE before(i) == {x \in S : x < i}
  <1>1. Cardinality(S) \in Nat
    BY FS_CardinalityType
  <1>2. \A i \in S : /\ IsFiniteSet(before(i)) /\ Cardinality(before(i)) \in Nat
                     /\ Cardinality(before(i)) <= Cardinality(S) /\ before(i) # S
                     /\ (Cardinality(before(i)) = Cardinality(S) => before(i) = S)
    <2> SUFFICES ASSUME NEW i \in S
                 PROVE  /\ IsFiniteSet(before(i)) /\ Cardinality(before(i)) \in Nat
                        /\ Cardinality(before(i)) <= Cardinality(S) /\ before(i) # S
                        /\ (Cardinality(before(i)) = Cardinality(S) => before(i) = S)
      OBVIOUS
    <2>1. before(i) \subseteq S
      OBVIOUS
    <2>2. i \notin before(i)
      OBVIOUS
    <2> HIDE DEF before
    <2> QED  BY <2>1, <2>2, FS_Subset, FS_CardinalityType
  <1>3. ASSUME NEW i \in S, NEW k \in S, i < k PROVE Place(i, S) # Place(k, S)
    <2>1. \A x \in S : x \in Nat /\ (x < i => x < k) /\ ~(i < i)
      BY <1>3
    <2>2. before(i) \subseteq before(k) /\ i \in before(k) /\ i \notin before(i)
      BY <1>3, <2>1
    <2>3. IsFiniteSet(before(k))
      BY <1>2
    <2>4. Place(i, S) = Cardinality(before(i)) /\ Place(k, S) = Cardinality(before(k))
      BY DEF Place
    <2> HIDE DEF before
    <2> QED  BY <2>2, <2>3, <2>4, FS_Subset
  <1>4. \A i \in S : Place(i, S) \in Nat /\ Place(i, S) < Cardinality(S)
    <2> SUFFICES ASSUME NEW i \in S PROVE Place(i, S) \in Nat /\ Place(i, S) < Cardinality(S)
      OBVIOUS
    <2>1. Place(i, S) = Cardinality(before(i))
      BY DEF Place
    <2> HIDE DEF before
    <2> QED  BY <1>1, <1>2, <2>1
  <1>5. \A i, k \in S : i = k \/ i < k \/ k < i
    OBVIOUS
  <1> QED  BY <1>1, <1>3, <1>4, <1>5

\* What passes the filter is a finite set of positions.
LEMMA FilteredRows ==
    ASSUME NEW d \in Days, NEW t
    PROVE  /\ Filtered(d, t) \in SUBSET Nat /\ IsFiniteSet(Filtered(d, t))
           /\ Filtered(d, t) \subseteq DOMAIN IndexRows[d]
  <1>1. PICK n \in Nat : DOMAIN IndexRows[d] = 1..n
    <2>1. IndexRows[d] \in Seq(Entries \cup {Form4})
      BY RecoveryAssumption
    <2> QED  BY <2>1
  <1>2. Filtered(d, t) \subseteq 1..n
    BY <1>1 DEF Filtered
  <1>3. IsFiniteSet(1..n)
    BY FS_Interval
  <1> QED  BY <1>1, <1>2, <1>3, FS_Subset

\* A chain that has taken nothing has all its days ahead.
LEMMA NothingTaken ==
    ASSUME NEW c \in Chains, NEW t, NEW remaining, ToSet(remaining) = ToSet(DaysOf(c)), NEW n
    PROVE  TakenUpTo(c, NothingSeen, t, remaining, NoDay, n)
  <1>1. ToSet(DaysOf(c)) \subseteq Days /\ NoDay \notin Days
    BY Constants
  <1>2. ASSUME NEW d \in ToSet(DaysOf(c)), NEW i \in DOMAIN IndexRows[d]
        PROVE  NothingSeen[d][i] = 0
    BY <1>1 DEF NothingSeen
  <1>3. \A d \in ToSet(DaysOf(c)) : d # NoDay /\ d \notin ToSet(DaysOf(c)) \ (ToSet(remaining) \cup {NoDay})
    BY <1>1
  <1> QED  BY <1>2, <1>3 DEF TakenUpTo, Taken

\* It takes the next day, of which it has taken nothing so far.
LEMMA DayBegins ==
    ASSUME NEW c \in Chains, NEW s, NEW t, NEW ahead, NEW day, NEW remaining,
           ToSet(remaining) = ToSet(ahead) \ {day}, day \in ToSet(ahead),
           ToSet(ahead) \subseteq ToSet(DaysOf(c)), TakenUpTo(c, s, t, ahead, NoDay, 0)
    PROVE  TakenUpTo(c, s, t, remaining, day, 0)
  <1>1. ToSet(DaysOf(c)) \subseteq Days /\ NoDay \notin Days
    BY Constants
  <1>2. \A d \in ToSet(DaysOf(c)) : d # NoDay
    BY <1>1
  <1>3. \A d \in ToSet(DaysOf(c)) : \A i : i \in Due(t, d) => ~(Place(i, Due(t, d)) < 0)
    <2> SUFFICES ASSUME NEW d \in ToSet(DaysOf(c)), NEW i \in Due(t, d)
                 PROVE  ~(Place(i, Due(t, d)) < 0)
      OBVIOUS
    <2>1. Due(t, d) = Filtered(d, t)
      BY DEF Due
    <2>2. Place(i, Filtered(d, t)) \in Nat
      BY <1>1, <2>1, FilteredRows, Places
    <2> QED  BY <2>1, <2>2
  <1>4. ToSet(remaining) \cup {day} = ToSet(ahead)
    OBVIOUS
  <1>5. ToSet(DaysOf(c)) \ (ToSet(remaining) \cup {day}) = ToSet(DaysOf(c)) \ (ToSet(ahead) \cup {NoDay})
    BY <1>2, <1>4
  <1>6. ASSUME NEW d \in ToSet(DaysOf(c)), NEW i \in DOMAIN IndexRows[d]
        PROVE  s[d][i] = IF /\ i \in Due(t, d)
                            /\ \/ d \in ToSet(DaysOf(c)) \ (ToSet(remaining) \cup {day})
                               \/ d = day /\ Place(i, Due(t, d)) < 0
                         THEN 1 ELSE 0
    <2>1. s[d][i] = IF /\ i \in Due(t, d)
                       /\ \/ d \in ToSet(DaysOf(c)) \ (ToSet(ahead) \cup {NoDay})
                          \/ d = NoDay /\ Place(i, Due(t, d)) < 0
                    THEN 1 ELSE 0
      BY DEF TakenUpTo, Taken
    <2> QED  BY <1>2, <1>3, <1>5, <2>1
  <1> QED  BY <1>6 DEF TakenUpTo, Taken

\* One more row of the day is taken.
LEMMA RowTaken ==
    ASSUME NEW c \in Chains, NEW s, NEW t, NEW remaining, NEW day \in ToSet(DaysOf(c)), NEW n \in Nat,
           DOMAIN s = Days, DOMAIN s[day] = DOMAIN IndexRows[day],
           t # {}, NEW i \in Filtered(day, t), Place(i, Filtered(day, t)) = n,
           TakenUpTo(c, s, t, remaining, day, n)
    PROVE  TakenUpTo(c, [s EXCEPT ![day][i] = @ + 1], t, remaining, day, n + 1)
  <1> DEFINE now == [s EXCEPT ![day][i] = @ + 1]
             done == ToSet(DaysOf(c)) \ (ToSet(remaining) \cup {day})
  <1>1. ToSet(DaysOf(c)) \subseteq Days /\ day \in Days /\ Due(t, day) = Filtered(day, t)
    BY Constants DEF Due
  <1>2. /\ i \in DOMAIN IndexRows[day]
        /\ \A k \in Filtered(day, t) : Place(k, Filtered(day, t)) \in Nat
        /\ \A k \in Filtered(day, t) : Place(k, Filtered(day, t)) = n => k = i
    BY <1>1, FilteredRows, Places
  <1>3. /\ now[day][i] = s[day][i] + 1
        /\ \A k \in DOMAIN IndexRows[day] : k # i => now[day][k] = s[day][k]
        /\ \A d \in Days : d # day => now[d] = s[d]
    BY <1>1, <1>2
  <1>4. \A d \in ToSet(DaysOf(c)) : \A k \in DOMAIN IndexRows[d] :
           s[d][k] = IF k \in Due(t, d) /\ (d \in done \/ (d = day /\ Place(k, Due(t, d)) < n))
                     THEN 1 ELSE 0
    BY DEF TakenUpTo, Taken
  <1> HIDE DEF now
  <1>5. ASSUME NEW d \in ToSet(DaysOf(c)), NEW k \in DOMAIN IndexRows[d]
        PROVE  now[d][k] = IF k \in Due(t, d) /\ (d \in done \/ (d = day /\ Place(k, Due(t, d)) < n + 1))
                           THEN 1 ELSE 0
    <2>1. CASE d # day
      BY <1>1, <1>3, <1>4, <2>1
    <2>2. CASE d = day /\ k = i
      <3>1. s[day][i] = 0
        BY <1>1, <1>2, <1>4, <2>2
      <3>2. now[day][i] = 1 /\ i \in Due(t, day) /\ Place(i, Due(t, day)) < n + 1
        BY <1>1, <1>3, <3>1
      <3> QED  BY <2>2, <3>2
    <2>3. CASE d = day /\ k # i
      <3>1. now[day][k] = s[day][k] /\ day \notin done
        BY <1>3, <2>3
      <3>2. k \in Due(t, day) => (Place(k, Due(t, day)) < n + 1 <=> Place(k, Due(t, day)) < n)
        BY <1>1, <1>2, <2>3
      <3> QED  BY <1>4, <2>3, <3>1, <3>2
    <2> QED  BY <2>1, <2>2, <2>3
  <1> QED  BY <1>5 DEF TakenUpTo, Taken, now

\* At the end of its slice the day is done.
LEMMA DayEnds ==
    ASSUME NEW c \in Chains, NEW s, NEW t, NEW remaining, NEW day \in ToSet(DaysOf(c)), NEW n \in Nat,
           day \notin ToSet(remaining), t # {} => ~(n < Cardinality(Filtered(day, t))),
           TakenUpTo(c, s, t, remaining, day, n)
    PROVE  /\ Taken(c, s, t, ToSet(DaysOf(c)) \ ToSet(remaining), NoDay, 0)
           /\ TakenUpTo(c, s, t, remaining, NoDay, 0)
  <1> DEFINE done == ToSet(DaysOf(c)) \ (ToSet(remaining) \cup {day})
             after == ToSet(DaysOf(c)) \ ToSet(remaining)
  <1>1. ToSet(DaysOf(c)) \subseteq Days /\ NoDay \notin Days
    BY Constants
  <1>2. \A k \in Due(t, day) : Place(k, Due(t, day)) < n
    <2> SUFFICES ASSUME NEW k \in Due(t, day) PROVE Place(k, Due(t, day)) < n
      OBVIOUS
    <2>1. t # {} /\ Due(t, day) = Filtered(day, t)
      BY DEF Due
    <2>2. /\ Place(k, Filtered(day, t)) \in Nat /\ Place(k, Filtered(day, t)) < Cardinality(Filtered(day, t))
          /\ Cardinality(Filtered(day, t)) \in Nat
      BY <1>1, <2>1, FilteredRows, Places
    <2> QED  BY <2>1, <2>2
  <1>3. ASSUME NEW d \in ToSet(DaysOf(c)), NEW k \in DOMAIN IndexRows[d]
        PROVE  s[d][k] = IF k \in Due(t, d) /\ (d \in after \/ (d = NoDay /\ Place(k, Due(t, d)) < 0))
                         THEN 1 ELSE 0
    <2>1. s[d][k] = IF k \in Due(t, d) /\ (d \in done \/ (d = day /\ Place(k, Due(t, d)) < n))
                    THEN 1 ELSE 0
      BY DEF TakenUpTo, Taken
    <2>2. d # NoDay
      BY <1>1
    <2>3. d = day => d \in after
      OBVIOUS
    <2>4. d # day => (d \in done <=> d \in after)
      OBVIOUS
    <2> HIDE DEF done, after
    <2> QED  BY <1>2, <2>1, <2>2, <2>3, <2>4
  <1>4. Taken(c, s, t, after, NoDay, 0)
    BY <1>3 DEF Taken
  <1>5. after = ToSet(DaysOf(c)) \ (ToSet(remaining) \cup {NoDay})
    BY <1>1
  <1> HIDE DEF after
  <1> QED  BY <1>4, <1>5 DEF TakenUpTo, after
\* Whoever touches the targets of a chain makes it unsteady; a chain that turns
\* steady was not running.
LEMMA SteadyStep ==
    ASSUME Inv, [Next]_vars, NEW c \in Chains, c \in steady'
    PROVE  (c \in steady /\ Targets(c)' = Targets(c)) \/ c \notin activeRuns
  <1>0. watch \in [Entries -> {"absent", "paused", "enabled"}]
    BY DEF Inv, Types
  <1>1. CASE UNCHANGED <<steady, watch>>
    BY <1>1 DEF Targets, Wanted
  <1>2. ASSUME NEW e \in Entries, NEW w, SetWatch(e, w) PROVE c \in steady /\ Targets(c)' = Targets(c)
    <2>1. c \in steady /\ c # e /\ c # Repair /\ watch' = [watch EXCEPT ![e] = w]
      BY <1>2 DEF SetWatch
    <2>2. \A x \in Entries : (watch'[x] = "enabled" /\ c = x) <=> (watch[x] = "enabled" /\ c = x)
      BY <1>0, <2>1
    <2>3. Wanted(c)' = Wanted(c)
      BY <2>1, <2>2 DEF Wanted
    <2> QED  BY <2>1, <2>3 DEF Targets
  <1>3. CASE Routes
    <2>1. UNCHANGED <<steady, watch>> \/ \E e \in Entries : \E w : SetWatch(e, w)
      BY <1>3 DEF Routes, RepairNow, BackfillNow, CreateEntry, ToggleEntry, DeleteEntry
    <2> QED  BY <1>1, <1>2, <2>1
  <1>4. CASE RouteSteps
    <2>1. watch' = watch
      BY <1>4 DEF RouteSteps, RouteStart, RouteRefused, RouteInsert, RouteTimesOut, RouteEnqueue,
                  RouteCommit, RouteUndo, RouteDelete
    <2>2. steady' = steady \/ (RouteStart /\ steady' = steady \cup {route.chain})
      BY <1>4 DEF RouteSteps, RouteStart, StartRun, RouteRefused, RouteInsert, RouteTimesOut,
                  RouteEnqueue, RouteCommit, RouteUndo, RouteDelete, historyVars
    <2>3. RouteStart => route.chain \notin activeRuns
      BY DEF RouteStart, StartRun
    <2> QED  BY <2>1, <2>2, <2>3 DEF Targets, Wanted
  <1>5. CASE ScheduleRepair \/ OtherArrives \/ UNCHANGED vars
    <2>1. UNCHANGED <<steady, watch>>
      BY <1>5 DEF ScheduleRepair, OtherArrives, Arrive, historyVars, vars
    <2> QED  BY <1>1, <2>1
  <1>6. CASE Worker
    <2>1. watch' = watch
      BY <1>6, WorkerFrame
    <2>2. steady' \subseteq steady \/ (steady' = steady \cup {Repair} /\ Repair \notin activeRuns)
      BY <1>6, Rechecked
      DEF Worker, WorkerPop, Deliver, DeliverCommit, WorkerSteps, WorkerComplete, OrchestrateRepair,
          StartRun, RepairMarkQueued, WorkerMarks, RepairStepZero, ChunkBegin, ResolveTargets,
          LoadIndex, CheckUrgentWork, ProcessRow, MarkProgress, Advance, MarkCompleted, ChunkRaises,
          RecordError, MarkFailed, FinishRun, historyVars
    <2> QED  BY <2>1, <2>2 DEF Targets, Wanted
  <1>7. CASE Crash
    BY <1>7 DEF Crash
  <1> QED  BY <1>3, <1>4, <1>5, <1>6, <1>7 DEF Next

\* Only the worker's own chain takes rows or forgets them.
LEMMA SeenFrame ==
    ASSUME Inv, [Next]_vars, NEW c \in Chains, ~Crash
    PROVE  \/ seen'[c] = seen[c]
           \/ Chain = c /\ WorkerCarries(c) /\ ProcessRow
           \/ Chain = c /\ WorkerCarries(c) /\ FinishRun
  <1>0. DOMAIN seen = Chains
    BY DEF Inv, SeenFits
  <1>1. CASE UNCHANGED seen
    BY <1>1
  <1>2. CASE ProcessRow \/ FinishRun
    <2>1. wpc \in {"row", "finish-run"}
      BY <1>2 DEF ProcessRow, FinishRun, Go
    <2>2. job.work.task = "chunk"
      BY <2>1 DEF Inv, WorkerFits, Handling, Ending
    <2>3. Chain = c => WorkerCarries(c)
      BY <2>1, <2>2 DEF WorkerCarries
    <2>4. Chain # c => seen'[c] = seen[c]
      <3>1. CASE ProcessRow
        BY <1>0, <3>1 DEF ProcessRow
      <3>2. CASE FinishRun
        BY <1>0, <3>2 DEF FinishRun
      <3> QED  BY <1>2, <3>1, <3>2
    <2> QED  BY <1>2, <2>3, <2>4
  <1>3. Worker => UNCHANGED seen \/ ProcessRow \/ FinishRun
    BY Rechecked DEF Worker, WorkerPop, Deliver, DeliverCommit, WorkerSteps, WorkerComplete, OrchestrateRepair,
           StartRun, RepairMarkQueued, WorkerMarks, RepairStepZero, ChunkBegin, ResolveTargets,
           LoadIndex, CheckUrgentWork, MarkProgress, Advance, MarkCompleted, ChunkRaises,
           RecordError, MarkFailed, historyVars
  <1> QED  BY <1>1, <1>2, <1>3, RoutesFrame DEF Next

\* What a chain has taken stays taken.
LEMMA CoveredKept ==
    ASSUME NEW c, seen'[c] = seen[c], c \in steady' => c \in steady /\ Targets(c)' = Targets(c)
    PROVE  \A remaining, day, n : Covered(c, remaining, day, n) => Covered(c, remaining, day, n)'
  BY DEF Covered

\* The worker's chain and one with a job in the queue are taken.
LEMMA CarriedRuns ==
    ASSUME Types, OneCarrier, WorkerFits
    PROVE  /\ wpc \in {"begin", "step-zero"} \cup Handling \cup Ending =>
                 Chain \in Chains /\ WorkerCarries(Chain) /\ Chain \in activeRuns
           /\ \A j \in queue : j.work.task = "chunk" =>
                 /\ j.work.chain \in Chains /\ j.work.chain \in activeRuns
                 /\ ~WorkerCarries(j.work.chain) /\ ~RouteCarries(j.work.chain)
  <1>1. ASSUME wpc \in {"begin", "step-zero"} \cup Handling \cup Ending
        PROVE  Chain \in Chains /\ WorkerCarries(Chain) /\ Chain \in activeRuns
    <2>1. Chain \in Chains
      BY JobParts DEF Types, Chain
    <2>2. job.work.task # "other" /\ wpc \notin {"idle", "finish", "orchestrate"}
      BY <1>1 DEF WorkerFits, Handling, Ending
    <2>3. WorkerCarries(Chain)
      BY <2>2 DEF WorkerCarries
    <2> QED  BY <2>1, <2>3 DEF OneCarrier
  <1>2. ASSUME NEW j \in queue, j.work.task = "chunk"
        PROVE  /\ j.work.chain \in Chains /\ j.work.chain \in activeRuns
               /\ ~WorkerCarries(j.work.chain) /\ ~RouteCarries(j.work.chain)
    <2>1. j.work.chain \in Chains
      BY JobParts DEF Types
    <2>2. j \in QueueCarries(j.work.chain)
      BY <1>2 DEF QueueCarries
    <2> QED  BY <2>1, <2>2 DEF OneCarrier
  <1> QED  BY <1>1, <1>2

\* A chain that has begun goes on until its last job.
LEMMA UnseenStep == Inv /\ [Next]_vars => NotBegunUnseen'
  <1> SUFFICES ASSUME Inv, [Next]_vars, NEW c \in Chains, ~Begun(c)' PROVE seen'[c] = NothingSeen
    BY DEF NotBegunUnseen
  <1>0. Types /\ JobsFit /\ KeysAreOfJobs /\ WorkerFits /\ OneCarrier /\ NotBegunUnseen
    BY DEF Inv, Covers
  <1>1. CASE Crash
    BY <1>1 DEF Crash
  <1>2. CASE FinishRun /\ Chain = c
    <2>1. DOMAIN seen = Chains
      BY DEF Inv, SeenFits
    <2> QED  BY <1>2, <2>1 DEF FinishRun
  <1>3. ASSUME ~Begun(c) PROVE seen'[c] = NothingSeen \/ Crash
    <2>1. seen[c] = NothingSeen
      BY <1>0, <1>3 DEF NotBegunUnseen
    <2>2. ~(Chain = c /\ (ProcessRow \/ FinishRun))
      BY <1>3 DEF Begun, ProcessRow, FinishRun, Go, Handling, Ending
    <2> QED  BY <2>1, <2>2, SeenFrame
  <1>4. ASSUME Begun(c), ~Crash, ~(FinishRun /\ Chain = c) PROVE FALSE
    <2>1. ASSUME NEW j \in queue, j.work.chain = c, j.work.task = "chunk" PROVE FALSE
      <3>1. CASE WorkerPop
        <4>1. PICK i \in queue : /\ PopNext(i) /\ job' = i
                                 /\ Go("idle", CASE i.work.task = "other" -> "process"
                                                  [] i.work.task = "chunk" -> "begin"
                                                  [] OTHER -> "orchestrate")
          BY <3>1 DEF WorkerPop
        <4>2. CASE i = j
          BY <2>1, <4>1, <4>2 DEF Begun, Chain, Go
        <4>3. CASE i # j
          BY <2>1, <4>1, <4>3 DEF Begun, PopNext
        <4> QED  BY <4>2, <4>3
      <3>2. CASE ~WorkerPop
        <4>1. queue \subseteq queue'
          BY <1>4, <3>2, Rechecked
          DEF Next, Routes, RepairNow, BackfillNow, CreateEntry, ToggleEntry, DeleteEntry, Request,
              RouteSteps, RouteStart, RouteRefused, RouteInsert, RouteTimesOut, RouteEnqueue,
              RouteCommit, RouteUndo, RouteDelete, ScheduleRepair, OtherArrives, Arrive, Enqueue,
              vars, queueVars, Worker, Deliver, DeliverCommit, WorkerSteps, WorkerComplete, Complete,
              OrchestrateRepair, RepairMarkQueued, WorkerMarks, RepairStepZero, ChunkBegin,
              ResolveTargets, LoadIndex, CheckUrgentWork, ProcessRow, MarkProgress, Advance,
              MarkCompleted, ChunkRaises, RecordError, MarkFailed, FinishRun
        <4> QED  BY <2>1, <4>1 DEF Begun
      <3> QED  BY <3>1, <3>2
    <2>2. ASSUME Chain = c, wpc \in {"begin"} \cup Handling \cup Ending PROVE FALSE
      <3>1. CASE Advance
        <4> DEFINE Work1(d, n) == Payload("chunk", Chain, job.work.run, chunk.remaining, d, n)
        <4>1. \A d, n : Work1(d, n).chain = Chain /\ Work1(d, n).task = "chunk"
          BY DEF Payload
        <4> HIDE DEF Work1
        <4>2. \/ wpc' \in {"revalidate", "mark-completed"}
              \/ \E k \in RunKeys, w \in Payloads : w.chain = Chain /\ w.task = "chunk" /\ Enqueue(k, 3, w)
          <5>1. \/ wpc' \in {"revalidate", "mark-completed"} /\ UNCHANGED queueVars
                \/ \E k \in RunKeys : /\ wpc' = "finish" /\ Work1(chunk.day, chunk.offset + chunk.taken) \in Payloads
                                      /\ Enqueue(k, 3, Work1(chunk.day, chunk.offset + chunk.taken))
                \/ \E k \in RunKeys : /\ wpc' = "finish" /\ Work1(NoDay, 0) \in Payloads
                                      /\ Enqueue(k, 3, Work1(NoDay, 0))
            BY <1>0, <3>1, Advances DEF Work1
          <5> QED  BY <4>1, <5>1
        <4>3. CASE wpc' \in {"revalidate", "mark-completed"}
          <5>1. job' = job
            BY <3>1 DEF Advance
          <5> QED  BY <2>2, <4>3, <5>1 DEF Begun, Chain, Ending
        <4>4. ASSUME NEW k \in RunKeys, NEW w \in Payloads, w.chain = Chain, w.task = "chunk",
                     Enqueue(k, 3, w)
              PROVE  FALSE
          <5>1. 3 \in Priorities
            BY DEF Priorities
          <5>2. PICK new \in Jobs : new.work = w /\ queue' = queue \cup {new}
            BY <1>0, <4>4, <5>1, Enqueued
          <5> QED  BY <2>2, <4>4, <5>2 DEF Begun
        <4> QED  BY <4>2, <4>3, <4>4
      <3>4. CASE Rechecks
        <4>1. job' = job /\ wpc' \in Ending
          BY <3>4, Rechecked DEF Ending
        <4> QED  BY <2>2, <4>1 DEF Begun, Chain
      <3>2. CASE Worker /\ ~Advance /\ ~Rechecks
        <4>1. job' = job /\ wpc' \in Handling \cup Ending
          BY <1>4, <2>2, <3>2
          DEF Worker, WorkerPop, Deliver, DeliverCommit, WorkerSteps, WorkerComplete,
              OrchestrateRepair, RepairMarkQueued, WorkerMarks, RepairStepZero, ChunkBegin,
              ResolveTargets, LoadIndex, CheckUrgentWork, ProcessRow, MarkProgress, MarkCompleted,
              ChunkRaises, RecordError, MarkFailed, FinishRun, Go, EndOfRun,
              Handling, Ending
        <4> QED  BY <2>2, <4>1 DEF Begun, Chain
      <3>3. CASE Routes \/ RouteSteps \/ ScheduleRepair \/ OtherArrives \/ UNCHANGED vars
        <4>1. UNCHANGED <<wpc, job>>
          BY <3>3, RoutesFrame
        <4> QED  BY <2>2, <4>1 DEF Begun, Chain
      <3> QED  BY <1>4, <3>1, <3>2, <3>3, <3>4 DEF Next
    <2> QED  BY <1>4, <2>1, <2>2 DEF Begun
  <1> QED  BY <1>1, <1>2, <1>3, <1>4
\* A job that joins the queue with rows ahead of it.
LEMMA QueueCoversStep == Inv /\ [Next]_vars => QueueCovers'
  <1> SUFFICES ASSUME Inv, [Next]_vars, NEW j \in queue', j.work.task = "chunk"
               PROVE  JobCovers(j.work)'
    BY DEF QueueCovers
  <1>0. /\ Types /\ JobsFit /\ KeysAreOfJobs /\ WorkerFits /\ OneCarrier
        /\ NotBegunUnseen /\ QueueCovers /\ WorkerCovers
    BY DEF Inv, Covers
  <1>1. ASSUME j \in queue PROVE JobCovers(j.work)'
    <2> DEFINE c == j.work.chain
    <2>1. c \in Chains /\ c \in activeRuns /\ ~WorkerCarries(c)
      BY <1>0, <1>1, CarriedRuns
    <2>2. ~Crash
      BY <1>1 DEF Crash
    <2>3. seen'[c] = seen[c]
      BY <2>1, <2>2, SeenFrame
    <2>4. c \in steady' => c \in steady /\ Targets(c)' = Targets(c)
      BY <2>1, SteadyStep
    <2>5. JobCovers(j.work)
      BY <1>0, <1>1 DEF QueueCovers
    <2> QED  BY <2>3, <2>4, <2>5, CoveredKept DEF JobCovers
  <1>2. ASSUME NEW k \in RunKeys, NEW p \in Priorities, NEW w \in Payloads, Enqueue(k, p, w),
               w.task = "chunk" => JobCovers(w)'
        PROVE  JobCovers(j.work)'
    <2>1. PICK new \in Jobs : new.work = w /\ queue' = queue \cup {new}
      BY <1>0, <1>2, Enqueued
    <2> QED  BY <1>1, <1>2, <2>1
  <1>3. CASE queue' \subseteq queue
    BY <1>1, <1>3
  <1>a. 1 \in Priorities /\ 3 \in Priorities
    BY DEF Priorities
  <1>4. CASE RouteEnqueue
    <2>0. PICK c \in Chains : c = route.chain
      BY <1>0 DEF Types
    <2> DEFINE key == IF c = Repair THEN ManualKey ELSE StepZero(c)
               w == Payload(IF c = Repair THEN "repair-now" ELSE "chunk", c, route.run, <<>>, NoDay, 0)
    <2>1. UNCHANGED queue \/ Enqueue(key, 3, w)
      BY <1>4, <2>0 DEF RouteEnqueue, queueVars
    <2>2. key \in RunKeys
      BY KeysFit
    <2>3. w \in Payloads
      <3>1. <<>> \in Seq(Days) /\ route.run \in RunIds \cup {NoRun}
        BY <1>0 DEF Types
      <3> QED  BY <3>1, PayloadFits
    <2>4. ASSUME NEW work \in Payloads, work = w, work.task = "chunk" PROVE JobCovers(work)'
      <3>1. /\ work.chain = c /\ work.day = NoDay /\ work.remaining = <<>> /\ work.offset = 0
            /\ c # Repair
        BY <2>4 DEF Payload
      <3>2. DaysAhead(work) = DaysOf(c)
        BY <3>1, Constants DEF DaysAhead
      <3>3. RouteCarries(c)
        BY <1>4, <2>0 DEF RouteEnqueue, RouteCarries
      <3>4. ~Begun(c)
        BY <1>0, <3>3, CarriedRuns DEF Begun, OneCarrier
      <3>5. seen[c] = NothingSeen /\ seen' = seen
        BY <1>0, <1>4, <3>4 DEF NotBegunUnseen, RouteEnqueue, historyVars
      <3>6. \A t : TakenUpTo(c, NothingSeen, t, DaysOf(c), NoDay, 0)
        BY NothingTaken
      <3>7. Covered(c, DaysOf(c), NoDay, 0)'
        BY <3>5, <3>6 DEF Covered
      <3> QED  BY <3>1, <3>2, <3>7 DEF JobCovers
    <2> HIDE DEF key, w
    <2>5. CASE Enqueue(key, 3, w)
      BY <1>2, <1>a, <2>2, <2>3, <2>4, <2>5
    <2> QED  BY <1>3, <2>1, <2>5
  <1>5. CASE RepairStepZero
    <2> DEFINE w == Payload("chunk", Repair, job.work.run, RepairDays, NoDay, 0)
    <2>1. /\ wpc = "step-zero" /\ Chain = Repair /\ WorkerCarries(Repair) /\ StepZero(Repair) \in RunKeys
          /\ w \in Payloads /\ Enqueue(StepZero(Repair), 3, w)
      BY <1>0, <1>5, RepairBegins
    <2>2. ASSUME NEW work \in Payloads, work = w PROVE JobCovers(work)'
      <3>1. /\ work.chain = Repair /\ work.day = NoDay /\ work.remaining = RepairDays /\ work.offset = 0
        BY <2>2 DEF Payload
      <3>2. DaysAhead(work) = DaysOf(Repair)
        BY <3>1, Constants DEF DaysAhead
      <3>3. ~Begun(Repair)
        BY <1>0, <2>1, Constants, CarriedRuns DEF Begun, Handling, Ending
      <3>4. seen[Repair] = NothingSeen /\ seen' = seen
        BY <1>0, <1>5, <3>3, Constants DEF NotBegunUnseen, RepairStepZero, historyVars
      <3>5. \A t : TakenUpTo(Repair, NothingSeen, t, DaysOf(Repair), NoDay, 0)
        BY NothingTaken, Constants
      <3>6. Covered(Repair, DaysOf(Repair), NoDay, 0)'
        BY <3>4, <3>5 DEF Covered
      <3> QED  BY <3>1, <3>2, <3>6 DEF JobCovers
    <2> HIDE DEF w
    <2> QED  BY <1>2, <1>a, <2>1, <2>2
  <1>6. CASE Advance
    <2>0. PICK c \in Chains : c = Chain
      BY <1>0, JobParts DEF Types, Chain
    <2>a. PICK remaining \in Seq(Days) : remaining = chunk.remaining
      BY <1>0 DEF Types, Chunks
    <2> DEFINE next == chunk.offset + chunk.taken
               Work1(d, n) == Payload("chunk", c, job.work.run, remaining, d, n)
    <2>1. /\ wpc = "advance" /\ chunk.offset \in Nat /\ chunk.taken \in Nat /\ next \in Nat /\ chunk.day \in Days
          /\ \/ wpc' \in {"revalidate", "mark-completed"} /\ UNCHANGED queueVars
             \/ \E k \in RunKeys : /\ Work1(chunk.day, next) \in Payloads
                                   /\ Enqueue(k, 3, Work1(chunk.day, next))
             \/ \E k \in RunKeys : /\ ~(next < Cardinality(chunk.index)) /\ remaining # <<>>
                                   /\ Work1(NoDay, 0) \in Payloads /\ Enqueue(k, 3, Work1(NoDay, 0))
      <3> HIDE DEF Work1
      <3>1. wpc = "advance" /\ chunk.offset \in Nat /\ chunk.taken \in Nat /\ chunk.day \in Days
        BY <1>0, <1>6, Advances
      <3>2. \/ wpc' \in {"revalidate", "mark-completed"} /\ UNCHANGED queueVars
            \/ \E k \in RunKeys : /\ Work1(chunk.day, next) \in Payloads
                                  /\ Enqueue(k, 3, Work1(chunk.day, next))
            \/ \E k \in RunKeys : /\ ~(next < Cardinality(chunk.index)) /\ remaining # <<>>
                                  /\ Work1(NoDay, 0) \in Payloads /\ Enqueue(k, 3, Work1(NoDay, 0))
        BY <1>0, <1>6, <2>0, <2>a, Advances DEF Work1
      <3>3. next \in Nat
        BY <3>1
      <3> QED  BY <3>1, <3>2, <3>3
    <2>2. /\ Covered(c, remaining, chunk.day, next) /\ chunk.index = Filtered(chunk.day, chunk.targets)
          /\ c \in steady => chunk.targets = Targets(c) /\ chunk.targets # {}
          /\ chunk.day \in ToSet(DaysOf(c)) \ ToSet(remaining)
      BY <1>0, <2>0, <2>1, <2>a DEF WorkerCovers, WorkerFits, Handling
    <2>3. UNCHANGED <<seen, steady, watch>>
      BY <1>6 DEF Advance, historyVars
    <2>4. seen'[c] = seen[c] /\ (c \in steady' => c \in steady /\ Targets(c)' = Targets(c))
      BY <2>3 DEF Targets, Wanted
    <2>5. PICK day \in Days : day = chunk.day
      BY <2>1
    <2>6. PICK n \in Nat : n = next
      BY <2>1
    <2>7. ASSUME NEW work \in Payloads, work = Work1(chunk.day, next) PROVE JobCovers(work)'
      <3>1. /\ work.chain = c /\ work.day = day /\ work.remaining = remaining /\ work.offset = n
        BY <2>5, <2>6, <2>7 DEF Payload
      <3>2. DaysAhead(work) = remaining
        BY <3>1, Constants DEF DaysAhead
      <3>3. Covered(c, remaining, day, n)
        BY <2>2, <2>5, <2>6
      <3>4. Covered(c, remaining, day, n)'
        BY <2>4, <3>3, CoveredKept
      <3> QED  BY <3>1, <3>2, <3>4 DEF JobCovers
    <2>8. ASSUME ~(next < Cardinality(chunk.index)), remaining # <<>>,
                 NEW work \in Payloads, work = Work1(NoDay, 0)
          PROVE  JobCovers(work)'
      <3>1. /\ work.chain = c /\ work.day = NoDay /\ work.remaining = remaining /\ work.offset = 0
        BY <2>8 DEF Payload
      <3>2. DaysAhead(work) = remaining
        BY <2>8, <3>1 DEF DaysAhead
      <3>3. Covered(c, remaining, NoDay, 0)
        <4> SUFFICES ASSUME c \in steady PROVE TakenUpTo(c, seen[c], Targets(c), remaining, NoDay, 0)
          BY DEF Covered
        <4>1. TakenUpTo(c, seen[c], Targets(c), remaining, day, n)
          BY <2>2, <2>5, <2>6 DEF Covered
        <4>2. ~(n < Cardinality(Filtered(day, Targets(c))))
          BY <2>2, <2>5, <2>6, <2>8
        <4>3. day \in ToSet(DaysOf(c)) /\ day \notin ToSet(remaining)
          BY <2>2, <2>5
        <4> QED  BY <4>1, <4>2, <4>3, DayEnds
      <3>4. Covered(c, remaining, NoDay, 0)'
        BY <2>4, <3>3, CoveredKept
      <3> QED  BY <3>1, <3>2, <3>4 DEF JobCovers
    <2> HIDE DEF Work1, next
    <2> QED  BY <1>2, <1>3, <1>a, <2>1, <2>7, <2>8 DEF queueVars
  <1>7. CASE ScheduleRepair \/ OtherArrives \/ ProcessRow
    <2>1. OtherKey \in RunKeys /\ ScheduledKey \in RunKeys /\ Other \in Payloads /\ Other.task # "chunk"
      BY KeysFit, OtherFits
    <2> DEFINE w == Payload("repair-scheduled", Repair, NoRun, <<>>, NoDay, 0)
    <2>2. w \in Payloads /\ w.task # "chunk"
      <3>1. <<>> \in Seq(Days)
        OBVIOUS
      <3>2. w \in Payloads
        BY <3>1, PayloadFits, Constants
      <3>3. w.task # "chunk"
        BY DEF Payload
      <3> QED  BY <3>2, <3>3
    <2>3. UNCHANGED queue \/ Enqueue(ScheduledKey, 3, w) \/ Enqueue(OtherKey, 1, Other)
      BY <1>7 DEF ScheduleRepair, OtherArrives, Arrive, ProcessRow, queueVars
    <2> HIDE DEF w
    <2> QED  BY <1>2, <1>3, <1>a, <2>1, <2>2, <2>3
  <1>8. CASE \/ Routes \/ RouteStart \/ RouteRefused \/ RouteInsert \/ RouteTimesOut \/ RouteCommit
             \/ RouteUndo \/ RouteDelete \/ Crash \/ UNCHANGED vars
    <2>1. queue' \subseteq queue
      BY <1>8 DEF Routes, RepairNow, BackfillNow, CreateEntry, ToggleEntry, DeleteEntry, Request,
                  RouteStart, RouteRefused, RouteInsert, RouteTimesOut, RouteCommit, RouteUndo,
                  RouteDelete, Crash, vars, queueVars
    <2> QED  BY <1>3, <2>1
  <1>9. CASE \/ WorkerPop \/ Deliver \/ DeliverCommit \/ WorkerComplete \/ OrchestrateRepair
             \/ RepairMarkQueued \/ ChunkBegin \/ ResolveTargets \/ LoadIndex \/ CheckUrgentWork
             \/ MarkProgress \/ MarkCompleted \/ ChunkRaises \/ RecordError \/ MarkFailed \/ FinishRun
             \/ Rechecks
    <2>1. queue' \subseteq queue
      BY <1>9, Rechecked
              DEF WorkerPop, PopNext, Deliver, DeliverCommit, WorkerSteps, WorkerComplete, Complete,
                  OrchestrateRepair, RepairMarkQueued, WorkerMarks, ChunkBegin, ResolveTargets,
                  LoadIndex, CheckUrgentWork, MarkProgress, MarkCompleted, ChunkRaises, RecordError,
                  MarkFailed, FinishRun, queueVars
    <2> QED  BY <1>3, <2>1
  <1> QED
    BY <1>4, <1>5, <1>6, <1>7, <1>8, <1>9 DEF Next, RouteSteps, Worker
\* What the worker knows of its own chain.
LEMMA WorkerCoversStep == Inv /\ [Next]_vars => WorkerCovers'
  <1> SUFFICES ASSUME Inv, [Next]_vars PROVE WorkerCovers'
    OBVIOUS
  <1> USE DEF Completing
  <1>0. /\ Types /\ JobsFit /\ KeysAreOfJobs /\ WorkerFits /\ OneCarrier
        /\ NotBegunUnseen /\ QueueCovers /\ WorkerCovers
    BY DEF Inv, Covers
  <1>0a. PICK c \in Chains : c = Chain
    BY <1>0, JobParts DEF Types, Chain
  <1>0b. chunk \in Chunks /\ chunk.offset \in Nat /\ chunk.taken \in Nat
    BY <1>0 DEF Types, Chunks
  <1>a. /\ wpc = "begin" => Covered(c, DaysAhead(job.work), job.work.day, job.work.offset)
        /\ wpc \in Handling => Covered(c, chunk.remaining, chunk.day, chunk.offset + chunk.taken)
        /\ wpc \in Handling \ {"resolve"} /\ c \in steady =>
              chunk.targets = Targets(c) /\ chunk.targets # {}
        /\ wpc \in Handling \ {"resolve", "load"} => chunk.index = Filtered(chunk.day, chunk.targets)
        /\ wpc \in Completing /\ c \in steady =>
              Taken(c, seen[c], Targets(c), ToSet(DaysOf(c)), NoDay, 0)
        /\ wpc = "mark-failed" => c \notin steady
    BY <1>0, <1>0a DEF WorkerCovers
  <1>b. ASSUME wpc \in {"begin"} \cup Handling \cup Ending, c \in steady'
        PROVE  c \in steady /\ Targets(c)' = Targets(c)
    BY <1>0, <1>0a, <1>b, CarriedRuns, SteadyStep
  <1>c. wpc \in {"begin"} \cup Handling =>
           /\ chunk.day \in ToSet(DaysOf(c)) \ ToSet(chunk.remaining) \/ wpc = "begin"
           /\ job.work.task = "chunk"
    BY <1>0, <1>0a DEF WorkerFits
  <1> DEFINE After(remaining, day, n) ==
                c \in steady' => TakenUpTo(c, seen'[c], Targets(c)', remaining, day, n)
  <1>d. ASSUME wpc \in {"begin"} \cup Handling \cup Ending, seen'[c] = seen[c]
        PROVE  /\ \A remaining, day, n : Covered(c, remaining, day, n) => After(remaining, day, n)
               /\ c \in steady' => c \in steady /\ Targets(c)' = Targets(c)
    BY <1>b, <1>d DEF Covered
  <1>e. ASSUME Chain' = c,
               wpc' = "begin" => After(DaysAhead(job'.work), job'.work.day, job'.work.offset),
               wpc' \in Handling => After(chunk'.remaining, chunk'.day, chunk'.offset + chunk'.taken),
               wpc' \in Handling \ {"resolve"} /\ c \in steady' =>
                  chunk'.targets = Targets(c)' /\ chunk'.targets # {},
               wpc' \in Handling \ {"resolve", "load"} =>
                  chunk'.index = Filtered(chunk'.day, chunk'.targets),
               wpc' \in Completing /\ c \in steady' =>
                  Taken(c, seen'[c], Targets(c)', ToSet(DaysOf(c)), NoDay, 0),
               wpc' = "mark-failed" => c \notin steady'
        PROVE  WorkerCovers'
    BY <1>e DEF WorkerCovers, Covered
  <1> HIDE DEF After
  <1>1. CASE wpc' \notin {"begin", "mark-failed"} \cup Completing \cup Handling
    BY <1>1 DEF WorkerCovers
  \* The worker stays where it is, or goes on without a change.
  <1>2. CASE /\ UNCHANGED <<job, chunk>> /\ seen'[c] = seen[c]
             /\ \/ wpc' = wpc
                \/ {wpc, wpc'} \subseteq {"check", "row", "mark-progress", "advance"}
                \/ {wpc, wpc'} \subseteq Completing
    <2>1. Chain' = c
      BY <1>0a, <1>2 DEF Chain
    <2>2. CASE wpc \in {"begin"} \cup Handling \cup Ending
      <3>1. wpc' = "begin" => After(DaysAhead(job'.work), job'.work.day, job'.work.offset)
        BY <1>2, <1>a, <1>d, <2>2
      <3>2. wpc' \in Handling => After(chunk'.remaining, chunk'.day, chunk'.offset + chunk'.taken)
        BY <1>2, <1>a, <1>d, <2>2 DEF Handling
      <3>3. /\ wpc' \in Handling \ {"resolve"} /\ c \in steady' =>
                  chunk'.targets = Targets(c)' /\ chunk'.targets # {}
            /\ wpc' \in Handling \ {"resolve", "load"} =>
                  chunk'.index = Filtered(chunk'.day, chunk'.targets)
        BY <1>2, <1>a, <1>d, <2>2 DEF Handling
      <3>4. /\ wpc' \in Completing /\ c \in steady' =>
                  Taken(c, seen'[c], Targets(c)', ToSet(DaysOf(c)), NoDay, 0)
            /\ wpc' = "mark-failed" => c \notin steady'
        BY <1>2, <1>a, <1>d, <2>2 DEF Handling
      <3> QED  BY <1>e, <2>1, <3>1, <3>2, <3>3, <3>4
    <2>3. CASE wpc \notin {"begin"} \cup Handling \cup Ending
      BY <1>1, <1>2, <2>3 DEF Handling, Ending
    <2> QED  BY <2>2, <2>3
  <1>3. CASE Routes \/ RouteSteps \/ ScheduleRepair \/ OtherArrives \/ UNCHANGED vars
    <2>1. UNCHANGED <<wpc, job, chunk, seen>>
      BY <1>3, RoutesFrame
    <2> QED  BY <1>2, <2>1
  <1>4. CASE WorkerPop
    <2>1. PICK j \in queue : /\ job' = j
                             /\ Go("idle", CASE j.work.task = "other" -> "process"
                                              [] j.work.task = "chunk" -> "begin"
                                              [] OTHER -> "orchestrate")
      BY <1>4 DEF WorkerPop
    <2>2. CASE j.work.task = "chunk"
      <3> DEFINE e == j.work.chain
      <3>1. e \in Chains /\ e \in activeRuns /\ ~WorkerCarries(e)
        BY <1>0, <2>2, CarriedRuns
      <3>2. seen'[e] = seen[e]
        BY <1>4 DEF WorkerPop
      <3>3. e \in steady' => e \in steady /\ Targets(e)' = Targets(e)
        BY <3>1, SteadyStep
      <3>4. Covered(e, DaysAhead(j.work), j.work.day, j.work.offset)
        BY <1>0, <2>2 DEF QueueCovers, JobCovers
      <3>5. Covered(e, DaysAhead(j.work), j.work.day, j.work.offset)'
        BY <3>2, <3>3, <3>4, CoveredKept
      <3>6. Chain' = e /\ wpc' = "begin" /\ job' = j
        BY <2>1, <2>2 DEF Chain, Go
      <3> QED  BY <3>5, <3>6 DEF WorkerCovers, Covered, Handling
    <2>3. CASE j.work.task # "chunk"
      <3>1. wpc' \in {"process", "orchestrate"}
        BY <2>1, <2>3 DEF Go
      <3> QED  BY <1>1, <3>1 DEF Handling
    <2> QED  BY <2>2, <2>3
  <1>5. CASE ChunkBegin
    <2> DEFINE w == job.work
               ahead == DaysAhead(w)
    <2>1. /\ wpc = "begin" /\ wpc' = "resolve" /\ UNCHANGED <<job, seen>> /\ w.chain = c
          /\ chunk'.taken = 0 /\ Chain' = c
      BY <1>0, <1>0a, <1>5, Begins DEF ChunkBegin, historyVars, Chain
    <2>2. /\ ahead \in Seq(Days) /\ IsInjective(ahead) /\ ToSet(ahead) \subseteq ToSet(DaysOf(c))
          /\ \/ /\ w.day = NoDay /\ w.offset = 0 /\ ahead # <<>>
                /\ chunk'.day = Head(ahead) /\ chunk'.remaining = Tail(ahead) /\ chunk'.offset = 0
             \/ /\ ahead = w.remaining /\ chunk'.day = w.day /\ chunk'.remaining = w.remaining
                /\ chunk'.offset = w.offset /\ w.offset \in Nat
      <3>1. w.offset \in Nat
        BY <1>0, JobParts DEF Types
      <3> QED  BY <1>0, <1>5, <2>1, <3>1, Begins
    <2>3. After(ahead, w.day, w.offset)
      BY <1>a, <1>d, <2>1
    <2> HIDE DEF w, ahead
    <2>4. After(chunk'.remaining, chunk'.day, chunk'.offset + chunk'.taken)
      <3>1. CASE /\ w.day = NoDay /\ w.offset = 0 /\ ahead # <<>>
                 /\ chunk'.day = Head(ahead) /\ chunk'.remaining = Tail(ahead) /\ chunk'.offset = 0
        <4>1. Head(ahead) \in ToSet(ahead) /\ ToSet(Tail(ahead)) = ToSet(ahead) \ {Head(ahead)}
          BY <2>2, <3>1, HeadAndTail
        <4>2. \A s, t : TakenUpTo(c, s, t, ahead, NoDay, 0) => TakenUpTo(c, s, t, Tail(ahead), Head(ahead), 0)
          BY <2>2, <4>1, DayBegins
        <4>3. After(Tail(ahead), Head(ahead), 0)
          BY <2>3, <3>1, <4>2 DEF After
        <4> QED  BY <2>1, <3>1, <4>3
      <3>2. CASE /\ ahead = w.remaining /\ chunk'.day = w.day /\ chunk'.remaining = w.remaining
                 /\ chunk'.offset = w.offset /\ w.offset \in Nat
        <4>1. chunk'.offset + chunk'.taken = w.offset
          BY <2>1, <3>2
        <4> QED  BY <2>3, <3>2, <4>1
      <3> QED  BY <2>2, <3>1, <3>2
    <2> QED  BY <1>e, <2>1, <2>4
  <1>6. CASE ResolveTargets
    <2>1. /\ wpc = "resolve" /\ UNCHANGED <<job, seen, watch, steady>> /\ Chain' = c
          /\ chunk'.remaining = chunk.remaining /\ chunk'.day = chunk.day
          /\ chunk'.offset = chunk.offset /\ chunk'.taken = chunk.taken /\ chunk'.targets = Targets(c)
          /\ wpc' = IF Targets(c) = {} THEN "mark-completed" ELSE "load"
      BY <1>0a, <1>0b, <1>6 DEF ResolveTargets, Go, Chain, Chunks
    <2>2. Targets(c)' = Targets(c)
      BY <2>1 DEF Targets, Wanted
    <2>3. Covered(c, chunk.remaining, chunk.day, chunk.offset + chunk.taken)
      BY <1>a, <2>1 DEF Handling
    <2>4. CASE Targets(c) # {}
      <3>1. After(chunk'.remaining, chunk'.day, chunk'.offset + chunk'.taken)
        BY <1>d, <2>1, <2>3 DEF Handling
      <3> QED  BY <1>e, <2>1, <2>2, <2>4, <3>1
    <2>5. CASE Targets(c) = {}
      <3>1. ASSUME c \in steady PROVE Taken(c, seen[c], Targets(c), ToSet(DaysOf(c)), NoDay, 0)
        <4>1. TakenUpTo(c, seen[c], {}, chunk.remaining, chunk.day, chunk.offset + chunk.taken)
          BY <2>3, <2>5, <3>1 DEF Covered
        <4>2. \A d : Due({}, d) = {}
          BY DEF Due
        <4> QED  BY <2>5, <4>1, <4>2 DEF TakenUpTo, Taken
      <3>2. wpc' = "mark-completed" /\ wpc' \notin Handling
        BY <2>1, <2>5 DEF Handling
      <3>3. c \in steady' => Taken(c, seen'[c], Targets(c)', ToSet(DaysOf(c)), NoDay, 0)
        BY <2>1, <2>2, <3>1
      <3> QED  BY <1>e, <2>1, <3>2, <3>3
    <2> QED  BY <2>4, <2>5
  <1>7. CASE LoadIndex
    <2>1. /\ wpc = "load" /\ wpc' = "check" /\ UNCHANGED <<job, seen, watch, steady>> /\ Chain' = c
          /\ chunk'.remaining = chunk.remaining /\ chunk'.day = chunk.day
          /\ chunk'.offset = chunk.offset /\ chunk'.taken = chunk.taken /\ chunk'.targets = chunk.targets
          /\ chunk'.index = Filtered(chunk.day, chunk.targets)
      BY <1>0a, <1>0b, <1>7 DEF LoadIndex, Go, Chain, Chunks
    <2>2. Targets(c)' = Targets(c)
      BY <2>1 DEF Targets, Wanted
    <2>3. After(chunk'.remaining, chunk'.day, chunk'.offset + chunk'.taken)
      BY <1>a, <1>d, <2>1 DEF Handling
    <2>4. c \in steady' => chunk'.targets = Targets(c)' /\ chunk'.targets # {}
      BY <1>a, <2>1, <2>2 DEF Handling
    <2> QED  BY <1>e, <2>1, <2>3, <2>4
  <1>8. CASE ProcessRow
    <2>1. /\ wpc = "row" /\ wpc' = "check" /\ UNCHANGED <<job, watch, steady>> /\ Chain' = c
          /\ chunk'.remaining = chunk.remaining /\ chunk'.day = chunk.day /\ chunk'.index = chunk.index
          /\ chunk'.offset = chunk.offset /\ chunk'.taken = chunk.taken + 1
          /\ chunk'.targets = chunk.targets
      BY <1>0a, <1>0b, <1>8 DEF ProcessRow, Go, Chain, Chunks
    <2>2. PICK i \in chunk.index : /\ Place(i, chunk.index) = chunk.offset + chunk.taken
                                   /\ seen' = [seen EXCEPT ![c][chunk.day][i] = @ + 1]
      BY <1>0a, <1>8 DEF ProcessRow
    <2>3. Targets(c)' = Targets(c)
      BY <2>1 DEF Targets, Wanted
    <2>4. /\ Covered(c, chunk.remaining, chunk.day, chunk.offset + chunk.taken)
          /\ c \in steady => chunk.targets = Targets(c) /\ chunk.targets # {}
          /\ chunk.index = Filtered(chunk.day, chunk.targets)
          /\ chunk.day \in ToSet(DaysOf(c)) \ ToSet(chunk.remaining)
      BY <1>a, <1>c, <2>1 DEF Handling
    <2>5. PICK day \in ToSet(DaysOf(c)) : day = chunk.day
      BY <2>4
    <2>6. PICK n \in Nat : n = chunk.offset + chunk.taken
      BY <1>0b
    <2>7. day \in Days /\ DOMAIN seen = Chains /\ DOMAIN seen[c] = Days
          /\ DOMAIN seen[c][day] = DOMAIN IndexRows[day]
      BY Constants DEF Inv, SeenFits
    <2>8. seen'[c] = [seen[c] EXCEPT ![day][i] = @ + 1]
      BY <2>2, <2>5, <2>7
    <2>9. chunk'.offset + chunk'.taken = n + 1
      BY <1>0b, <2>1, <2>6
    <2>10. ASSUME c \in steady PROVE TakenUpTo(c, seen'[c], Targets(c), chunk.remaining, day, n + 1)
      <3>1. TakenUpTo(c, seen[c], Targets(c), chunk.remaining, day, n)
        BY <2>4, <2>5, <2>6, <2>10 DEF Covered
      <3>2. Targets(c) # {} /\ i \in Filtered(day, Targets(c)) /\ Place(i, Filtered(day, Targets(c))) = n
        BY <2>2, <2>4, <2>5, <2>6, <2>10
      <3>3. PICK s : s = seen[c]
        OBVIOUS
      <3>4. TakenUpTo(c, [s EXCEPT ![day][i] = @ + 1], Targets(c), chunk.remaining, day, n + 1)
        BY <2>7, <3>1, <3>2, <3>3, RowTaken
      <3> QED  BY <2>8, <3>3, <3>4
    <2>11. After(chunk'.remaining, chunk'.day, chunk'.offset + chunk'.taken)
      BY <2>1, <2>3, <2>5, <2>9, <2>10 DEF After
    <2>12. /\ c \in steady' => chunk'.targets = Targets(c)' /\ chunk'.targets # {}
           /\ chunk'.index = Filtered(chunk'.day, chunk'.targets)
      BY <2>1, <2>3, <2>4
    <2> QED  BY <1>e, <2>1, <2>11, <2>12
  <1>9. CASE CheckUrgentWork \/ MarkProgress \/ MarkCompleted
    <2>1. /\ UNCHANGED <<job, chunk, seen>>
          /\ \/ {wpc, wpc'} \subseteq {"check", "row", "mark-progress", "advance"}
             \/ {wpc, wpc'} \subseteq Completing
      BY <1>9 DEF CheckUrgentWork, WorkerSteps, MarkProgress, MarkCompleted, WorkerMarks, Go, historyVars
    <2> QED  BY <1>2, <2>1
  <1>10. CASE Advance
    <2>1. /\ wpc = "advance" /\ UNCHANGED <<job, chunk, seen, watch, steady>> /\ Chain' = c
          /\ chunk.day \in Days
          /\ \/ wpc' = "finish"
             \/ /\ wpc' \in {"revalidate", "mark-completed"} /\ ~(chunk.offset + chunk.taken < Cardinality(chunk.index))
                /\ chunk.remaining = <<>>
      <3>1. /\ wpc = "advance" /\ chunk.day \in Days
            /\ \/ wpc' = "finish"
               \/ /\ wpc' \in {"revalidate", "mark-completed"} /\ ~(chunk.offset + chunk.taken < Cardinality(chunk.index))
                  /\ chunk.remaining = <<>>
        BY <1>0, <1>10, Advances
      <3>2. UNCHANGED <<job, chunk, seen, watch, steady>> /\ Chain' = c
        BY <1>0a, <1>10 DEF Advance, historyVars, Chain
      <3> QED  BY <3>1, <3>2
    <2>2. CASE wpc' = "finish"
      BY <1>1, <2>2 DEF Handling
    <2>3. CASE wpc' \in {"revalidate", "mark-completed"}
      <3>1. /\ Covered(c, chunk.remaining, chunk.day, chunk.offset + chunk.taken)
            /\ c \in steady => chunk.targets = Targets(c) /\ chunk.targets # {}
            /\ chunk.index = Filtered(chunk.day, chunk.targets)
            /\ chunk.day \in ToSet(DaysOf(c)) \ ToSet(chunk.remaining)
        BY <1>a, <1>c, <2>1 DEF Handling
      <3>2. PICK day \in ToSet(DaysOf(c)) : day = chunk.day
        BY <3>1
      <3>3. PICK n \in Nat : n = chunk.offset + chunk.taken
        BY <1>0b
      <3>4. chunk.remaining = <<>> /\ ~(n < Cardinality(chunk.index))
        BY <2>1, <2>3, <3>3
      <3>5. ASSUME c \in steady PROVE Taken(c, seen[c], Targets(c), ToSet(DaysOf(c)), NoDay, 0)
        <4>1. TakenUpTo(c, seen[c], Targets(c), <<>>, day, n)
          BY <3>1, <3>2, <3>3, <3>4, <3>5 DEF Covered
        <4>2. ~(n < Cardinality(Filtered(day, Targets(c))))
          BY <3>1, <3>2, <3>4, <3>5
        <4>3. ToSet(<<>>) = {}
          BY DEF ToSet
        <4>4. Taken(c, seen[c], Targets(c), ToSet(DaysOf(c)) \ ToSet(<<>>), NoDay, 0)
          BY <4>1, <4>2, <4>3, DayEnds
        <4>5. ToSet(DaysOf(c)) \ ToSet(<<>>) = ToSet(DaysOf(c))
          BY <4>3
        <4> QED  BY <4>4, <4>5
      <3>6. Targets(c)' = Targets(c)
        BY <2>1 DEF Targets, Wanted
      <3>7. c \in steady' => Taken(c, seen'[c], Targets(c)', ToSet(DaysOf(c)), NoDay, 0)
        BY <2>1, <3>5, <3>6
      <3>8. wpc' \notin Handling
        BY <2>3 DEF Handling
      <3> QED  BY <1>e, <2>1, <2>3, <3>7, <3>8
    <2> QED  BY <2>1, <2>2, <2>3
  <1>11. CASE RecordError \/ MarkFailed
    <2>1. /\ UNCHANGED <<job, seen>> /\ Chain' = c
          /\ wpc \in {"record-error", "mark-failed"} /\ c \notin steady'
          /\ wpc' \in {"mark-failed", "finish-run"}
      <3>1. CASE RecordError
        BY <1>0a, <3>1 DEF RecordError, Go, Chain
      <3>2. CASE MarkFailed
        BY <1>0a, <1>a, <3>2 DEF MarkFailed, WorkerMarks, Go, Chain, historyVars
      <3> QED  BY <1>11, <3>1, <3>2
    <2>2. wpc' \notin Handling
      BY <2>1 DEF Handling
    <2> QED  BY <1>e, <2>1, <2>2
  <1>12. CASE Crash
    <2>1. wpc' = "idle"
      BY <1>12 DEF Crash
    <2> QED  BY <1>1, <2>1 DEF Handling
  <1>13. CASE \/ Deliver \/ DeliverCommit \/ WorkerComplete \/ OrchestrateRepair \/ RepairMarkQueued
              \/ ChunkRaises \/ FinishRun
    <2>1. wpc' \in {"deliver", "finish", "idle", "mark-queued", "step-zero", "record-error"}
      BY <1>13 DEF Deliver, DeliverCommit, WorkerSteps, WorkerComplete, OrchestrateRepair,
                   RepairMarkQueued, WorkerMarks, ChunkRaises, FinishRun, Go
    <2> QED  BY <1>1, <2>1 DEF Handling
  <1>15. CASE Rechecks
    <2>1. /\ wpc \in Completing /\ wpc' \in Completing /\ UNCHANGED <<job, seen, steady, watch>>
          /\ Chain' = c
      BY <1>0a, <1>15, Rechecked DEF Completing, Chain
    <2>2. wpc' \notin {"begin", "mark-failed"} \cup Handling
      BY <2>1 DEF Completing, Handling
    <2>3. c \in steady' => Taken(c, seen'[c], Targets(c)', ToSet(DaysOf(c)), NoDay, 0)
      BY <1>a, <2>1 DEF Targets, Wanted
    <2> QED  BY <1>e, <2>1, <2>2, <2>3
  <1>14. CASE RepairStepZero
    <2>1. wpc' = "finish"
      BY <1>0, <1>14, RepairBegins
    <2> QED  BY <1>1, <2>1 DEF Handling
  <1> QED
    BY <1>3, <1>4, <1>5, <1>6, <1>7, <1>8, <1>9, <1>10, <1>11, <1>12, <1>13, <1>14, <1>15
    DEF Next, Worker
-----------------------------------------------------------------------------
(* The results.                                                            *)

\* Every step keeps the invariant.
LEMMA StepInv == Inv /\ [Next]_vars => Inv'
  BY TypesStep, SeenStep, NumbersStep, JobsStep, WorkerFitsStep, CarrierStep, OwnedStep,
     YieldsStep, UnseenStep, QueueCoversStep, WorkerCoversStep DEF Inv, Covers

\* The inductive invariant: keys tell what the payloads are, one carrier
\* answers for a run key, one job for a row, and what a chain has taken is
\* what lies behind it.
THEOREM Invariance == Spec => []Inv
  <1> QED  BY InitInv, StepInv, PTL DEF Spec

\* Every variable keeps its type, if the broker takes every key and every
\* payload that this module makes.
THEOREM TypeCorrect ==
    ASSUME RunKeys \subseteq JobKeys, Payloads \subseteq Work
    PROVE  Spec => []TypeOK
  <1>1. Inv => TypeOK
    <2> SUFFICES ASSUME Types PROVE TypeOK
      BY DEF Inv
    <2>1. Jobs \subseteq Job
      BY DEF Jobs, Job
    <2>2. BrokerTypeOK
      BY <2>1 DEF Types, BrokerTypeOK
    <2>3. job \in Job
      BY <2>1 DEF Types
    <2>4. wpc \in {"idle", "process", "deliver", "orchestrate", "mark-queued", "step-zero",
                   "begin", "resolve", "load", "check", "row", "mark-progress", "advance",
                   "revalidate", "recheck", "redeliver", "mark-completed", "record-error",
                   "mark-failed", "finish-run", "finish"}
      BY DEF Types, Handling, Ending
    <2> QED  BY <2>2, <2>3, <2>4 DEF Types, TypeOK, Chunks
  <1> QED  BY <1>1, Invariance, PTL

\* Counting the carriers of a run key gives one while it is taken, and none
\* otherwise: no path leaks the key, or gives it back under a chain that runs.
THEOREM RunKeysMatch == Spec => []RunKeyMatchesOneChain
  <1>1. Inv => RunKeyMatchesOneChain
    <2> SUFFICES ASSUME OneCarrier PROVE RunKeyMatchesOneChain
      BY DEF Inv
    <2>1. stranded \subseteq activeRuns
      BY DEF OneCarrier
    <2>2. ASSUME NEW c \in Chains
          PROVE  Carriers(c) = IF c \in activeRuns \ stranded THEN 1 ELSE 0
      <3>1. /\ c \in activeRuns \ stranded <=>
                  RouteCarries(c) \/ QueueCarries(c) # {} \/ WorkerCarries(c)
            /\ RouteCarries(c) => QueueCarries(c) = {} /\ ~WorkerCarries(c)
            /\ WorkerCarries(c) => QueueCarries(c) = {}
            /\ \A j, k \in QueueCarries(c) : j = k
        BY DEF OneCarrier
      <3>2. CASE QueueCarries(c) = {}
        <4>1. Cardinality(QueueCarries(c)) = 0
          BY <3>2, FS_EmptySet
        <4>2. Carriers(c) = 0 + (IF RouteCarries(c) THEN 1 ELSE 0)
                              + (IF WorkerCarries(c) THEN 1 ELSE 0)
          BY <4>1 DEF Carriers
        <4>3. RouteCarries(c) => ~WorkerCarries(c)
          BY <3>1
        <4>4. c \in activeRuns \ stranded <=> RouteCarries(c) \/ WorkerCarries(c)
          BY <3>1, <3>2
        <4> HIDE DEF RouteCarries, WorkerCarries
        <4> QED  BY <4>2, <4>3, <4>4
      <3>3. CASE QueueCarries(c) # {}
        <4>1. PICK j \in QueueCarries(c) : TRUE
          BY <3>3
        <4>2. QueueCarries(c) = {j}
          BY <3>1, <4>1
        <4>3. Cardinality(QueueCarries(c)) = 1
          BY <4>2, FS_Singleton
        <4>4. ~RouteCarries(c) /\ ~WorkerCarries(c) /\ c \in activeRuns \ stranded
          BY <3>1, <3>3
        <4> QED  BY <4>3, <4>4 DEF Carriers
      <3> QED  BY <3>2, <3>3
    <2> QED  BY <2>1, <2>2 DEF RunKeyMatchesOneChain
  <1> QED  BY <1>1, Invariance, PTL

\* Whatever the index lists, a run that completes undisturbed has taken every
\* row that passes the filter once: no chunk boundary, yield or change of day
\* loses or repeats one.
THEOREM RunsCover == Spec => []CompletedRunCoversEveryRow
  <1>1. Inv => CompletedRunCoversEveryRow
    <2> SUFFICES ASSUME Types, WorkerCovers, wpc = "finish-run", Chain \in steady,
                        NEW d \in ToSet(DaysOf(Chain)), NEW i \in DOMAIN IndexRows[d]
                 PROVE  seen[Chain][d][i] =
                          IF Targets(Chain) # {} /\ i \in Filtered(d, Targets(Chain))
                          THEN 1 ELSE 0
      BY DEF Inv, Covers, CompletedRunCoversEveryRow
    <2> DEFINE c == Chain
               t == Targets(Chain)
    <2>1. c \in Chains
      BY JobParts DEF Types, Chain
    <2>2. Taken(c, seen[c], t, ToSet(DaysOf(c)), NoDay, 0)
      BY <2>1 DEF WorkerCovers, Completing
    <2>3. seen[c][d][i] = IF i \in Due(t, d) THEN 1 ELSE 0
      <3> HIDE DEF c, t
      <3>1. d \in ToSet(DaysOf(c))
        BY DEF c
      <3> QED  BY <2>2, <3>1 DEF Taken
    <2> QED  BY <2>3 DEF Due
  <1> QED  BY <1>1, Invariance, PTL

\* However many rows a chunk has, it takes at most one while a P1 job waits;
\* only a repair's second look at failed filings goes on, however many there
\* are.
THEOREM UrgentWorkIsNotStarved == Spec => YieldToUrgentWork
  <1>1. ASSUME Inv, [Next]_vars
        PROVE  overtaken' > overtaken => overtaken = 0 \/ wpc = "recheck"
    <2>1. overtaken \in Nat /\ (overtaken > 0 => wpc # "row")
      BY <1>1 DEF Inv, Yields, Ending
    <2>2. ProcessRow => wpc = "row"
      BY DEF ProcessRow, Go
    <2> QED  BY <1>1, <2>1, <2>2, CountStep
  <1>2. Inv /\ [Next]_vars =>
           [overtaken' > overtaken => overtaken = 0 \/ wpc = "recheck"]_vars
    BY <1>1
  <1> QED  BY <1>2, Invariance, PTL DEF Spec, YieldToUrgentWork

\* The row of a run that is over is left alone, and one that is under way
\* only ends: the request's commit comes before the worker's first update, or
\* that update finds no row.
THEOREM StatusAdvances == Spec => RunStatusOnlyAdvances
  <1> DEFINE Advancing(r) ==
               /\ rows[r] \in {"completed", "failed"} => rows'[r] = rows[r]
               /\ rows[r] = "running" => rows'[r] \in {"running", "completed", "failed"}
  <1>1. ASSUME Inv, [Next]_vars PROVE \A r \in RunIds : Advancing(r)
    <2>0. Types /\ RowsNumbered /\ RunsOwned
      BY <1>1 DEF Inv
    <2>a. rows \in [RunIds -> {"absent", "open", "queued", "running", "completed", "failed"}]
      BY <2>0 DEF Types
    <2>1. CASE UNCHANGED rows
      BY <2>1
    <2>2. CASE RouteInsert
      <3>1. PICK r \in RunIds : rows[r] = "absent" /\ rows' = [rows EXCEPT ![r] = "open"]
        BY <2>0, <2>2, Inserted
      <3> QED  BY <2>a, <3>1
    <2>3. CASE RouteCommit \/ RouteDelete
      <3>1. route.run \in RunIds /\ rows[route.run] = "open"
        BY <2>0, <2>3 DEF RunsOwned, RouteCommit, RouteDelete
      <3>2. \A r \in RunIds : r # route.run => rows'[r] = rows[r]
        BY <2>3, <2>a DEF RouteCommit, RouteDelete
      <3> QED  BY <3>1, <3>2
    <2>4. CASE RepairMarkQueued \/ MarkProgress \/ MarkCompleted \/ MarkFailed
      <3>1. AtWork \/ job.work.run = NoRun
        BY <2>4 DEF RepairMarkQueued, MarkProgress, MarkCompleted, MarkFailed, WorkerMarks, Go,
                    AtWork
      <3>2. PICK s \in {"running", "completed", "failed"} : MarkRun(job.work.run, s)
        BY <2>4 DEF RepairMarkQueued, MarkProgress, MarkCompleted, MarkFailed, WorkerMarks
      <3>3. \A q \in RunIds : \/ rows'[q] = rows[q]
                              \/ q = job.work.run /\ job.work.run # NoRun /\ rows'[q] = s
        BY <2>0, <3>2, Marked
      <3>4. job.work.run # NoRun => rows[job.work.run] \notin {"completed", "failed"}
        BY <2>0, <3>1 DEF RunsOwned, Live
      <3> QED  BY <3>3, <3>4
    <2>5. CASE Crash
      BY <2>5 DEF Crash
    <2>6. Routes => UNCHANGED rows
      BY DEF Routes, RepairNow, BackfillNow, CreateEntry, ToggleEntry, DeleteEntry, Request
    <2>7. RouteSteps => UNCHANGED rows \/ RouteInsert \/ RouteCommit \/ RouteDelete
      BY DEF RouteSteps, RouteStart, RouteRefused, RouteTimesOut, RouteEnqueue, RouteUndo
    <2>8. ScheduleRepair \/ OtherArrives \/ UNCHANGED vars => UNCHANGED rows
      BY DEF ScheduleRepair, OtherArrives, Arrive, vars
    <2>9. Worker => \/ UNCHANGED rows
                    \/ RepairMarkQueued \/ MarkProgress \/ MarkCompleted \/ MarkFailed
      BY Rechecked
         DEF Worker, WorkerPop, Deliver, DeliverCommit, WorkerSteps, WorkerComplete,
             OrchestrateRepair, RepairStepZero, ChunkBegin, ResolveTargets, LoadIndex,
             CheckUrgentWork, ProcessRow, Advance, ChunkRaises, RecordError, FinishRun
    <2> QED  BY <1>1, <2>1, <2>2, <2>3, <2>4, <2>5, <2>6, <2>7, <2>8, <2>9 DEF Next
  <1>2. Inv /\ [Next]_vars => [\A r \in RunIds : Advancing(r)]_vars
    BY <1>1
  <1> QED  BY <1>2, Invariance, PTL DEF Spec, RunStatusOnlyAdvances
=============================================================================
