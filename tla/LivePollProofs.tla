--------------------------- MODULE LivePollProofs ---------------------------
(***************************************************************************)
(* The cursor of the live 8-K poll passes no filing that is looked for and *)
(* not registered, and what falls behind the overlap window is on record,  *)
(* whatever the window's size and whenever polls and jobs fail.            *)
(***************************************************************************)
EXTENDS LivePoll, FiniteSetTheorems, TLAPS

\* The SEC lists filings in the order of cursor_tuple(): no gaps.
Gapless(rows) == \A f \in rows : \A g \in Filings : g <= f => g \in rows

Listings ==
    /\ Gapless(listed)
    /\ Gapless(listing)
    /\ listing \subseteq listed
    /\ window = Newest(listing, OverlapRows)

\* The cursor stands on a filing, or on none yet; it exists once a poll has
\* ended well.
CursorIsListed ==
    /\ cursor \in {NoCursor, 0} \cup listed
    /\ pc \in {"warn", "advance"} => cursor # NoCursor
    /\ checked # {} => cursor # NoCursor
    /\ cursor # NoCursor \/ pc = "register" => polled

\* A poll that has not seen an overflow has nothing to find but what it is
\* about to register.
PollFindsAll ==
    /\ pc \in {"register", "advance"} /\ ~overflow =>
           \A f \in listing : f \in todo \/ status[f] # "absent" \/ f \in NotLookedFor
    /\ pc = "advance" => ~overflow /\ todo = {} /\ window # {}
    /\ pc \in {"idle", "compare"} => todo = {}

Inv ==
    /\ TypeOK
    /\ Listings
    /\ CursorIsListed
    /\ PollFindsAll
    /\ CursorPassesNothing
    /\ GapIsOnRecord

\* The history of the polls that found no cursor is one.
USE DEF firstPolls, NotLookedFor

-----------------------------------------------------------------------------
(* The listing and its window.                                             *)

\* There are finitely many filings.
LEMMA FilingsFinite == IsFiniteSet(Filings)
  BY LivePollAssumption, FS_Interval DEF Filings

\* Filings are numbers, so their order is total and irreflexive.
LEMMA FilingsOrder ==
    /\ \A f \in Filings : f \in Nat /\ f > 0
    /\ \A f, g, h \in Filings : /\ ~ (f > f)
                               /\ f > g /\ g > h => f > h
                               /\ f <= g <=> ~ (f > g)
  BY LivePollAssumption DEF Filings

\* A non-empty set of filings has a latest one: the one with the fewest after
\* it.
LEMMA LatestExists ==
    ASSUME NEW rows \in SUBSET Filings, rows # {}
    PROVE  Latest(rows) \in rows /\ \A g \in rows : g <= Latest(rows)
  <1> DEFINE After(f) == {g \in Filings : g > f}
             Tails == {After(f) : f \in rows}
  <1>1. Tails \subseteq FiniteSubsetsOf(Filings) /\ Tails # {}
    <2>1. \A f \in rows : After(f) \subseteq Filings
      OBVIOUS
    <2>2. \A f \in rows : IsFiniteSet(After(f))
      BY <2>1, FilingsFinite, FS_Subset
    <2> QED
      BY <2>1, <2>2 DEF FiniteSubsetsOf
  <1>2. IsWellFoundedOn(StrictSubsetOrdering(Filings), FiniteSubsetsOf(Filings))
    BY FS_StrictSubsetOrderingWellFounded
  <1>3. PICK x \in Tails : \A y \in Tails : <<y, x>> \notin StrictSubsetOrdering(Filings)
    <2> HIDE DEF Tails
    <2> QED
      BY <1>1, <1>2, WFMin
  <1>4. PICK m \in rows : x = After(m)
    OBVIOUS
  <1>5. \A g \in rows : g <= m
    <2> SUFFICES ASSUME NEW g \in rows, g > m PROVE FALSE
      BY FilingsOrder
    <2>1. After(g) \subseteq After(m) /\ g \in After(m) /\ g \notin After(g)
      <3>1. \A i \in Filings : i > g => i > m
        BY FilingsOrder
      <3>2. ~ (g > g)
        BY FilingsOrder
      <3> QED
        BY <3>1, <3>2
    <2>2. <<After(g), After(m)>> \in StrictSubsetOrdering(Filings)
      BY <2>1 DEF StrictSubsetOrdering
    <2> QED
      BY <1>3, <1>4, <2>2
  <1> QED
    BY <1>5 DEF Latest

\* The window holds the latest rows: with a row, each that is newer.
LEMMA WindowIsTop ==
    ASSUME NEW rows \in SUBSET Filings,
           NEW f \in Newest(rows, OverlapRows), NEW g \in rows, g > f
    PROVE  g \in Newest(rows, OverlapRows)
  <1> DEFINE Newer(h) == {i \in rows : i > h}
  <1>1. IsFiniteSet(rows)
    BY FilingsFinite, FS_Subset
  <1>2. Newer(f) \subseteq rows /\ Newer(g) \subseteq Newer(f)
    <2>1. f \in rows
      BY DEF Newest
    <2>2. \A i \in rows : i > g => i > f
      BY <2>1, FilingsOrder
    <2> QED
      BY <2>2
  <1>3. IsFiniteSet(Newer(f))
    BY <1>1, <1>2, FS_Subset
  <1>4. IsFiniteSet(Newer(g)) /\ Cardinality(Newer(g)) <= Cardinality(Newer(f))
    BY <1>2, <1>3, FS_Subset
  <1>5. Cardinality(Newer(g)) \in Nat /\ Cardinality(Newer(f)) \in Nat
    BY <1>3, <1>4, FS_CardinalityType
  <1>6. Cardinality(Newer(f)) < OverlapRows
    BY DEF Newest
  <1>7. Cardinality(Newer(g)) < OverlapRows
    BY <1>4, <1>5, <1>6, LivePollAssumption
  <1> QED
    BY <1>7 DEF Newest

\* A listing that is shorter than the window is the window.
LEMMA ShortListing ==
    ASSUME NEW rows \in SUBSET Filings, Cardinality(rows) < OverlapRows
    PROVE  Newest(rows, OverlapRows) = rows
  <1> SUFFICES ASSUME NEW f \in rows
               PROVE  Cardinality({g \in rows : g > f}) < OverlapRows
    BY DEF Newest
  <1> DEFINE Newer == {g \in rows : g > f}
  <1>1. IsFiniteSet(rows)
    BY FilingsFinite, FS_Subset
  <1>2. Newer \subseteq rows
    OBVIOUS
  <1>3. IsFiniteSet(Newer) /\ Cardinality(Newer) <= Cardinality(rows)
    BY <1>1, <1>2, FS_Subset
  <1>4. Cardinality(Newer) \in Nat /\ Cardinality(rows) \in Nat
    BY <1>1, <1>3, FS_CardinalityType
  <1> QED
    BY <1>3, <1>4, LivePollAssumption

\* The window of a listing that has rows has rows.
LEMMA WindowHasRows ==
    ASSUME NEW rows \in SUBSET Filings, Newest(rows, OverlapRows) = {}
    PROVE  rows = {}
  <1> SUFFICES ASSUME rows # {} PROVE FALSE
    OBVIOUS
  <1>1. Latest(rows) \in rows /\ \A g \in rows : g <= Latest(rows)
    BY LatestExists
  <1>2. {g \in rows : g > Latest(rows)} = {}
    <2>1. \A g \in rows : ~ (g > Latest(rows))
      BY <1>1, FilingsOrder
    <2> QED
      BY <2>1
  <1>3. Cardinality({g \in rows : g > Latest(rows)}) < OverlapRows
    BY <1>2, FS_EmptySet, LivePollAssumption
  <1> QED
    BY <1>1, <1>3 DEF Newest

\* The empty listing has no gap, and no window.
LEMMA EmptyListing == Gapless({}) /\ Newest({}, OverlapRows) = {}
  BY DEF Gapless, Newest

-----------------------------------------------------------------------------
(* Each step preserves the invariant.                                      *)

\* At the start nothing is registered, whatever is listed.
LEMMA InitInv == Init => Inv
  <1> SUFFICES ASSUME Init PROVE Inv
    OBVIOUS
  <1>1. TypeOK
    <2>1. listed \subseteq Filings
      BY LivePollAssumption DEF Init, Filings
    <2>2. status \in [Filings -> {"absent", "pending", "success"}]
      BY DEF Init
    <2>3. faults \in 0..MaxFaults
      BY LivePollAssumption DEF Init
    <2> QED
      BY <2>1, <2>2, <2>3 DEF Init, TypeOK
  <1>2. Listings
    <2>1. Gapless(listed)
      BY LivePollAssumption DEF Init, Gapless, Filings
    <2> QED
      BY <2>1, EmptyListing DEF Init, Listings
  <1> QED
    BY <1>1, <1>2
    DEF Init, Inv, CursorIsListed, PollFindsAll, CursorPassesNothing, GapIsOnRecord

\* Numbers a cursor can be compared with.
LEMMA CursorOrder ==
    ASSUME Inv
    PROVE  /\ listed \subseteq Filings /\ listing \subseteq Filings
           /\ window \subseteq listing /\ todo \subseteq window
           /\ cursor # NoCursor => cursor \in Nat
           /\ \A f \in Filings : f \in Nat /\ f > 0
           /\ NoCursor \notin Nat
  <1>1. window \subseteq listing
    BY DEF Inv, Listings, Newest
  <1>2. cursor # NoCursor => cursor \in Nat
    BY FilingsOrder DEF Inv, TypeOK
  <1> QED
    BY <1>1, <1>2, FilingsOrder, LivePollAssumption DEF Inv, TypeOK

\* The rows of the window stay those of its listing.
LEMMA IdleListings ==
    ASSUME Gapless(listed'), EndPoll
    PROVE  Listings'
  BY EmptyListing DEF EndPoll, Listings

\* Publish: the next filing is newer than all that are listed.
LEMMA PublishInv ==
    ASSUME Inv, Publish
    PROVE  Inv'
  <1>1. PICK f \in Filings \ listed :
            /\ Filings \ listed \subseteq f..MaxFiling
            /\ listed' = listed \cup {f}
    BY DEF Publish
  <1>2. UNCHANGED <<status, cursor, jobs, pc, window, overflow, todo, listing,
                    checked, firstPolls, warned, faults>>
    BY DEF Publish, poll
  <1>3. \A g \in Filings \ listed : f <= g
    BY <1>1, CursorOrder, LivePollAssumption
  <1>4. TypeOK'
    BY <1>1, <1>2 DEF Inv, TypeOK
  <1>5. Listings'
    <2>1. Gapless(listed')
      <3> SUFFICES ASSUME NEW h \in listed', NEW g \in Filings, g <= h, g \notin listed
                   PROVE  g = f
        BY <1>1 DEF Gapless
      <3>1. f <= g
        BY <1>3
      <3>2. h = f
        BY <1>1 DEF Inv, Listings, Gapless
      <3> QED
        BY <3>1, <3>2, CursorOrder
    <2> QED
      BY <1>1, <1>2, <2>1 DEF Inv, Listings, Gapless, Newest
  <1>6. CursorIsListed'
    BY <1>1, <1>2 DEF Inv, CursorIsListed
  <1>7. PollFindsAll'
    BY <1>2 DEF Inv, PollFindsAll
  <1>8. CursorPassesNothing'
    <2>1. cursor # NoCursor => ~ (f <= cursor)
      <3> SUFFICES ASSUME cursor # NoCursor, f <= cursor PROVE FALSE
        OBVIOUS
      <3>1. CASE cursor = 0
        BY <3>1, CursorOrder
      <3>2. CASE cursor \in listed
        BY <3>2, <1>1 DEF Inv, Listings, Gapless
      <3> QED
        BY <3>1, <3>2 DEF Inv, CursorIsListed
    <2> QED
      BY <1>1, <1>2, <2>1 DEF Inv, CursorPassesNothing
  <1>9. GapIsOnRecord'
    BY <1>2 DEF Inv, GapIsOnRecord
  <1> QED
    BY <1>4, <1>5, <1>6, <1>7, <1>8, <1>9 DEF Inv

\* Fetch: the window is cut from what is listed now.
LEMMA FetchInv ==
    ASSUME Inv, Fetch
    PROVE  Inv'
  <1>1. TypeOK'
    <2>1. Newest(listed, OverlapRows) \subseteq listed
      BY DEF Newest
    <2>2. todo' = {}
      BY DEF Inv, PollFindsAll, Fetch
    <2>3. window' \subseteq Filings /\ listing' \subseteq Filings
      BY <2>1 DEF Inv, TypeOK, Fetch
    <2> QED
      BY <2>2, <2>3 DEF Inv, TypeOK, Fetch
  <1>2. Listings'
    BY DEF Inv, Listings, Fetch, Gapless, Newest
  <1>3. CursorIsListed' /\ PollFindsAll'
    BY DEF Inv, CursorIsListed, PollFindsAll, Fetch
  <1>4. CursorPassesNothing' /\ GapIsOnRecord'
    BY DEF Inv, CursorPassesNothing, GapIsOnRecord, Fetch
  <1> QED
    BY <1>1, <1>2, <1>3, <1>4 DEF Inv

\* Compare: without an overflow a row of the listing that is not in the window
\* is not newer than the cursor.
LEMMA CompareInv ==
    ASSUME Inv, Compare
    PROVE  Inv'
  <1>1. UNCHANGED <<listed, status, cursor, jobs, window, listing, checked, warned,
                    faults>>
    BY DEF Compare
  <1>2. todo' \subseteq window
    BY DEF Compare
  <1>3. TypeOK'
    <2>1. polled' = TRUE /\ older' \subseteq Filings /\ forgotten' \subseteq Filings
      BY DEF Inv, TypeOK, Compare
    <2>2. pc' = "register"
      BY DEF Compare
    <2>3. overflow' \in BOOLEAN
      <3>1. overflow' = FellOut
        BY DEF Compare
      <3>2. FellOut \in BOOLEAN
        BY DEF FellOut
      <3> QED
        BY <3>1, <3>2
    <2> QED
      BY <1>1, <1>2, <2>1, <2>2, <2>3 DEF Inv, TypeOK
  <1>4. Listings' /\ CursorIsListed'
    BY <1>1 DEF Inv, Listings, CursorIsListed, Compare, Gapless, Newest
  <1>5. PollFindsAll'
    <2> SUFFICES ASSUME ~ FellOut, NEW f \in listing
                 PROVE  f \in todo' \/ status[f] # "absent" \/ f \in NotLookedFor'
      BY <1>1 DEF PollFindsAll, Compare
    <2>1. CASE cursor = NoCursor
      BY <2>1 DEF Compare
    <2>2. CASE cursor # NoCursor /\ f <= cursor
      <3>1. status[f] # "absent" \/ f \in NotLookedFor
        BY <2>2 DEF Inv, Listings, CursorPassesNothing
      <3>2. UNCHANGED <<older, forgotten>>
        BY <2>2 DEF Inv, CursorIsListed, Compare
      <3> QED
        BY <3>1, <3>2
    <2>3. CASE cursor # NoCursor /\ ~ (f <= cursor)
      <3>1. f > cursor
        BY <2>3, CursorOrder
      <3>2. CASE Cardinality(listing) < OverlapRows
        <4>1. f \in window
          BY <3>2, CursorOrder, ShortListing DEF Inv, Listings
        <4> QED
          BY <2>3, <3>1, <4>1 DEF Compare
      <3>3. CASE ~ (Cardinality(listing) < OverlapRows)
        <4>1. Cardinality(listing) \in Nat
          BY CursorOrder, FilingsFinite, FS_Subset, FS_CardinalityType
        <4>2. Cardinality(listing) >= OverlapRows
          BY <3>3, <4>1, LivePollAssumption
        <4>3. PICK w \in window : ~ (w > cursor)
          BY <2>3, <4>2 DEF FellOut
        <4>4. f > w
          BY <2>3, <3>1, <4>3, CursorOrder
        <4>5. f \in window
          BY <4>3, <4>4, CursorOrder, WindowIsTop DEF Inv, Listings
        <4> QED
          BY <2>3, <3>1, <4>5 DEF Compare
      <3> QED
        BY <3>2, <3>3
    <2> QED
      BY <2>1, <2>2, <2>3
  <1>6. CursorPassesNothing' /\ GapIsOnRecord'
    <2>1. CASE cursor = NoCursor
      <3>1. checked = {}
        BY <2>1 DEF Inv, CursorIsListed
      <3> QED
        BY <1>1, <2>1, <3>1 DEF CursorPassesNothing, GapIsOnRecord
    <2>2. CASE cursor # NoCursor
      <3>1. UNCHANGED <<older, forgotten>>
        BY <2>2 DEF Inv, CursorIsListed, Compare
      <3> QED
        BY <1>1, <3>1 DEF Inv, CursorPassesNothing, GapIsOnRecord
    <2> QED
      BY <2>1, <2>2
  <1> QED
    BY <1>3, <1>4, <1>5, <1>6 DEF Inv

\* A filing that is registered stays so, and one that gets registered is.
LEMMA Registering ==
    ASSUME Inv, NEW f \in Filings, Registered(f)
    PROVE  /\ status' \in [Filings -> {"absent", "pending", "success"}]
           /\ jobs' \subseteq Filings
           /\ status'[f] # "absent"
           /\ \A g \in Filings : status[g] # "absent" => status'[g] # "absent"
  <1>1. status \in [Filings -> {"absent", "pending", "success"}]
        /\ jobs \subseteq Filings
    BY DEF Inv, TypeOK
  <1> QED
    BY <1>1 DEF Registered

\* A poll registers the rows of its window one by one, the latest first.
LEMMA RegisterInv ==
    ASSUME Inv, Register
    PROVE  Inv'
  <1> DEFINE f == Latest(todo)
  <1>1. UNCHANGED <<listed, cursor, pc, window, overflow, listing, checked, firstPolls,
                    warned, faults>>
    BY DEF Register
  <1>2. f \in todo /\ f \in Filings /\ todo' = todo \ {f} /\ pc = "register"
    <2>1. todo \subseteq Filings
      BY DEF Inv, TypeOK
    <2> QED
      BY <2>1, LatestExists DEF Register
  <1>3. /\ status' \in [Filings -> {"absent", "pending", "success"}]
        /\ jobs' \subseteq Filings
        /\ status'[f] # "absent"
        /\ \A g \in Filings : status[g] # "absent" => status'[g] # "absent"
    BY <1>2, Registering DEF Register
  <1> HIDE DEF f
  <1>4. TypeOK'
    BY <1>1, <1>2, <1>3 DEF Inv, TypeOK
  <1>5. Listings' /\ CursorIsListed'
    BY <1>1 DEF Inv, Listings, CursorIsListed, Gapless, Newest
  <1>6. PollFindsAll'
    BY <1>1, <1>2, <1>3, CursorOrder DEF Inv, PollFindsAll
  <1>7. CursorPassesNothing' /\ GapIsOnRecord'
    BY <1>1, <1>3 DEF Inv, TypeOK, CursorPassesNothing, GapIsOnRecord
  <1> QED
    BY <1>4, <1>5, <1>6, <1>7 DEF Inv

\* MarkSuccess: a cursor without a filing is before all of them.
LEMMA MarkSuccessInv ==
    ASSUME Inv, MarkSuccess
    PROVE  Inv'
  <1>1. UNCHANGED <<listed, status, jobs, firstPolls, warned, faults>>
    BY DEF MarkSuccess
  <1>2. pc = "register" /\ todo = {} /\ polled
    BY DEF Inv, CursorIsListed, MarkSuccess
  <1>3. window = {} => listing = {}
    BY CursorOrder, WindowHasRows DEF Inv, Listings
  <1>4. cursor' # NoCursor /\ cursor' \in {0} \cup listed
        /\ cursor' \in {NoCursor} \cup 0..MaxFiling
    BY LivePollAssumption DEF Inv, TypeOK, CursorIsListed, MarkSuccess
  <1>5. checked' = checked
    BY <1>3 DEF MarkSuccess
  <1>6. CursorPassesNothing' /\ GapIsOnRecord'
    <2>1. \A f \in listed : ~ (f <= 0)
      BY CursorOrder
    <2>2. CASE cursor = NoCursor
      <3>1. cursor' = 0
        BY <2>2 DEF MarkSuccess
      <3> QED
        BY <1>1, <1>5, <2>1, <3>1 DEF Inv, CursorPassesNothing, GapIsOnRecord
    <2>3. CASE cursor # NoCursor
      <3>1. cursor' = cursor
        BY <2>3 DEF MarkSuccess
      <3> QED
        BY <1>1, <1>5, <2>3, <3>1 DEF Inv, CursorPassesNothing, GapIsOnRecord
    <2> QED
      BY <2>2, <2>3
  <1>7. CASE window = {}
    <2>1. EndPoll
      BY <1>7 DEF MarkSuccess
    <2>2. TypeOK'
      BY <1>1, <1>4, <1>5, <2>1 DEF Inv, TypeOK, EndPoll
    <2>3. Listings'
      BY <1>1, <2>1, IdleListings DEF Inv, Listings, Gapless
    <2>4. CursorIsListed' /\ PollFindsAll'
      BY <1>1, <1>2, <1>4, <2>1 DEF CursorIsListed, PollFindsAll, EndPoll
    <2> QED
      BY <1>6, <2>2, <2>3, <2>4 DEF Inv
  <1>8. CASE window # {}
    <2>1. UNCHANGED <<window, overflow, todo, listing>>
          /\ pc' = IF overflow THEN "warn" ELSE "advance"
      BY <1>8 DEF MarkSuccess
    <2>2. TypeOK'
      BY <1>1, <1>4, <1>5, <2>1 DEF Inv, TypeOK
    <2>3. Listings'
      BY <1>1, <2>1 DEF Inv, Listings, Gapless, Newest
    <2>4. CursorIsListed'
      BY <1>1, <1>2, <1>4 DEF CursorIsListed
    <2>5. PollFindsAll'
      BY <1>1, <1>2, <1>8, <2>1 DEF Inv, PollFindsAll
    <2> QED
      BY <1>6, <2>2, <2>3, <2>4, <2>5 DEF Inv
  <1> QED
    BY <1>7, <1>8

\* A step that ends the poll and neither moves the cursor nor has a row checked.
LEMMA EndPollInv ==
    ASSUME Inv, EndPoll, jobs' \subseteq Filings, faults' \in 0..MaxFaults,
           UNCHANGED <<listed, status, cursor, checked, firstPolls, warned>>
    PROVE  Inv'
  <1>1. TypeOK'
    BY DEF Inv, TypeOK, EndPoll
  <1>2. Listings'
    BY IdleListings DEF Inv, Listings, Gapless
  <1>3. CursorIsListed' /\ PollFindsAll'
    BY DEF Inv, CursorIsListed, PollFindsAll, EndPoll
  <1>4. CursorPassesNothing' /\ GapIsOnRecord'
    BY DEF Inv, CursorPassesNothing, GapIsOnRecord
  <1> QED
    BY <1>1, <1>2, <1>3, <1>4 DEF Inv

\* A poll that was overrun ends with a warning, which accounts for its listing.
LEMMA WarnInv ==
    ASSUME Inv, Warn
    PROVE  Inv'
  <1>1. UNCHANGED <<listed, status, cursor, jobs, firstPolls, faults>> /\ EndPoll
        /\ warned' = TRUE /\ checked' = checked \cup listing /\ cursor # NoCursor
    BY DEF Inv, CursorIsListed, Warn
  <1>2. TypeOK'
    BY <1>1 DEF Inv, TypeOK, EndPoll
  <1>3. Listings'
    BY <1>1, IdleListings DEF Inv, Listings, Gapless
  <1>4. CursorIsListed' /\ PollFindsAll'
    BY <1>1 DEF Inv, CursorIsListed, PollFindsAll, EndPoll
  <1>5. CursorPassesNothing' /\ GapIsOnRecord'
    BY <1>1 DEF Inv, CursorPassesNothing, GapIsOnRecord
  <1> QED
    BY <1>2, <1>3, <1>4, <1>5 DEF Inv

\* Advance: the cursor moves to a row of the listing, and this has no gaps.
LEMMA AdvanceInv ==
    ASSUME Inv, Advance
    PROVE  Inv'
  <1>1. UNCHANGED <<listed, status, jobs, firstPolls, warned, faults>> /\ EndPoll
        /\ checked' = checked \cup listing
    BY DEF Advance
  <1>2. \A f \in listing : status[f] # "absent" \/ f \in NotLookedFor
    BY DEF Inv, PollFindsAll, Advance
  <1>3. cursor # NoCursor /\ Latest(window) \in listing
    <2>1. pc = "advance" /\ window # {} /\ cursor # NoCursor
      BY DEF Inv, PollFindsAll, CursorIsListed, Advance
    <2>2. window \subseteq Filings
      BY DEF Inv, TypeOK
    <2> QED
      BY <2>1, <2>2, LatestExists, CursorOrder
  <1>4. \/ cursor' = Latest(window)
        \/ cursor' = cursor
    BY DEF Advance
  <1>5. cursor' \in {0} \cup listed /\ cursor' # NoCursor
    BY <1>3, <1>4, CursorOrder, LivePollAssumption DEF Inv, Listings, CursorIsListed
  <1>6. TypeOK'
    <2>1. cursor' \in {NoCursor} \cup 0..MaxFiling
      BY <1>5, CursorOrder, LivePollAssumption DEF Filings
    <2> QED
      BY <1>1, <2>1 DEF Inv, TypeOK, EndPoll
  <1>7. Listings'
    BY <1>1, IdleListings DEF Inv, Listings, Gapless
  <1>8. CursorIsListed' /\ PollFindsAll'
    BY <1>1, <1>3, <1>5 DEF Inv, CursorIsListed, PollFindsAll, EndPoll
  <1>9. CursorPassesNothing'
    <2> SUFFICES ASSUME NEW f \in listed, f <= cursor'
                 PROVE  status[f] # "absent" \/ f \in NotLookedFor
      BY <1>1 DEF CursorPassesNothing
    <2>1. CASE cursor' = Latest(window)
      <3>1. f \in listing
        BY <1>3, <2>1, CursorOrder DEF Inv, Listings, Gapless
      <3> QED
        BY <1>2, <3>1
    <2>2. CASE cursor' = cursor
      BY <1>3, <2>2 DEF Inv, CursorPassesNothing
    <2> QED
      BY <1>4, <2>1, <2>2
  <1>10. GapIsOnRecord'
    BY <1>1, <1>2 DEF Inv, GapIsOnRecord
  <1> QED
    BY <1>6, <1>7, <1>8, <1>9, <1>10 DEF Inv

\* A poll that fails, or dies with the process, leaves the cursor where it was.
LEMMA PollFailsInv ==
    ASSUME Inv, PollFails \/ Crash
    PROVE  Inv'
  <1>1. faults' \in 0..MaxFaults
    BY LivePollAssumption DEF Inv, TypeOK, PollFails, Crash
  <1>2. jobs' \subseteq Filings
    BY DEF Inv, TypeOK, PollFails, Crash
  <1>3. EndPoll /\ UNCHANGED <<listed, status, cursor, checked, firstPolls, warned>>
    BY DEF PollFails, Crash
  <1> QED
    BY <1>1, <1>2, <1>3, EndPollInv

\* A step of another job: no filing is forgotten.
LEMMA OtherJobInv ==
    ASSUME Inv,
           jobs' \subseteq Filings, faults' \in 0..MaxFaults,
           status' \in [Filings -> {"absent", "pending", "success"}],
           \A f \in Filings : status[f] # "absent" => status'[f] # "absent",
           UNCHANGED <<listed, cursor, pc, window, overflow, todo, listing, checked,
                       firstPolls, warned>>
    PROVE  Inv'
  <1>1. TypeOK'
    BY DEF Inv, TypeOK
  <1>2. Listings' /\ CursorIsListed'
    BY DEF Inv, Listings, CursorIsListed, Gapless, Newest
  <1>3. PollFindsAll'
    BY CursorOrder DEF Inv, PollFindsAll
  <1>4. CursorPassesNothing' /\ GapIsOnRecord'
    BY DEF Inv, TypeOK, CursorPassesNothing, GapIsOnRecord
  <1> QED
    BY <1>1, <1>2, <1>3, <1>4 DEF Inv

\* Jobs and repair register and process filings, and never undo it.
LEMMA ProcessInv ==
    ASSUME Inv, NEW f \in Filings, Process(f) \/ ProcessFails(f) \/ Repair(f)
    PROVE  Inv'
  <1>1. status \in [Filings -> {"absent", "pending", "success"}]
        /\ jobs \subseteq Filings /\ faults \in 0..MaxFaults
    BY DEF Inv, TypeOK
  <1>2. CASE Process(f)
    <2>1. /\ status' \in [Filings -> {"absent", "pending", "success"}]
          /\ \A g \in Filings : status[g] # "absent" => status'[g] # "absent"
      BY <1>1, <1>2 DEF Process
    <2> QED
      BY <1>1, <1>2, <2>1, OtherJobInv DEF Process, poll
  <1>3. CASE ProcessFails(f)
    <2>1. faults' \in 0..MaxFaults
      BY <1>1, <1>3, LivePollAssumption DEF ProcessFails
    <2> QED
      BY <1>1, <1>3, <2>1, OtherJobInv DEF ProcessFails, poll
  <1>4. CASE Repair(f)
    <2>1. /\ status' \in [Filings -> {"absent", "pending", "success"}]
          /\ jobs' \subseteq Filings
          /\ \A g \in Filings : status[g] # "absent" => status'[g] # "absent"
      BY <1>4, Registering DEF Repair
    <2> QED
      BY <1>1, <1>4, <2>1, OtherJobInv DEF Repair, poll
  <1> QED
    BY <1>2, <1>3, <1>4

\* Every step keeps the invariant.
LEMMA NextInv == Inv /\ [Next]_vars => Inv'
  <1> SUFFICES ASSUME Inv, [Next]_vars PROVE Inv'
    OBVIOUS
  <1>1. CASE Publish
    BY <1>1, PublishInv
  <1>2. CASE Poll
    BY <1>2, FetchInv, CompareInv, RegisterInv, MarkSuccessInv, WarnInv, AdvanceInv
    DEF Poll
  <1>3. CASE PollFails \/ Crash
    BY <1>3, PollFailsInv
  <1>4. CASE \E f \in Filings : Process(f) \/ ProcessFails(f) \/ Repair(f)
    BY <1>4, ProcessInv
  <1>5. CASE UNCHANGED vars
    BY <1>5 DEF vars, poll, Inv, TypeOK, Listings, Gapless, Newest, CursorIsListed,
                PollFindsAll, CursorPassesNothing, GapIsOnRecord
  <1> QED
    BY <1>1, <1>2, <1>3, <1>4, <1>5 DEF Next

\* The invariant holds in every reachable state.
LEMMA InvHolds == Spec => []Inv
  BY InitInv, NextInv, PTL DEF Spec

-----------------------------------------------------------------------------
\* The variables keep their types for every number of filings and faults and
\* every size of the window.
THEOREM TypeCorrect == Spec => []TypeOK
  <1>1. Inv => TypeOK
    BY DEF Inv
  <1> QED
    BY <1>1, InvHolds, PTL

\* The cursor passes no filing that is listed, not registered and looked for,
\* wherever polls, jobs and the process fail.  Not looked for is what lies
\* behind the window of the issuer's first poll or, if that poll left no cursor,
\* behind the window of one that had to begin anew.
THEOREM CursorSound == Spec => []CursorPassesNothing
  <1>1. Inv => CursorPassesNothing
    BY DEF Inv
  <1> QED
    BY <1>1, InvHolds, PTL

\* A poll that ends well has registered every row it read and looks for, or a
\* warning about the overlap window is on record.
THEOREM GapRecorded == Spec => []GapIsOnRecord
  <1>1. Inv => GapIsOnRecord
    BY DEF Inv
  <1> QED
    BY <1>1, InvHolds, PTL
=============================================================================
