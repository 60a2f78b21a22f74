---------------------------- MODULE ThreadProofs ----------------------------
(***************************************************************************)
(* Proofs about Threads, for any users, threads, times and page size,      *)
(* however many operations of whatever users come between the pages.       *)
(***************************************************************************)
EXTENDS Threads, FiniteSetTheorems, TLAPS

-----------------------------------------------------------------------------
(***************************************************************************)
(* Rows, their order, and what a page takes of them.                       *)
(***************************************************************************)

\* (is_pinned, "updatedAt", id) orders the rows of different threads.
LEMMA BelowIsOrder ==
  ASSUME NEW x \in Rows, NEW y \in Rows, NEW z \in Rows
  PROVE  /\ ~ Below(x, x)
         /\ Below(x, y) /\ Below(y, z) => Below(x, z)
         /\ x.id # y.id => Below(x, y) \/ Below(y, x)
<1>1. /\ x.at \in Int /\ y.at \in Int /\ z.at \in Int
      /\ x.id \in Int /\ y.id \in Int /\ z.id \in Int
      /\ x.pinned \in BOOLEAN /\ y.pinned \in BOOLEAN /\ z.pinned \in BOOLEAN
  BY OrderAssumption DEF Rows
<1> QED
  BY <1>1 DEF Below

\* A user's list has a row for each listed thread, and one only.
LEMMA RowsAreOfThreads ==
  ASSUME TypeOK, NEW u \in Users
  PROVE  /\ RowsOf(u) \subseteq Rows
         /\ \A x \in RowsOf(u) : x.id \in Listed(u) /\ x = Row(u, x.id)
         /\ \A t \in Listed(u) : Row(u, t) \in RowsOf(u) /\ Row(u, t).id = t
<1>1. \A t \in ThreadIds : Row(u, t) \in Rows /\ Row(u, t).id = t
  BY DEF TypeOK, Row, IsPinned, Rows
<1>2. Listed(u) \subseteq ThreadIds /\ RowsOf(u) = {Row(u, t) : t \in Listed(u)}
  BY DEF Listed, RowsOf
<1> QED
  BY <1>1, <1>2

\* Finitely many threads exist, so that a list is finite.
Created == {t \in ThreadIds : owner[t] # None}

\* What a page is sorted from is finite.
LEMMA ListsAreFinite ==
  ASSUME TypeOK, IsFiniteSet(Created), NEW u \in Users
  PROVE  IsFiniteSet(RowsOf(u))
<1> DEFINE Id == [x \in RowsOf(u) |-> x.id]
<1>1. Id \in Injection(RowsOf(u), Created)
  <2>1. \A x \in RowsOf(u) : x.id \in Created /\ x = Row(u, x.id)
    BY RowsAreOfThreads, NoneAssumption DEF Listed, Created
  <2> QED
    BY <2>1 DEF Injection, IsInjective
<1> QED
  BY <1>1, FS_Injection

\* One row more is fetched than is asked for: with it, everything a page leaves
\* is below the page; without it, the page leaves nothing.
LEMMA PageOfFetched ==
  ASSUME NEW R, IsFiniteSet(R), NEW fetched \in SUBSET R, NEW page \in SUBSET fetched,
         IsFirst(fetched, Count + 1, R), IsFirst(page, Count, fetched)
  PROVE  /\ Cardinality(fetched) > Count => \A x \in page : \A y \in R \ page : Below(y, x)
         /\ ~ Cardinality(fetched) > Count => page = R
<1>1. /\ Count \in Nat
      /\ Cardinality(R) \in Nat /\ Cardinality(fetched) \in Nat /\ Cardinality(page) \in Nat
      /\ IsFiniteSet(fetched)
  BY CountAssumption, FS_Subset, FS_CardinalityType
<1>2. /\ Cardinality(fetched) = IF Cardinality(R) < Count + 1 THEN Cardinality(R) ELSE Count + 1
      /\ Cardinality(page) = IF Cardinality(fetched) < Count THEN Cardinality(fetched) ELSE Count
  BY DEF IsFirst
<1>3. ASSUME NEW x \in page, NEW y \in R \ page
      PROVE  Below(y, x)
  BY <1>3 DEF IsFirst
<1>4. ASSUME ~ Cardinality(fetched) > Count
      PROVE  page = R
  <2>1. Cardinality(fetched) = Cardinality(R) /\ Cardinality(page) = Cardinality(fetched)
    BY <1>1, <1>2, <1>4
  <2> QED
    BY <2>1, <1>1, FS_Subset
<1> QED
  BY <1>3, <1>4

-----------------------------------------------------------------------------
(***************************************************************************)
(* The inductive invariant.                                                *)
(***************************************************************************)

\* Whether the walk has shown x: nothing below its cursor's row yet.
Passed(x) == call = "over" \/ (cursor # None /\ ~ After(x, held))

\* Rows that have not changed are shown once the walk has passed them, as long
\* as each cursor's row was where its page had it.
Walked ==
  /\ steady \subseteq RowsOf(Reader)
  /\ kept => \A x \in steady : shown[x.id] = IF Passed(x) THEN 1 ELSE 0

WalkState ==
  /\ call = "idle" => cursor = None /\ \A t \in ThreadIds : shown[t] = 0
  /\ cursor # None => held \in Rows

ThreadInv == TypeOK /\ IsFiniteSet(Created) /\ WalkState /\ Walked

-----------------------------------------------------------------------------
(***************************************************************************)
(* The steps.                                                              *)
(***************************************************************************)

\* The page that ReadPage counts, with what was fetched for it.
PageRead(fetched, page) ==
  /\ call = "between"
  /\ fetched \in SUBSET Candidates(Reader, cursor) /\ page \in SUBSET fetched
  /\ IsFirst(fetched, Count + 1, Candidates(Reader, cursor))
  /\ IsFirst(page, Count, fetched)
  /\ shown' = [t \in ThreadIds |-> IF \E x \in page : x.id = t THEN shown[t] + 1 ELSE shown[t]]
  /\ IF Cardinality(fetched) > Count
       THEN \E last \in page :
              /\ \A x \in page \ {last} : Below(last, x)
              /\ call' = "between" /\ cursor' = last.id /\ held' = last
       ELSE call' = "over" /\ cursor' = None /\ held' = None
  /\ kept' = (kept /\ (cursor # None => held \in RowsOf(Reader)))
  /\ UNCHANGED <<tableVars, searching, actor>>

\* ReadPage reads one page.
LEMMA ReadPageReads == ReadPage => \E fetched, page : PageRead(fetched, page)
BY DEF ReadPage, PageRead

\* A page is of rows that are listed as it is read.
LEMMA PageIsListed ==
  ASSUME TypeOK, NEW fetched, NEW page, PageRead(fetched, page)
  PROVE  page \subseteq RowsOf(Reader) /\ page \subseteq Rows
<1>1. Candidates(Reader, cursor) \subseteq RowsOf(Reader)
  BY DEF Candidates
<1> QED
  BY <1>1, RowsAreOfThreads, ReaderAssumption DEF PageRead

\* Whoever operates on the threads, and in whatever order, keeps the types.
LEMMA ThreadTypes == TypeOK /\ WalkState /\ [Next]_vars => TypeOK'
<1> SUFFICES ASSUME TypeOK, WalkState, [Next]_vars
             PROVE  TypeOK'
  OBVIOUS
<1> DEFINE TableOK ==
             /\ owner \in [ThreadIds -> Users \cup {None}]
             /\ updatedAt \in [ThreadIds -> Times]
             /\ deletedAt \subseteq {t \in ThreadIds : owner[t] # None}
             /\ matching \subseteq {t \in ThreadIds : owner[t] # None}
             /\ pins \subseteq Users \X ThreadIds
<1>1. ASSUME NEW u \in Users, NEW t \in ThreadIds, NEW at \in Times, NEW match \in BOOLEAN,
             CreateThread(u, t, at, match) \/ UpdateThread(u, t, at, match)
      PROVE  TableOK'
  BY <1>1, NoneAssumption DEF CreateThread, UpdateThread, Titled, Owns, TypeOK
<1>2. ASSUME NEW u \in Users, NEW t \in ThreadIds,
             DeleteThread(u, t) \/ \E isPinned \in BOOLEAN : UpdateThreadPin(u, t, isPinned)
      PROVE  TableOK'
  BY <1>2, NoneAssumption DEF DeleteThread, UpdateThreadPin, Owns, TypeOK
<1>3. UNCHANGED tableVars => TableOK'
  BY DEF TypeOK, tableVars
<1>4. TableOK'
  BY <1>1, <1>2, <1>3 DEF Next, Operation, Start, ReadPage, Finished, vars
<1>5. steady' \subseteq Rows
  <2>1. RowsOf(Reader)' \subseteq Rows
    <3>1. ASSUME NEW t \in ThreadIds
          PROVE  Row(Reader, t)' \in Rows
      BY <1>4 DEF Row, Rows, IsPinned
    <3> QED
      BY <3>1 DEF RowsOf, Listed
  <2> QED
    BY <2>1 DEF Next, vars, TypeOK
<1>6. CASE \E u \in Users : Operation(u)
  BY <1>4, <1>5, <1>6 DEF Operation, walkVars, TypeOK
<1>7. CASE Start \/ Finished \/ UNCHANGED vars
  BY <1>4, <1>5, <1>7 DEF Start, Finished, walkVars, vars, TypeOK
<1>8. CASE InBound /\ ReadPage
  <2>1. PICK fetched, page : PageRead(fetched, page)
    BY <1>8, ReadPageReads
  <2>2. page \subseteq Rows
    BY <2>1, PageIsListed
  <2>3. shown' \in [ThreadIds -> 0 .. MaxShown]
    BY <1>8, <2>1, CountAssumption DEF PageRead, InBound, TypeOK
  <2>4. CASE Cardinality(fetched) > Count
    <3>1. PICK last \in page : call' = "between" /\ cursor' = last.id /\ held' = last
      BY <2>1, <2>4 DEF PageRead
    <3>2. last.id \in ThreadIds /\ held' \in Rows
      BY <3>1, <2>2 DEF Rows
    <3>3. shown'[last.id] > 0
      BY <2>1, <3>1, <3>2 DEF PageRead, TypeOK
    <3> QED
      BY <1>4, <1>5, <2>1, <2>3, <3>1, <3>2, <3>3 DEF TypeOK, PageRead
  <2>5. CASE ~ Cardinality(fetched) > Count
    BY <1>4, <1>5, <2>1, <2>3, <2>5 DEF TypeOK, PageRead
  <2> QED
    BY <2>4, <2>5
<1> QED
  BY <1>6, <1>7, <1>8 DEF Next

\* A step creates at most one thread.
LEMMA CreatedStaysFinite ==
  TypeOK /\ IsFiniteSet(Created) /\ [Next]_vars => IsFiniteSet(Created)'
<1> SUFFICES ASSUME TypeOK, IsFiniteSet(Created), [Next]_vars
             PROVE  IsFiniteSet(Created)'
  OBVIOUS
<1>1. ASSUME NEW u \in Users, NEW t \in ThreadIds, NEW at \in Times, NEW match \in BOOLEAN,
             CreateThread(u, t, at, match)
      PROVE  IsFiniteSet(Created)'
  <2>1. Created' \subseteq Created \cup {t}
    BY <1>1 DEF CreateThread, Created, TypeOK
  <2>2. IsFiniteSet(Created \cup {t})
    BY FS_AddElement
  <2> QED
    BY <2>1, <2>2, FS_Subset
<1>2. CASE UNCHANGED owner
  BY <1>2 DEF Created
<1> QED
  BY <1>1, <1>2 DEF Next, Operation, UpdateThread, DeleteThread, UpdateThreadPin, Start, ReadPage,
                    Finished, vars, tableVars

\* A walk that has not begun has shown nothing, and a cursor has a row.
LEMMA WalkStateKept == TypeOK /\ WalkState /\ [Next]_vars => WalkState'
<1> SUFFICES ASSUME TypeOK, WalkState, [Next]_vars
             PROVE  WalkState'
  OBVIOUS
<1>1. CASE ReadPage
  <2>1. PICK fetched, page : PageRead(fetched, page)
    BY <1>1, ReadPageReads
  <2>2. page \subseteq Rows
    BY <2>1, PageIsListed
  <2> QED
    BY <2>1, <2>2 DEF PageRead, WalkState
<1>2. CASE ~ ReadPage
  BY <1>2 DEF Next, Operation, Start, Finished, vars, walkVars, WalkState
<1> QED
  BY <1>1, <1>2

-----------------------------------------------------------------------------
(***************************************************************************)
(* The walk.                                                               *)
(***************************************************************************)

\* Reading a page, of a cursor that is where its page had it, shows just the
\* unchanged rows that the walk then passes.
LEMMA PageWalks ==
  ASSUME ThreadInv, NEW fetched, NEW page, PageRead(fetched, page), kept',
         NEW x \in steady
  PROVE  shown'[x.id] = IF Passed(x)' THEN 1 ELSE 0
<1> DEFINE C == Candidates(Reader, cursor)
<1>1. /\ call = "between" /\ kept
      /\ cursor # None => held \in RowsOf(Reader)
      /\ fetched \in SUBSET C /\ page \in SUBSET fetched
  BY DEF PageRead
<1>2. /\ page \subseteq RowsOf(Reader) /\ page \subseteq Rows
      /\ x \in RowsOf(Reader) /\ x \in Rows /\ x.id \in ThreadIds
  BY PageIsListed, RowsAreOfThreads, ReaderAssumption DEF ThreadInv, Walked, Rows
<1>3. \A y \in RowsOf(Reader) : y.id = x.id => y = x
  BY <1>2, RowsAreOfThreads, ReaderAssumption DEF ThreadInv
<1>4. x \in C <=> ~ Passed(x)
  <2>1. CASE cursor = None
    BY <1>1, <1>2, <2>1 DEF Candidates, Passed
  <2>2. CASE cursor # None
    <3>1. held \in RowsOf(Reader) /\ held.id = cursor
      BY <1>1, <2>2 DEF ThreadInv, TypeOK
    <3>2. cursor \in Listed(Reader) /\ Row(Reader, cursor) = held
      BY <3>1, RowsAreOfThreads, ReaderAssumption DEF ThreadInv
    <3> QED
      BY <1>1, <1>2, <2>2, <3>2 DEF Candidates, Passed
  <2> QED
    BY <2>1, <2>2
<1>5. shown'[x.id] = IF x \in page THEN shown[x.id] + 1 ELSE shown[x.id]
  BY <1>2, <1>3 DEF PageRead
<1>6. shown[x.id] = IF x \in C THEN 0 ELSE 1
  BY <1>1, <1>4 DEF ThreadInv, Walked
<1>7. /\ Cardinality(fetched) > Count => \A a \in page : \A b \in C \ page : Below(b, a)
      /\ ~ Cardinality(fetched) > Count => page = C
  <2>1. IsFiniteSet(C)
    <3>1. C \subseteq RowsOf(Reader)
      BY DEF Candidates
    <3> QED
      BY <3>1, ListsAreFinite, ReaderAssumption, FS_Subset DEF ThreadInv
  <2> QED
    BY <1>1, <2>1, PageOfFetched DEF PageRead
<1>8. CASE ~ Cardinality(fetched) > Count
  BY <1>1, <1>5, <1>6, <1>7, <1>8 DEF PageRead, Passed
<1>9. CASE Cardinality(fetched) > Count
  <2>1. PICK last \in page :
          /\ \A a \in page \ {last} : Below(last, a)
          /\ call' = "between" /\ cursor' = last.id /\ held' = last
    BY <1>9 DEF PageRead
  <2>2. last \in C /\ last \in Rows /\ cursor' # None
    BY <1>1, <1>2, <2>1, NoneAssumption DEF Rows
  <2>3. Passed(x)' <=> ~ Below(x, last)
    BY <2>1, <2>2 DEF Passed, After, Below
  <2>4. CASE x \in page
    <3>1. ~ Below(x, last)
      BY <2>1, <2>2, <2>4, <1>2, BelowIsOrder
    <3> QED
      BY <3>1, <2>3, <2>4, <1>1, <1>5, <1>6
  <2>5. CASE x \in C \ page
    BY <2>1, <2>3, <2>5, <1>5, <1>6, <1>7, <1>9
  \* x was passed before this page, whose last is below the cursor's row
  <2>6. CASE x \notin C
    <3>1. cursor # None /\ ~ Below(x, held) /\ held \in Rows
      BY <1>1, <1>4, <2>6 DEF Passed, After, ThreadInv, WalkState
    <3>2. Below(last, held)
      <4>1. held.id = cursor /\ held \in RowsOf(Reader)
        BY <1>1, <3>1 DEF ThreadInv, TypeOK
      <4>2. Row(Reader, cursor) = held
        BY <4>1, RowsAreOfThreads, ReaderAssumption DEF ThreadInv
      <4> QED
        BY <2>2, <3>1, <4>2 DEF Candidates, After
    <3>3. ~ Below(x, last)
      BY <3>1, <3>2, <2>2, <1>2, BelowIsOrder
    <3> QED
      BY <3>3, <2>3, <2>6, <1>1, <1>5, <1>6
  <2> QED
    BY <2>4, <2>5, <2>6
<1> QED
  BY <1>8, <1>9

\* No other step moves the walk past anything.
LEMMA WalkedKept == ThreadInv /\ [Next]_vars => Walked'
<1> SUFFICES ASSUME ThreadInv, [Next]_vars
             PROVE  Walked'
  OBVIOUS
<1>1. steady' \subseteq RowsOf(Reader)' /\ (call' # "idle" => steady' \subseteq steady)
  <2>1. CASE UNCHANGED vars
    BY <2>1 DEF vars, tableVars, walkVars, ThreadInv, Walked, RowsOf, Row, Listed, IsPinned
  <2> QED
    BY <2>1 DEF Next
<1>2. CASE ReadPage
  <2>1. PICK fetched, page : PageRead(fetched, page)
    BY <1>2, ReadPageReads
  <2>2. steady' \subseteq steady
    BY <1>1, <2>1 DEF PageRead
  <2> QED
    BY <1>1, <2>1, <2>2, PageWalks DEF Walked
<1>3. CASE ~ ReadPage
  <2>1. /\ UNCHANGED <<cursor, held, shown, kept>>
        /\ call' = "over" <=> call = "over"
        /\ call' = "idle" => call = "idle"
    BY <1>3 DEF Next, Operation, Start, Finished, vars, walkVars
  <2>2. \A x : Passed(x)' = Passed(x)
    BY <2>1 DEF Passed, After, Below
  <2>3. CASE call' = "idle"
    <3>1. steady' \subseteq Rows
      BY ThreadTypes DEF ThreadInv, TypeOK
    <3> QED
      BY <1>1, <2>1, <2>2, <2>3, <3>1 DEF Walked, Passed, ThreadInv, WalkState, Rows
  <2> QED
    BY <1>1, <2>1, <2>2, <2>3 DEF ThreadInv, Walked
<1> QED
  BY <1>2, <1>3

-----------------------------------------------------------------------------
(***************************************************************************)
(* The theorems.                                                           *)
(***************************************************************************)

\* No thread exists, and the walk has not begun.
LEMMA InitThreadInv == Init => ThreadInv
<1> SUFFICES ASSUME Init
             PROVE  ThreadInv
  OBVIOUS
<1>1. TypeOK
  BY ReaderAssumption, CountAssumption DEF Init, TypeOK
<1>2. Created = {}
  BY DEF Init, Created
<1>3. WalkState /\ Walked
  BY DEF Init, WalkState, Walked
<1> QED
  BY <1>1, <1>2, <1>3, FS_EmptySet DEF ThreadInv

\* The inductive invariant of a walk through the threads: what it has shown is
\* what its cursor's row has passed.
THEOREM ThreadsInvariant == Spec => []ThreadInv
<1>1. ThreadInv /\ [Next]_vars => ThreadInv'
  BY ThreadTypes, CreatedStaysFinite, WalkStateKept, WalkedKept DEF ThreadInv
<1> QED
  BY InitThreadInv, <1>1, PTL DEF Spec

\* A cursor is the id of a thread that the page before showed.
THEOREM TypeCorrect == Spec => []TypeOK
  BY ThreadsInvariant, PTL DEF ThreadInv

\* Paging by a thread's id shows each unchanged thread once, whatever the other
\* threads and other users do meanwhile, as long as the cursors' rows stay
\* where they were (src/store/agent.go, ListThreads and SearchThreads).
THEOREM SteadyThreadsShownOnce == Spec => []SteadyThreadsOnce
<1>1. ThreadInv => SteadyThreadsOnce
  BY DEF ThreadInv, Walked, Passed, SteadyThreadsOnce
<1> QED
  BY <1>1, ThreadsInvariant, PTL

\* An operation of one user leaves the rows of every other as they were.
LEMMA OthersRows ==
  ASSUME TypeOK, NEW v \in Users, NEW u \in Users, u # v, Operation(v)
  PROVE  RowsOf(u)' = RowsOf(u)
<1>1. ASSUME NEW t \in ThreadIds
      PROVE  /\ t \in Listed(u)' <=> t \in Listed(u)
             /\ t \in Listed(u) => Row(u, t)' = Row(u, t)
  <2>1. ASSUME NEW x \in ThreadIds, NEW at \in Times, NEW match \in BOOLEAN,
               CreateThread(v, x, at, match) \/ UpdateThread(v, x, at, match),
               UNCHANGED walkVars
        PROVE  /\ t \in Listed(u)' <=> t \in Listed(u)
               /\ t \in Listed(u) => Row(u, t)' = Row(u, t)
    BY <2>1, NoneAssumption
       DEF CreateThread, UpdateThread, Titled, Owns, Listed, Row, IsPinned, walkVars, TypeOK
  <2>2. ASSUME NEW x \in ThreadIds, DeleteThread(v, x), UNCHANGED walkVars
        PROVE  /\ t \in Listed(u)' <=> t \in Listed(u)
               /\ t \in Listed(u) => Row(u, t)' = Row(u, t)
    BY <2>2 DEF DeleteThread, Owns, Listed, Row, IsPinned, walkVars, TypeOK
  <2>3. ASSUME NEW x \in ThreadIds, NEW isPinned \in BOOLEAN, UpdateThreadPin(v, x, isPinned),
               UNCHANGED walkVars
        PROVE  /\ t \in Listed(u)' <=> t \in Listed(u)
               /\ t \in Listed(u) => Row(u, t)' = Row(u, t)
    BY <2>3 DEF UpdateThreadPin, Listed, Row, IsPinned, walkVars, TypeOK
  <2> QED
    BY <2>1, <2>2, <2>3 DEF Operation
<1>2. Listed(u)' \subseteq ThreadIds /\ Listed(u) \subseteq ThreadIds
  BY DEF Listed
<1> QED
  BY <1>1, <1>2 DEF RowsOf

\* What a user lists is that user's own doing: the owner is in every WHERE, and
\* a pin joins by user and thread (src/store/agent.go).
THEOREM OthersNeverChangeLists == Spec => OthersChangeNothing
<1>1. ASSUME TypeOK, [Next]_vars, NEW u \in Users, RowsOf(u)' # RowsOf(u)
      PROVE  actor' = u
  <2>1. UNCHANGED <<tableVars, searching>> => RowsOf(u)' = RowsOf(u)
    BY DEF tableVars, RowsOf, Row, Listed, IsPinned
  <2>2. PICK v \in Users : Operation(v)
    BY <1>1, <2>1 DEF Next, Start, ReadPage, Finished, vars, walkVars
  <2> QED
    BY <1>1, <2>2, OthersRows DEF Operation
<1>2. TypeOK /\ [Next]_vars => [\A u \in Users : RowsOf(u)' # RowsOf(u) => actor' = u]_vars
  BY <1>1
<1> QED
  BY <1>2, TypeCorrect, PTL DEF Spec, OthersChangeNothing
=============================================================================
