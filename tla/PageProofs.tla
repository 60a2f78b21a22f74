----------------------------- MODULE PageProofs -----------------------------
(***************************************************************************)
(* Proofs about MessagePages, for any messages, times, runs and page       *)
(* sizes, however pen-gpt writes the table between the pages of a walk.    *)
(***************************************************************************)
EXTENDS MessagePages, FiniteSetTheorems, SequenceTheorems, TLAPS

-----------------------------------------------------------------------------
(***************************************************************************)
(* The order of the lists, and what a page takes of it.                    *)
(***************************************************************************)

\* (created_at, id) is a strict order, in either direction of the walk.
LEMMA AheadIsOrder ==
  ASSUME NEW x \in Messages, NEW y \in Messages, NEW z \in Messages
  PROVE  /\ ~ Ahead(x, x)
         /\ Ahead(x, y) /\ Ahead(y, z) => Ahead(x, z)
<1>1. /\ x.at \in Int /\ y.at \in Int /\ z.at \in Int
      /\ x.id \in Int /\ y.id \in Int /\ z.id \in Int
  BY IdsAssumption, TimesAssumption DEF Messages
<1> QED
  BY <1>1 DEF Ahead, Older

\* One row more is fetched than is asked for: with it, the page is full and
\* everything it leaves comes after it; without it, the page leaves nothing.
LEMMA PageOfFetched ==
  ASSUME NEW R, IsFiniteSet(R), NEW n \in Counts, NEW fetched, NEW page,
         IsFirst(fetched, n + 1, R), IsFirst(page, n, fetched)
  PROVE  /\ page \subseteq R
         /\ Cardinality(fetched) > n =>
              /\ Cardinality(page) = n
              /\ \A x \in page : \A y \in R \ page : Ahead(x, y)
         /\ ~ Cardinality(fetched) > n => page = R
<1>1. n \in Nat /\ fetched \subseteq R /\ page \subseteq fetched
  BY CountsAssumption DEF IsFirst
<1>2. /\ IsFiniteSet(fetched)
      /\ Cardinality(R) \in Nat /\ Cardinality(fetched) \in Nat /\ Cardinality(page) \in Nat
  BY <1>1, FS_Subset, FS_CardinalityType
<1>3. /\ Cardinality(fetched) = IF Cardinality(R) < n + 1 THEN Cardinality(R) ELSE n + 1
      /\ Cardinality(page) = IF Cardinality(fetched) < n THEN Cardinality(fetched) ELSE n
  BY DEF IsFirst
<1>4. ASSUME Cardinality(fetched) > n
      PROVE  Cardinality(page) = n /\ \A x \in page : \A y \in R \ page : Ahead(x, y)
  <2>1. Cardinality(page) = n
    BY <1>1, <1>2, <1>3, <1>4
  <2>2. ASSUME NEW x \in page, NEW y \in R \ page
        PROVE  Ahead(x, y)
    BY <1>1, <2>2 DEF IsFirst
  <2> QED
    BY <2>1, <2>2
<1>5. ASSUME ~ Cardinality(fetched) > n
      PROVE  page = R
  <2>1. Cardinality(fetched) = Cardinality(R) /\ Cardinality(page) = Cardinality(fetched)
    BY <1>1, <1>2, <1>3, <1>5
  <2> QED
    BY <2>1, <1>1, <1>2, FS_Subset
<1> QED
  BY <1>1, <1>4, <1>5

-----------------------------------------------------------------------------
(***************************************************************************)
(* The inductive invariant, by parts.                                      *)
(***************************************************************************)

\* A run whose user message was marked as ended stays ended.
Table ==
  /\ IsFiniteSet(stored)
  /\ marked \subseteq EndedRuns

\* The token is the last of what has been shown.
Pages ==
  /\ WalkInOrder
  /\ next # None => \A m \in Shown : m = next \/ Ahead(m, next)
  /\ \A i \in 1 .. Len(pages) :
       i < Len(pages) \/ call \in {"between", "checked"} => Cardinality(pages[i].rows) = pages[i].asked

\* What has been readable all along and is not yet shown comes after the token.
Remaining ==
  /\ steady \subseteq Readable
  /\ call # "denied" => \A m \in steady \ Shown : call # "over" /\ After(m)

PageInv == TypeOK /\ Table /\ Pages /\ Remaining

-----------------------------------------------------------------------------
(***************************************************************************)
(* One page read: its parameters, and what it does to what has been shown. *)
(***************************************************************************)

\* The page that ReadPage appends, with what was fetched for it.
PageRead(count, fetched, page) ==
  /\ call = "checked"
  /\ IsFirst(fetched, count + 1, Rows)
  /\ IsFirst(page, count, fetched)
  /\ pages' = Append(pages, [asked |-> count, rows |-> page])
  /\ marked' = marked \cup Marks(page)
  /\ IF Cardinality(fetched) > count
       THEN call' = "between" /\ \E last \in page : IsLast(last, page) /\ next' = last
       ELSE call' = "over" /\ next' = None
  /\ UNCHANGED tableVars

\* ReadPage reads one page.
LEMMA ReadPageReads ==
  ReadPage => \E count \in Counts : \E fetched, page : PageRead(count, fetched, page)
BY DEF ReadPage, PageRead

\* A page holds readable rows past the token, and what has been shown grows by
\* exactly that page.
LEMMA PageAppended ==
  ASSUME TypeOK, Table, NEW count \in Counts, NEW fetched, NEW page, PageRead(count, fetched, page)
  PROVE  /\ page \subseteq Rows /\ page \subseteq Messages
         /\ Cardinality(fetched) > count =>
              /\ Cardinality(page) = count
              /\ \A x \in page : \A y \in Rows \ page : Ahead(x, y)
         /\ ~ Cardinality(fetched) > count => page = Rows
         /\ pages' \in Seq([asked : Counts, rows : SUBSET Messages])
         /\ Len(pages) \in Nat /\ Len(pages') = Len(pages) + 1
         /\ \A i \in 1 .. Len(pages) : pages'[i] = pages[i]
         /\ pages'[Len(pages')] = [asked |-> count, rows |-> page]
         /\ Shown' = Shown \cup page
<1>1. Rows \subseteq stored /\ Rows \subseteq Messages
  BY DEF Rows, Readable, TypeOK
<1>2. IsFiniteSet(Rows)
  BY <1>1, FS_Subset DEF Table
<1>3. /\ page \subseteq Rows
      /\ Cardinality(fetched) > count =>
           /\ Cardinality(page) = count
           /\ \A x \in page : \A y \in Rows \ page : Ahead(x, y)
      /\ ~ Cardinality(fetched) > count => page = Rows
  BY <1>2, PageOfFetched DEF PageRead
<1>4. /\ pages \in Seq([asked : Counts, rows : SUBSET Messages])
      /\ [asked |-> count, rows |-> page] \in [asked : Counts, rows : SUBSET Messages]
      /\ pages' = Append(pages, [asked |-> count, rows |-> page])
  BY <1>1, <1>3 DEF TypeOK, PageRead
<1>5. /\ pages' \in Seq([asked : Counts, rows : SUBSET Messages])
      /\ Len(pages) \in Nat /\ Len(pages') = Len(pages) + 1
      /\ \A i \in 1 .. Len(pages) : pages'[i] = pages[i]
      /\ pages'[Len(pages')] = [asked |-> count, rows |-> page]
  BY <1>4
<1>6. Shown' = Shown \cup page
  <2>1. ASSUME NEW m
        PROVE  m \in Shown' <=> m \in Shown \/ m \in page
    <3>1. m \in Shown' <=> \E i \in 1 .. Len(pages') : m \in pages'[i].rows
      BY DEF Shown
    <3>2. m \in Shown <=> \E i \in 1 .. Len(pages) : m \in pages[i].rows
      BY DEF Shown
    <3>3. 1 .. Len(pages') = (1 .. Len(pages)) \cup {Len(pages')} 
      BY <1>5
    <3> QED
      BY <3>1, <3>2, <3>3, <1>5
  <2> QED
    BY <2>1
<1> QED
  BY <1>1, <1>3, <1>5, <1>6

\* A page's last message is in it, and everything else of it comes before.
LEMMA NextIsLast ==
  ASSUME NEW count, NEW fetched, NEW page, PageRead(count, fetched, page),
         Cardinality(fetched) > count
  PROVE  next' \in page /\ \A x \in page \ {next'} : Ahead(x, next')
BY DEF PageRead, IsLast

-----------------------------------------------------------------------------
(***************************************************************************)
(* Preservation.                                                           *)
(***************************************************************************)

\* A step that reads no page leaves what was shown and the token, and moves the
\* walk only on or to its denial.
LEMMA OtherSteps ==
  ASSUME Writers \/ Start \/ CheckAccess \/ FailPage \/ Finished \/ UNCHANGED vars
  PROVE  /\ UNCHANGED <<next, pages, marked, linkAt>>
         /\ \/ UNCHANGED call
            \/ call = "idle" /\ call' = "between"
            \/ call = "between" /\ call' \in {"checked", "denied"}
            \/ call = "checked" /\ call' = "between"
BY DEF Writers, Store, EndRun, CleanUp, Delete, Start, CheckAccess, FailPage, Finished, vars,
       walkVars, tableVars

\* Every step of the table's writers and of the walk keeps the types.
LEMMA PageTypes == TypeOK /\ Table /\ [Next]_vars => TypeOK'
<1> SUFFICES ASSUME TypeOK, Table, [Next]_vars
             PROVE  TypeOK'
  OBVIOUS
<1>1. CASE Writers \/ UNCHANGED vars
  <2>1. /\ stored' \subseteq Messages /\ removed' \subseteq stored'
        /\ cleanup' \in [Runs -> {"not_needed", "pending", "done", "failed"}]
        /\ deleted' \in BOOLEAN /\ linkDeleted' \in BOOLEAN
        /\ UNCHANGED linkAt
    BY <1>1 DEF TypeOK, Writers, Store, EndRun, CleanUp, Delete, walkVars, tableVars, vars
  <2>2. UNCHANGED walkVars
    BY <1>1 DEF Writers, Store, EndRun, CleanUp, Delete, walkVars, vars
  <2>3. steady' \subseteq Messages
    BY <1>1, <2>1 DEF Next, TypeOK, Readable, vars
  <2> QED
    BY <2>1, <2>2, <2>3 DEF TypeOK, walkVars
<1>2. CASE Start \/ CheckAccess \/ FailPage \/ Finished
  <2>1. UNCHANGED tableVars /\ UNCHANGED <<next, pages, marked>>
    BY <1>2 DEF Start, CheckAccess, FailPage, Finished, walkVars
  <2>2. steady' \subseteq Messages
    BY <2>1, <1>2 DEF Next, TypeOK, Readable, vars, tableVars
  <2> QED
    BY <1>2, <2>1, <2>2
       DEF TypeOK, Start, CheckAccess, FailPage, Finished, walkVars, tableVars, Call
<1>3. CASE ReadPage
  <2>0. PICK count \in Counts : \E fetched, page : PageRead(count, fetched, page)
    BY <1>3, ReadPageReads
  <2>1. PICK fetched, page : PageRead(count, fetched, page)
    BY <2>0
  <2>2. /\ page \subseteq Rows /\ page \subseteq Messages
        /\ pages' \in Seq([asked : Counts, rows : SUBSET Messages])
        /\ Len(pages) \in Nat /\ Len(pages') = Len(pages) + 1
    BY <2>1, PageAppended
  <2>6. pages' # <<>>
    <3>1. Len(pages') # 0
      BY <2>2
    <3> QED
      BY <3>1
  <2>3. marked' \subseteq Runs
    BY <2>1 DEF PageRead, Marks, EndedRuns, TypeOK
  <2>4. steady' \subseteq Messages
    BY <2>1, <1>3 DEF Next, TypeOK, Readable, vars, PageRead, tableVars
  <2>5. /\ UNCHANGED tableVars
        /\ \/ call' = "between" /\ next' \in page
           \/ call' = "over" /\ next' = None
    BY <2>1 DEF PageRead
  <2> QED
    BY <2>2, <2>3, <2>4, <2>5, <2>6, NoMessageAssumption DEF TypeOK, tableVars, Call
<1> QED
  BY <1>1, <1>2, <1>3 DEF Next, Walk

\* Messages are stored one by one, and no run is ever un-ended: what a marker
\* said of a run stays true.
LEMMA TableKept == TypeOK /\ Table /\ [Next]_vars => Table'
<1> SUFFICES ASSUME TypeOK, Table, [Next]_vars
             PROVE  Table'
  OBVIOUS
<1>1. ASSUME NEW m \in Messages, Store(m)
      PROVE  Table'
  BY <1>1, FS_AddElement DEF Table, Store, walkVars, EndedRuns
<1>2. ASSUME NEW r \in Runs, EndRun(r) \/ CleanUp(r)
      PROVE  Table'
  BY <1>2 DEF Table, EndRun, CleanUp, walkVars, EndedRuns, TypeOK
<1>3. CASE Delete \/ Start \/ CheckAccess \/ FailPage \/ Finished \/ UNCHANGED vars
  BY <1>3 DEF Table, Delete, Start, CheckAccess, FailPage, Finished, vars, walkVars, tableVars, EndedRuns
<1>4. CASE ReadPage
  <2>0. PICK count \in Counts : \E fetched, page : PageRead(count, fetched, page)
    BY <1>4, ReadPageReads
  <2>1. PICK fetched, page : PageRead(count, fetched, page)
    BY <2>0
  <2> QED
    BY <2>1 DEF PageRead, Marks, Table, tableVars, EndedRuns
<1> QED
  BY <1>1, <1>2, <1>3, <1>4 DEF Next, Writers, Walk

\* What a page shows comes after the token, and so after all that was shown.
LEMMA PagesKept == PageInv /\ [Next]_vars => Pages'
<1> SUFFICES ASSUME PageInv, [Next]_vars
             PROVE  Pages'
  OBVIOUS
<1>1. CASE Writers \/ Start \/ CheckAccess \/ FailPage \/ Finished \/ UNCHANGED vars
  <2>1. /\ UNCHANGED <<next, pages, linkAt>>
        /\ call' \in {"between", "checked"} /\ call \notin {"between", "checked"} => pages = <<>>
    BY <1>1, OtherSteps DEF PageInv, TypeOK
  <2> QED
    BY <2>1 DEF PageInv, Pages, WalkInOrder, Shown, Ahead, Owner
<1>2. CASE ReadPage
  <2>0. PICK count \in Counts : \E fetched, page : PageRead(count, fetched, page)
    BY <1>2, ReadPageReads
  <2>1. PICK fetched, page : PageRead(count, fetched, page)
    BY <2>0
  <2>2. /\ page \subseteq Rows /\ page \subseteq Messages
        /\ Cardinality(fetched) > count => Cardinality(page) = count
        /\ Len(pages) \in Nat /\ Len(pages') = Len(pages) + 1
        /\ \A i \in 1 .. Len(pages) : pages'[i] = pages[i]
        /\ pages'[Len(pages')] = [asked |-> count, rows |-> page]
        /\ Shown' = Shown \cup page
    BY <2>1, PageAppended DEF PageInv
  <2>3. \A x, y : Ahead(x, y)' = Ahead(x, y)
    BY <2>1 DEF PageRead, tableVars, Ahead, Owner
  <2>4. Shown \subseteq Messages /\ \A i \in 1 .. Len(pages) : pages[i].rows \subseteq Shown
    <3>1. ASSUME NEW i \in 1 .. Len(pages)
          PROVE  pages[i].rows \subseteq Messages
      <4>1. pages \in Seq([asked : Counts, rows : SUBSET Messages])
        BY DEF PageInv, TypeOK
      <4>2. pages[i] \in [asked : Counts, rows : SUBSET Messages]
        BY <4>1, ElementOfSeq
      <4> QED
        BY <4>2
    <3>2. \A m : m \in Shown <=> \E i \in 1 .. Len(pages) : m \in pages[i].rows
      BY DEF Shown
    <3> QED
      BY <3>1, <3>2
  \* the token is what separates the pages
  <2>5. ASSUME NEW x \in Shown, NEW y \in page
        PROVE  Ahead(x, y)
    <3>1. next # None
      BY <2>1, <2>5 DEF PageInv, TypeOK, PageRead, Shown
    <3>2. next \in Messages /\ Ahead(next, y) /\ (x = next \/ Ahead(x, next))
      BY <2>2, <3>1 DEF Rows, After, PageInv, Pages, TypeOK
    <3> QED
      BY <3>2, <2>2, <2>4, AheadIsOrder
  <2>6. WalkInOrder'
    <3> SUFFICES ASSUME NEW i \in 1 .. Len(pages'), NEW j \in 1 .. Len(pages'), i < j,
                        NEW x \in pages'[i].rows, NEW y \in pages'[j].rows
                 PROVE  Ahead(x, y)
      BY <2>3 DEF WalkInOrder
    <3>1. i \in 1 .. Len(pages)
      BY <2>2
    <3>2. CASE j \in 1 .. Len(pages)
      BY <3>1, <3>2, <2>2 DEF PageInv, Pages, WalkInOrder
    <3>3. CASE j = Len(pages')
      BY <3>1, <3>3, <2>2, <2>4, <2>5
    <3> QED
      BY <3>2, <3>3, <2>2
  <2>7. ASSUME next' # None, NEW m \in Shown'
        PROVE  m = next' \/ Ahead(m, next')
    <3>1. Cardinality(fetched) > count
      BY <2>1, <2>7 DEF PageRead
    <3>2. next' \in page /\ \A x \in page \ {next'} : Ahead(x, next')
      BY <3>1, <2>1, NextIsLast
    <3> QED
      BY <3>2, <2>2, <2>5
  <2>8. ASSUME NEW i \in 1 .. Len(pages'), i < Len(pages') \/ call' \in {"between", "checked"}
        PROVE  Cardinality(pages'[i].rows) = pages'[i].asked
    <3>1. CASE i \in 1 .. Len(pages)
      BY <2>1, <2>2, <3>1 DEF PageInv, Pages, PageRead
    <3>2. CASE i = Len(pages')
      BY <2>1, <2>2, <2>8, <3>2 DEF PageRead
    <3> QED
      BY <3>1, <3>2, <2>2
  <2> QED
    BY <2>3, <2>6, <2>7, <2>8 DEF Pages
<1> QED
  BY <1>1, <1>2 DEF Next, Walk

\* A page that leaves something behind leaves it past its last message, and one
\* that another does not follow leaves nothing.
LEMMA RemainingKept == PageInv /\ [Next]_vars => Remaining'
<1> SUFFICES ASSUME PageInv, [Next]_vars
             PROVE  Remaining'
  OBVIOUS
<1>1. steady' \subseteq Readable' /\ (call' # "idle" => steady' \subseteq steady)
  <2>1. CASE UNCHANGED vars
    BY <2>1 DEF vars, tableVars, PageInv, Remaining, Readable, Hidden, EndedRuns, InScope, Owner
  <2> QED
    BY <2>1 DEF Next
<1>2. CASE Writers \/ Start \/ CheckAccess \/ FailPage \/ Finished \/ UNCHANGED vars
  <2>1. /\ UNCHANGED <<next, pages, linkAt>>
        /\ call' # "denied" => call # "denied" /\ (call' = "over" => call = "over")
        /\ call' = "idle" => call = "idle"
    BY <1>2, OtherSteps
  <2>2. UNCHANGED Shown /\ \A m : After(m)' = After(m)
    BY <2>1 DEF Shown, After, Ahead, Owner
  <2>3. CASE call' = "idle"
    <3>1. next' = None
      BY <2>1, <2>3 DEF PageInv, TypeOK
    <3> QED
      BY <3>1, <2>3, <1>1 DEF Remaining, After
  <2> QED
    BY <1>1, <2>1, <2>2, <2>3 DEF PageInv, Remaining
<1>3. CASE ReadPage
  <2>0. PICK count \in Counts : \E fetched, page : PageRead(count, fetched, page)
    BY <1>3, ReadPageReads
  <2>1. PICK fetched, page : PageRead(count, fetched, page)
    BY <2>0
  <2>2. /\ Cardinality(fetched) > count =>  \A x \in page : \A y \in Rows \ page : Ahead(x, y)
        /\ ~ Cardinality(fetched) > count => page = Rows
        /\ Shown' = Shown \cup page
    BY <2>1, PageAppended DEF PageInv
  <2>3. steady \ Shown \subseteq Rows
    BY <2>1 DEF PageInv, Remaining, Rows, PageRead
  <2>4. steady' \subseteq steady
    BY <1>1, <2>1 DEF PageRead
  <2>5. CASE Cardinality(fetched) > count
    <3>1. call' = "between" /\ next' \in page
      BY <2>1, <2>5, NextIsLast DEF PageRead
    <3>2. ASSUME NEW m \in steady' \ Shown'
          PROVE  After(m)'
      <4>1. Ahead(next', m)
        BY <2>2, <2>3, <2>4, <2>5, <3>1, <3>2
      <4>2. linkAt' = linkAt
        BY <2>1 DEF PageRead, tableVars
      <4> QED
        BY <4>1, <4>2 DEF After, Ahead, Owner
    <3> QED
      BY <1>1, <3>1, <3>2 DEF Remaining
  <2>6. CASE ~ Cardinality(fetched) > count
    BY <1>1, <2>2, <2>3, <2>4, <2>6 DEF Remaining
  <2> QED
    BY <2>5, <2>6
<1> QED
  BY <1>2, <1>3 DEF Next, Walk

-----------------------------------------------------------------------------
(***************************************************************************)
(* The theorems.                                                           *)
(***************************************************************************)

\* The walk begins with nothing stored, nothing shown and no token.
LEMMA InitPageInv == Init => PageInv
<1> SUFFICES ASSUME Init
             PROVE  PageInv
  OBVIOUS
<1>1. pages = <<>> /\ Len(pages) = 0 /\ Shown = {}
  BY DEF Init, Shown
<1>2. TypeOK
  <2>1. pages \in Seq([asked : Counts, rows : SUBSET Messages])
    BY DEF Init
  <2>2. next = None /\ call = "idle" /\ pages = <<>>
    BY DEF Init
  <2>3. /\ stored \subseteq Messages /\ removed \subseteq stored
        /\ cleanup \in [Runs -> {"not_needed", "pending", "done", "failed"}]
        /\ deleted \in BOOLEAN /\ linkDeleted \in BOOLEAN
        /\ linkAt \in Times \cup {None} /\ marked \subseteq Runs /\ steady \subseteq Messages
    BY DEF Init
  <2> QED
    BY <2>1, <2>2, <2>3 DEF TypeOK, Call
<1>3. Table
  BY FS_EmptySet DEF Init, Table
<1>4. Pages
  BY <1>1 DEF Init, Pages, WalkInOrder
<1>5. Remaining
  BY DEF Init, Remaining
<1> QED
  BY <1>2, <1>3, <1>4, <1>5 DEF PageInv

\* The inductive invariant of a walk: the table, what has been shown up to the
\* token, and what is still to come after it.
THEOREM PagesInvariant == Spec => []PageInv
<1>1. PageInv /\ [Next]_vars => PageInv'
  BY PageTypes, TableKept, PagesKept, RemainingKept DEF PageInv
<1> QED
  BY InitPageInv, <1>1, PTL DEF Spec

\* A token stands between two pages, never after the last (agent.go, share.go).
THEOREM TypeCorrect == Spec => []TypeOK
  BY PagesInvariant, PTL DEF PageInv

\* No message is shown out of order or on two pages, whatever pen-gpt stores,
\* ends or removes between the pages (src/store/agent.go:272-318).
THEOREM WalksInOrder == Spec => []WalkInOrder
<1>1. PageInv => WalkInOrder
  BY DEF PageInv, Pages
<1> QED
  BY <1>1, PagesInvariant, PTL

\* A walk that came to its end has missed no message that was readable all
\* along, also when the token's message has gone meanwhile.
THEOREM WalksAreComplete == Spec => []WalkIsComplete
<1>1. PageInv => WalkIsComplete
  BY DEF PageInv, Remaining, WalkIsComplete
<1> QED
  BY <1>1, PagesInvariant, PTL

\* Only the last page may be short: hidden messages are left out before the
\* LIMIT (src/store/ended_run_filter.go).
THEOREM PagesFull == Spec => []PagesAreFull
<1>1. PageInv => PagesAreFull
  BY DEF PageInv, Pages, PagesAreFull
<1> QED
  BY <1>1, PagesInvariant, PTL

\* A step shows only what is readable at that step.
LEMMA NewlyShown ==
  ASSUME PageInv, [Next]_vars, NEW m \in Shown' \ Shown
  PROVE  m \in Readable /\ UNCHANGED tableVars
<1>1. CASE ReadPage
  <2>0. PICK count \in Counts : \E fetched, page : PageRead(count, fetched, page)
    BY <1>1, ReadPageReads
  <2>1. PICK fetched, page : PageRead(count, fetched, page)
    BY <2>0
  <2>2. page \subseteq Rows /\ Shown' = Shown \cup page
    BY <2>1, PageAppended DEF PageInv
  <2> QED
    BY <2>1, <2>2 DEF Rows, PageRead
<1>2. CASE ~ ReadPage
  BY <1>2, OtherSteps DEF Next, Walk, Shown
<1> QED
  BY <1>1, <1>2

\* The owner's query repeats the thread's deletion, so that a call which found
\* the thread undeleted shows nothing of it once it is deleted.
THEOREM DeletedThreadsShowNothing == Spec => DeletedThreadShowsNothing
<1>1. PageInv /\ [Next]_vars =>
        [Owner /\ deleted => \A m \in Messages : m \in Shown' => m \in Shown]_vars
  BY NewlyShown DEF Readable, InScope
<1> QED
  BY <1>1, PagesInvariant, PTL DEF Spec, DeletedThreadShowsNothing

\* A page hides the answers of every run that it, or an earlier page, marks as
\* ended: marker and filter read the same cleanup_status, which never goes back.
THEOREM EndedTurnsHidden == Spec => EndedTurnsStayHidden
<1>1. ASSUME PageInv, [Next]_vars, NEW m \in Shown' \ Shown, m.role = "assistant"
      PROVE  m.run \notin marked'
  <2>1. m \in Readable /\ UNCHANGED tableVars
    BY <1>1, NewlyShown
  <2>2. m.run \notin EndedRuns
    BY <2>1, <1>1 DEF Readable, Hidden
  <2>3. marked' \subseteq EndedRuns'
    BY <1>1, TableKept DEF PageInv, Table
  <2> QED
    BY <2>1, <2>2, <2>3 DEF EndedRuns, tableVars
<1>2. PageInv /\ [Next]_vars =>
        [\A m \in Shown' \ Shown : m.role = "assistant" => m.run \notin marked']_vars
  BY <1>1
<1> QED
  BY <1>2, PagesInvariant, PTL DEF Spec, EndedTurnsStayHidden
=============================================================================
