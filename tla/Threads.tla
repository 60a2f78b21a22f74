------------------------------- MODULE Threads -------------------------------
(***************************************************************************)
(* A user's threads: CreateThread, UpdateThread, UpdateThreadPin and       *)
(* DeleteThread of every user, and one user's walk through ListThreads or  *)
(* SearchThreads (src/service/agent.go, src/store/agent.go).  The lists    *)
(* page by the id of the last thread of a page; the store looks its        *)
(* position up again when the next page is read.                           *)
(***************************************************************************)
EXTENDS Integers, FiniteSets

CONSTANTS
  Users,
  Reader,     \* the user who walks
  ThreadIds,
  Times,      \* values of "updatedAt"
  Count,      \* the page size asked for
  MaxShown,   \* bound on the times a walk is served the same thread
  None        \* no owner, no cursor

ASSUME ReaderAssumption == Reader \in Users
ASSUME OrderAssumption == ThreadIds \subseteq Int /\ Times \subseteq Int
ASSUME NoneAssumption == None \notin Users /\ None \notin ThreadIds
ASSUME CountAssumption == Count \in Nat \ {0} /\ MaxShown \in Nat

VARIABLES
  owner,      \* "resourceId"; None before the thread exists
  updatedAt,
  deletedAt,  \* the threads that are soft-deleted
  matching,   \* the threads whose title contains the keyword
  pins,       \* thread_pin rows that are not deleted
  searching,  \* the walk is SearchThreads
  call,       \* where the walk is
  cursor,     \* the id the client holds
  shown,      \* how many of the pages read so far showed each thread
  actor,      \* history: who took the last step
  held,       \* history: the cursor's row when its page was read
  kept,       \* history: every cursor used so far still had that row
  steady      \* history: rows that have not changed since the walk began

tableVars == <<owner, updatedAt, deletedAt, matching, pins>>
walkVars == <<searching, call, cursor, shown, held, kept>>
vars == <<tableVars, walkVars, actor, steady>>

-----------------------------------------------------------------------------
(***************************************************************************)
(* The lists.                                                              *)
(***************************************************************************)

\* The threads a user lists: the WITH threads clause.
Listed(u) ==
  {t \in ThreadIds : owner[t] = u /\ t \notin deletedAt
                       /\ (searching => t \in matching)}

IsPinned_ByAnyone(u, t) == \E v \in Users : <<v, t>> \in pins  \* mutant: the join on the thread alone

\* Another user's pin is not joined.
IsPinned(u, t) == <<u, t>> \in pins

Row(u, t) == [id |-> t, pinned |-> IsPinned(u, t), at |-> updatedAt[t]]

RowsOf(u) == {Row(u, t) : t \in Listed(u)}

\* (is_pinned, "updatedAt", id) DESC
Below(x, y) ==
  \/ ~ x.pinned /\ y.pinned
  \/ x.pinned = y.pinned /\ (x.at < y.at \/ (x.at = y.at /\ x.id < y.id))

After_Unpinned(x, c) ==  \* mutant: the keyset condition without is_pinned
  x.at < c.at \/ (x.at = c.at /\ x.id < c.id)

\* The keyset condition of the list's WHERE.
After(x, c) == Below(x, c)

\* A cursor that is not listed any more compares with NULL: no row passes.
Candidates(u, c) ==
  IF c = None THEN RowsOf(u)
  ELSE {x \in RowsOf(u) : c \in Listed(u) /\ After(x, Row(u, c))}

\* T is what ORDER BY ... LIMIT n leaves of S.
IsFirst(T, n, S) ==
  /\ Cardinality(T) = IF Cardinality(S) < n THEN Cardinality(S) ELSE n
  /\ \A x \in T : \A y \in S \ T : Below(y, x)

-----------------------------------------------------------------------------
Rows == [id : ThreadIds, pinned : BOOLEAN, at : Times]

TypeOK ==
  /\ owner \in [ThreadIds -> Users \cup {None}]
  /\ updatedAt \in [ThreadIds -> Times]
  /\ deletedAt \subseteq {t \in ThreadIds : owner[t] # None}
  /\ matching \subseteq {t \in ThreadIds : owner[t] # None}
  /\ pins \subseteq Users \X ThreadIds
  /\ searching \in BOOLEAN
  /\ call \in {"idle", "between", "over"}
  /\ cursor \in ThreadIds \cup {None}
  /\ shown \in [ThreadIds -> 0 .. MaxShown]
  /\ actor \in Users
  /\ held \in Rows \cup {None} /\ kept \in BOOLEAN /\ steady \subseteq Rows
  \* a cursor is the id of a thread of the page before
  /\ cursor # None => call = "between" /\ held.id = cursor /\ shown[cursor] > 0

Init ==
  /\ owner = [t \in ThreadIds |-> None]
  /\ updatedAt \in [ThreadIds -> Times] /\ \A t, x \in ThreadIds : updatedAt[t] = updatedAt[x]
  /\ deletedAt = {} /\ matching = {} /\ pins = {}
  /\ searching \in BOOLEAN
  /\ call = "idle" /\ cursor = None /\ shown = [t \in ThreadIds |-> 0]
  /\ actor = Reader /\ held = None /\ kept = TRUE /\ steady = {}

-----------------------------------------------------------------------------
(***************************************************************************)
(* The operations of user u.  "updatedAt" is the service's clock when the  *)
(* thread is created and the database's when it is renamed: no order is    *)
(* assumed between the two.                                                *)
(***************************************************************************)

\* Titles matter to a search only.
Titled(t, match) == matching' = IF match /\ searching THEN matching \cup {t} ELSE matching \ {t}

CreateThread(u, t, at, match) ==
  /\ owner[t] = None
  /\ owner' = [owner EXCEPT ![t] = u]
  /\ updatedAt' = [updatedAt EXCEPT ![t] = at]
  /\ Titled(t, match)
  /\ UNCHANGED <<deletedAt, pins>>

Owns_Anyone(u, t) == owner[t] # None /\ t \notin deletedAt  \* mutant: the owner is not checked

\* The WHERE of the updates.  Without a row they change nothing and answer 404.
Owns(u, t) == owner[t] = u /\ t \notin deletedAt

UpdateThread(u, t, at, match) ==
  /\ Owns(u, t)
  /\ updatedAt' = [updatedAt EXCEPT ![t] = at]
  /\ Titled(t, match)
  /\ UNCHANGED <<owner, deletedAt, pins>>

DeleteThread(u, t) ==
  /\ Owns(u, t)
  /\ deletedAt' = deletedAt \cup {t}
  /\ UNCHANGED <<owner, updatedAt, matching, pins>>

\* Any thread id: neither its owner nor its deletion is checked.
UpdateThreadPin(u, t, isPinned) ==
  /\ pins' = IF isPinned THEN pins \cup {<<u, t>>} ELSE pins \ {<<u, t>>}
  /\ UNCHANGED <<owner, updatedAt, deletedAt, matching>>

Operation(u) ==
  /\ \E t \in ThreadIds :
       \/ \E at \in Times, match \in BOOLEAN :
            CreateThread(u, t, at, match) \/ UpdateThread(u, t, at, match)
       \/ DeleteThread(u, t)
       \/ \E isPinned \in BOOLEAN : UpdateThreadPin(u, t, isPinned)
  /\ actor' = u
  /\ UNCHANGED walkVars

-----------------------------------------------------------------------------
(***************************************************************************)
(* The walk of the reader.                                                 *)
(***************************************************************************)

Start ==
  /\ call = "idle"
  /\ call' = "between"
  /\ UNCHANGED <<tableVars, searching, cursor, shown, held, kept, actor>>

ReadPage_CursorIsExtraRow ==  \* mutant: the cursor is the row that tells of more
  /\ call = "between"
  /\ \E fetched \in SUBSET Candidates(Reader, cursor) : \E page \in SUBSET fetched :
       /\ IsFirst(fetched, Count + 1, Candidates(Reader, cursor))
       /\ IsFirst(page, Count, fetched)
       /\ shown' = [t \in ThreadIds |-> IF \E x \in page : x.id = t THEN shown[t] + 1 ELSE shown[t]]
       /\ IF Cardinality(fetched) > Count
            THEN \E last \in fetched :
                   /\ \A x \in fetched \ {last} : Below(last, x)
                   /\ call' = "between" /\ cursor' = last.id /\ held' = last
            ELSE call' = "over" /\ cursor' = None /\ held' = None
  /\ kept' = (kept /\ (cursor # None => held \in RowsOf(Reader)))
  /\ UNCHANGED <<tableVars, searching, actor>>

\* One row more than the page is fetched; the cursor is the page's last id.
ReadPage ==
  /\ call = "between"
  /\ \E fetched \in SUBSET Candidates(Reader, cursor) : \E page \in SUBSET fetched :
       /\ IsFirst(fetched, Count + 1, Candidates(Reader, cursor))
       /\ IsFirst(page, Count, fetched)
       /\ shown' = [t \in ThreadIds |-> IF \E x \in page : x.id = t THEN shown[t] + 1 ELSE shown[t]]
       /\ IF Cardinality(fetched) > Count
            THEN \E last \in page :
                   /\ \A x \in page \ {last} : Below(last, x)
                   /\ call' = "between" /\ cursor' = last.id /\ held' = last
            ELSE call' = "over" /\ cursor' = None /\ held' = None
  /\ kept' = (kept /\ (cursor # None => held \in RowsOf(Reader)))
  /\ UNCHANGED <<tableVars, searching, actor>>

Finished == call = "over" /\ UNCHANGED <<tableVars, walkVars, actor>>

\* A reader whose cursors keep moving up may be served pages without end.
InBound == \A t \in ThreadIds : shown[t] < MaxShown

Next ==
  /\ \/ \E u \in Users : Operation(u)
     \/ Start \/ (InBound /\ ReadPage) \/ Finished
  /\ steady' = IF call' = "idle" THEN RowsOf(Reader)' ELSE (steady \cap RowsOf(Reader)')

Spec == Init /\ [][Next]_vars

-----------------------------------------------------------------------------
\* A walk to the end shows every thread that did not change meanwhile exactly
\* once, whatever the others do, if each cursor's thread was where its page
\* had it when the next page was read.  (Without that premise there is no such
\* promise: a deleted or renamed cursor ends the walk, a pinned one repeats.)
SteadyThreadsOnce ==
  call = "over" /\ kept => \A x \in steady : shown[x.id] = 1

\* What a user lists (which threads, whether pinned, in what order) changes
\* only by that user's own operations.
OthersChangeNothing ==
  [][\A u \in Users : RowsOf(u)' # RowsOf(u) => actor' = u]_vars
=============================================================================
