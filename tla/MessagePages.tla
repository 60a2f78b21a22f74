---------------------------- MODULE MessagePages ----------------------------
(***************************************************************************)
(* The paged message lists: ListMessages, where the owner of a thread      *)
(* walks its messages newest first (src/service/agent.go,                  *)
(* src/store/agent.go), and ListSharedMessages, where the reader of a      *)
(* share link walks them oldest first up to the link's creation            *)
(* (src/service/share.go, src/store/share.go).  Both page by the position  *)
(* (created_at, id) of a page's last message and hide the answers of ended *)
(* runs (src/store/ended_run_filter.go).                                   *)
(*                                                                         *)
(* One walk of one thread, over a table that pen-gpt writes meanwhile: it  *)
(* stores messages, ends runs and cleans up after them, and the owner may  *)
(* delete the thread or the link between any two steps.                    *)
(***************************************************************************)
EXTENDS Integers, Sequences, FiniteSets

CONSTANTS
  Ids,     \* message ids
  Times,   \* values of created_at
  Runs,    \* stream runs of the thread
  Counts,  \* the page sizes a client may ask for
  None     \* no run, no token, no link

ASSUME IdsAssumption == Ids \subseteq Int
ASSUME TimesAssumption == Times \subseteq Int
ASSUME CountsAssumption == Counts \subseteq Nat \ {0}

Messages == [id : Ids, at : Times, role : {"user", "assistant"}, run : Runs \cup {None}]

ASSUME NoMessageAssumption == None \notin Messages \cup Times \cup Runs

VARIABLES
  stored,       \* the messages pen-gpt has written
  removed,      \* those its cleanup has deleted
  cleanup,      \* stream_runs.cleanup_status
  deleted,      \* the thread's "deletedAt" is set
  linkDeleted,  \* the share link's deleted_at is set
  linkAt,       \* the link's created_at; None when the owner reads
  call,         \* where the walk is
  next,         \* the token for the next page: a message's position
  pages,        \* the pages read so far: the size asked for, the rows
  marked,       \* runs whose user message was shown with an ended status
  steady        \* history: messages readable ever since the walk began

tableVars == <<stored, removed, cleanup, deleted, linkDeleted, linkAt>>
walkVars == <<call, next, pages, marked>>
vars == <<tableVars, walkVars, steady>>

Call == {"idle", "between", "checked", "over", "denied"}

Owner == linkAt = None

-----------------------------------------------------------------------------
(***************************************************************************)
(* The lists' conditions.                                                  *)
(***************************************************************************)

\* (created_at, id) order: an id breaks ties within a millisecond.
Older(x, y) == x.at < y.at \/ (x.at = y.at /\ x.id < y.id)

\* x comes before y in the walk's direction.
Ahead(x, y) == IF Owner THEN Older(y, x) ELSE Older(x, y)

\* The runs whose answers pen-gpt removes: WITH ended_runs.
EndedRuns == {r \in Runs : cleanup[r] # "not_needed"}

Hidden_WhilePending(m) ==  \* mutant: only until the cleanup has been tried
  m.role = "assistant" /\ m.run \in Runs /\ cleanup[m.run] = "pending"

\* The "visible" condition hides an ended run's assistant messages.
Hidden(m) == m.role = "assistant" /\ m.run \in EndedRuns

InScope_Unchecked(m) == Owner \/ m.at <= linkAt  \* mutant: the store does not repeat the check

\* The owner's query repeats that the thread is not deleted; the shared one
\* ends at the link's creation.
InScope(m) == IF Owner THEN ~ deleted ELSE m.at <= linkAt

Readable == {m \in stored \ removed : ~ Hidden(m) /\ InScope(m)}

After_TimeOnly(m) ==  \* mutant: the id does not break ties
  next = None \/ (IF Owner THEN m.at < next.at ELSE m.at > next.at)

\* The keyset condition of the token.
After(m) == next = None \/ Ahead(next, m)

Rows == {m \in Readable : After(m)}

\* T is what ORDER BY ... LIMIT n (or rows[:n]) leaves of S.
IsFirst(T, n, S) ==
  /\ T \subseteq S
  /\ Cardinality(T) = IF Cardinality(S) < n THEN Cardinality(S) ELSE n
  /\ \A x \in T : \A y \in S \ T : Ahead(x, y)

IsLast_Displayed(m, T) ==  \* mutant: the last message as displayed, oldest first
  m \in T /\ \A x \in T \ {m} : Older(x, m)

IsLast(m, T) == m \in T /\ \A x \in T \ {m} : Ahead(x, m)

-----------------------------------------------------------------------------
TypeOK ==
  /\ stored \subseteq Messages /\ removed \subseteq stored
  /\ cleanup \in [Runs -> {"not_needed", "pending", "done", "failed"}]
  /\ deleted \in BOOLEAN /\ linkDeleted \in BOOLEAN
  /\ linkAt \in Times \cup {None}
  /\ call \in Call
  /\ next \in Messages \cup {None}
  /\ pages \in Seq([asked : Counts, rows : SUBSET Messages])
  /\ marked \subseteq Runs
  /\ steady \subseteq Messages
  \* a token stands between two pages, never after the last
  /\ call = "idle" => pages = <<>>
  /\ call # "denied" => (next # None <=> pages # <<>> /\ call # "over")

Init ==
  /\ stored = {} /\ removed = {}
  /\ cleanup = [r \in Runs |-> "not_needed"]
  /\ deleted = FALSE /\ linkDeleted = FALSE
  /\ linkAt \in Times \cup {None}
  /\ call = "idle" /\ next = None /\ pages = <<>> /\ marked = {}
  /\ steady = {}

-----------------------------------------------------------------------------
(***************************************************************************)
(* The table's writers.                                                    *)
(***************************************************************************)

\* pen-gpt writes a message.  Several writers and clocks: its created_at may
\* be before those of messages already stored.
Store(m) ==
  /\ \A x \in stored : x.id # m.id
  /\ stored' = stored \cup {m}
  /\ UNCHANGED <<removed, cleanup, deleted, linkDeleted, linkAt, walkVars>>

\* A run is stopped, superseded or fails with an answer to remove.
EndRun(r) ==
  /\ cleanup[r] = "not_needed"
  /\ cleanup' = [cleanup EXCEPT ![r] = "pending"]
  /\ UNCHANGED <<stored, removed, deleted, linkDeleted, linkAt, walkVars>>

\* The asynchronous cleanup deletes the run's answers, or fails for now.
CleanUp(r) ==
  /\ cleanup[r] \in {"pending", "failed"}
  /\ \/ /\ cleanup' = [cleanup EXCEPT ![r] = "done"]
        /\ removed' = removed \cup {m \in stored : m.role = "assistant" /\ m.run = r}
     \/ /\ cleanup' = [cleanup EXCEPT ![r] = "failed"]
        /\ UNCHANGED removed
  /\ UNCHANGED <<stored, deleted, linkDeleted, linkAt, walkVars>>

\* DeleteThread; or the link is deleted.
Delete ==
  /\ \/ ~ deleted /\ deleted' = TRUE /\ UNCHANGED linkDeleted
     \/ ~ Owner /\ ~ linkDeleted /\ linkDeleted' = TRUE /\ UNCHANGED deleted
  /\ UNCHANGED <<stored, removed, cleanup, linkAt, walkVars>>

-----------------------------------------------------------------------------
(***************************************************************************)
(* The walk: one call of ListMessages or ListSharedMessages per page.      *)
(***************************************************************************)

Start ==
  /\ call = "idle"
  /\ call' = "between"
  /\ UNCHANGED <<tableVars, next, pages, marked>>

\* GetThread of the owner's own undeleted thread, GetShareLink of an undeleted
\* link: otherwise 404, whatever the token.
CheckAccess ==
  /\ call = "between"
  /\ call' = IF IF Owner THEN deleted ELSE linkDeleted THEN "denied" ELSE "checked"
  /\ UNCHANGED <<tableVars, next, pages, marked>>

Marks(page) == {m.run : m \in {x \in page : x.role = "user"}} \cap EndedRuns

ReadPage_TokenAlways ==  \* mutant: a token also when there is no further page
  /\ call = "checked"
  /\ \E count \in Counts : \E fetched \in SUBSET Rows : \E page \in SUBSET fetched :
       /\ IsFirst(fetched, count + 1, Rows)
       /\ IsFirst(page, count, fetched)
       /\ pages' = Append(pages, [asked |-> count, rows |-> page])
       /\ marked' = marked \cup Marks(page)
       /\ IF page # {}
            THEN \E last \in page : IsLast(last, page) /\ next' = last
            ELSE next' = None
       /\ call' = IF Cardinality(fetched) > count THEN "between" ELSE "over"
  /\ UNCHANGED tableVars

ReadPage_FiltersLate ==  \* mutant: hidden messages are dropped after the LIMIT
  /\ call = "checked"
  /\ LET all == {m \in stored \ removed : InScope(m) /\ After(m)} IN
       \E count \in Counts : \E fetched \in SUBSET all : \E page \in SUBSET fetched :
         /\ IsFirst(fetched, count + 1, all)
         /\ IsFirst(page, count, fetched)
         /\ pages' = Append(pages, [asked |-> count, rows |-> {m \in page : ~ Hidden(m)}])
         /\ marked' = marked \cup Marks(page)
         /\ IF Cardinality(fetched) > count
              THEN call' = "between" /\ \E last \in page : IsLast(last, page) /\ next' = last
              ELSE call' = "over" /\ next' = None
  /\ UNCHANGED tableVars

\* One more row than the page is fetched to tell whether a page follows; the
\* token is the position of the page's last row in the store's order.
ReadPage ==
  /\ call = "checked"
  /\ \E count \in Counts : \E fetched \in SUBSET Rows : \E page \in SUBSET fetched :
       /\ IsFirst(fetched, count + 1, Rows)
       /\ IsFirst(page, count, fetched)
       /\ pages' = Append(pages, [asked |-> count, rows |-> page])
       /\ marked' = marked \cup Marks(page)
       /\ IF Cardinality(fetched) > count
            THEN call' = "between" /\ \E last \in page : IsLast(last, page) /\ next' = last
            ELSE call' = "over" /\ next' = None
  /\ UNCHANGED tableVars

\* The query fails, or its answer is lost: the client may ask again.
FailPage ==
  /\ call = "checked"
  /\ call' = "between"
  /\ UNCHANGED <<tableVars, next, pages, marked>>

-----------------------------------------------------------------------------
Writers ==
  \/ \E m \in Messages : Store(m)
  \/ \E r \in Runs : EndRun(r) \/ CleanUp(r)
  \/ Delete

Walk == Start \/ CheckAccess \/ ReadPage \/ FailPage

Finished == call \in {"over", "denied"} /\ UNCHANGED <<tableVars, walkVars>>

Next ==
  /\ Writers \/ Walk \/ Finished
  /\ steady' = IF call' = "idle" THEN Readable' ELSE (steady \cap Readable')

Spec == Init /\ [][Next]_vars

-----------------------------------------------------------------------------
Shown == UNION {pages[i].rows : i \in 1 .. Len(pages)}

\* A walk goes one way through the list, whatever is stored, ended or deleted
\* between its pages: what a page shows comes after all that earlier pages
\* showed, so no message is shown twice.
WalkInOrder ==
  \A i, j \in 1 .. Len(pages) : i < j =>
    \A x \in pages[i].rows, y \in pages[j].rows : Ahead(x, y)

\* A walk that came to its end has shown every message that was readable all
\* along, also when a page's last message, the token's, has gone meanwhile.
WalkIsComplete == call = "over" => steady \subseteq Shown

\* A page that another follows is full: hidden messages do not shrink it.
PagesAreFull ==
  \A i \in 1 .. Len(pages) :
    i < Len(pages) \/ call = "between" => Cardinality(pages[i].rows) = pages[i].asked

\* Once a thread is deleted its owner is shown no message of it, even by a
\* call that found it undeleted when it began.
DeletedThreadShowsNothing ==
  [][Owner /\ deleted => \A m \in Messages : m \in Shown' => m \in Shown]_vars

\* A turn that is shown as ended shows no answer, on the same page or on a later
\* one: the marker and the filter agree on the runs that ended, whatever became
\* of the cleanup and whatever was stored late.
EndedTurnsStayHidden ==
  [][\A m \in Shown' \ Shown : m.role = "assistant" => m.run \notin marked']_vars
=============================================================================
