------------------------------- MODULE Sharing -------------------------------
(***************************************************************************)
(* The life of share links (src/service/share.go, src/store/share.go):     *)
(* CreateShareLink, UpdateShareLinkShortCode and ForkThread next to the    *)
(* deletion of threads and of links.  A request of IdTokens is a call of   *)
(* ForkThread here; it is made on the service of NewShare, which has a     *)
(* token source, or on the one that NewAgent embeds, which has none.       *)
(* pen-gpt, which makes the copy and answers, and what revokes a link are  *)
(* external.                                                               *)
(***************************************************************************)
EXTENDS IdTokens

CONSTANTS
  Users,
  Threads,
  Links,      \* one for each call of CreateShareLink
  Codes

ASSUME NotALinkOrCode == None \notin Links \cup Codes

VARIABLES
  owner,      \* mastra_threads."resourceId"
  gone,       \* threads whose "deletedAt" is set
  lpc, maker, thread,   \* each call of CreateShareLink, its user and thread
  link,       \* the link's row: "none", "live", or "revoked" by deleted_at
  code,       \* its short_code
  fpc, source_link,     \* each call of ForkThread, and its link
  outcome,
  sent,       \* fork requests that have left for pen-gpt
  everRevoked,          \* history: links that have been revoked,
  lateForks   \* and the forks that began after that

shareVars == <<owner, gone, lpc, maker, thread, link, code>>
forkVars == <<fpc, source_link, outcome, sent, lateForks>>
vars == <<tokenVars, shareVars, forkVars, everRevoked>>

TypeOK ==
  /\ TokenTypeOK
  /\ owner \in [Threads -> Users] /\ gone \subseteq Threads
  /\ lpc \in [Links -> {"idle", "checked", "denied", "created", "failed"}]
  /\ maker \in [Links -> Users] /\ thread \in [Links -> Threads]
  /\ link \in [Links -> {"none", "live", "revoked"}]
  /\ code \in [Links -> Codes \cup {None}]
  /\ fpc \in [Requests -> {"idle", "token", "answer", "returned", "panicked"}]
  /\ source_link \in [Requests -> Links \cup {None}]
  /\ outcome \in [Requests -> {"none", "ok", "notfound", "error"}]
  /\ sent \subseteq Requests
  /\ everRevoked \subseteq Links /\ lateForks \subseteq Requests

Init ==
  /\ TokenInit
  /\ owner \in [Threads -> Users] /\ gone = {}
  /\ lpc = [l \in Links |-> "idle"]
  /\ maker \in [Links -> Users] /\ thread \in [Links -> Threads]
  /\ link = [l \in Links |-> "none"]
  /\ code = [l \in Links |-> None]
  /\ fpc = [f \in Requests |-> "idle"]
  /\ source_link = [f \in Requests |-> None]
  /\ outcome = [f \in Requests |-> "none"]
  /\ sent = {} /\ everRevoked = {} /\ lateForks = {}

-----------------------------------------------------------------------------
(***************************************************************************)
(* CreateShareLink: the ownership check, then the insert.                  *)
(***************************************************************************)
Owned_AnyUser(l) == thread[l] \notin gone  \* mutant: the check drops "resourceId"

\* What GetThread selects.
Owned(l) == thread[l] \notin gone /\ owner[thread[l]] = maker[l]

\* Any database error is "not found" as well.
CheckOwner(l) ==
  /\ lpc[l] = "idle"
  /\ \/ Owned(l) /\ lpc' = [lpc EXCEPT ![l] = "checked"]
     \/ lpc' = [lpc EXCEPT ![l] = "denied"]
  /\ UNCHANGED <<tokenVars, owner, gone, maker, thread, link, code, forkVars, everRevoked>>

\* A failed insert may have been committed all the same.
InsertLink(l) ==
  /\ lpc[l] = "checked"
  /\ \/ /\ link' = [link EXCEPT ![l] = "live"]
        /\ lpc' \in {[lpc EXCEPT ![l] = "created"], [lpc EXCEPT ![l] = "failed"]}
     \/ lpc' = [lpc EXCEPT ![l] = "failed"] /\ UNCHANGED link
  /\ UNCHANGED <<tokenVars, owner, gone, maker, thread, code, forkVars, everRevoked>>

\* One UPDATE by id: a revoked link keeps its deleted_at and gets the code, a
\* link that does not exist is no error.
UpdateShortCode_Revives(l, c) ==  \* mutant: the row is written anew
  /\ link[l] # "none"
  /\ code' = [code EXCEPT ![l] = c]
  /\ link' = [link EXCEPT ![l] = "live"]
  /\ UNCHANGED <<tokenVars, owner, gone, lpc, maker, thread, forkVars, everRevoked>>

UpdateShortCode_Swapped(l, c) ==  \* mutant: the query's arguments in the wrong order
  /\ link[l] # "none"
  /\ code' = [code EXCEPT ![l] = l]
  /\ UNCHANGED <<tokenVars, owner, gone, lpc, maker, thread, link, forkVars, everRevoked>>

UpdateShortCode(l, c) ==
  /\ link[l] # "none"
  /\ code' = [code EXCEPT ![l] = c]
  /\ UNCHANGED <<tokenVars, owner, gone, lpc, maker, thread, link, forkVars, everRevoked>>

\* DeleteThread leaves the thread's links as they are.
DeleteThread(t) ==
  /\ t \notin gone
  /\ gone' = gone \cup {t}
  /\ UNCHANGED <<tokenVars, owner, lpc, maker, thread, link, code, forkVars, everRevoked>>

RevokeLink(l) ==
  /\ link[l] = "live"
  /\ link' = [link EXCEPT ![l] = "revoked"]
  /\ everRevoked' = everRevoked \cup {l}
  /\ UNCHANGED <<tokenVars, owner, gone, lpc, maker, thread, code, forkVars>>

-----------------------------------------------------------------------------
(***************************************************************************)
(* ForkThread                                                              *)
(***************************************************************************)
Missing_OnlyUnknown(l) == link[l] = "none"  \* mutant: DeletedAt is not looked at

Missing(l) == link[l] # "live"

Forking(f, l) ==
  /\ fpc[f] = "idle"
  /\ source_link' = [source_link EXCEPT ![f] = l]
  /\ lateForks' = IF l \in everRevoked THEN lateForks \cup {f} ELSE lateForks
  /\ UNCHANGED <<shareVars, everRevoked, sent>>

\* No such link, a revoked one, or any database error.
ForkNotFound(f, l) ==
  /\ Forking(f, l)
  /\ fpc' = [fpc EXCEPT ![f] = "returned"]
  /\ outcome' = [outcome EXCEPT ![f] = "notfound"]
  /\ UNCHANGED tokenVars

ForkFound(f, l) ==
  /\ ~ Missing(l)
  /\ Forking(f, l)
  /\ fpc' = [fpc EXCEPT ![f] = "token"]
  /\ AskToken(f)
  /\ UNCHANGED outcome

\* On the embedded service idToken is nil, and setIDToken calls it.
ForkPanics(f, l) ==
  /\ ~ Missing(l)
  /\ Forking(f, l)
  /\ fpc' = [fpc EXCEPT ![f] = "panicked"]
  /\ UNCHANGED <<tokenVars, outcome>>

SetIDToken(f) ==
  /\ TokenStep(f)
  /\ UNCHANGED <<shareVars, forkVars, everRevoked>>

\* httpClient.Do: with a token or without one, the request is sent, unless
\* pen-gpt cannot be reached.
SendFork(f) ==
  /\ fpc[f] = "token" /\ tpc[f] = "done"
  /\ fpc' = [fpc EXCEPT ![f] = "answer"]
  /\ sent' \in {sent, sent \cup {f}}
  /\ UNCHANGED <<tokenVars, shareVars, everRevoked, source_link, outcome, lateForks>>

Returns(f, result) ==
  /\ fpc[f] = "answer"
  /\ fpc' = [fpc EXCEPT ![f] = "returned"]
  /\ outcome' = [outcome EXCEPT ![f] = result]
  /\ UNCHANGED <<tokenVars, shareVars, everRevoked, source_link, sent, lateForks>>

\* 200 with an object as its thread: neither "success" nor the object's id is
\* asked for, and without an id the ThreadID returned is empty.
ForkSucceeds(f) == f \in sent /\ Returns(f, "ok")

\* No answer, another status, a body that does not decode, or a thread that is
\* no object.  pen-gpt may have made the copy all the same.
ForkFails(f) == Returns(f, "error")

ForkStep(f) == SetIDToken(f) \/ SendFork(f) \/ ForkSucceeds(f) \/ ForkFails(f)

-----------------------------------------------------------------------------
LinkStep(l) ==
  \/ CheckOwner(l) \/ InsertLink(l) \/ RevokeLink(l)
  \/ \E c \in Codes : UpdateShortCode(l, c)

Next ==
  \/ \E l \in Links : LinkStep(l)
  \/ \E t \in Threads : DeleteThread(t)
  \/ \E f \in Requests, l \in Links : ForkNotFound(f, l) \/ ForkFound(f, l) \/ ForkPanics(f, l)
  \/ \E f \in Requests : ForkStep(f)

Spec == Init /\ [][Next]_vars

\* The goroutine of each call is scheduled, the metadata server answers or
\* refuses, and the HTTP client ends an exchange that pen-gpt does not.
FairSpec == Spec /\ \A f \in Requests : WF_vars(ForkStep(f))

-----------------------------------------------------------------------------
\* A link is made by the owner of its thread, whatever is deleted between the
\* check and the insert (CreateShareLink, src/service/share.go:38-66).
LinksAreOwners == \A l \in Links : link[l] # "none" => owner[thread[l]] = maker[l]

\* A fork that began after its link was revoked copies nothing, whatever has
\* been done to the link since (src/service/share.go:134-139).
RevokedLinkForksNothing == lateForks \cap sent = {}

\* "forking a shared thread" (src/service/service.go:49-50) is an operation of
\* an Agent too, "satisfied through promotion" (src/service/agent.go:22-23).
ForksNeverPanic == \A f \in Requests : fpc[f] # "panicked"

\* Every fork returns: whoever fails under the mutex releases it for the next.
ForksEnd == \A f \in Requests : fpc[f] = "token" ~> fpc[f] = "returned"
=============================================================================
