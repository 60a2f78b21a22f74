---------------------------- MODULE SharingProofs ----------------------------
(***************************************************************************)
(* Proofs about Sharing, for any number of calls, users, threads and       *)
(* links.  Two invariants that do not depend on each other: one of the     *)
(* token source and its mutex, one of links and forks.                     *)
(***************************************************************************)
EXTENDS Sharing, TLAPS

\* One request at a time is past the lock, and a source is created only by
\* the one that found none there.
SourceInv ==
  /\ \A r \in Requests : tpc[r] \in {"holding", "creating"} => mu = r
  /\ \A r \in Requests : tpc[r] = "creating" => ts = 0
  /\ created = ts /\ ts \in {0, 1}
  /\ \A r \in Requests : source[r] \in {0, 1} /\ token[r] \in {0, 1}
  /\ \A r \in Requests : tpc[r] = "fetching" => source[r] = 1
  /\ FailuresAreNotKept

TokenInv == TokenTypeOK /\ SourceInv

\* A row is inserted once, and a revoked link stays revoked.
LinkInv ==
  /\ \A l \in Links : lpc[l] = "checked" => owner[thread[l]] = maker[l]
  /\ \A l \in Links : lpc[l] \in {"idle", "checked", "denied"} => link[l] = "none"
  /\ LinksAreOwners
  /\ \A l \in everRevoked : link[l] = "revoked"

\* The request of a fork leaves only on its way from a live link to the answer.
ForkInv ==
  /\ \A f \in lateForks : fpc[f] = "returned" /\ f \notin sent
  /\ \A f \in sent : fpc[f] \in {"answer", "returned"}
  /\ \A f \in Requests : outcome[f] # "none" => fpc[f] = "returned"

ShareInv == TypeOK /\ LinkInv /\ ForkInv

-----------------------------------------------------------------------------
\* The calls of token keep their invariant: setIDToken (agent_stream.go:471).
LEMMA TokenSteps ==
  ASSUME TokenInv, NEW r \in Requests, TokenStep(r) \/ AskToken(r)
  PROVE  TokenInv'
<1> USE NoneAssumption DEF TokenInv, TokenTypeOK, SourceInv, FailuresAreNotKept
<1>1. CASE AskToken(r)
  BY <1>1 DEF AskToken
<1>2. CASE Lock(r)
  BY <1>2 DEF Lock
<1>3. CASE Reuse(r)
  BY <1>3 DEF Reuse
<1>4. CASE FindNone(r)
  BY <1>4 DEF FindNone
<1>5. CASE Create(r)
  <2>1. mu = r /\ ts = 0 /\ ts' = 1 /\ created' = 1
    BY <1>5 DEF Create
  <2>2. \A q \in Requests : q # r => tpc[q] \notin {"holding", "creating"}
    BY <2>1
  <2> QED
    BY <1>5, <2>1, <2>2 DEF Create
<1>6. CASE CreateFails(r)
  BY <1>6 DEF CreateFails
<1>7. CASE Fetch(r)
  BY <1>7 DEF Fetch
<1> QED
  BY <1>1, <1>2, <1>3, <1>4, <1>5, <1>6, <1>7 DEF TokenStep

\* Whatever is not a step of a token call leaves the calls alone.
LEMMA OtherSteps ==
  ASSUME TokenInv, UNCHANGED tokenVars
  PROVE  TokenInv'
BY DEF TokenInv, TokenTypeOK, SourceInv, FailuresAreNotKept, tokenVars

\* The token source and its mutex, whatever happens to links and forks.
THEOREM TokenInvariant == Spec => []TokenInv
<1>1. Init => TokenInv
  BY NoneAssumption DEF Init, TokenInit, TokenInv, TokenTypeOK, SourceInv, FailuresAreNotKept
<1>2. TokenInv /\ [Next]_vars => TokenInv'
  <2> SUFFICES ASSUME TokenInv, [Next]_vars PROVE TokenInv'
    OBVIOUS
  <2>1. CASE \E f \in Requests, l \in Links : ForkFound(f, l)
    BY <2>1, TokenSteps DEF ForkFound
  <2>2. CASE \E f \in Requests : SetIDToken(f)
    BY <2>2, TokenSteps DEF SetIDToken
  <2>3. CASE UNCHANGED tokenVars
    BY <2>3, OtherSteps
  <2> QED
    BY <2>1, <2>2, <2>3 DEF Next, LinkStep, ForkStep, CheckOwner, InsertLink, RevokeLink, UpdateShortCode,
       DeleteThread, ForkNotFound, ForkPanics, SendFork, ForkSucceeds, ForkFails, Returns, vars
<1> QED
  BY <1>1, <1>2, PTL DEF Spec

\* One source serves every request (agent_stream.go:479), however many.
THEOREM OneSourceAlways == Spec => []OneSource
<1>1. TokenInv => OneSource
  BY DEF TokenInv, SourceInv, OneSource
<1> QED
  BY <1>1, TokenInvariant, PTL

\* A creation or a fetch that fails is its own request's loss only
\* (agent_stream.go:480, 487-506).
THEOREM FailuresStayLocal == Spec => []FailuresAreNotKept
<1>1. TokenInv => FailuresAreNotKept
  BY DEF TokenInv, SourceInv
<1> QED
  BY <1>1, TokenInvariant, PTL

-----------------------------------------------------------------------------
\* The calls of token change nothing of the links and forks.
LEMMA TokenStepsAside ==
  ASSUME NEW f \in Requests, SetIDToken(f)
  PROVE  UNCHANGED <<shareVars, forkVars, everRevoked>>
BY DEF SetIDToken

\* The steps of links: CreateShareLink, UpdateShareLinkShortCode, DeleteThread.
LEMMA LinkSteps ==
  ASSUME ShareInv, TokenTypeOK', NEW l \in Links,
         LinkStep(l) \/ \E t \in Threads : DeleteThread(t)
  PROVE  ShareInv'
<1> USE DEF ShareInv, TypeOK, LinkInv, LinksAreOwners
<1>0. ForkInv'
  BY DEF ForkInv, forkVars, LinkStep, CheckOwner, InsertLink, RevokeLink, UpdateShortCode, DeleteThread
<1>1. CASE CheckOwner(l)
  BY <1>0, <1>1 DEF CheckOwner, Owned, forkVars
<1>2. CASE InsertLink(l)
  BY <1>0, <1>2 DEF InsertLink, forkVars
<1>3. CASE RevokeLink(l)
  BY <1>0, <1>3 DEF RevokeLink, forkVars
<1>4. CASE \E c \in Codes : UpdateShortCode(l, c)
  BY <1>0, <1>4 DEF UpdateShortCode, forkVars
<1>5. CASE \E t \in Threads : DeleteThread(t)
  BY <1>0, <1>5 DEF DeleteThread, forkVars
<1> QED
  BY <1>1, <1>2, <1>3, <1>4, <1>5 DEF LinkStep

\* The beginning of a fork: a link that was ever revoked is not found.
LEMMA ForkBegins ==
  ASSUME ShareInv, TokenTypeOK', NEW f \in Requests, NEW l \in Links,
         ForkNotFound(f, l) \/ ForkFound(f, l) \/ ForkPanics(f, l)
  PROVE  ShareInv'
<1> USE DEF ShareInv, TypeOK, Forking, shareVars
<1>1. f \notin sent /\ outcome[f] = "none" /\ f \notin lateForks
  BY DEF ForkNotFound, ForkFound, ForkPanics, ForkInv
<1>2. LinkInv'
  BY DEF LinkInv, LinksAreOwners, ForkNotFound, ForkFound, ForkPanics
<1>3. CASE ForkNotFound(f, l)
  BY <1>1, <1>2, <1>3 DEF ForkNotFound, ForkInv
<1>4. CASE ForkFound(f, l)
  <2>1. l \notin everRevoked
    BY <1>4 DEF ForkFound, Missing, LinkInv
  <2> QED
    BY <1>1, <1>2, <1>4, <2>1 DEF ForkFound, ForkInv
<1>5. CASE ForkPanics(f, l)
  <2>1. l \notin everRevoked
    BY <1>5 DEF ForkPanics, Missing, LinkInv
  <2> QED
    BY <1>1, <1>2, <1>5, <2>1 DEF ForkPanics, ForkInv
<1> QED
  BY <1>3, <1>4, <1>5

\* From the request to the answer (share.go:160-206).
LEMMA ForkSteps ==
  ASSUME ShareInv, TokenTypeOK', NEW f \in Requests,
         SendFork(f) \/ ForkSucceeds(f) \/ ForkFails(f)
  PROVE  ShareInv'
<1> USE DEF ShareInv, TypeOK, shareVars
<1>1. LinkInv'
  BY DEF LinkInv, LinksAreOwners, SendFork, ForkSucceeds, ForkFails, Returns
<1>2. CASE SendFork(f)
  BY <1>1, <1>2 DEF SendFork, ForkInv
<1>3. CASE ForkSucceeds(f)
  BY <1>1, <1>3 DEF ForkSucceeds, Returns, ForkInv
<1>4. CASE ForkFails(f)
  BY <1>1, <1>4 DEF ForkFails, Returns, ForkInv
<1> QED
  BY <1>2, <1>3, <1>4

\* Links and forks, whatever the token source does.
THEOREM ShareInvariant == Spec => []ShareInv
<1>1. Init => ShareInv
  BY NoneAssumption DEF Init, TokenInit, ShareInv, TypeOK, TokenTypeOK, LinkInv, LinksAreOwners, ForkInv
<1>2. TokenInv' /\ ShareInv /\ [Next]_vars => ShareInv'
  <2> SUFFICES ASSUME TokenInv', ShareInv, [Next]_vars PROVE ShareInv'
    OBVIOUS
  <2>0. TokenTypeOK'
    BY DEF TokenInv
  <2>1. CASE UNCHANGED <<shareVars, forkVars, everRevoked>>
    BY <2>0, <2>1 DEF ShareInv, TypeOK, LinkInv, LinksAreOwners, ForkInv, shareVars, forkVars
  <2>2. CASE \E l \in Links : LinkStep(l)
    BY <2>0, <2>2, LinkSteps
  <2>3. CASE \E t \in Threads : DeleteThread(t)
    BY <2>0, <2>3 DEF ShareInv, TypeOK, LinkInv, LinksAreOwners, ForkInv, forkVars, DeleteThread
  <2>4. CASE \E f \in Requests, l \in Links : ForkNotFound(f, l) \/ ForkFound(f, l) \/ ForkPanics(f, l)
    BY <2>0, <2>4, ForkBegins
  <2>5. CASE \E f \in Requests : SendFork(f) \/ ForkSucceeds(f) \/ ForkFails(f)
    BY <2>0, <2>5, ForkSteps
  <2> QED
    BY <2>1, <2>2, <2>3, <2>4, <2>5, TokenStepsAside DEF Next, ForkStep, vars
<1> QED
  BY <1>1, <1>2, TokenInvariant, PTL DEF Spec

\* Every variable of links, forks and the token source keeps its type.
THEOREM TypeCorrect == Spec => []TypeOK
<1>1. ShareInv => TypeOK
  BY DEF ShareInv
<1> QED
  BY <1>1, ShareInvariant, PTL

\* A link belongs to its thread's owner (share.go:38-66).
THEOREM LinksCorrect == Spec => []LinksAreOwners
<1>1. ShareInv => LinksAreOwners
  BY DEF ShareInv, LinkInv
<1> QED
  BY <1>1, ShareInvariant, PTL

\* A link that was revoked forks nothing any more (share.go:134-139).
THEOREM RevocationHolds == Spec => []RevokedLinkForksNothing
<1>1. ShareInv => RevokedLinkForksNothing
  BY DEF ShareInv, ForkInv, RevokedLinkForksNothing
<1> QED
  BY <1>1, ShareInvariant, PTL
=============================================================================
