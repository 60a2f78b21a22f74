------------------------------ MODULE IdTokens ------------------------------
(***************************************************************************)
(* The ID token of a request to pen-gpt: cloudRunIDTokenSource.token and   *)
(* setIDToken (src/service/agent_stream.go).  The token source is created  *)
(* by the first request that gets it, under a mutex, and kept; a failed    *)
(* creation is not kept.  A request that gets no token goes out without.   *)
(***************************************************************************)
EXTENDS Naturals

CONSTANTS
  Requests,
  None        \* no request

ASSUME NoneAssumption == None \notin Requests

VARIABLES
  mu,         \* the request that holds the mutex
  ts,         \* the source that is kept, 0 for none: sources are numbered
  created,    \* history: how many sources have been created
  tpc,        \* where each request's token call is
  source,     \* the source a request took under the mutex
  token,      \* the source whose token the request carries, 0 for none
  refused     \* history: requests whose own creation or fetch has failed

tokenVars == <<mu, ts, created, tpc, source, token, refused>>

TokenTypeOK ==
  /\ mu \in Requests \cup {None}
  /\ ts \in Nat /\ created \in Nat
  /\ tpc \in [Requests -> {"idle", "locking", "holding", "creating", "fetching", "done"}]
  /\ source \in [Requests -> Nat]
  /\ token \in [Requests -> Nat] /\ refused \subseteq Requests

TokenInit ==
  /\ mu = None /\ ts = 0 /\ created = 0
  /\ tpc = [r \in Requests |-> "idle"]
  /\ source = [r \in Requests |-> 0]
  /\ token = [r \in Requests |-> 0] /\ refused = {}

-----------------------------------------------------------------------------
AskToken(r) ==
  /\ tpc[r] = "idle"
  /\ tpc' = [tpc EXCEPT ![r] = "locking"]
  /\ UNCHANGED <<mu, ts, created, source, token, refused>>

Lock_Not(r) ==  \* mutant: no mutex
  /\ tpc[r] = "locking"
  /\ tpc' = [tpc EXCEPT ![r] = "holding"]
  /\ UNCHANGED <<mu, ts, created, source, token, refused>>

Lock(r) ==
  /\ tpc[r] = "locking" /\ mu = None
  /\ mu' = r
  /\ tpc' = [tpc EXCEPT ![r] = "holding"]
  /\ UNCHANGED <<ts, created, source, token, refused>>

\* The kept source; the mutex is released before its Token is called.
Reuse(r) ==
  /\ tpc[r] = "holding" /\ ts # 0
  /\ source' = [source EXCEPT ![r] = ts]
  /\ mu' = None
  /\ tpc' = [tpc EXCEPT ![r] = "fetching"]
  /\ UNCHANGED <<ts, created, token, refused>>

FindNone_Once(r) ==  \* mutant: sync.Once, which tries the first creation only
  /\ tpc[r] = "holding" /\ ts = 0
  /\ IF refused = {} THEN tpc' = [tpc EXCEPT ![r] = "creating"] /\ UNCHANGED mu
                     ELSE tpc' = [tpc EXCEPT ![r] = "done"] /\ mu' = None
  /\ UNCHANGED <<ts, created, source, token, refused>>

\* The call of NewTokenSource begins: it takes its time, under the mutex.
FindNone(r) ==
  /\ tpc[r] = "holding" /\ ts = 0
  /\ tpc' = [tpc EXCEPT ![r] = "creating"]
  /\ UNCHANGED <<mu, ts, created, source, token, refused>>

Create(r) ==
  /\ tpc[r] = "creating"
  /\ created' = created + 1
  /\ ts' = created + 1
  /\ source' = [source EXCEPT ![r] = created + 1]
  /\ mu' = None
  /\ tpc' = [tpc EXCEPT ![r] = "fetching"]
  /\ UNCHANGED <<token, refused>>

CreateFails_KeepsLock(r) ==  \* mutant: the error path returns without Unlock
  /\ tpc[r] = "creating"
  /\ tpc' = [tpc EXCEPT ![r] = "done"]
  /\ UNCHANGED <<mu, ts, created, source, token, refused>>

\* NewTokenSource fails: the next request tries again.
CreateFails(r) ==
  /\ tpc[r] = "creating"
  /\ mu' = None
  /\ tpc' = [tpc EXCEPT ![r] = "done"]
  /\ refused' = refused \cup {r}
  /\ UNCHANGED <<ts, created, source, token>>

\* ts.Token, outside of the mutex: a token, or an error.
Fetch(r) ==
  /\ tpc[r] = "fetching"
  /\ tpc' = [tpc EXCEPT ![r] = "done"]
  /\ \/ token' = [token EXCEPT ![r] = source[r]] /\ UNCHANGED refused
     \/ refused' = refused \cup {r} /\ UNCHANGED token
  /\ UNCHANGED <<mu, ts, created, source>>

TokenStep(r) == Lock(r) \/ Reuse(r) \/ FindNone(r) \/ Create(r) \/ CreateFails(r) \/ Fetch(r)

-----------------------------------------------------------------------------
\* Whoever comes first and however creations fail, one source serves every
\* request of a service (src/service/agent_stream.go:479): its tokens are
\* reused until they expire, and a second source would ask for its own.
OneSource == \A r \in Requests : token[r] \in {0, 1}

\* A failure costs only the request that met it: whoever goes on without a token
\* has been refused one itself, by NewTokenSource or by Token, and not because
\* an earlier creation failed (src/service/agent_stream.go:480, 487-506).
FailuresAreNotKept ==
  \A r \in Requests : tpc[r] = "done" /\ token[r] = 0 => r \in refused
=============================================================================
