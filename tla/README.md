# Verification of ai-agent-sdk

TLA+ modules for the Go SDK that stands between a product's backend (a *BFF
instance*) and pen-gpt, the service that runs the chat agent. TLC checks the
modules on small instances; TLAPS proves every safety property that TLC
checks, and both refinements, for every value of the constants. Only liveness
is left to TLC alone. File and line references are to `src/`.

## The system

| Component | State | Operations | Interacts with |
|---|---|---|---|
| Stream registry and handles (`service/agent.go:21-94`, `880-899`) | `activeStreams` per instance (thread -> handle) under `streamMutex`; per handle `ready`/`runID`, `pausing`, `stopAnswered` | register and supersede, deregister own entry, `settle`, `waitForStop`, `endPause`, `cancelLocalStream` | shared by StreamChat and PauseStream goroutines |
| `StreamChat` (`service/agent_stream.go:69-377`) | one goroutine: context, accumulated references and recommendations, first error | request, scan loop, closing events | writer callback to the client, HTTP to pen-gpt, message list in the database |
| `PauseStream` (`service/agent.go:769-878`) | one goroutine: bound handle, run id | bind or look up, wait for the run id, remote stop, local cancel | handle, `stream_runs`, pen-gpt `/stop` |
| pen-gpt (external) | `stream_runs`, messages | admits, answers, aborts, completes, records stops, cleans up ended runs | the database, HTTP |
| Thought filter (`agent_stream.go:432-460`) | `inThought` carried over deltas | `filterThought` | scan loop |
| Message lists (`agent.go:184-224`, `share.go:81-127`, `store/`) | none; the client holds a keyset token | `ListMessages`, `ListSharedMessages` | tables pen-gpt writes meanwhile |
| Threads and pins (`agent.go:119-182`, `store/agent.go:31-269`) | rows | create, rename, pin, delete, list, search | the database |
| Share links (`service/share.go`, `store/share.go`) | rows | create, read, fork, short code | the database, pen-gpt fork |
| Pagination token (`cursor/cursor.go`) | none | `Encode`, `Decode` | message lists |
| ID token source (`agent_stream.go:462-506`) | cached source under a mutex | `token` | every request to pen-gpt |
| Parsing (`agent.go:254-767`) | none | what tools contribute: steps, references, recommendations | message lists, scan loop |
| Feedback (`store/agent.go:320-362`) | rows keyed by message, thread and user | `UpsertFeedback` | message lists |

What is hard: two calls on one thread share a handle and race with a third
party that answers late, twice removed, or never; a connection's end is not
propagated to pen-gpt (`agent.go:773-775`), so giving up on an exchange says
nothing about its effect; several instances each have a registry of their own;
lists are read page by page from tables that change. What makes each part
correct is stated by the properties below. `PROJECT.json` lists the hazards at
their lines.

## Modules

* `PenGptRuns`: the environment. pen-gpt as the SDK's requests, comments,
  tests and the constraints of `internal/testdb/fixture.sql` describe it, in
  every order they allow. A run is named by the stream whose request opened
  it, a stop by its pause.
* `StreamControl` extends it with StreamChat and PauseStream. One action per
  step that other processes can see: an access to the registry under its lock,
  to an atomic or a channel of the handle, one exchange with pen-gpt or the
  database. A *slot* is a thread on an instance.
* `StreamProperties` states what the two calls promise; `MCStream` instantiates
  it for TLC; `StreamProofs` proves it.
* `Turns`: the registry's promise without a registry: at most one live turn per
  slot, cancelled turns never come back. `ImplementsTurns` maps StreamChat's
  program counter and context to it.
* `ChatEvents`: the events one StreamChat call writes and what it returns;
  `ClientView`: the event protocol its client relies on, which `ChatEvents`
  implements (`ImplementsClientView`); `EventProofs`.
* `PauseTimers`: the timers of a pause and of the finish list that waits for
  it, on a discrete clock.
* `IdTokens`: the token source that all requests to pen-gpt share.
* `Sharing` extends it with the life of share links: a request is a
  `ForkThread` call, on the service of `NewShare` or on the one embedded in
  `NewAgent`'s; `SharingProofs` proves it.
* `Answers`: what an answer's tools contribute, as `doUpstreamStream` tells it
  and as `parseMessage` lists it from the stored message.
* `PageToken`: `Encode` and `Decode` of the pagination token.
* `Feedback`: `UpsertFeedback` and what each user's list shows.
* `ThoughtFilter`: `filterThought`, a recursive function that follows the
  code's loop, against a reference (`Inside`, `Stripped`) that reads the whole
  answer position by position.
* `Parts` puts the modules that need no other side by side for TLC, one in
  each behaviour: `ThoughtFilter`, `Answers`, `PageToken`, `PauseTimers`,
  `Feedback`. `TextProofs` proves the two that read texts (`PageToken`,
  `ThoughtFilter`), `PartProofs` the other three, and that each part of `Parts`
  behaves as its own specification says (`PartsAreIndependent`), so that what
  is proved of a part holds of the behaviours TLC checks.
* `MessagePages`: one walk through a message list, by the owner or by the
  reader of a share link, over changing tables; `PageProofs`.
* `Threads`: the thread operations of all users and one user's walk through
  `ListThreads` or `SearchThreads`; `ThreadProofs`.
* `Recursion`: induction and recursion, for the proofs that need them.

Operators named `X_Something` next to a definition `X` are plausible bugs of
`X`; no specification uses them. Each property is shown to be broken by one.

### How state and actions correspond to the code

| Model | Code |
|---|---|
| `active` | `activeStreams`; deregistration deletes only its own entry (`agent_stream.go:87-93`) |
| `ready[s]` | `handle.ready` and `runID`: open; closed with "" (`norun`); closed with a run id (`run`) |
| `ctx[s]` | `streamCtx`: `stopped` by a newer stream, the caller or the return, `paused` by `cancelLocalStream` |
| `pc[s]` | start event, `httpClient.Do`, scan loop, `waitForStop`, finish list, deferred calls |
| `ppc[p]` | `FindRunningRunID`, the select on `ready`, `pausing.Store`, `callRemoteStop` sent and answered, `cancelLocalStream`, deferred `endPause` |
| `view[s]` | whether the finish list showed the run as stopped |
| `stoppedBy`, `cancelledBy` | history: the pause that stopped a run, or cancelled a stream |
| `timely` | history: the streams whose finish list is to agree with a recorded stop: those that ended with their body or by their pause, and did not give up `waitForStop` |
| `seen[p]` | history: the turns that had begun when pause `p` fixed its run, at its arrival or, without a local stream, when it read `stream_runs` |
| `tpc[r]`, `mu`, `ts` (IdTokens) | the place in `cloudRunIDTokenSource.token`, its mutex, its `ts` |
| `lpc[l]`, `link[l]`, `code[l]` (Sharing) | the place in `CreateShareLink`, and the row it inserts: live, or revoked by `deleted_at` |
| `fpc[f]`, `sent`, `outcome[f]` (Sharing) | the place in `ForkThread`; whether its request left; what it returned |
| `refused` (IdTokens) | history: the requests whose own `NewTokenSource` or `Token` failed |
| `presented` (PageToken) | a token: its text, and the form of its base64 |
| `tool[i]`, `stepsSent`, `refsSent`, `recsSent` (Answers) | a call as it will be stored, and the events or the accumulated lists of the stream |
| `phase`, `since`, `stopSince` (PauseTimers) | the select in `pauseTarget`, the lookup, the token, the stop; when `waitCtx`, `lookupCtx` and `stopCtx` were made |
| `finish` (PauseTimers) | `waitForStop` |
| `next` (MessagePages) | the decoded token, a position `(created_at, id)` |
| `cursor` (Threads) | the id of a page's last thread, whose row the next query reads again |

### Abstractions

* StreamControl has one user: the SDK checks no user in the registry, and
  `stream_runs` is filtered by user and thread together, so a thread stands
  for the pair. A 200 carries a run id (`x-stream-run-id`), as pen-gpt's
  stream endpoint does. A request goes out without an ID token when none can
  be had; that is one of the ways it can be refused.
* In StreamControl timers may fire at any time and exchanges fail at any time;
  delays are not measured. How the timeouts relate is `PauseTimers`' matter,
  which knows of the stream only whether it reads, waits or has listed.
* PauseTimers lets the ID token of a stop take any time: it is fetched with
  `context.Background()` (`agent_stream.go:491`), outside of `stopCtx`, and a
  request whose `stopCtx` is over by then fails before it is sent.
* Sharing has one token source per `NewShare` service and counts the sources
  created. A row is live, or revoked by a service outside of this repository;
  a database error shows as what the caller sees. `GetShareLink` hands out the
  row as it is. The user a fork is made for only travels along. A 200 with an
  object as its thread is a success, as in the code, which asks neither for
  `success` nor for an id (`share.go:182-204`): that a copy was made is
  pen-gpt's word, and no property says more. Nor does one speak of retries: a
  fork whose answer was lost is forked again, and no text says otherwise.
* Answers: `NumTools` tools, run side by side and stored in the order of their calls.
  pen-gpt is taken to run a workflow's flagged steps and its summary step
  before the workflow returns. Two of the seven query steps stand for them,
  and three lists of references for those that collide: a document under two
  ids, an id that is also a post id, an entry without any key. Display texts
  are left out.
* PageToken: a token is a text, the fields between its dots, and the form of its
  base64: as `Encode` writes it, with line breaks in it (which even
  `Strict()` skips, so that a position has many tokens), with stray bits in
  the last character, or with foreign characters or padding. Where the line
  breaks stand is left out. A digit is a bit and an integer has `Width` bits:
  with 3, TLC covers both ends of the range, their successors and every
  spelling of up to four characters.
* ThoughtFilter: a tag is two atoms, the halves that a cut may part; anything
  else is `"text"`. An answer has at most `MaxLength` atoms.
* Feedback: a message's thread is a function of the message. Nothing checks
  whose thread it is, neither here nor in the code.
* `CallerCancels` is limited to the exchange with pen-gpt: elsewhere nobody
  looks at the caller's context (`context.WithoutCancel`).
* ChatEvents takes the context and the exchange as nondeterministic; chunks
  are their kinds; the writer's error is ignored after the start event, as in
  the code. The finish event stands for a successful list.
* MessagePages has one thread and one walk. `created_at` values are a small
  set with ties, and a message may be stored with an earlier time than those
  already there (several writers). An invalid token is rejected before any
  query and not modelled. Feedback and content are left out.
* Threads: a title matches the keyword or not. A thread's time is chosen
  freely, because creation takes the service's clock and renaming the
  database's. A new thread gets a fresh id (`uuid.New`); with an id in use the
  store's upsert would rename the other thread. The walk is not told from
  another reader's, so the pins of the others matter only through the join.

## Runs

Every passing run finishes. Deadlock is checked in the runs of `MCStream`,
`MessagePages`, `Threads`, `ChatEvents` and `ThoughtFilter`: their only
terminal states are those in which every call has returned (`Finished`,
`Done`). In `Sharing` and `Parts` the system may really stop: a link is never
made and nobody forks, all messages have feedback, the clock is at its bound.
Those configurations say `CHECK_DEADLOCK FALSE`; that no fork hangs on the
mutex is `ForksEnd`.

| Run | Instance | Shows |
|---|---|---|
| TwoStreams | 2 streams, 1 pause, 1 slot | registry, supersession, `ImplementsTurns`, a pause against a newer turn |
| TwoPauses | 1 stream, 2 pauses, 2 instances, 2 threads | what a pause returns is true; it keeps to its thread; the finish list shows a lone stop |
| Live | 1 stream, 2 pauses, 1 slot, fair | every call returns |
| Pages | 3 messages, 2 times, 1 run, pages of 1 or 2 | order, completeness, full pages, deletion, ended turns |
| ThreadWalk | 2 threads, 2 users, 3 times, pages of 1 | steady threads are shown exactly once; isolation of users |
| Events | no constants, answers of any length | protocol, result, gathered items |
| Parts | answers up to 6 atoms; 2 tools; 3-bit integers, ids of up to 2 pieces; wait 1, stop 2, clock 12; 2 users, 2 messages | the filter is exact on whole tags; stream and list tell the same steps, documents and recommendations; tokens return their position and differ in line breaks only; a pause's timers add up for all but its token; feedback is the user's own |
| Sharing | 2 forks, 1 link, 2 users, 1 thread, fair | links, forks, revocation, one token source, a failed creation costs one request, every fork ends |

Why the bounds are enough: a race on a handle needs a stream, the stream that
replaces it and a pause between them (TwoStreams), or one stream and the two
pauses that share it, and a pause of another thread or instance one of each
(TwoPauses). The safety properties are proved for any number of each; the
bounds below matter for liveness, for the mutants, and for finding out what to
prove. Three messages in pages of one give a first, a middle and a last page,
with ties, a removed token and a late message between them; a client may
change the page size from call to call, and a page of two has an order and a
filter of its own. Two threads are a cursor and a thread that must come after
it exactly once, each pinned or not and at any of three times. Six atoms hold two tags and text around one, or three
tags in a row. `MaxShown` bounds how often a walk whose cursors keep moving up
is served the same thread; the bounded walk simply stops there, and the
premise of `SteadyThreadsOnce` excludes it. Two forks are who creates the token
source and who comes while it is created, or after that failed; one link is
enough, since nothing relates two. `PauseTimers` counts in steps of five
seconds: 5 and 10 s, with room on the clock for a token that takes longer than
any timer, for a pause that begins late and for a stream that ends at any point
of it. Two tools are one that ends before the other in either order, each of
either kind. Events are bounded by nothing: the model keeps the last event, the
number of errors and the kinds sent.

Four runs refute what a comment says; `PROJECT.json` quotes them:

* **FinishStop**: the finish list waits only for the first pause on its own
  instance. After a pause on another instance, or a retry of a pause that
  failed (`stopAnswered` belongs to the handle, not to the pause), it may show
  an answer that a refresh hides.
* **PausedTurn**: a pause whose wait for the run id ends while pen-gpt has
  admitted the run cancels locally and reports success; the run completes.
* **CutTags**: a `<think>` cut between two deltas is not filtered.
* **AgentFork**: `Agent.ForkThread`, promoted from the share service that
  `NewAgent` embeds without a token source, calls a nil function and panics.
  `Sharing` keeps the panic as an outcome; all other properties hold next to it.

Two readings of the code that no run settles. `agent.go:842-843` says that
`pauseAnswerTimeout` bounds a whole pause; the ID token of the stop is fetched
under no timer (`agent_stream.go:491`), so a pause may last as long as that
fetch. What holds is checked and proved: all but the token fits
(`OnlyTokensTakeLonger`), and the finish list gives up on no stop that may still
be recorded (`NoStopGivenUp`), because a stop whose token came too late is never
sent. And a pause that finds no local stream names the run it reads from
`stream_runs`, so a turn that begins between the pause's arrival and that read
may be the one it stops. `agent.go:782-786` says the run is fixed then;
`PauseSparesNewerTurns` counts from there.

## Fairness

`FairSpec` assumes weak fairness of the steps of each StreamChat and
PauseStream goroutine, and of nothing else: pen-gpt may never answer, callers
may never come. The code justifies it because each wait ends by itself: the HTTP client has a
timeout of 5 minutes for the whole exchange including the body
(`agent.go:100-102`), the finish list and the stop 10 s (`agent_stream.go:51-52`),
the lookup 10 s (`agent.go:859`), the wait for the run id 5 s
(`agent.go:867`), `waitForStop` 25 s (`agent.go:70`). The writer
callback is assumed to return, and so is the fetch of an ID token, which
belongs to the steps that send a request and which the code leaves unbounded
(`agent_stream.go:491`).

`Sharing`'s `FairSpec` assumes weak fairness of each fork's own steps. That
includes the token (the metadata server answers or refuses) and the end of the
exchange: `NewShare` takes its HTTP client from its caller, who must give it a
timeout or bound the context. pen-gpt's copy, revocations, deletions and the
calls themselves are not fair. The mutex needs no strong fairness here: a
holder releases it in a bounded number of steps, and each fork locks it once.

## Proofs

The assumptions are those the modules state about their constants, and no
others: `None` is no element of the sets it stands next to
(`NoneAssumption`, `SlotsAssumption`, `NotALinkOrCode`, `NoMessageAssumption`),
times and ids are integers, page sizes are positive, numbers of tools and
lengths are naturals, an integer has at least one bit, a question is no reply,
and the timers of `TimersAreNat`. All sets may be infinite
unless it says otherwise.

`StreamProofs` (Streams, Pauses, Instances and Threads any sets). The
properties are not inductive: that a pause's cancel reaches only its own
stream, say, rests on what its target was when it arrived, through all steps
between. `IInv` strengthens them by named parts: `TypeOK` with the places of
the calls, `Registry` (live streams are registered, entries are live),
`Requests` (which exchange with pen-gpt has opened a run), `Bindings` (a bound
stream is of the pause's slot and was seen at arrival, the run is that
stream's), `Stops` (what a stop's answer says of the run it names), `Cancels`
(who may have cancelled what, and when), `Outcomes` (what a pause's result
rests on). Each part has a lemma with one step per action; `Invariant` joins
them, and each property follows from `IInv` alone. `TurnsImplemented` maps each
action to one of `Turns` or to a stutter, using `IInv` for the fact that the
stream a registration replaces is the slot's only live one.

`FinishAgreesWithALoneStop` needs `FinishInv` on top of `IInv`: `Connections`
(a body that closes under a running run was broken off by a stop of that run),
`Handles` (a pause marks its stream before it asks for the stop, and its answer
comes when it has returned) and `FinishOf` (a stream that is to agree with a
stop has a run that is over, or was broken off by a stop that is recorded
before the pause's answer releases the list, or its pause is not the only one;
and its list shows the stop, or the run ended otherwise, or the stop was
refused). Without `FinishOf` the order in which pen-gpt breaks off the body and
records the stop is lost between the two steps.

`EventProofs`: `EInv` ties the call's place to the last event, the number of
errors to `streamErr` and `upstreamErr`, and what was collected to what was
gathered; from it, each event written is one `ClientView` allows.

`SharingProofs` (Requests, Users, Threads, Links, Codes any sets): `TokenInv`
says who may hold the mutex and that a kept source is the only one, since
nobody creates one while another holds the mutex or after one is kept; and a
request past the mutex has that source, so that it goes on without a token only
if its own creation or fetch failed (`FailuresStayLocal`).
`ShareInv` adds what a call's place says of the rows it has read: a checked
link's maker owns the thread (owners do not change), a revoked link stays
revoked, a fork that has sent was begun on a live link.

`PageProofs` (any messages, times, runs and page sizes; the table is finite at
every moment): `PageInv` adds to `TypeOK` the `Table` (ended runs stay ended),
`Pages` (everything shown is at or ahead of the token, and a page before the
last is as long as was asked for) and `Remaining` (a message that was there
throughout is shown, or comes after the token). The step that counts is
`PageOfFetched`: one row more is fetched than is asked for, and it alone tells
whether anything follows. With ties and with messages stored late the order
`(created_at, id)` is what keeps the walk going.

`ThreadProofs` (any users, threads, times and page size; finitely many threads
exist): `ThreadInv` adds that of the threads nobody touched since the walk
began, exactly those above the cursor's row have been shown, each once, as long
as every cursor was still the row it had been when its page was read (`kept`,
the premise of `SteadyThreadsOnce`). `OthersNeverChangeLists` is an action property and
rests on `TypeOK` alone.

`PartProofs`:

* Timers (any timeouts under `TimersAreNat`, tokens that take any time):
  `TimerInv` bounds each phase but the token's by its own timer and by what the
  phases before it may have used, and dates the finish list's wait, which begins
  no earlier than `stopCtx`: when it gives up on a token, `stopCtx` is over.
* Answers (any number of tools): `AnswerInv` ties what a tool has told to its
  flags and its stored result. `SentInv` counts: for each document, and for the
  recommendations, the stream has told as many as there are pairs of a tool
  that has ended and something it contributes (fewer only after an error).
  That many is what the list contains, however it interleaves with the order
  in which the tools end, because the list goes through the same pairs in the
  order of the calls. Counting pairs is what makes the invariant inductive:
  the two orders are never compared.
* Feedback (any users and messages): `FeedbackInv` says what a row may be next
  to what its user was told last.

`TextProofs`:

* `PageToken` (any width, ids of any number of pieces): `TokensCanonical` from
  the strict decoder and the comparison with the canonical spelling, and `TokensReturnPositions`,
  because `ParseInt` undoes `FormatInt` on every number, by induction over its
  digits.
* `ThoughtFilter` (answers of any length): `FilterAgrees` says that the loop,
  begun anywhere but within a tag, keeps what the reference keeps from there
  on: either no tag is left, or what follows the first one is shorter and
  begins where no tag is cut. `ReadingContinues` says that a delta which cuts
  no tag leaves the reading of what came before as it was (the reference looks
  one atom ahead, so a cut one would not). Together they make `FilterIsExact`
  inductive.

`Recursion`: the library states induction for a predicate given as an
operator, which the provers at hand cannot instantiate. `LeastNat` derives the
least element of a set of numbers from the pigeonhole principle for finite
sets; `Induction` and `StrongInduction` follow for a set of numbers in place of
a predicate. From them come the existence of folds (`FoldExists`) and of
functions defined by recursion on something that gets smaller
(`RecursionExists`), and how often something occurs in concatenated sequences
(`FlattenOccurs`), each proved once and cited where a definition of the model
is unfolded. No module with a proof, nor one it uses, declares a `RECURSIVE`
operator.

Only model-checked: liveness (`StreamsReturn`, `PausesReturn`, `ForksEnd`),
which rests on `ENABLED` of fair steps, out of the prover's reach. Not proved
either is that the steps can be taken at all, such as that a page satisfying
`IsFirst` exists; TLC fires every action.

## Not modelled

* Parsing beyond what tools contribute: the joining of texts and images,
  `hasResults`, content that is not V2, malformed JSON. Each is a function of
  one stored value, with no second path it could disagree with.
* Display names: tables of wording.
* `schema.go`, the data types of `models/`, `Validate` and `Optional`, and the
  startup check `CheckStreamRuns`: no state and nothing that interleaves.
* `internal/testdb`: test support; its fixture is the source for the tables.
* `UpdateThread`'s answer, which never says that a thread is pinned
  (`agent.go:174`): no text says what it means.

## Plan

1. Done: the core (`StreamControl` and its proofs), `ChatEvents`,
   `MessagePages`, `Threads`, `Sharing`, `IdTokens`, and the modules of `Parts`.
2. Done: every safety property of a passing run, and both refinements, proved.
3. Next: that the steps can be taken (a page satisfying `IsFirst` exists for
   every finite table), and what liveness rests on that needs no fairness: a
   measure that each step of a call that has begun lowers.
