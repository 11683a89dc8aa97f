# tempmail: specifications, model checking and proofs

tempmail is a temporary-mailbox server in Go. Mail reaches it from a relay inbox
(Microsoft Graph or IMAP, fetched when a client reads), through a built-in SMTP
server, or through a webhook; clients manage mailboxes, read messages and send
mail over a REST API; everything is kept in one SQLite database. This directory
models the system in TLA+, checks it with TLC and proves its properties with
TLAPS.

## Inventory

| Part | Code | State it keeps | Operations | Hard behaviour |
|---|---|---|---|---|
| On-demand gate | `ingest/ondemand.go` | in-flight call, last result and time, closed flag, wait group | `SyncContext`, `fetch`, `Close` | sharing one fetch, cancellation, panic, shutdown race |
| Mailbox store | `handlers/{store,graph_store,email,message}.go`, `storage/db.go`, `models/` | tables `mailboxes` and `messages` | store, create, list, get, delete, two cleanups | several statements per handler without a transaction |
| Graph poller | `graph/poller.go` | `since`, in memory | `FetchOnce`, `pollOnce` | paging behind a second-precision mark, failures, restart |
| IMAP poller | `imap/poller.go` | none; the server's `\Seen` flags | `FetchOnce`, `fetchUnread` | store and flag are two steps, streams that break |
| OAuth tokens | `fetchAccessToken` of both pollers, `config.PersistRefreshToken`, `config.Load` | cached access token, refresh token, `.env` | exchange, rotate, persist, load | single-use tokens, lost replies, crash while `.env` is rewritten |
| Recipient routing | `findRecipient`, `findGraphRecipient` | none | choose an address | headers against envelope, subdomains |
| SMTP server | `smtp/server.go` | the session's sender | `Mail`, `Rcpt`, `Data` | answers that are lost, stores that go on after the session |
| Outbound mail | `sender/`, `handlers/send.go` | none | relay or direct delivery | MX fallback, partial delivery, failure after acceptance |
| Configuration | `config/config.go` | `.env`, environment | `Load` | a table of conditions with an early return |
| Lifecycle | `main.go` | goroutines | wiring, `runCleanup`, shutdown | order of the shutdown steps, handlers without a deadline |
| Webhook | `handlers/webhook.go` | none | one `StoreMessage` | as the store |
| Authentication | `middleware/auth.go` | none | compares one header | – |
| Token tool | `tools/get_graph_token.py` | none | prints a token once | – |

How they interact: `GetMailbox`, `ListMessages` and `GetMessage` first call
`OnDemand.SyncContext`, ignore its error and then read the database. The gate
runs `FetchOnce` of the one configured poller in a goroutine of its own; the
poller calls `StoreGraphMessage` or `StoreMessage` per message, and
`fetchAccessToken` before a request. SMTP sessions and the webhook call
`StoreMessage` from goroutines of theirs. `runCleanup` deletes on a ticker. All
of these share the database and nothing else. `POST /api/send` talks to remote
hosts only. A shutdown stops the listener, gives handlers five seconds and
closes the gate last.

What makes each part correct:

- gate: fetches never overlap; a caller gets the outcome of a fetch that was not
  superseded when it asked; nobody waits for a fetch without a publisher; Close
  returns and leaves nothing running;
- store: no orphaned, misfiled or doubled message; reads are complete; mail goes
  only by right; errors have a cause;
- pollers and intake: what waited when a fetch began has a row when it ends, or
  there is a named reason, and a read answered after it shows it; a fetch ends;
  a message is stored once, and a deleted one stays deleted;
- tokens: a token handed out is alive; the grant survives a restart;
- SMTP: a mail that was acknowledged is filed, and filed once;
- outbound: accepted means delivered, rejected has a reason, and a copy too many
  has an excuse;
- lifecycle: a server that starts can get mail; a shutdown waits as long as it
  promises, and ends.

## Modules

| Module | Models | Abstraction |
|---|---|---|
| `SingleFlight` | what the gate promises | no mutex, call record or goroutine |
| `Mailboxes` | what the store promises its clients | no tables, mailbox ids or statements: a request is answered in one step |
| `OnDemand` | `ingest/ondemand.go` | FetchOnce is an outcome; time is "within MinInterval or not" |
| `MailStore` | the store, its handlers, webhook and cleaner | an address is a model value; a message is its mailbox, address, Graph id and date |
| `SmtpSession` | `smtp/server.go`, `findRecipient`, on top of `MailStore` | a mail is well-formed or not and a list of header addresses |
| `GraphPoller` | `FetchOnce`/`pollOnce` | Graph is a set of dated messages; a page is the oldest `PageSize` at or after the mark |
| `Ingest` | `MessageHandler.sync`, gate and `GraphPoller` composed | the gate is what `SingleFlight` promises |
| `ImapPoller` | `FetchOnce`/`fetchUnread` | the server is a set of messages and a set of flags |
| `RefreshToken` | `fetchAccessToken`, `PersistRefreshToken`, the token part of `Load` | tokens are numbered; `.env` is absent, cut, or holds a token |
| `ConfigLoad` | `config.Load` and the choice of a poller in `main` | a setting is given or not, or one of its cases |
| `Server` | `main.go`: start, handlers, signal, grace, exit | a handler waits for a fetch, reads, or sends |
| `DirectSender` | `handlers/send.go`, `sender/` | a conversation with a host is its stages; a stage succeeds, fails or falls silent |
| `*Proofs` | theorems about the module of that name; `IngestProofs` also about `GraphPoller`, `ServerProofs` about `ConfigLoad` | |
| `MC*` | instances for TLC | |

**OnDemand.** A critical section under `o.mu` is one action: `CloseLocked`, and
the five ways `SyncContext` leaves its first one (`RefuseClosed`, `JoinInflight`,
`Coalesced`, `StartCall`). What the code does without the mutex is a step of its
own: the first context test (`EnterLive`, `EnterCancelled`), `go o.fetch(c)`
(`SpawnFetch`), the select (`WaitDone`, `WaitCancelled`, either when both are
ready), and the stages of the goroutine (`FetchBegin`, `FetchReturns`, `Publish`,
`FetchExit` for the deferred `cancel` and `wg.Done`). A panic of FetchOnce is
recovered and published as an error, so it is the outcome `"err"`.

**MailStore.** `storage.Open` sets `SkipDefaultTransaction`, so each statement
commits alone. One action is one statement with the code up to the next:
`Dedup`, `Count`, `Lookup`, `InsertBox`, `Retry`, `InsertMsg`, `Find`. The same
action serves all handlers that issue that statement; `op[p].kind` says which
handler it is and with it what follows (only `ListMessages` retries a refused
insert, only `StoreGraphMessage` dedups). A statement may fail when `Faults`
says so; the code drops the error of the two counts and of the list's `Find`,
and so does the model. `DeleteMailbox`, `DeleteMessage` and the two cleanups are
one statement each; the cascade to `messages` is part of the delete. That ids
never come back (AUTOINCREMENT) and that the foreign key is checked are SQLite's
doing under the pragmas of `buildDSN`. Nothing bounds the lifetime a client or
`DEFAULT_TTL_HOURS` asks for, and its product with `time.Hour` wraps, so `TTLs`
are integers and a mailbox may have expired before it exists. The history
variables `base`, `met` and `answer` take part in no guard. A Graph message
without an id, which the code does not dedup, is left out: Graph gives every
message one.

`Mailboxes` is what clients may believe: addresses that have a mailbox or not,
mail that belongs to an address, and requests that are answered as if all of
them happened in the step that answers. The mapping at the end of `MailStore`
forgets the ids of mailboxes and the statements (`Owned`, `Seen`), tells an
answer when `End` gives it (`Told`), and knows who has lost a mailbox since it
asked (`Bereft`): a list whose mailbox goes between its two statements shows
nothing, as was true then, even if the address has a new one by now.

**SmtpSession.** One remote host and one mail. `Envelope` is a session up to the
last RCPT; `DataUnstored`, `DataStores` and `WorkerStatement` are `session.Data`,
whose `StoreMessage` is taken statement by statement by a process of
`MailStore`; `Hear` is its answer at the remote host. `Cut` ends a session
anywhere, and a store under way goes on as an orphan. `Elsewhere` is the rest of
the server. `FindRecipient` takes the first header address at a domain of ours,
subdomains included, where `RcptAccepts` looks at the envelope and at
`AllowSubdomains`.

**GraphPoller.** One action per page request and one per message stored;
`EndPage` sets the mark: `latest` after a full page, one second more after a
partial one. Every way a request can fail is `RequestFails`. `Restart` forgets
the mark. A client may delete any message (`DeleteMessage`), also between two
pages. **Ingest** puts readers before it: each starts a fetch, joins one, is let
pass within MinInterval or gives up; the end of a fetch releases all of them.

**ImapPoller.** `SearchFinds`, `Deliver`/`Handle` (the fetch goroutine and the
loop over its channel), `StreamEnds` or `StreamEndsCut` (the command's result),
`MarkSeen` or `MarkRefused`. The body is fetched without PEEK, so the server may
set the flag itself when it sends a message: it does or does not.

**RefreshToken.** Both pollers have the same `fetchAccessToken` up to defaults.
`os.WriteFile` is two steps, `TruncateEnv` and `WriteEnv`. The server accepts
only the newest refresh token, which is what the comments of the code say of it.

**DirectSender.** Every try of the client is a handler. `Accept` has its checks
and the grouping by domain, `todo` the groups left, `left` the exchangers left
for the current one. `Stages` are the steps of a conversation in their order;
what a host has taken is recorded when it answers the body, which is before
`QUIT` and before the handler knows. A client may leave, which the code does not
notice, and the process may die.

**Server, ConfigLoad.** `Loads` is the sequence of checks of `config.Load` as a
predicate on settings; `Credentials` says what the poller that `main` chooses
logs in with, read from the pollers and not from `Load`. `Start` takes any
settings that load. `Signal`, `GraceEnds`,
`ShutdownReturns` and `Exit` are the end of `main` in its order; `Exit` needs
the gate to have drained.

## Runs

| Run | Instance | Shows |
|---|---|---|
| `gate` | 2 callers, 1 closer, 3 calls, fair | types, `SingleFetch`, `NoOrphanFlight`, `NoFetchOutlivesClose`, refinement of `SingleFlight`, `CloseTerminates`, `CallersReleased` |
| `store` | 2 processes (symmetric), a domain and a subdomain address, 2 mailboxes and 1 message ever inserted, a clock of 1, failing reads, mailboxes born expired | `EveryMessageHasItsMailbox`, `RoutedToOwnMailbox`, `ReadsAreComplete`, `ErrorsAreExplained`, refinement of `Mailboxes` |
| `smtp` | one mail with one of four header lists, 2 processes, a Graph store beside it, 2 messages ever inserted, a clock of 2, failing reads and writes | types, `AckedIsFiled`, `FiledAgainOnlyIfUnheard`, `MailStaysUntilDue`, `DoubledOnlyUnread`, `FiledIsInItsMailbox` |
| `ingest` | 2 readers, pages of 3, at most 2 messages a second, 4 messages, 1 failure, fair | types of the composition, `SkippedOnlyAtEdge`, `ReadShowsRelay`, `BacklogCleared`, `DeletedStaysAway`, `DrainGetsOn`, `DrainEnds` |
| `imap_drain` | 3 messages, 2 faults, fair | `LostOnlyIfShaken`, `DuplicateOnlyIfShaken`, `DrainGetsOn`, `DrainEnds` |
| `token` | lifetimes shorter, equal and longer than the default, 4 tokens, 2 faults | `HandedIsAlive`, `GrantSurvives` |
| `outbound` | 2 tries, two domains (`MCMX` gives their exchangers) and an address without one, fair | types, `AcceptedMeansDelivered`, `RejectedHasReason`, `DuplicateOnlyIfExcused`, `SendGetsOn`, `SendEnds` |
| `server` | every configuration, 2 starts, 2 readers, 1 sender, fair | `StartedUsable`, `GraceIsKept`, `ShutdownEnds` |

Only `server` turns the deadlock check off: a process that has ended may stay so.

Why the bounds are enough:

- a race of the gate needs a fetch in flight, one to overlap it and one caller
  to be told the result, so three calls;
- a store race is between two processes and needs a mailbox whose id is
  remembered to go and another one to take its place, so two mailboxes; the
  properties of `store` are each about one message. Lifetimes below zero expire a
  mailbox at once, and one tick a message;
- a mail filed twice, or a Graph message stored twice, takes two rows, which
  `smtp` has;
- a backlog of 4 with pages of 3 takes two requests, with room for mail that
  arrives in between; two readers suffice to start, join and be let pass;
- a rotation, a crash and another rotation need three tokens;
- one retry shows a copy too many, two domains a delivery that half succeeds;
- a second start shows what a first one has left behind.

All safety properties of these runs, the action properties and both refinements
are also proved for all values (`DrainGetsOn` of `ingest` where `PerSecond <
PageSize`, which its run satisfies), so there the bounds carry only the liveness.
The type invariants of MailStore, GraphPoller, ImapPoller, RefreshToken and
Server are proved and not run again.

Four runs expect a violation; each states what a document or comment says.

| Run | Statement | What the code does |
|---|---|---|
| `store_nothing_lost` | `handlers/store.go:14-15`, "so nothing is lost" | two stores create one mailbox, the loser's message is dropped |
| `graph_drain_ends` | `graph/poller.go:74`, "Drain until a partial page" | with a full page of mail in one second it requests that page for ever |
| `graph_skip` | `api.md:85`, a read first fetches the relay inbox | mail of the second a partial page ended with is never fetched |
| `token_container` | `README.md:377`, the token is rotated back into `.env` | the documented container has no `.env`; its next start fails |

`ingest` excludes the case of `graph_drain_ends` by letting fewer messages than
a page arrive in one second (`PerSecond < PageSize`, the hypothesis of
`DrainGetsOnHolds`), and `ReadShowsRelay` names
the one of `graph_skip`. A custom name taken between count and insert is
answered 500 where `api.md:165` has a 409; `ErrorsAreExplained` allows it.
`StartedUsable` excepts settings with `IMAP_AUTH_MODE=oauth2` and no `IMAP_USER`:
`Load` accepts them (`config.go:310-313`), but `connect` names that user to the
server (`imap/poller.go:454`), so no login succeeds. `.env.example:46` has the
setting in its OAuth2 block; since no document says that `Load` checks it, this
is an exception by name and not a run that expects a violation.

## Fairness

- `OnDemand!FairSpec`: a goroutine that can run is run by the Go scheduler, so
  each caller's steps, each stage of the fetch goroutine and the return of a
  satisfied `wg.Wait` are weakly fair. FetchOnce is a network call: it is only
  relied on to return once its context is cancelled (`FetchReturnsOnCancel`).
  For Graph, the HTTP requests carry the context. For IMAP, it reaches `connect`
  only, and the later commands end by the client's timeout. Nobody is relied on
  to ask, to hang up or to call Close.
- `Ingest!FairIngestSpec`, `ImapPoller!FairSpec`: a fetch that has begun keeps
  running. Requests have timeouts, so each of them returns, with an answer or a
  fault; faults are bounded, arrivals are bounded by `MaxMail`, and nobody has to
  begin a fetch.
- `DirectSender!FairSpec`: a conversation with a host that still answers goes
  on. The code sets no deadline on it, so a silent host ends nothing, and
  `SendEnds` excepts it.
- `Server!FairSpec`: the timer of Shutdown, `main`, and a cancelled fetch. No
  handler is relied on to end, since a send may be talking to a silent host.

## Proofs

TLAPS checks, for all values of the constants that meet the `ASSUME`s:

**OnDemandProofs.** The types and the three invariants, none of which is
inductive alone: `FlightInv` says that every record that has not published is
the one in flight, `SpawnInv` that a registered record belongs to exactly one
caller about to spawn it, and `GroupInv` that the wait group counts the active
goroutines and that the fetch context is cancelled once the gate is closed.
`GateImplementsSingleFlight` is the refinement: every step maps to one step of
`SingleFlight` or a stutter, by `HistoryInv`, which ties the flight and the last
result of the abstract gate to the records of the code.

**MailStoreProofs.** All properties of `MailStore` that hold. `RowInv` is about
the tables (keys unique and below the sequences, messages in existing mailboxes
of their address). `BoxInv` says that an id a process remembers is an old one, so
whoever has it now has the right address: this is what makes the stale id of a
deleted mailbox harmless. `BaseInv` says that what a read must show is in the
mailbox it found, `MetInv` that what a process takes for granted still holds or
that it has met the reason, and `GraphInv` that the message a Graph store has
looked for is still missing or that the look failed. Each kind of change of the
tables (`AddsBox`, `AddsMsg`, `Remove`, shrinking) preserves these for a process
that stands still; one lemma per statement does the process that acts.
`GraphIdUniqueHolds` assumes that reads do not fail, since the code drops the
error of the count; `DoubledOnlyUnreadHolds` says what is left without that
assumption. `MailStaysUntilDueHolds` is an action property.
`StoreImplementsMailboxes` maps each step to one of `Mailboxes` or a stutter:
`GotoTells` says that a statement which is not the last tells nobody anything,
`EndTells` that the last one is the whole answer, and `SeenOfBox` that the rows
of the mailbox a read has found are all the mail of its address. It takes the
invariant above, with `MetInv` for the reader whose mailbox has gone, and
`IdleInv`, that a process without a request has met nothing.

**SmtpSessionProofs.** `SessionUsesStore`: every step of a session is a step of
the store or leaves it alone, so the theorems of `MailStoreProofs` hold beneath
sessions: `SessionMailStaysUntilDue`, `SessionDoubledOnlyUnread` and
`SessionImplementsMailboxes` state those that a session might seem to threaten.
`FirstOfOurs` says what `findRecipient` finds in a header list of any length;
the first address exists because the numbers are well-founded (`Least`).
`BeforeInv` says that nothing has happened before the mail is queued, and
`FiledInv` that the rows exceed the unheard answers by one exactly while a 250
is on its way, and afterwards only when no recipient is due any more.
`FiledIsInItsMailboxHolds` makes sure that what is counted are rows: `WorkerInv`
says that whoever stores for a session, cut or not, stores under the recipient
of its mail, and `OkInserts` that a store of mail answers `ok` in no other
statement than its insert.

**IngestProofs.** About the poller first: `InboxInv` (ids and dates), `MarkInv`
(the mark against page, clock and edges), `BehindInv` (what lies behind the mark
has a row or a reason, and a page is the oldest of the rest), `HandledInv` (what
this process has handled is not ahead of the mark) and `SeenInv` (what the
running fetch answers for is kept as far as the mark has come) make `PollInv`.
From it follow `SkippedOnlyAtEdgeHolds`, and as action properties
`BacklogClearedHolds` and `DeletedStaysAwayHolds`, for any page size and any
number of messages in one second. `DrainGetsOnHolds`, that each full page moves
the mark, needs fewer messages in a second than a page holds: `AheadInv` says
that a full page reaches beyond the second of the mark, since `SecondInv` bounds
what that second holds. `IngestUsesPoller` carries all of them to the
composition (`IngestKeepsPoller`, `IngestDrainGetsOn`), where `OwedInv` adds
what each reader is owed and gives `ReadShowsRelayHolds` for any number of
readers.

**ImapPollerProofs.** `ChannelInv` says that a message of the running fetch is
in one place (still to come, in the channel, or waiting for its flag) and that a
broken stream has shaken all of them, and that what is still to come is unseen;
`RowsInv` that a message with a row is flagged or waits for its flag, and has
one row, unless it was shaken. Both `OnlyIfShaken` properties follow, for any
number of messages and faults, and `DrainGetsOnHolds`: while nothing breaks, a
drain is not sent a message twice, so the mailbox bounds it.

**RefreshTokenProofs.** `HandedIsAliveHolds` needs that the HTTP timeout is
within the 60-second margin (`MarginAssumption`) and that lifetimes exceed the
timeout (`LivesAssumption`). `GrantSurvivesHolds` assumes that `.env` exists; its
invariant follows the newest token from the server through the response, the
process and the file. `RotationIsSavedWithEnv` says the same of the statement
`token_container` refutes: the missing file is all there is to that finding.

**DirectSenderProofs.** The types and the three properties, for any recipients,
domains, exchangers and number of tries. `GroupInv` and `JobInv` keep the
groups of a try apart from each other and from who has the mail, `CoverInv` says
that who has not got it is still ahead or that an error has been noted for
somebody, `AskInv` that earlier tries are over for the client, and `CopyInv` that
every copy came from some try. `SendGetsOnHolds` is about a measure that is
lexicographic: the groups left, the hosts left for the current one, and the stage
reached with it. Every step of a running try decreases it or leaves the try
alone.

**ServerProofs.** `LoadsUsable` goes through the table of `Load`: what it accepts
is `Usable` or `Nameless`. `LoadsExactly` adds the other direction, that `Load`
refuses nothing that is of use, and `NamelessLoads` that the exception does
occur. `StartedUsableHolds` carries it to every start. `DrainedInv`
(no handler is left once Shutdown has returned in time) gives `GraceIsKept`.

Only model-checked: `CloseTerminates`, `CallersReleased`, the two `DrainEnds`,
`SendEnds` and `ShutdownEnds`. Liveness under fairness is beyond the prover. The
safety core of three of them is proved: the two `DrainGetsOn` and `SendGetsOn`
say that no step of a drain or a send goes back, so that what fairness has to
contribute is only that there is a next step.

## Not modelled

- `Run` of both pollers and IMAP IDLE: `main.go` starts neither.
- TLS, SASL and login, MIME parsing, JSON, logging, `BuildMessage`: input and
  output that decide over success or failure only.
- `DELETE /api/messages/:id` with an id that is not a number, a failing delete of
  a single row (nothing changes), the limit of 50 recipients per SMTP session,
  and Graph messages without a date.
- Times are numbers. The database holds them as texts, Graph's dates in UTC and
  the cutoff of the cleaner in local time (`email.go:219-220`), so where that is
  not UTC a message may
  go some hours early or late; `MailStaysUntilDue` is about the comparison meant.
- Authentication: one comparison per request without state. The token tool: an
  interactive script run once.
- Answers of single-statement handlers (`GetMessage`, `ListMailboxes`, and the
  status codes of the deletes): they change nothing another step can see.
- Three hazards listed in `PROJECT.json` have no property: how long `Close` may
  wait for IMAP commands (no durations are modelled), a Graph page above 8 MiB
  (a page has no size), and an IMAP server that refuses `STORE` for good (faults
  are bounded).

## Plan

What is left would add less than it costs: the IMAP poller below the gate as
`Ingest` has the Graph poller, two mails in one SMTP session, and `Run` of the
pollers should `main.go` ever start it.
