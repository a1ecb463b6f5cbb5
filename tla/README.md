# awaithumans in TLA+

TLA+ specifications of the awaithumans server and of the parts that talk to it,
TLC configurations that check them on small instances, and proofs that hold for
every size. All paths below are relative to `src/packages/python/awaithumans/`
unless they start with `docs/`, which is `src/docs/`. Every definition that models
code is listed with its lines in `PROJECT.json` under `map`.

- [The system](#the-system)
- [Modules](#modules)
- [Runs, bounds and fairness](#runs-bounds-and-fairness)
- [Proofs](#proofs)
- [Where the code and its documentation differ](#where-the-code-and-its-documentation-differ)
- [What is not modelled](#what-is-not-modelled)
- [Plan](#plan)

## The system

An agent posts a *task* to the server; the server routes it to a reviewer and
notifies them (Slack, e-mail); a human answers from the dashboard, an embedded
form, a Slack modal or an e-mail button; optionally an LLM *verifier* judges the
answer; the agent learns the outcome by polling, or by a webhook that the server
keeps in a persistent queue. A background loop times out what nobody answered.

Everything runs in asyncio: each `await` on the database, a provider or Slack is a
point where any other handler may run, and several server processes may share one
database. All durable state is in SQL tables.

| Component | State it keeps | Operations | What makes it correct |
|---|---|---|---|
| **Task lifecycle** (`server/services/task_service.py`, `routes/tasks.py`) | `tasks`, `audit_entries` (to which the notifiers add their failures) | create, complete, claim, cancel, time out, delete | first writer wins; a settled task never changes; the audit trail explains the row; an accepted answer is never overruled |
| **Verifier** (`services/task_verifier.py`, `verifiers/`) | `verification_attempt`, `verifier_result` in the task row | judge a submission | neither too few nor too many attempts; a provider failure changes nothing |
| **Timeout scheduler** (`services/timeout_scheduler.py`) | none (ids of the current batch) | every 5 s: select the expired ids, time each out, announce it | every expired task settles in the end; a lost race is harmless |
| **Creation and idempotency** (`task_service.create_task`, `db/models/task.py`) | `tasks.idempotency_key`, partial unique index over active rows | look up, route, insert, fall back to the winner | one key, one task; reviewers pinged once; a call fails for a reason |
| **Webhook queue** (`services/webhook_dispatch.py`, `webhook_scheduler.py`) | `webhook_deliveries` | enqueue, claim (pin), post, record, redrive | at least once; no resend without a reason; every row ends |
| **Slack channel** (`channels/slack/`, `routes/slack/`) | `slack_task_messages`, `slack_installations` | notify, claim, open modal, submit, update the messages afterwards; install and remove the app | messages end on the task's outcome, and name its assignee |
| **E-mail channel** (`channels/email/`, `routes/email.py`, `routes/auth.py`) | `consumed_email_tokens`, `email_sender_identities` | notify, confirmation page, submit, sign-in hand-off | a button acts once and is not used up for nothing; a link leads to an owned task |
| **Agent side** (`client.py`, `adapters/temporal`, `adapters/langgraph`) | the caller's poll loop; a workflow's signal and timer | create, poll, wait for the webhook, replay | the agent gets the task's outcome, once |
| **Router** (`services/task_router.py`, `channels/slack/recipient_resolution.py`) | `last_assigned_at` of users; a copy of Slack's roster in memory | pick the least recently assigned match; resolve a handle | nobody starves; the one who is told is the one who is assigned |
| **Users and first-run setup** (`services/user_service.py`, `routes/setup.py`, `core/bootstrap.py`, `cli/`) | `users`, the setup token in memory | set up, add, change, remove | an operator always remains; one founder |
| **Access** (`core/auth.py`, `routes/auth.py`, `services/embed_token_service.py`, `service_key_service.py`, `core/rate_limit.py`) | signed cookies and tokens, `service_keys`, the limiter's timestamps in memory | sign in, hand off, mint, revoke, limit | credentials fade with the right to them; never more than N per window |
| **Task views** (`routes/tasks.py`, `core/task_auth.py`) | none of their own | one task, its audit trail, the list with its filters and pages | the views agree on who may see what |
| **Development server** (`cli/commands/dev.py`, `utils/discovery.py`, the TypeScript SDK's `discovery.ts`) | secret files, `~/.awaithumans-dev.json` | start, stop, find | a server whose entry stands is found; a directory keeps its secrets |
| **Forms, statistics, other CLI commands, dashboard** | none of their own | translation, queries, start-up | - |

How they interact: channels, routes and the scheduler call the functions of
`task_service`, each of which opens and commits its own transaction; the HTTP
complete and cancel routes and the scheduler then call
`enqueue_completion_webhook`, which commits a second one; the webhook scheduler
reads that table; agents only see HTTP responses and webhooks. Slack messages are
rewritten by background tasks (`asyncio.create_task`) that open sessions of their own.
Creation asks the router, which asks the directory and Slack; the channels' links sign
users in.

What is hard: a verifier call takes seconds between the read of a row and its
update; the sweep visits ids it selected earlier; transition and webhook row are
separate transactions; creation looks up, routes for seconds and then inserts; a
claimed delivery may be posted after its pin has run out, from a stale copy; a Slack
message is rewritten by whoever comes last; tokens are burnt in one transaction and used
in another; the directory's guards count in one statement and write in the next; a cookie
is believed without a look at the directory; and the process may die anywhere.
`PROJECT.json` lists these hazards, each at its line with the properties that would catch
it.

## Modules

### TaskLifecycle

Every write to a task row after its creation, from any channel, plus the audit
trail and the webhook rows. The trail has a second author: the notifiers report each
route that failed, whenever that is, with the status the task had when they loaded it.

One action is one transaction of the code. A handler with an `await` that matters
in the middle is several actions, and the variable `op[r]` holds its local
variables in between: the task, the attempt counter read before the verifier call,
the status read before the claim's `UPDATE`, and the row read back before the
webhook is enqueued.

| Variable | Code |
|---|---|
| `table`, `task` | the ids with a row in `tasks`, and the row (`Row`: status, answer, `verification_attempt`, assignee, whether a verifier applies, whether there is a `callback_url`). A deleted row's last content is kept so that properties may still mention it |
| `audit` | `audit_entries`, written in the transaction of the transition |
| `outbox` | the bodies of the task's rows in `webhook_deliveries` |
| `due` | tasks with `timeout_at` in the past |
| `op`, `batch` | the requests in flight and the timeout scheduler; the ids it still has to visit |
| `notifier` | of each task, the background task that notifies (Slack's first, then e-mail's), the status it loaded and how many routes it may still report |

| Action | Code |
|---|---|
| `BeginSubmit`, `RecordSubmission`, `SubmissionTooLate`, `VerifierFails` | `complete_task` up to and after the verifier call, its `rowcount == 0` branch, and a provider error |
| `BeginClaim`, `RecordClaim`, `ClaimTooLate`, `EmailHandoff` | `claim_task`, used by dashboard and Slack; the sign-in link's assignment in `routes/auth.py` |
| `Cancel`, `Delete` | `cancel_task`, `delete_task` |
| `Refresh`, `Announce` | what the HTTP routes and the scheduler do after the commit: read the row back, then `enqueue_completion_webhook` |
| `Sweep`, `TimeOut` | the scheduler's query and `timeout_task` for one id, including the branch where the task is already terminal and the one where it was deleted, which raises and drops the batch |
| `LoadForNotify`, `NotifyFails` | `channels/{slack,email}/notifier.py`: the one read of the row, which is a step of its own and may find the task ended; then `notification_failed` entries (`services/notification_audit.py`), one per failed route, for a deleted task too |
| `Expire`, `Crash` | time and process death |

The trail is read through `IsTransition`: a claim's entry and a notifier's report carry a
status that was read earlier, so neither is a record of what the task became. `SettledOnce`
says that one *transition* ends a task, and that whatever else in the trail names an ended
status comes after it and agrees with it. `AuditExplainsRow` says that the last transition
explains the row, whatever is recorded after it.

Abstractions: response, completer and channel of a submission are written by one
`UPDATE`, so a row's `answer` is the request that brought them. The verifier's
verdict is any verdict. `Active` is `{created, rejected}`: the intermediate values
of `TaskStatus` (`notified`, `assigned`, `in_progress`, ...) are written nowhere in
the server, and every guard treats them alike. A rejected submission's answer stays
in the row when the task later times out or is cancelled, in the code and here.

`op[r].pc = "refreshing"` only for the HTTP channels: `routes/slack/interactions.py`
and `routes/email.py` call `complete_task` and stop.

### TaskPromise

The promise behind it, in three actions: a task is asked, settled with one outcome,
and told about, with that outcome only. `TaskLifecycle` instantiates it with a
refinement mapping (`Promise`), and `KeepsPromise` says that it implements it.

### TaskCreation

`create_task` and its route under one idempotency key: `Lookup`
(`_find_task_by_idempotency_key`, a row of any status), `Route`, which takes seconds and may
leave the picked user's stamp waiting in the session (`pick`), then the commit. It is one of
three: `Insert`; `Conflict` when the partial unique index has an *active* row of that key,
then `Relookup`; or `PickGone` when the picked user was deleted meanwhile (`Stale`), so that
the stamp's `UPDATE` finds no row and nothing catches what the ORM raises. After `Insert`,
`Refresh` reads the new row back, and `Notify` is the background task of the call that
created it. `CallAgain` is an agent that starts over; `Settle`, `Delete` and `DeleteUser` are
the other writers. Two history variables say why a duplicate exists: `overtaken` holds the
callers that were routing or about to insert when a row settled, `late` the rows such callers
inserted. One key is enough: calls under different keys share no state the code looks at but
the directory, and what they do to that is the subject of `Routing`.

### WebhookQueue

Rows of `webhook_deliveries`, any number of dispatchers, the receiver, and the
operator's redrive. `Claim` pins every due row, `Fetch` loads the pinned rows into
ORM objects (`copy`), `Post`/`Reply` is the HTTP exchange, whose answer may be lost,
`Record` is `_record_outcome`: as the ORM does, it writes only the columns that
differ from the copy. `Drop` is a dispatcher that dies, or an exception that leaves
the tick (`Raises`: a URL the HTTP client rejects, which `schemas/task.py` lets through; such
deliveries are `Malformed`). An exception drops the whole batch. Its rows stay pinned to one
instant, come due together and are claimed together, so that a malformed delivery keeps the
good ones claimed with it from being sent, for ever if it is posted first each time
(`InBadBatch`); `EveryDeliveryEnds` therefore speaks of every delivery that is neither
malformed nor in such a batch, and the run has both kinds. `BeginRedeliver`/`FinishRedeliver` is `redeliver`, again load, then write.

Time is relative to now (`wait`, `age`), so that time may pass for ever in a finite
state space. Assumptions: the `LIMIT` of 50 is left out; two claims never pin a row
to the same microsecond (the `pin` field stands for that instant); and
`ClaimsAreQuick`: no unit of time passes between a claim's `UPDATE` and the `SELECT`
that follows it. Without the last one, two dispatchers can steal each other's pins
for ever; the code has nothing against it but the ratio of a query to ten seconds.
`excuses` counts, per delivery, the events that justify one more send; `MaxExcuses` bounds
how often a delivery is claimed from under a dispatcher that still holds it.

### AgentWait

The other end: a program that calls `await_human()` once per question, one question
after the other, in direct mode, in a Temporal workflow or in LangGraph nodes. `Program`
is the set of ways in which it may be written: the adapter, whether it leaves the key to
Temporal's default, and whether its LangGraph questions share a node. The
TypeScript SDK's await and adapters do the same (the map names their lines too). The
server is an instance of `TaskPromise`, so whatever holds here holds over everything
that `TaskLifecycle` is proved to be. The rows of a key are looked up as in
`TaskCreation`, whose races on one key need two callers at once and are left there.

| Variable | Code |
|---|---|
| `phase`, `outcome`, `told` | the promise: what the server has asked, settled, and enqueued a webhook for |
| `asked`, `gone`, `due`, `delivered` | the question each row was created for; the rows that were deleted; those whose deadline has passed; how often the webhook of each has arrived |
| `program`, `agent` | how this program is written; where it is: calling or waiting, for which question, on which row, and what Temporal's signal handler has captured (`holder`) |
| `thread` | LangGraph: the node's resume values, how many of them this execution has used, and the one that is new |
| `result` | everything that ever came out of each question, over all restarts |
| `strays` | history: which webhook resumed a graph that was parked on another question |

| Action | Code |
|---|---|
| `Post`, `PostLost` | the POST of all three, and what its caller does next (`DirectAnswered`, `TemporalAnswered`, `LangGraphAnswered`); the POST whose response is lost |
| `Poll` | `_poll_until_terminal` in `client.py`, up to a terminal status or a 404 |
| `Signal`, `Wake`, `Timer` | `dispatch_signal` and the handler it reaches; the two ways `workflow.wait_condition` ends in `adapters/temporal` |
| `Interrupt`, `Resume` | `interrupt()` and `dispatch_resume` in `adapters/langgraph`: a resumed node runs again from its start and posts every task again |
| `Settle`, `Announce`, `Deliver`, `Expire`, `Delete` | the server: `Announce` need not happen (`announce` below), `Deliver` may happen late and more than once |
| `Crash` | a program that dies or whose call raises, and starts over |

`Key(w)` is the idempotency key of a question. The one the SDK derives covers task and
payload, so that questions that differ in those have keys of their own; the Temporal
adapters' default is the workflow's id alone (`adapters/temporal/__init__.py:260`,
`temporal/index.ts:247-248`), and then a second question of the workflow finds the row of the
first (`Rows`), its signal has the same name (`Addressed`), and its timer starts from a
timeout that is not the row's (`Timer`).

Assumptions, beside those of the modules it stands on: LangGraph gives resume values to the interrupts of a node in the order of
their calls and forgets them when the node ends; a resume that arrives while the
graph runs is refused, and the queue retries it; an execution that was resumed does
not fail half-way. The Python packages of Temporal and LangGraph are external.

`MayCross` names every way in which a question can be given another's answer: that default
key, and under LangGraph, whose `interrupt()` is not told which task it waits for, questions
that share a node, and a webhook that comes when the thread is parked on another question.
`OnlyConfusionCrosses` says that there are no others; the run contains all three.

### SlackMessages

The Slack messages of one task and everything that writes to them. The task's row
appears as far as Slack reads it (`status`, `assignee`); its own transitions are those of
`TaskPromise`, taken by `Settle`, `SettleByEmail`, `Submit` and `Delete`.

| Variable | Code |
|---|---|
| `message` | what Slack shows for each `slack:` entry: its face (buttons, a claimer, a closing headline), the person its link signs in, the workspace it is in |
| `logged` | the entries with a committed `SlackTaskMessage` row |
| `notifier` | `notify_task`: which entries are left, which rows still wait in its session |
| `updater` | each run of `update_slack_messages_for_task`: the status it read and the messages it has left |
| `click`, `modal` | the handlers of "Claim" and "Open", between their database and Slack calls, and who has the modal open |
| `env`, `installed` | `SLACK_BOT_TOKEN` and `slack_installations`, from which `ClientFor` picks a client |

| Action | Code |
|---|---|
| `Load`, `Post`, `PostAnswered`, `PostUnanswered`, `Undeliverable`, `CommitRows` | the notifier. A message is visible from `Post` on, its row only from the commit on, be it the one at the end or the one of a failure's audit entry (`CommitFailure`) |
| `LoadTask`, `ListMessages`, `UpdateMessage`, `SkipMessage`, `NothingPosted` | an update after an ending |
| `ClickClaim`, `ClaimTask`, `ShowClaim`, `ClaimNotShown`, `ClickOpen`, `OpenModal`, `Submit` | `routes/slack/interactions.py` |
| `Settle`, `SweepSettled`, `SettleByEmail`, `AssignElsewhere`, `Delete` | the other writers of the row, with and without an update of the messages |
| `Install`, `Uninstall`, `Crash` | the OAuth flow, its removal, a dying process |

`Offenders` and `Renderable` are the capability matrix and the modal's renderers: a form
with an unrenderable field has messages whose only button leads to the dashboard. `missed`
says why a message may be stale: an update passed it over, it had no row when the update
listed them, a late claim wrote over it, or the task was completed by e-mail.

### EmailActions

The e-mail channel of one task: the notifier, the buttons with their single-use tokens,
the sign-in link, accounts and sender identities.

| Variable | Code |
|---|---|
| `consumed` | the `consumed_email_tokens` |
| `client` | what each browser's request is doing: a page that is open, a token just burnt, a verifier's call, a hand-off that has found or made its user |
| `account` | what the directory holds under each address; the hand-off (`Provision`) and administrators (`Administer`: creation, change and removal of a user) write it |
| `notifier`, `mailed`, `env`, `identities` | the notifier, who has a mail, and from which sender it could be sent |
| `used`, `lost`, `landed` | history: answers recorded per token, tokens whose request failed after burning them, recipients whom the link signed in |

The `GET` of a button renders a page and changes nothing, so a scanner that opens it has
no action of its own. The POST burns the token in one transaction and submits in others;
between the two the verifier may fail or the process die, and then the token is in
`lost`. `Option` and `SingleInput` say which forms get buttons.

### Directory

The users table as far as it decides who leads: state and `is_operator` of each id.
A request reads, counts and writes in separate statements (`Read`, `CountOperators`,
`Write`), and `Write` writes the columns that differ from what was read (`Merge`), as the
ORM does. `BeginSetup`/`Found` is the first-run setup, with the token that `EnsureToken`
makes at the start of a server with no users; `BeginBootstrap` is the command line, which
needs none and survives a restart of the server. `RemoveUser` is the CLI, whose guard goes
by the row it read before it asked for a confirmation. Several ids may share an address,
of which the unique index admits one row at a time.

### Access

Sessions, signed links, service keys, embed tokens and the limiter, on one clock; and whom
a request that shows one of them is taken for.

| Variable | Code |
|---|---|
| `sessions`, `embeds` | what was signed and has not expired. Signatures cannot be forged, so a credential that is believed was signed |
| `hits`, `admitted` | the limiter's lists, per address and per account; history: attempts let through. A list is a set of instants here, and attempts of one instant are told apart by a number |
| `request` | a log-in past the limiter (`Knock`), an e-mail hand-off that has read its user, a request that has found its key live |
| `ledAt`, `revokedAt`, `slow` | history: when each user was last an operator, when each key was revoked, and whose credential was signed from a row read before that |

`MayAdminister` is `require_admin`: the admin token, or a cookie that says operator.
`InAllowlist`, `ValidEntry` and `Clamped` are the embed service's checks, on origins made of
labels, more detailed than any property needs: the allowlist decides which origins a token
names, and no property speaks of origins. A tick is a unit of every lifetime; what can no longer be believed is dropped.
`Presented` are the requests one can make with the credentials there are, and `Identify` is
what the middleware and `core/auth.py` make of each: an embed token decides before the admin
token, and that before the cookie.

### TaskViews

What each caller sees of the tasks, as operators over a constant table of rows: reading
changes nothing. `MayRead`, `CanOpen` and `CanAudit` are the checks of a task by its id and
of its audit trail; `Scoped`, `InStatus`, `Assigned` and `Page` are the list's narrowing for
reviewers, its filters and its pages; `TaskToResponse` is what a row becomes, with the
payload left out of lists and users named who are still there. `Agrees` compares the three.
To a session or the admin token they say the same of every task. An embed token opens its own
task and no other, and is refused both that task's audit trail and every list (a list that is
refused lists nothing): the property says this of it too, and speaks of every caller.
`Access` extends this module, and its `ViewsAgree` and `ReadersAreEntitled` join the two:
credentials, identities and views.

### Routing

Who gets a task. A creation picks by attributes (`PickByFilter`: the new stamp waits in
the session until `Insert`), by address, or, without either, by the one Slack handle in
`notify`, which it resolves through `index`, a copy of the workspace's roster
(`_HANDLE_CACHE`), or fetches (`SlackLists`, `SlackFails`, `BuildIndex`). After the insert
the same creation resolves the handle again to deliver the message. `Insert` commits task
and stamp together, `Refuse` is the rollback on a conflict of keys or on a user deleted
meanwhile. `Administer` and `Rename` change directory and roster underneath. `dealt`,
`bypassed` and `together` are history: the turn of each user's latest task, how often
each of the others got the task a user was in line for, and whether two creations fetched at
one time.

### DevServer

Runs of `awaithumans dev`, and programs of both SDKs that look for one: ports, the secret
files of the directory, and the one discovery file in the user's home, each access to a
file an action. `write_text` truncates and then writes, so a reader may find an empty file,
and two writers a garbled one. A killed run cleans nothing up, and its process id may
belong to another run later (`Alive`). Python resolves URL and token in two reads and
deletes a stale file; TypeScript reads once and keeps what it found. Three history variables
say why an agent may not get through to a server that serves: its entry was overwritten,
garbled or deleted by another run or by a reader that had looked at an older entry
(`effaced`), it was written after the agent began to look (`missed`, per agent), or the
secret of its directory is a casualty (`muddled`). Runs may overlap, start while an agent
looks and be killed anywhere; `ServersAreFound` speaks of all of them.

## Runs, bounds and fairness

| Run | Shows | Bounds, and why they are enough |
|---|---|---|
| `lifecycle_safety` | the trail and the row agree, answers stand, attempts and claims are on record | one task (tasks share nothing but the scheduler's batch), three requests: two that race and one that was there before or comes after; two users, so that a claim can be lost to another user; two attempts, so that there is a first and a last; a notifier with one route that fails, at any time; one crash; SQLite. The channel is Slack: which channel a submission came by matters only to what is announced |
| `lifecycle_liveness` | expired tasks settle; HTTP settlements are announced; webhooks agree; the promise is kept | two tasks, so that one can spoil the batch for the other; one request, over HTTP or from an e-mail, which announces or does not; one crash; Postgres. Nobody is notified (`MaxRoutes = 0`): the notifiers write to the trail alone, of which none of the four properties speaks |
| `creation` | duplicates are late, reviewers pinged once, errors explained, creators notified | three callers (winner, loser, and one overtaken), four ids, which never run out, one user to pick, who may be deleted while picked, one deletion of a task, one crash |
| `webhooks` | resends explained, no success buried, every delivery ends | two dispatchers, a good delivery and a malformed one, so that a batch can be good, bad or mixed; pin and backoff of one unit and a largest age of two, so that a row can be retried, stolen and abandoned; one redrive, one crash; a delivery that has two excuses already is not stolen again (`MaxExcuses`) |
| `agents` | answers are the question's own, but for the ways in which they are not; reports are true, the same after a restart; one task per key; waits end | five programs: direct, Temporal with a key per question and with the default key, LangGraph with a node per question and with one for both; two questions, so that one can get the other's answer; three rows, one more than that for a row that was deleted; one deletion, one failure, two deliveries of each webhook |
| `slack` | stale messages are explained, headlines are true, links and names are the assignee's | a channel and a direct message, in two workspaces of which one is the environment's or none is; two claimers, so that one loses; two updates, so that they overtake each other; two endings; one crash, one installation or removal |
| `email` | tokens act once, are not burnt without a reason, and links lead to an owned task | two recipients with a button and a link each, two browsers, so that a button is opened twice at one time; a third reviewer who claims elsewhere; one sender identity, no default transport, so that one mail is undeliverable; one crash, one change by an operator |
| `directory` | lockouts are races; founders are explained | two requests at a time, which is what a race takes; three ids of which two share an address; one restart |
| `access` | credentials fade, revoked keys stay revoked, the window holds at its edges; readers are entitled, and the views agree, of an embed token too | one user, one key, two addresses and two requests; lifetimes and leeway of one tick and a clock of two, so that everything expires; a limit of one per window of two; one change of the user; a wildcard entry and four origins around it; four tasks, of a user, of one who was deleted, of an address, and of nobody; two searches, and pages of up to four |
| `routing` | turns come with tasks, waiting is bounded, the recipient is the assignee | two users, two creations at a time, five turns, so that stale stamps can be written and passed on (of the four tasks `Backlog(2)` allows, five turns reach three; a sixth turn reaches the fourth and doubles the run); a handle that names either user or nobody; one change of directory or roster, one restart |
| `dev` | a server is found unless its entry was effaced or is newer than the search; the runs of a directory share its secrets | three runs, two in one directory, which overlap in any way; two ports, two process ids, so that one is reused; one program of each SDK, two calls |
| `announce` | a statement of the documentation, refuted | the smallest instance with a counterexample |

The bounds are `MaxCrashes`, `MaxDeletes`, `MaxRoutes`, `MaxRedrives`, `MaxExcuses`,
`MaxFailures`, `MaxDeliveries`, `MaxChanges`, `MaxRestarts`, `MaxPicks`, `MaxCalls` and
`MaxTime`, the sizes of `TaskId`, `Task`, `Id` and `Server`, and the requests, browsers and
updaters where each is used once.
History variables that count are bounded by them. `slack`, `routing` and `directory` have
two to five million distinct states, the others fewer.

Fairness. The timeout scheduler and the webhook schedulers are `while True` loops
that catch every exception of a tick and sleep, so they are weakly fair, an
exception included. A handler that has started runs on: database calls, the verifier
and `httpx` with its timeouts return or raise. Deadlines pass. Nothing obliges a
human to answer, an agent to call again, a receiver to reply, or an operator to
delete or redrive; crashes are never required. `HttpSettlementsAnnounced` and
`CreatedTasksAreNotified` therefore except a crash: work between two transactions
dies with the process, and nothing takes it up again. They would not catch that loss, which
is the code's, and the hazards that are about it carry a note instead of a property. What a
malformed URL does to a batch is excepted by `EveryDeliveryEnds` in the same way.

For `WaitsEnd` the agent's program is weakly fair (its poll loop and its workflow run
on), deadlines pass and expired tasks time out (`ExpiredTasksSettle`), and a webhook
that was enqueued arrives at least once. That it is enqueued is not assumed: Temporal
has its timer, direct mode its poll, and of LangGraph, which has neither, the property
only speaks once the webhook is in the queue. `lifecycle_liveness` says when that is.

The runs of `AgentWait`, `SlackMessages`, `EmailActions`, `Directory`, `Access`, `Routing`
and `DevServer` do not check for deadlock: a program that has its answers, a task whose
messages are final, a directory whose ids are used up, or a clock at its bound stop. The
modules after `AgentWait` state no fairness, as none of their promises is one of progress:
Slack's and the mail transport's answers, clicks and administrators are nobody's duty.

## Proofs

`TaskLifecycle_proofs` proves, for every number of tasks, requests, users, attempts
and crashes, on SQLite and Postgres alike, and from `LifecycleAssumption` alone:

| Theorem | Statement |
|---|---|
| `AlwaysTyped`, `TypeCorrect` | `Spec => []Typed`, hence `[]TypeOK` |
| `SettledForGood` | `Spec => SettledIsFinal` |
| `AuditSettlesOnce` | `Spec => []SettledOnce` |
| `AuditExplains` | `Spec => []AuditExplainsRow` |
| `AcceptedForGood` | `Spec => []AcceptedAnswerStands` |
| `WebhooksAlwaysAgree` | `Spec => []WebhooksAgree` |
| `Refinement` | `Spec => KeepsPromise` |
| `ExhaustedOnRecord` | `Spec => []NeverExhaustedEarly` |
| `ClaimsHold` | `Spec => []ClaimedByWinner` |

`TaskCreation_proofs`, for every number of callers, rows, deletions and crashes, from
`CreationAssumption`:

| Theorem | Statement |
|---|---|
| `CreationTyped` | `Spec => []TypeOK` |
| `DuplicatesAlwaysLate` | `Spec => []DuplicatesAreLate` |
| `AlwaysNotifiedOnce` | `Spec => []NotifiedOnce` |
| `ErrorsAlwaysExplained` | `Spec => []ErrorsAreExplained` |

`WebhookQueue_proofs`, for every number of deliveries, every finite number of
dispatchers, every backoff schedule, and any number of redrives and crashes, from
`QueueAssumption`:

| Theorem | Statement |
|---|---|
| `QueueTyped` | `Spec => []TypeOK` |
| `ResendsAlwaysExplained` | `Spec => []ResendsAreExplained` |
| `SucceededAlwaysReceived` | `Spec => []SucceededMeansReceived` |
| `SuccessNeverBuried` | `Spec => []SuccessIsNotBuried` |

`AgentWait_proofs`, for every number of questions, rows, deliveries, failures and
deletions, and for every set of programs, whatever their adapter and their keys and nodes,
from `WaitAssumption`:

| Theorem | Statement |
|---|---|
| `AgentTyped` | `Spec => []TypeOK` |
| `AnswersNeverCross` | `Spec => []OnlyConfusionCrosses` |
| `ReportsAlwaysTrue` | `Spec => []ReportsAreTrue` |
| `RerunsAlwaysAgree` | `Spec => []RerunsAgree` |
| `AlwaysOneTicket` | `Spec => []OneTicket` |

`EmailActions_proofs`, for every number of recipients, options, browsers, senders and
reviewers, of crashes and of changes, from `EmailAssumption`:

| Theorem | Statement |
|---|---|
| `AlwaysTyped` | `Spec => []Typed` |
| `ButtonsActOnce` | `Spec => []TokensActOnce` |
| `BurntAlwaysExplained` | `Spec => []BurntTokensExplained` |
| `LandedAlwaysOwned` | `Spec => []LandedMeansOwned` |

`DirectorySlack_proofs`, on `Directory` for every finite set of ids, whatever addresses they
share, and every number of requests and restarts, from `DirectoryAssumption`; and on
`SlackMessages` for every set of routes, workspaces, claimers and updates, and every number of
crashes, installations and endings, from `SlackAssumption`:

| Theorem | Statement |
|---|---|
| `AlwaysTyped` | `Spec => []Typed` |
| `LockoutsAlwaysRaces` | `Spec => []LockoutsAreRaces` |
| `FoundersAlwaysExplained` | `Spec => []FoundersExplained` |
| `SlackAlwaysTyped` | `SlackSpec => []SlackTypeOK` |
| `HeadlinesAlwaysTrue` | `SlackSpec => []HeadlinesAreTrue` |
| `LinksAlwaysNameTheAssignee` | `SlackSpec => []LinksNameTheAssignee` |
| `StaleAlwaysExplained` | `SlackSpec => []StaleMessagesExplained` |

`Routing_proofs`, for every number of users, creations, turns, changes and restarts, every
set of attributes and handles, from `RoutingAssumption`:

| Theorem | Statement |
|---|---|
| `AlwaysTyped` | `Spec => []Typed` |
| `TurnsAlwaysComeWithTasks` | `Spec => []TurnsComeWithTasks` |
| `RecipientIsAlwaysAssignee` | `Spec => []RecipientIsAssignee` |
| `WaitingAlwaysBounded` | `Spec => []WaitingIsBounded` |

`AccessDevServer_proofs`, on `Access` and `TaskViews` for every set of users, keys, addresses
and requests, every lifetime, limit and window, every length of the clock, and every table of
tasks, from `AccessAssumption` and `TaskViewsAssumption`; and on `DevServer` for every number
of runs, directories, ports, process ids and programs, from `DevAssumption`:

| Theorem | Statement |
|---|---|
| `AlwaysTyped` | `Spec => []Typed` |
| `KeysAlwaysStayRevoked` | `Spec => KeysStayRevoked` |
| `CredentialsAlwaysFade` | `Spec => []CredentialsFade` |
| `WindowAlwaysHolds` | `Spec => []WindowHolds` |
| `ViewsAlwaysAgree` | `Spec => []ViewsAgree` |
| `ReadersAlwaysEntitled` | `Spec => []ReadersAreEntitled` |
| `DevAlwaysTyped` | `DevSpec => []DevTypeOK` |
| `SecretsAlwaysShared` | `DevSpec => []SecretsAreShared` |
| `ServersAlwaysFound` | `DevSpec => []ServersAreFound` |

The assumptions ask only for the constants' types: naturals where the code has
naturals, a non-empty schedule, a `NONE` that is nobody, and, for the queue, finitely
many dispatchers, since its invariant counts them, for the directory, finitely many ids,
for the router, finitely many creations at a time, and at least one, for the views, finitely
many tasks, for the limiter a limit and a window that are not 0, and for embed tokens what `utils/constants.py` fixes, a leeway and a shortest lifetime no
longer than the longest.

*The lifecycle.* `TypeOK` is not inductive: a claim logs the status it read before its
`UPDATE`, and only since it was read from an open row is it a status an audit entry
may have. `Typed` adds `Grounded(p)`: a handler in flight has a task, and one that is
claiming has a user and an active status. From `Typed`, a *step characterisation* is
proved once: every step leaves the row and the trail of each task alone, or moves
both together, from an open row, by one entry that describes the new row (`RowStep`,
`Describes`), or adds an entry that records no transition. Of those, a claim's names an open
status and a notifier's may name an ended one, but only one that it has loaded; `Recalled`
adds that this is the status the task still has. `SettledIsFinal`, `SettledOnce` and
`AuditExplainsRow` follow without another look at the actions. For the answers and the webhooks the invariant
has to speak of what a handler holds in its hands: `Truthful(p)` says that an
accepted submission is in its completed row, and that a handler about to announce
holds the outcome of a settled task. It is preserved because settled rows do not
change. The refinement maps each transition to `Ask`, `Settle`, `Tell` or a stutter,
again from `Truthful`.

*Attempts.* The counter in a row may go back: of two submissions whose verifier calls
overlap, each writes the value it read plus one. What is inductive (`Counting`) is
that every attempt up to a counter, be it the row's (`CountedInRow`) or the one a
submission holds (`CountedInHand`), was rejected on record. A task is exhausted by a
submission that held `MaxAttempts - 1`, and so has all attempts on its trail.

*Claims.* `Claiming` adds to `ClaimedByWinner` what keeps it: a task without an
assignee has no claimer who was told that they won.

*Creation.* The heart of `Inductive` is `FreshLookups`: a caller that is routing and
was not overtaken knows that no row has settled, so that if the unique index lets it
insert, there is no row at all. Hence at most one row is not late (`AtMostOne`), and a
call fails only among several rows, one of them late, or where one was deleted, or where the
user it carries as its pick has no row any more, which stays so, as ids are not used twice.

*The queue.* A post is a send that somebody owns. `WithinBudget` counts, for each
delivery, what was received, the dispatchers that still own a send (`Owners`) and the
row itself if it may be claimed (`RowFree`): together at most `1 + excuses`. Each step
keeps the sum, moves a unit from the row to a dispatcher (a claim), from a dispatcher
to the receiver (a post), or creates one together with its excuse; `BudgetStep` states
these cases once. `NotBuried`, `Untouched`, `Heard` and `Answered` say what a row and
a dispatcher's stale copy know of the receiver.

*The agent.* A report is `Justified` by the server's state, and stays so because the
server takes nothing back (`ServerKeeps`, `JustifiedStays`): that much needs only the
promise. What the program holds before it returns it must be justified as well, and
be for the question at hand, unless `MayCross` names the reason: a captured signal (`GotOK`), resume values (`SavedOK`,
`FreshOK`), and outside LangGraph there are none (`NodeOK`). `StepCases` then goes
through the actions once: each step ends one call with a justified report of its own
question, or one that `MayCross` (`Ends`), or ends none (`Quiet`). `RerunsAgree` and
`OneTicket` rest on `OneRow`, that a key has one row that was not deleted, and on `AskedOnce`,
that a workflow, whose timer may be at odds with the server, never asks twice.

*E-mail.* `Typed` adds what a browser's request holds between two statements. A token is
burnt under its unique key before its answer is written, so that no two requests carry the
same one (`Alone`) and the one that does has not answered yet (`Burnt`): `Tokens` joins
these to `Spent`, that answered tokens are burnt, and to `Explained`, which follows each
burnt token to its request's end.

*The directory.* `Spared` says that a request about to take an operator away has counted
another one. If its count still holds when it writes, that other one stays; if not, the
write is a race and is remembered as such (`WriteKept`). `Founded` says of a setup
past its check that there had been no founder then, unless there was a race; a second
founder is therefore one whose check another setup overlapped.

*Routing.* `OneCopy` says that, without two fetches at one time, whoever fetches the roster
does so while there is no copy: a copy, once made, is not replaced, and both the assignee
a creation derived and the person it resolves for its message are that copy's
(`Agrees`). Turns are inductive by themselves.

*Waiting.* Take two users in line, u and v, and the tasks v gets until u gets one. The user
assigned a task less recently goes first (`Before`); while that is v, every creation may pick
v, and once one of them has written its stamp, which is later than u's last one, u goes first
and only those that had already picked v can still get ahead (`Ahead`). What starts it over
is a creation that picked v long ago and writes a stamp from before u's last turn (`Late`).
`Fits` is the account of it: the tasks so far, a triangular weight for the late stamps that
are left, each of which lets all creations that are not late themselves pick once more, and
twice the picks in hand stay below `Ceiling`, twice `Backlog(n)`. A pick needs no new room
(`FitsPick`: while v goes first, all picks are paid for), a later stamp turns a pick into a
task (`FitsLater`), a late one lowers the weight (`FitsLate`), and a task of u's own starts
afresh, with at most n - 1 late stamps left, as the creation that brought it is not one of
them (`FitsAfresh`, `TakerWaits`). `Stamped` says that the stamps that wait to be written are
different from each other and from those in the table.

*Access.* `Fading` relates each credential's expiry to the record of its right:
`SessionFades` says that an operator's cookie expires within one lifetime of now, and of
when its user was last an operator; `EmbedFades` says the same of tokens and keys. The
record is made at a moment at which the credential is at most one lifetime old, and
neither moves afterwards. `Tallied` is the limiter's: a list is never longer than the limit,
and what an address was let through within a window of now is still on its list (an
account's list is emptied by a log-in, an address's is not); a new attempt differs from all
on the list since the attempts of one instant are numbered without gaps (`Numbered`). A
window that ends before now was counted when it ended.

*Views.* `AllAgree` compares the three views check by check, for every caller and every
request, embed tokens apart, and `IdentityIsCaller` says that what the middleware makes of a request is one of
those callers; hence the views agree. `ReadersAreEntitled` then follows a view back through
`Identify` to the credential, and `CredentialsFade` says what that one is worth.

*Slack.* `Typed` needs that a click has its message (`Held`) and that an update past its read
has a face to show (`Faced`). A wrong headline would come from an update that read the row
earlier, so `Headed` and `Linked` speak of what each update and each claim holds as well as
of the messages: a headline in hand is that of an ended task, which stays ended, and a link
in hand names the assignee, who once set is not replaced. For stale messages, `Booked` says
where each message is accounted for (still to be posted, waiting for its row, in the table,
or missed) and `Minded` that, once the task has ended, whatever still awaits its headline and
is not missed has an update that will come to it (`Minds`).

*The development server.* `Shared` says, of a directory where no two runs wrote one secret
file at a time, what each run knows of the file at each step, and that a file found empty is
being written by somebody. `OwnEntries` says, of a run whose entry was not effaced, that the
handle with which it writes is on the discovery file and that the file holds its entry from
then on (`Placed`, `PlacedIsEntry`), so that there is one such run at most: a reader or a run
that would take the file away effaces it. `Looked` carries that to what a program has read:
it deletes nothing, and URL and token are that run's, unless it began to look before.

Only model-checked is liveness under `FairSpec`, since the prover has neither `ENABLED` nor
induction over data: `ExpiredTasksSettle`, `HttpSettlementsAnnounced`,
`CreatedTasksAreNotified`, `EveryDeliveryEnds` and `WaitsEnd`. Every invariant and every
action property that a passing run checks is proved. What the run `announce` shows is a
counterexample that TLC finds.

## Where the code and its documentation differ

One statement is refuted by a run; `PROJECT.json` quotes it: a task completed from Slack
or by e-mail gets no webhook (`announce`).

The models have the following behaviours as well, which a comment or a page describes
otherwise.

*Tasks, keys and webhooks*

- `docs/concepts/idempotency.mdx:10` has "same key, same task, always". A caller that was
  routing while a row of its key settled inserts another one (`DuplicatesAreLate`), and
  lookups of that key then raise (`ErrorsAreExplained`).
- `docs/adapters/verifier.mdx:11` has exhaustion after `max_attempts`. Overlapping
  submissions write the same attempt, so more rejections may be on record
  (`NeverExhaustedEarly` is the half that holds).
- `routes/tasks.py:495-497` puts a cancel and its webhook in one transaction; they are two,
  and a crash in between leaves the one without the other.
- `db/models/webhook_delivery.py:21-24` excludes double sends. A pin of ten seconds is
  shorter than a slow tick, so a second scheduler may post a delivery the first one is
  posting (`ResendsAreExplained` counts it).
- `routes/webhook_deliveries.py:91-93` gives a redriven delivery fresh retries. Neither its
  age nor its attempts are reset, so that its first failure abandons an old one again.
- `docs/webhooks.mdx:188` ends every delivery after the schedule. A malformed callback URL,
  which `schemas/task.py:27` accepts, raises past the dispatcher's `except` and leaves its row
  pending for ever; with it the rows that were claimed in the same batch, which is claimed
  together ever after. `EveryDeliveryEnds` says which rows do end.
- The audit trail is not in the order of what happened: a `notification_failed` entry carries
  the status from when the notifier loaded the task, so that a trail may end on `created` for
  a completed task, or name a terminal status twice (`SettledOnce`, `AuditExplainsRow`).
- A creation fails with an error that nothing maps, and no task, when the user it picked is
  deleted before its commit (`ErrorsAreExplained`).

*Agents*

- `docs/adapters/langgraph.mdx:197` allows several `await_human` calls in one node. When the
  node is replayed, a settled question returns without an `interrupt()`, and the next one
  is given its answer (`MayCross`).
- `docs/adapters/temporal.mdx:186` and `docs/concepts/idempotency.mdx:46` have the default
  key made of task and payload. Under Temporal it is the workflow's id alone
  (`adapters/temporal/__init__.py:260`, `temporal/index.ts:247-248`): the second question of a
  workflow that relies on it is answered with the first one's task (`MayCross`).
- `routes/tasks.py:559-564` leaves `verification_attempt` out of the poll's response, so
  that the direct SDK reports no attempts ever.

*Slack*

- A rejection that leaves the task open is followed by an update
  (`routes/slack/interactions.py:543`), which rewrites the message to a neutral "Closed":
  `channels/slack/blocks/surfaces.py:190-191` is meant for tasks that are no longer
  actionable.
- `channels/slack/post_completion.py:138-141` does not fall back to another workspace;
  the function it calls does, to the environment's token (`channels/slack/client.py:67-75`).
- `db/models/slack_task_message.py:13-14` updates all messages on completion. A completion
  by e-mail updates none, and a message without a committed row is not found.

*E-mail*

- A token stays burnt when the verifier's provider fails after it, and when the answer is
  rejected, the page says that it was recorded.
- The completer is looked up by the address as it was mailed (`routes/email.py:274`), while
  the hand-off lower-cases it (`routes/auth.py:290`).

*Directory and setup*

- `services/user_service.py:169-170` and `229-231` keep the last active operator. Two
  requests that both count two and write one each leave none.
- `routes/setup.py:90-94` has unique constraints stop a second set-up; they do for the same
  address only.
- `cli/commands/remove_user.py:23` refers to a command `update-user` that does not exist.

*Access*

- `core/auth.py:95-98` has a fresh check of `is_operator` before a mutation; `require_admin`
  believes the cookie, with which a demoted operator may promote themselves until it
  expires.
- `routes/tasks.py:602` has "Same allow-list as `GET /tasks/{id}`" for the audit trail. The
  holder of an embed token opens the task (`321-326`) and is refused its trail (`612`).
- `ttl_seconds` of 0 means the default lifetime rather than the shortest
  (`routes/embed.py:74`), and one invalid entry in the allowlist stops every mint.

*Routing*

- `services/task_router.py:15-18` has concurrent tasks pick different users, which
  `148-150` of the same file and the code deny; `WaitingIsBounded` is what holds.
- An explicit address assigns an inactive user as well (`task_router.py:84-95`), and a
  picked user who is deleted before the commit makes the creation fail.
- A list of addresses in `assign_to` is serialised to a form the router does not know, where
  `docs/routing/overview.mdx` speaks of the first one's user.
- The copy of the roster lives as long as the process: a handle that changes hands keeps its
  first owner (`RecipientIsAssignee` is why the message is at least consistent).

*Development server*

- `awaithumans dev` deletes the discovery file at exit whoever's entry it is, twice, and a
  Python program that has looked at a stale entry deletes the one that has replaced it. A
  server that is effaced so is not found (`effaced`), although it serves.
- A server that reads a secret file another one has just truncated runs with an empty
  secret (`muddled`).

Noticed while reading and outside the models: the audit entry's `from_status` equals
its `to_status` for completions, cancels and time-outs, since the guarded `UPDATE`
refreshes the object it is then read from (`task_service.py:465`, `508`, `547`);
a claim's entry may carry a status that is no longer the row's (modelled: `seen`);
the schedule of `utils/constants.py:213-219` sums to more than the age cap it is
described to fit; `docs/adapters/temporal.mdx:171` still says that webhooks are not
retried; a webhook that comes late or twice is taken by whatever interrupt a LangGraph
thread is parked on (modelled: `strays`); a task completed from Slack or by e-mail never resumes a LangGraph
graph and runs a Temporal workflow into its timer (modelled: `Announce` may be absent).

## What is not modelled

- The verifier's prompts and provider APIs: the verdict is any verdict, a provider failure
  is an action.
- Forms and schema extraction beyond the kinds of fields the channels tell apart, HTML and
  Block Kit layout, message texts: pure translation, without state.
- Statistics: queries that change nothing.
- The dashboard holds no state the server does not. Of the CLI, `dev`, `bootstrap-operator`,
  `add-user` and `remove-user` are modelled; the others print or start things.
- Cryptography: a signature that verifies was made. Requests refused for a bad signature
  (Slack's, a webhook's, a cookie's) change nothing.
- `SERVICE_API_KEY`, the key from the environment: it has no row and cannot be revoked
  (`routes/embed.py:43`).
- E-mail-shaped Slack targets, which are looked up each time instead of in the copy of the
  roster.
- The TypeScript SDK's await and adapters mirror the Python ones and have no module of their
  own: `AgentWait` stands for both, and the map names their lines beside the Python ones.
- A database that cannot be reached: every statement may then fail, and the handler with it.
- The `LIMIT 50` of a claim, the sleep times of the loops, HTTP details, and changes of a
  user's name, password or attributes, which no property depends on.

## Plan

1. A composition of `AgentWait` with `WebhookQueue`, which would replace the free choice of
   late and repeated deliveries by the queue's own.
2. The TypeScript adapters, as further fields of `Program` in `AgentWait`, where they differ
   from the Python ones.
3. The steps that the liveness properties rest on, as far as they are safety: what an expired
   task, a due delivery or a waiting agent has that makes the next step possible.
