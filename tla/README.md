# Verification of Yume (Hayase)

TLA+ models of the concurrent core of the Yume anime platform, checked with TLC
on small instances and, where it matters most, proved with TLAPS for every size.
`PROJECT.json` is the index: components, runs, the source lines behind every
definition, findings, hazards and theorems. Paths below are relative to
`src/apps/api/src/` unless they start with `src/`.

Results in short: 9 passing runs, 3 runs in which TLC violates something a
comment of the source says (section *Findings*), 60 listed theorems in 8 proof
modules, among them every safety part of what the passing runs check and three
refinements.

## 1. The system

Several processes share one PostgreSQL database and nothing else:

```
 browser ──HTTP/WS──> API process(es) ──┐
 Discord dashboard ──HTTP──> API        ├── PostgreSQL (tables, NOTIFY)
 worker process(es) ── jobs table ──────┤
 gateway process ── Discord WebSocket ──┘      all of them ──HTTPS──> Discord,
                                               webhooks, providers, AniList, S3
```

Inside a process there is one JavaScript thread: what interleaves are the
continuations between two `await`s. Across processes what interleaves are SQL
statements. Both are the grain of the models: **one statement, or one stretch of
code between two awaits, is one action**.

### Components

| Component | State | Operations | What is hard | What must hold |
|---|---|---|---|---|
| Job queue (`infrastructure/queue/index.ts`) | `jobs` table; lanes of each worker | enqueue, claim, beat, complete, failJob, retryJob, prune | leases that expire under a running handler, late heartbeats, lost replies, death on the last attempt, dedupe keys that come free and are taken again | one run settles a job; done is final; one open job per key; every job ends; deaths are announced |
| Wake-up channel (`infrastructure/queue/wake.ts`) | LISTEN connection, sleepers, subscribers | subscribe, sleepUntilWork, notifyJob, reconnect | notification between an empty claim and the sleep; doubled reconnects | a sleeping lane wakes for new work or polls |
| Worker (`workers/index.ts`) | abort signal | schedule, run, drain | restarts, deployments | nothing claimed is dropped by a graceful stop |
| Persistent messages (`modules/discord/persistent-messages.ts`) | a row per message: id, hash, failures, lock | syncMessage, recreateMessage, due | lock with expiry, row read before the lock, Discord calls whose answers are lost | one message; it shows the data; no endless retries |
| Sessions (`modules/auth`, `middleware/auth.ts`, `modules/users`) | `sessions`, `token_version`, `versionCache` with live sets | login, refresh, logout, logout-all, password, reset, delete, token check | rotation against retries and theft, cache filled by checks in flight, sign-out against sign-in | a signed-out token stops; a live one is never refused; one successor per refresh token |
| WebSocket hub (`infrastructure/websocket`) | clients, channels, `ws_tickets` | connect by ticket, join, leave, publish, sweep | join that resumes after close, sweep with stale rows | a ticket admits one socket; rooms are told the right count; a signed-out socket is closed and no other |
| Pub/sub (`infrastructure/pubsub`) | one LISTEN connection | start, stop, broadcast, rehydrate | errors of old connections, stop while connecting | at most one listener; no echo to the sender |
| Discord gateway (`modules/discord/gateway*.ts`) | engine state, collector, pending state write | HELLO, heartbeat, READY, RESUMED, INVALID_SESSION, close, flush | timers of old sockets, failed state writes merged with newer ones | resume only with a complete session; no counter lost or counted twice |
| Discord REST client (`modules/discord/rest-client.ts`) | global pause | request | pause read before the wait | no call during a global pause |
| Webhooks (`modules/webhooks/delivery.ts`) | `webhooks.failure_count`, `enabled`, pacing slots | emitEvent, deliver | parallel deliveries, retries of delivered messages | switched off after 20 failures in a row, same delivery id on retry |
| Providers (`modules/providers`) | circuit breaker per provider | usable, succeeded, failed, resolve | late answers while half-open | a dead provider is left alone, a live one comes back |
| Maintenance (`modules/maintenance`) | policy, schedule, cache, bypass | begin, end, check | cached policy, overlapping windows | nobody is locked out after the end |
| Edge (`modules/edge`) | counters, bans, risk | count, ban, expire | counters flushed in batches | a ban ends when it says |
| Storage (`infrastructure/storage/s3.ts`) | uploads | put, multipart | parts failing while others fly | a finished upload is the file |
| Monitoring alerts (`modules/system/alerts.ts`) | `monitor_alerts` | collect, open, raise, resolve | cycles that overlap and write from copies | one open alert; who was told of the start is told of the end |
| Watch progress (`modules/library`, `modules/system/stats-worker.ts`) | `watch_history`, `xp_events`, `profile_stats` | recordProgress, grantNew, recompute, founder | reports of several devices, jobs dropped as duplicates | paid once; the ceiling of a day; numbers catch up |
| Guild setup (`modules/discord/setup.ts`, `registry.ts`) | registry rows, reset tickets | plan, apply, repair, factory reset | no lock between runs, changes by hand | a reset deletes only what is ours |
| Guild feeds and notices (`episode-feed.ts`, `moderation-feed.ts`, `dm-notify.ts`, `role-sync.ts` of `modules/discord`) | claim rows, counters, role rows | rounds of the worker, buttons, switches | rounds that overlap and die | told at most once; one verdict; a given role is remembered |
| Discord link (`modules/discord/oauth.ts`, `guild-access.ts`) | links, states, membership copies | start, callback, unlink, check, renew | answers of Discord that come late | only who had the right lately gets in |
| Browser session (`src/apps/web/src/shared/api/yume.js`) | token, cookie, Web Lock | request, refresh, logout, resume | tabs that refresh together | no race signs the browser out |
| Lists, analytics, catalogue, community, settings, HTTP, pages | tables | CRUD | mostly single statements | see `PROJECT.json` |

Calls between them: everybody calls `enqueue`; the worker calls the handlers
(`syncDueMessages`, `deliver`, rollups); `failJob` calls the dead-job listeners,
which enqueue webhooks; every route calls `tokenIsCurrent`; the hub re-checks the
same rows; chat publishes through hub and pub/sub.

## 2. Modules

| Module | Models | Run | Proofs |
|---|---|---|---|
| `JobLedger` | abstract: what the queue promises | refined by `JobQueue` | `JobQueueProofs` |
| `JobQueue` | the queue, its workers and administrators | `MCJobQueueSafe`, `MCJobQueueLive` | `JobQueueProofs` |
| `Wake` | how an idle lane learns of work | `MCServices` | `ServicesProofs` |
| `PersistentMessage` | one record, its Discord channel, workers and administrators | `MCDiscordSafe`, `MCDiscordLive` | `PersistentMessageProofs` |
| `Sessions` | one account: sessions, tokens, cache, requests | `MCSessions`, `MCSessionsSurvivor` | `SessionsProofs` |
| `BrowserTabs` | the tabs of a browser that share a session | `MCAccess` | `AccessProofs` |
| `WebSocketHub` | the sockets of one account in one API process | `MCWebSocketHub`, `MCWebSocketHubGhost` | `WebSocketHubProofs` |
| `PubSub` | the LISTEN connection under the hub | `MCServices` | `ServicesProofs` |
| `StateWriter` | the gateway's pending state write | extended by `Gateway` | `GatewayProofs` |
| `Gateway` | the gateway process | `MCGateway` | `GatewayProofs` |
| `GuildSetup` | one channel of a guild: registry row, setups, resets, people | `MCDiscordSafe`, `MCGuildSetupForeign` | `GuildProofs` |
| `AtMostOnce` | abstract: claim first, then send | refined by the next two | `GuildProofs` |
| `GuildNews` | episode feed, moderation feed, moderators | `MCDiscordLive` | `GuildProofs` |
| `DmNotices` | notices by direct message, with their switch | `MCDiscordLive` | `GuildProofs` |
| `RoleSync` | roles of linked members | `MCDiscordLive` | `GuildProofs` |
| `GuildAccess` | the Discord link and the right to the dashboard | `MCAccess` | `AccessProofs` |
| `EdgeBans` | the bans of one subject | `MCAccess` | `AccessProofs` |
| `MaintenanceCache` | the maintenance setting in every instance | `MCAccess` | `AccessProofs` |
| `WebhookDelivery` | one webhook and its deliveries | `MCServices` | `ServicesProofs` |
| `ProviderBreaker` | circuit breakers and the chain of providers | `MCServices` | `ServicesProofs` |
| `S3Upload` | one multipart upload | `MCServices` | `ServicesProofs` |
| `Alerts` | the alert of one monitored subject | `MCServices` | `ServicesProofs` |
| `WatchStats` | watch progress, points and numbers of one profile | `MCServices` | `ServicesProofs` |

`MCJobQueue`, `MCSessions`, `MCWebSocketHub`, `MCGateway`, `MCGuildSetup`,
`MCDiscordSafe`, `MCDiscordLive`, `MCServices` and `MCAccess` give the constants
their values. The last four put components that share no state into one run: the
first state chooses the `active` one, the others stay in their initial state, so
that every behaviour is a behaviour of one component's own specification, under
that component's own fairness.

Each module ends in bundles, `...Safe` for its invariants and `...Behaves` for
its action and temporal properties: conjunctions of named parts, each with a
comment of its own.

Operators whose comment begins with *Mutant of* are not part of the models: each
is a plausible mistake in the definition that follows it, and with it in that
definition's place TLC violates the property `PROJECT.json` pairs it with. They
show that every checked property depends on the code.

### JobQueue

* `rows[j]` is a row of `jobs`: queue, dedupe key, attempts, lock, lease, `done_at`,
  `dead_at`. `locked_at` is abstracted to *no*, *fresh*, *stale*
  (`LeaseGoesStale` is `LEASE_TIMEOUT_MS` without a heartbeat), `run_at` to *due*
  or not. `minted` counts `gen_random_uuid()` calls, so leases are never repeated.
* `run[l]` is a lane of a worker: idle, claiming, running, failing (between the
  error and `failJob`'s UPDATE), announcing (between that UPDATE and the
  listeners). A lane can hold a lease long after the row was reclaimed: that is
  the timed-out handler that cannot be unwound.
* `beats` are heartbeats sent and not applied; `superseding` are `retryJob` calls
  between their two statements.
* `ClaimReplyLost`, `CompleteReplyLost`, `Crash` are the faults. `Crash` is also
  what a throwing `failJob` does: `runOne` does not catch it, so the worker ends.
* Abstracted: which claimable job is taken (`ORDER BY run_at`; the model takes any),
  the length of backoffs, payloads other than the dedupe key.

`JobQueue` refines `JobLedger` (`LedgerSpec`): a row is *open*, *done*, *dead* or
*gone*, and leases, heartbeats and lanes disappear.

### PersistentMessage

`rec` is the row (id, hash, failures), `lock` its lock with an owner, `channel`
what is visible in Discord, `truth` the data. Callers read the row
(`ReadDue`, `ReadForced`, `ReadRecreate`), take the lock (`Acquire`), and act on
**the row they read before**. `OwnerOf` says whose names coincide: in the
containers every process is `pid-1`. Send, edit and remove may be refused, may
take effect without an answer, and the recording UPDATE may be lost. `Expire`
ends a lock while its holder works (a rate limit waited out, a batch `now` read
long ago), bounded by `MaxExpiries`; an abandoned lock expires freely.
`orphans` is history: the messages a step let go of, each for a reason the code cannot
or does not avoid. Its sending, its record or its removal was not answered or its caller
died there (`Leaves`); or another id was put in its place by a caller that had read the row
before it was there (`WritesOver`), which is what overlapping calls do. `NothingOrphaned`
says that there are no others: no refresh, resend, round, deletion by hand or expired lock
leaves a message behind in any other way, in whatever order they run. Left out: the
`enabled` switch, the waiting times of `isDue`, deletion of the row.

`ShowsTheData` excuses faults and expired locks: when the answer to an edit is lost
and the data then returns to the value of the stored hash, the record is skipped
for ever while Discord shows the other value. `NoEndlessRetry` excuses nothing.

### Sessions

One account. `sess[s]` is a row of `sessions` together with the refresh and the
access token issued for it; `from` is the session it replaces, `tv` the version
in the access token, `known` whether a client got them, `epoch` the number of
sign-outs-everywhere when its credential was verified. `cache` is the
`versionCache` entry; its `liveSessions` Set is an object that the map and checks
in flight share, so the model has a heap of Sets (`liveSets`), and `call[r].hit`
is the reference a check read before its query. `Arrive`/`Answer`/`Resume` are
`tokenIsCurrent` before, at, and after its query. `loggedOut` and `epoch` are
history. Left out: registration, e-mail, devices, tickets, permissions.

### WebSocketHub

`sock[s]` follows a socket through its handshake (`pc`), its connection (`link`:
open, closed by the hub, or gone) and its close event (`deaf`); `early` are the
frames parked until the ticket is checked. `clients`, `members` and `own` are the
hub's `clients`, `channels` and `Client.channels`; `joining` are joins whose query
is not answered; `told` is the presence count a room heard last. `sweep` is one
`reauthenticate` with its two queries answered in either order; `asked` is what it
put into them, and `doomed` is history: the clients that had to go when it began.
`session`, `version` and `active` are the rows of the account, changed by the same
statements as in `Sessions`, and by `setStatus` and `softDelete` as a whole.

* `CheckTicket` is the UPDATE that uses a ticket up, `Register` everything after
  its answer up to the next await, `Joined`/`JoinRefused` what follows a join's
  query. `Forget` is `forget` for a set of sockets: the loops of the sweep have no
  await in them.
* A fault leaves no trace of its own (a lost ticket closes the socket, a failed
  join is a refused one, a failed sweep is no sweep), so faults need no bound.
* Left out: relayed playback and chat frames (they change no hub state), the
  token bucket's arithmetic (`StruckOut` is its outcome), announcements to other
  instances, tickets issued before sessions were recorded, accounts that are
  restored, and a sweep that takes longer than the interval of sweeps.

### Wake

A job is `inserted`, at once or for later; one due within the second is announced
(`notifying`, then one of `notices` for each connection that listens). A lane claims,
finds nothing, registers as sleeper and waits for a notification, the poll or the abort.
`ComesDue` is what makes work ready without NOTIFY: a job due later, a backoff that is
over, a retry by hand, a stale lease. `overslept` are the jobs that may wait for the poll,
each put there by one of the named steps: such a job; a notification that nobody listened
to, that was lost with its connection, or that came between a lane's empty claim and its
registration; a claim that failed. `NobodySleepsOnWork` allows no other.

`link[k]` are the connections `connectListener` makes, `held` the one in the variable
`client`, `timers` the reconnects that are scheduled. A loss during LISTEN is scheduled
twice, by the error event and by the rejected query (`wake.ts:201-206`, `223-225`):
`LinkDrops` and `ListenRefused` count it in `doubled`, and from then on the process has two
listeners. `stop` ends the one in `client` only; a connect or a LISTEN under way at that
moment (`leftOpen`) goes on as well. `ListenerIsKept` counts connections and timers exactly,
`StoppedListens` says that a connection outlives the stop for these two reasons only.
`wake.ts:146-154` promises that it never does (section 4).

### PubSub

`conn[c]` is a connection, `client` the module's binding, `timer` and `strays` the
reconnect timers it knows and forgot, `fetching` the large messages being read
back. `crossed` names the overlaps the code does not keep apart (a start or an error
while an older `connect` awaits LISTEN, `pubsub/index.ts:139-141`): without one there
is one listener, no message is heard twice, and nothing is heard after the stop.

### Gateway and StateWriter

`Gateway` EXTENDS `StateWriter`: one action per opcode, timer, close event and step
of `leall` (the graceful stop). Discord is external: it accepts a session it still
knows and refuses any other. `fuggo` is the pending entry, `fut` the write under
way, `stateRow` the row; `said` is history, everything signalled merged into one
entry, and `NothingSaidIsLost` says that row, write and pending entry together are
what was said. The numbers of waiting times, commands and greetings are left out.

### GuildSetup

One key of the registry. Runs read the guild and the row, then adopt, update or
create, then write the row. A reset reads its targets, has them compared with the
ticket (`Consumes`), **reads them again** (`Relists`) and deletes those: `setup[r].shown` is
what the ticket named. `OnlyConfirmed` says that nothing else is deleted, although people
change the guild at any moment, unless a run wrote the row between the two readings
(`crossed`); without that exception it is `OnlyShown`, which `setup.ts:557-558` promises.
`NothingForgotten` says where each object YUME made is: in its row, in the hand of a
run about to write it, or among the `lost` (its creation was not answered or recorded) or
those a run wrote out of the row after another had written them in.
`maker` says who made an object, `inherited` remembers adopted objects the row calls
ours. `ForeignIsSpared` is what holds: a reset deletes what YUME made or what was
adopted **and listed as ours to the administrator who confirmed**;
`ForeignIsNeverDeleted` is what `setup.ts:8` says, and is violated.

### GuildNews, DmNotices, AtMostOnce

A round claims, sends and records item by item; rounds overlap and break off at any
statement. `AtMostOnce` knows notices that are waiting, taken, told or lost;
`PostFate` and `DmFate` map the rows and the rounds to it. Reports also have
moderators with a button in Discord and with the admin page: `resolveReport` admits
one verdict, and what a message or a row shows was decided by somebody.
`DmNotices` has the switch a user and the failure counter both write.

### RoleSync

A pass takes the members looked at longest ago, asks Discord about each and puts
the difference right; unlinked ones are stripped. Of the `unknown` members Discord does not
answer: no row of theirs is written, so they come first in every pass. `LinkedGetTheirs`
holds while fewer are silent than a batch (`NobodyElsesTurn`); without that exception it is
`EveryonesTurn`, which `role-sync.ts:21-22` promises. `GivenIsRemembered`: who has a
role the bot gave has a row by which it will be taken back, or that row is about to
be written, unless a pass broke off in between or another pass removed the row of
somebody it took for unlinked (`slipped`). Passes of two replicas overlap, and links
change in between: the second gives back what the first took.

### GuildAccess

`callback[c]` walks through `consumeStateTarget`, the link, and the membership
copies; `check` and `renewal` are `guildAccess` and `refreshMembership` with its
`inFlight` map; `lately` is history: who had the right within five minutes. `Operators` are
the users with `discord.manage`, whom the check lets in before it looks at Discord
(`guild-access.ts:129-131`); for everybody else the dashboard opens through Discord only.

### BrowserTabs

The browser side of `Sessions`: `request[c]` is a call with its retry after 401,
`refresh[t]` the refresh a tab has under way, `holder` the Web Lock. Runs with and
without `navigator.locks` (`webLocks`). `fate` is history: what ended the session.
`LoggedOutStaysOut` holds for a logout that was answered, unless a refresh crossed it.
A logout revokes the session of the cookie that was sent with it, or none: the retry of
`yume.js:142` carries no credentials to another origin.

### EdgeBans

`ban`, `autoBan` and `lift` under the advisory lock, the prune, time as a rank that
runs down, and the copy each API process decides by. A copy is read at one moment
and installed at a later one, and several lookups of a process can be under way, installed
in any order (`Lookups`). The copy's LIMIT of 10000 rows (`bans.ts:98`) is not modelled: the
model has the bans of one subject.

### MaintenanceCache

The setting is its version. Each instance holds a copy, hears announcements while
its connection is up, and loads; `raced` is the one way a told instance still serves
an older setting as fresh: the announcement fell into a load that had already read.

### WebhookDelivery

`deliver` reads the row once and writes into it when the answer is there:
`hook` is the row, `delivery[d]` the step, `stragglers` those under way when it was
last switched off. A job's attempts are as `JobQueue` counts them.

### ProviderBreaker

`breaker[p]` is `openedAt`, streak and opens; `resolve[r]` a request on its way down
the chain, with what the breaker said when it asked. The cooldown is the action
`CooldownEnds`.

### S3Upload

Parts fly, land, fail with or without effect, and are repeated; the answers come in
any order into `listed`; the main line sorts, completes or aborts. `leaked` is history:
a lost reply hid the upload from the uploader, the one reason a part may stay behind.

### Alerts

Cycles read the open row, then write by its id. The UPDATE that fires or resolves an
alert and its event are two steps: after the UPDATE the event is *owed* (`past`), and a
step later it is *told* (in the queue of the webhooks) or *lost*, for `emitEvent` is
not awaited and swallows its failures (`delivery.ts:62-86`). `torn` is history: rows closed by
a cycle that others overtook, which had read it before it fired or before it was seen
unhealthy again. `RecoveryIsTold` excuses only these. What a firing rests on and that no
recovery of an unfired alert is told hold for every overlap (`FiresOnEvidence`,
`NoRecoveryUnfired`). The message to the operators' inbox is not modelled.

### WatchStats

`tick[t]` is a `recordProgress` transaction in READ COMMITTED; those of one
episode exclude each other; `compute` are `recomputeProfileStats` and `grantNew` by the worker, by
readers and by the founder's job. It is run three times from different first states
(`numbers`, `reports`, `achievements`), each with the other calls idle.

## 3. Runs

All bounds are named constants of the modules and appear in guards only.

| Run | Question | Bounds |
|---|---|---|
| `MCJobQueueSafe` | do overlapping runs and retries keep the table right, and is the queue a ledger? | 2 jobs, 1 key, 2 processes, 2 attempts, 1 fault, 1 revival, 1 deployment |
| `MCJobQueueLive` | does every job end, is every death told, does a late heartbeat do nothing? | 1 job, 2 queues, 2 processes, 1 fault, 1 stop, 1 heartbeat in flight |
| `MCSessions` | is a current token refused, does an ended session come back, does a replay get a successor, does signing out end what it says? | 2 requests together on 2 sessions, or in turn on 3, or two tabs together on 3 (they sign in, refresh and replay; no access token is checked); 3 shared Sets, 1 sign-out, 1 fault |
| `MCWebSocketHub` | who is admitted, who is counted, whom does a sweep close? | 2 sockets, 2 tickets, 2 sessions, 1 room, 1 revocation |
| `MCDiscordSafe` | does the lock exclude callers of one name, is the hash right, what orphans a message; what does a reset delete? | message: 2 workers of one owner name, one also an administrator, 3 messages, 2 contents, 1 change, 1 deletion by hand, 1 fault or 1 expiry; guild: 1 setup and 1 reset with 2 changes by hand, or 2 setups with 1; 2 objects, 1 fault, 2 rows |
| `MCDiscordLive` | does the message end up right, is everything posted once and every notice sent, do roles reach the linked and leave the unlinked? | 2 workers; news: 2 rounds, 1 episode, 1 report, 2 moderators, 1 fault; notices: 1 user, 3 parts, batch 2, 2 rounds, 3 flips, 1 crash; roles: 3 members, batch 2, either 1 pass, any of them silent, 1 change, 1 fault, or 2 replicas, 2 changes |
| `MCGateway` | is a counter lost or doubled, does the row step back, is the engine back online? | 1 failed write, 1 event, 1 trouble; 3 reconnects, a bound never reached |
| `MCServices` | webhooks, breaker, upload, pub/sub, wake-up, alerts, watch progress | 1 delivery and 1 test, limit 2, 3 attempts, 2 edits; 2 providers, 2 requests, 2 outages; 4 parts, 2 at a time; 3 connections, 2 messages, 2 losses and 1 start or 1 loss and 2 starts; 2 lanes with 2 jobs and 1 trouble or job that comes due, or 1 job and 2 troubles, 2 listeners; 2 cycles, 2 rows, 2 troubles; 4 reports of 2 episodes, 1 reader, ceiling 2, 1 fault |
| `MCAccess` | tabs, dashboard, bans, maintenance | 2 tabs, 2 reads (one beside the logout), 1 logout, 1 resume, 1 loss; 2 users, 1 account, 3 redirects (two with one state), 3 checks (one by an operator), 2 changes, 1 silence; 2 ban calls and 1 lookup or 1 and 2, 2 rows, 1 fault; 2 instances, 2 saves, 1 break |
| `MCSessionsSurvivor`, `MCWebSocketHubGhost`, `MCGuildSetupForeign` | see section 4 | as the runs above or smaller |

Why so small is enough: two runs of one job, two callers of one record, two requests
of one account, two tabs, two cycles, two rounds are the smallest instances in which
anything interleaves, and every hazard listed is between two actors and one
fault. Where a count matters the bound reaches past it: two attempts distinguish the
last from the others, limits of two and three are passed, three members do not fit
into a batch of two, and three redirects reuse a state. The theorems of section 5
remove all of these bounds for the safety properties.

`CHECK_DEADLOCK FALSE` appears where the system really may stop: a record that
gave up (no administrator in the run), an instance whose ids or calls are used up.

**Fairness.** Nothing that people or other systems do is fair: nobody is forced to
enqueue, sign in, press, retry by hand, recover or fail. Weak fairness is assumed of:

* `JobQueue`: lanes take their next step (the hard timeout of `runWithGuards` bounds a
  handler, `claim` is retried after errors), time passes, Docker restarts an ended process.
* `PersistentMessage`, `GuildNews`, `DmNotices`, `RoleSync`: a call that began ends (the
  REST client has a timeout), the recurring job starts the next round, an abandoned lock
  expires, a moderator who pressed finishes.
* `Gateway`: its timers fire, Discord answers a HELLO, identify or resume it accepted, a
  lost connection gets its close event, the writer's steps run.
* `MCServices`: deliveries and requests take their next step, cooldowns end, connects are
  answered and timers fire, sleepers wake, cycles run, jobs of the queue are run.
* `MCAccess`: the steps of calls, refreshes, renewals and loads, the age of copies and of
  settings, the copies of bans being read again.

## 4. Findings

| Run | What the code does | What it says |
|---|---|---|
| `MCSessionsSurvivor` | a login or refresh in flight survives logout-all, a password change and an administrator's sign-out | `modules/auth/routes.ts:712` |
| `MCWebSocketHubGhost` | a join answered after its socket was forgotten (or read after the sweep closed it) subscribes it again, and nothing ever takes it out: the room's presence count stays too high | `infrastructure/websocket/index.ts:281`, `:360` |
| `MCGuildSetupForeign` | a channel made by hand and adopted into a row whose own channel was deleted counts as ours, and the next factory reset deletes it | `modules/discord/setup.ts:8`, `:374`, `registry.ts:16-18` |

Each of these also shows the boundary of a property that does hold: `NothingSurvives`
(requests in turn), `ListenersAreClients` (a ghost hears nothing), `ForeignIsSpared`.

What else the models show, without a run of its own. Some are stated in the modules
as definitions no run checks, because the code does not keep them: `OutOfAttemptsIsDead`,
`OneMessage`, `OneProbe`, `GoneStaysOff`, `OffMeansOff`, `OnlyShown`, `OneChannel`,
`EveryonesTurn`.

* **Queue.** A worker that dies on the last attempt leaves a job that is neither done
  nor dead, is never claimed, and keeps its dedupe key (`queue/index.ts:231`). The
  second statement of `retryJob` asks only for `done_at IS NULL`: with two
  administrators it can close a job that was revived meanwhile (`:429`). A
  lane that falls asleep after the abort sleeps its whole wait (`wake.ts:70-71`). A listener
  lost during LISTEN is replaced twice, and of the two `stop` ends one, as it ends none that
  is still connecting: a connection keeps the process alive after the stop, against
  `wake.ts:146-154`.
* **Persistent messages.** Two rounds that read the row before either locked it both
  send (`src/docs/persistent-messages.md:3`).
* **Sessions.** A check in flight writes a logged-out session back into the cache
  (`middleware/auth.ts:75`). A refresh whose answer is lost makes the honest client's
  retry count as theft once the grace period is over (`auth/routes.ts:528`): chosen by
  the code. In the browser any error of the exchange forgets the token, not only a
  refusal (`yume.js:255-260`); a failed logout while another tab waits for the lock
  brings the session back; the fetch under the lock has no timeout.
* **Hub and pub/sub.** A socket admitted while a sweep waits is judged by answers that
  were not asked about it (`websocket/index.ts:265`). Overlapping connects can leave
  two listeners (`pubsub/index.ts:139-141`).
* **Gateway.** A connection that never says HELLO waits for ever
  (`gateway-main.ts:250`); the first retry of a write is not immediate as
  `gateway.ts:143` says; a graceful stop loses events that arrive during its own
  write and a periodic flush in flight (`gateway-main.ts:412-413`); RESUMED does not
  write the sequence.
* **Guild.** A reset compares the plan once and reads it twice (`setup.ts:622`, `555-558`):
  what a setup wrote in between is deleted unconfirmed (`OnlyShown`). Two setups
  at once make two channels, although `registry.ts:75-78` says that is excluded (`OneChannel`);
  an object recreated in an adopted row stays "not ours". A round that
  dies between claim and send loses the announcement. `shown_status` is written
  whether or not the edit took effect. A round that selected before a user
  switched notices off still sends (`dm-notify.ts:4`). A batch full of members Discord does
  not answer about starves the rest (`EveryonesTurn`, `role-sync.ts:21-22`). A welcome can
  be sent twice (`welcome.ts:185-198`).
* **Link.** Relinking, or an unlink crossing a callback, leaves membership rows; two
  concurrent copies of the guild list make the link look failed although it is made.
* **Bans, maintenance, alerts, webhooks, providers.** A first offence can be
  lengthened as a repeated one (`bans.ts:185-186`, `:237-240`). An announcement can fall into
  a load (`cache.ts:143-148`). Cycles that overlap can make an alert flap (`alerts.ts:41`), and
  the end of an alert that fired is never told when its event is lost after the UPDATE
  (`alerts.ts:211-221`).
  A webhook that answered *gone* is switched on again by the success of a delivery that
  was under way (`delivery.ts:519-520`). A half-open breaker lets more than one probe through
  (`health.ts:14`, `:87`).
* **Watch progress.** The founder's job pays achievements without the check others
  make (`achievements.ts:85-86`); concurrent episodes overrun the daily ceiling by
  less than one award each; a stats job dropped as a duplicate leaves old numbers until
  somebody looks; a death between a grant and its points leaves them unpaid.

## 5. Proofs

`tlapm` checks eight modules. Assumptions: the named ASSUMEs on constants in each
module and nothing else, except that two theorems about the queue
(`ImplementsLedger`, `ObituariesAreTrue`) ask for `MaxRetriesInFlight \in {0, 1}`:
one administrator at a time inside `retryJob`, because with two the property is
false (section 4). All other parameters, bounds included, are arbitrary.

The theorems with a temporal statement follow one plan: an inductive invariant of named
parts; a lemma that the initial states satisfy it; lemmas that each action keeps it, one
step per conjunct the action can disturb; an action property read off the same
case split. What follows says what had to be added and why.

**JobQueueProofs.** `LeasesExclusive` rests on `LeasesDistinct`: leases are minted in
order, every lease in a row, a lane or a heartbeat is at most `minted[j]`, and two lanes
with the same job and lease are the same lane. `Fencing` and `DoneStaysDone` are action
properties from it. `OneJobPerKey` needs no leases: only `Enqueue` and `RetryJob` open
a job, and both ask the unique index. `StrandedByFault` adds: while no fault happened, a
claimed open job is held by some lane (`HolderKept`). `ImplementsLedger` is the
refinement of `JobLedger`, action by action: a step that changes no row is a stutter
(`OnlyMoves` isolates the one job a step moves); it needs that a dead row has spent its
attempts (`DeadIsSpent`), that a lease means an attempt was counted
(`LeaseMeansAttempt`), and that a job a retry is about to close is dead or superseded
(`SupersedingClosed`). `ObituariesAreTrue` needs `SettledIsLeft`: whoever settles a job
lets go of its lease in the same step, so no second lane still believes it failed.

**PersistentMessageProofs.** `MutualExclusion`: while nothing failed and nothing
expired, a caller inside the section owns the lock and the lock is alive, so a second
cannot enter; `Release` matches by owner name, which could be another's, and the
invariant shows that it never is. `HashIsRight` rests on `HashInv`: row and message may
differ only for a caller at the recording statement, whose hash is then the message's.
`NothingIsOrphaned` needs no such exception and is proved for every overlap, fault and
expiry. It rests on `Knows`: a caller about to send has seen that the message it read about
is gone, one about to record has either edited that message or seen the same, and one about
to forget it removed it or named it. Other callers' steps do not take that away, because
Discord's ids are never used again: `Gentle` is what they may do, `OthersKnow`,
`StepperKnows` and `CallerTracks` are the three cases.

**SessionsProofs.** `OneSuccessorEach` rests on `Lineage`: a session that was replaced,
or that a request is about to replace, has ended, and one request at most is about to.
`EndedStaysOut`: what has ended and nothing carries can be added to a live set only by
a check that saw it live. `RefusalsAreRight` rests on `Judging`: versions only grow,
endings are final and a token is issued once, so a stale finding against a token is
still true when it is acted on. For requests in turn (`TokensAreJudged`) `InOrder` adds
that one request runs alone, that its credential is of the current epoch when it opens a
session, that nothing survived, and that a signed-out session is in no live set.

**WebSocketHubProofs.** `Writers` says which actions write which variable; every later
step is a case split over it. `Admission` gives `OneSocketPerTicket`; it is inductive
because a used ticket never becomes usable again. `Listening` says where a socket
stands by its `pc`. For the sweep, `Issuing` and `Answered` say what stale answers
are still worth: every reason they give is still true, because endings are final and
versions only grow, and every socket doomed at the start has a reason both answers confirm.

**ServicesProofs.** *Webhook*: the row never counts more than the streak, and nobody
begins while it is off without being a straggler. *Breaker*: `opens` follows the
cooldowns that ran out. *Upload* (`UploadInv`): the parts listed, in flight and lost are
the parts sent, each number once, so what is completed is the file. *Pub/sub*: only live
connections hear, and an unsent message is unheard. *Wake* (`NobodyIsBlindToWork`): a lane
that is about to sleep has seen the work, or its notification is still to come, or a
named reason holds; connections and timers are counted as a finite set (`CountsLinks`), and
while no loss was scheduled twice the one that listens is the one `stop` knows
(`ClientIsTheOne`). *Alerts*: what row, history and the copy of a cycle can be together, and
what an event owed, told or lost says of them (`RowsInOrder`, `CopiesInOrder`).
*Watch progress*: at most one transaction of an
episode holds its lock and knows the sittings (`TransactionKnows`); `CapCounts` bounds
the points by counting rows and transactions about to pay as a finite set (at most
ceiling - 1 + one per episode); `GrantIsPaidOnce` pairs the grant with whoever is about
to pay.

**AccessProofs.** *Bans*: what the holder of the lock found is still so when it
commits (`HolderKnows`); where a process's own ban is the last word it is in force, and in
every copy and query of that process that no other change raced (`OwnBanStands`).
*Maintenance*: a load that has read is not older than the copy, nor than what was announced
unless that is named in `raced` (`LoadsAreAhead`). *Dashboard*: who is copied as
a manager, and fresh, had the right lately; an admitted redirect's state is gone.
*Tabs*: `OneLives` (at most one session that can be refreshed), `LockHeld`,
`TradedOnce`, `LogoutHolds`; `NumbersSuffice` shows by counting that the finite range of
token numbers is never used up.

**GatewayProofs.** `WriterInv`: row, write under way and pending entry follow each other in
order and together tell what was said, once per counter, or twice for those
in `twice`. `EngineInv`: in *resuming* and *ready* there is a session and the cursor is the
sequence; the buffer, the batches and the stored counts together never exceed the events.
`RowNeverStepsBack` reads off the order.

**GuildProofs.** *News*: an item between claim and record is in one hand (`HeldAlone`), is
sent once (`SentOnce`), and a press shows what it decided (`PressInOrder`); the same
invariant carries the refinement of `AtMostOnce`, as `DmHeldAlone` does for notices, batch
by batch. *Notices*: the counter is the number of misses in a row (`DmCounted`), so the switch
goes off only after `MAX_HIBA`. *Setup*: a run that was not disturbed knows what is in
the guild (`Knows`); one that was, but that no other run crossed, still knows the row: an
object of it that is gone stays gone, and what a ticket showed is what the row answers with
(`Steady`). Each action is either quiet or disturbs the others (`QuietStep`, `LoudStep`,
`OneDisturbed`). *Roles*: a pass that strips has nothing due
(`UnlinkingGivesNothing`), and another pass's step keeps `ToBeRecorded`. Two shapes need
counting: the failures of a user are of different settled episodes (`MissesFit`), and the
places written by `Records` do not pass the number of members (`PlacesAreFew`).

### Only model-checked

* Liveness: `JobsEnd`, `MessageBehaves`, `EveryNewsIsTaken`, `DecidedLooksDecided`,
  `EveryPartIsClaimed`, `LinkedGetTheirs`, `UnlinkedLoseIt`, `BackOnline`, `RowCatchesUp`,
  `EveryDeliveryEnds`, `RecoveredIsUsed`, `ComesBack`, `NoWorkForgotten`, `LanesEnd`,
  `ListenerReturns`, `LastingProblemFires`, `LastingHealthResolves`, `NumbersCatchUp`, `EveryRequestEnds`,
  `EveryCheckEnds`, `LastingBanBites`, `LastingLiftFrees`, `LastSettingIsServed`. They need
  fairness, whose meaning is ENABLED, which the prover does not handle.
* The bundles that hold such a part are therefore proved part by part: the safety parts of
  `WebhookBehaves`, `BreakerBehaves`, `WatchBehaves`, `AccessBehaves`, `MaintenanceBehaves`,
  `GatewayBehaves`, `NewsBehaves`, `DmBehaves` and `RolesBehave` are theorems.

## 6. Plan

1. Proofs: `Gateway` refines a plain accumulator of counters; `WatchStats` and
   `WebhookDelivery` against abstract specifications of their own; which sessions survive
   `MCSessionsSurvivor` (only those of requests in flight) as a theorem.
2. The global pause of the REST client, the one hazard without a property; the welcome log
   and the daily guild statistics; the analytics collector.
3. Several sweeps at a time in the hub; the `enabled` switch and deletion of a
   persistent message.

## 7. Not modelled

Pure computation without state (rendering, signing, WAF rules, scoring), single
CRUD statements, pages of the web client and of the Discord dashboard, adapters that
scrape providers, slash commands, third-party services beyond what a caller sees of
them (a call takes effect or not, is answered or not). `PROJECT.json` gives the
reason for each component.
