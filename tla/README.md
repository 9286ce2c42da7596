# uniclub-backend: a verification project

TLA+ models of the parts of uniclub-backend (a multi-tenant server for student
clubs: Bun/Hono, PostgreSQL through Drizzle, Redis, BullMQ) where the order of
steps matters, the TLC runs that check them on small instances, and theorems the
TLA+ proof system proves for every instance.

Paths below are relative to the repository's `src/`.

## 1. The system

Requests enter `middlewares/*` (rate limit, authentication, RBAC, club role),
reach a feature's `*.service.ts`, which reads and writes through its
`*.repository.ts` and then drops cache entries (`*.cache.ts`, an `effect` of
`core/cache/invalidates.ts`) and emits notifications. Several server processes
share PostgreSQL (READ COMMITTED), Redis (cache, rate limits, one-time tickets,
BullMQ queues) and nothing else; inside a process, handlers interleave at every
`await`. Workers (queues) and timers run in the same processes.

| Part | State | Operations | What is hard | What makes it right |
|---|---|---|---|---|
| `core/cache/cache.ts` | Redis entries; per process running loads, race marks, in-flight promises | getOrSet, delete | a load races a write; commands time out and apply late; joiners; two processes | an acknowledged invalidation sticks; one loader |
| `core/cache/stores/*` | state, failures, probe | run | late answers, many callers at the end of the open period | one probe; half-open is left; recovery |
| `shared/publishing`, activities, announcements | post row, delayed job, lists | schedule, move, cancel, publish, worker, sweep | worker, sweep and staff race; retries after a crash; lost jobs | announced once; in the end published; lists fresh |
| club applications | application, steps, votes, appeal, club | decide, vote, revise, resubmit, withdraw, appeal, review | decisions on stale reads; majority of a changing committee | summary derived; a club iff all steps approved; the outcome promised to the applicant |
| club membership | `club_members`, history | join, leave, decide, remove, role, transfer, election | revived rows; multi-statement updates; crashes | exactly one president; admission needs a decision |
| formation proposals | proposal, supports | support, withdraw, expire, submit | counting under concurrency; deadline | submitted with the support that was asked for |
| boards, handover, advisors, terms | board rows, records, invitations, terms | elect, hand over, invite, accept, expire, update | overlap; writes by id after an earlier read | one board in office; advising by consent; one active term |
| activities | row, attendees, hosts, rotating code | answer, update, cancel, invite, accept, remove, scan, mark | capacity; a code that rotates under a scan | within capacity; cancellation is told; old codes are dead |
| auth, moderation | users, one-time links, token version, cached authority | register, verify, reset, ban, anonymise, resolve | reuse of links, revoked sessions, joined loads | a link works once; revocation cuts access |
| rbac | roles held, ranks, permissions, cached authority | assign, remove, override, create, rename, rank, grant, delete | judged on a stale cache and by a role's name; last administrator | nobody rises by rank, role or permission; an administrator remains |
| platform, university, tenant settings | tenant status, domains, faculties, settings and caches | change, delete, register, invite, accept, patch | look, then write; write-through caches | nothing left behind; caches follow |
| accounts | users, invitations, mail queue | register, invite, accept, cancel | mail after commit; unique per tenant only | accepted once; mailed iff committed |
| notifications, WebSocket, push | mutes, rows, sockets, subscriptions | fan-out, ticket, ping, send, prune | crash and rerun; sockets of other instances | no row twice; revoked sockets closed |
| lists | rows and cursors | page, insert, delete | cursors coarser than the order | none twice, none missed |
| poster QR, announcement board | rows, cached answers | edit, cancel, scan, pin | a fill that read before a change | closed codes are silent; the board is shown as it is |
| rate limit | counter with expiry | hit | lost or repeated EXPIRE; failing Redis | at most the limit; windows end |
| shutdown, deployment | tasks, budget; roles, grants, schema | signal, task, bootstrap, start | work in hand; reruns over old data | work is finished; the catalogue is complete |
| approval committees, review checklist | committee and members; items, events | create, update, vote, tally; tick, approve | counts and looks in separate statements; no transaction around a tick | a majority of the members; approved means ticked |
| media, gallery | files, rows, addresses, cached list | upload, remove, add, moderate | two stores, no transaction | rows and files agree but for what was cut short |
| exports, public pages, adapters | rows | reads, single-row writes, I/O | nothing a model shows | not modelled |

`PROJECT.json` lists every component with its files, every hazard with its line.

## 2. Modules

Every module takes its finite sets and bounds as CONSTANTS with named
assumptions; an `MC*` module gives TLC the sets a `.cfg` cannot write, and a
`*Proofs` module extends the module it is about. Variables, history included, are
explained where they are declared; a definition `Mutant_X` is a plausible bug of
the code that X models, kept beside X.

| Module | Models | Abstracted |
|---|---|---|
| `Cache` | `core/cache/cache.ts` over `redis.store.ts` | one key; a value is the version of the row it was computed from |
| `CircuitBreaker` | `circuit-breaker.store.ts` around `timeout.store.ts` | what an operation carries; time in ticks |
| `ScheduledPublish` | `shared/publishing/*`, publication in `announcements.service.ts` and `activities.service.ts` | contents, audiences |
| `ClubApplication` | `club-application-chain.core.ts`, `…-committee.service.ts`, `…-review.service.ts`, `admin.repository.ts` (finalize), the applicant's routes | forms, documents |
| `ApprovalCommittees` | `approval-committees`, castVote and the tally of `club-application-committee.service.ts`, the access of members | one committee, one application at its step |
| `ReviewChecklist` | the checklist in `club-application-review.*`, its lock on approvals | one application; one approval decides |
| `ApplicationOutcome` | what an application promises the applicant (abstract) | |
| `ClubMembership` | membership in `clubs.service.ts`/`clubs.repository.ts`, `membership-history`, elected boards, removal in `admin.service.ts` | one club |
| `ClubFormation` | proposals and supports in `clubs.service.ts`, the way to the application | one student |
| `ClubBoards` | `general-meetings`, `handover` | one club, board rows as pairs of meeting and type |
| `ClubAdvisors` | `club-advisors` | one person, one club |
| `AcademicTerms` | `academic-terms`, the event writer of `membership-history` | one university, days |
| `ActivityRsvp` | answers, capacity, update, publication and cancellation in `activities` | one activity |
| `ActivityCheckIn` | rotating code, scan and marks | one activity |
| `ActivityHosts` | co-hosts and the discovery lists | one activity, published or not |
| `AuthSessions` | `features/auth` (login, links), `features/moderation`, `users.service.ts` changePassword, cached authority, tickets and sockets | one account, one process |
| `Authority` | roles in `features/auth`, `core/rbac`, `rbac.cache.ts` | one ordinary permission, the managing of roles and of permissions; one role of the tenant's own, with its name, rank and permissions |
| `Tenants` | `platform/tenants`, `tenant-status.cache.ts`, domains and deletion in `university`, registration by domain, the invitation of the tenant's administrator (its link and mail are `Accounts`') | one tenant |
| `TenantTree` | faculties, departments, placing a user, their lists | a tree of nodes |
| `TenantSettings` | `tenant-settings` with its cache and `requireFeature` | a few keys and values |
| `Accounts` | registration, platform accounts, `tenant-admin-invitations`, the mail queue | one address |
| `NotificationFanout` | `notifications.service.ts`, `…fanout.ts`, `…queue.ts`, mutes | texts, links |
| `NotificationSockets` | `notifications.routes.ts`, `…gateway.ts`, tickets, heartbeat | one user |
| `PushDevices` | push subscriptions and sender | what is sent |
| `Paging` | the cursors of notifications, feed, discovery, audit and admin lists | columns but time, kind and id |
| `AnnouncementBoard` | pins under a limit that is a setting and may change, edits, removal and the lists of a club's or university's board | texts; a list is loaded in one step |
| `Gallery` | `media`, `gallery`, moderation of images, `core/storage` | one club; any image passes size and type |
| `PosterQr` | `poster-qr` | one code, the analytics of scans |
| `RateLimiter` | `core/ratelimit`; of its middleware, that a call whose identity is unknown, or any while limits are off, is not counted | one identity with one limit, time in ticks |
| `Shutdown` | `core/http/shutdown.ts`, the tasks of `index.ts`, health | connections as open or closed |
| `Deployment` | `db/rbac-catalog.ts`, `db/bootstrap.ts`, the check of migrations | roles and permissions as names |
| `Names` | that requests are interchangeable | |
| `MCClubLife`, `MCAdministration`, `MCDelivery`, `MCCache` | several modules in one run | |
| other `MC*` | sets for one module (`AuthSessions` has its own at its end) | |

### How state and actions correspond to the code

`PROJECT.json` maps each definition to its lines. The shape is the same
everywhere: what runs between two awaits is one step, because nothing else runs in
a Bun process meanwhile; a database statement or transaction, or a Redis command,
is one step, because another process sees it whole (a READ COMMITTED transaction
whose statements see each other's commits is one step for each of them where that
matters: `ActivityRsvp`, `ClubBoards`, `ClubFormation`, `Deployment`); and what a
handler keeps over an await is a field of its record, with the field `pc` saying
where it is. A request is a name of a small set that is free again when it ends;
the MC bounds say how many may ever begin.

- **Cache.** `store` is the Redis entry; `inFlight`, `loading`, `mark` are the
  three maps of the class for the key, per process; `wire` is the queue of
  commands on a process's one Redis connection. A command that times out stays on
  the wire and is applied later, so a timeout is not a loss, and a connection that
  is flushed loses what was queued. `BeginLoad … OwnerEnds` walk getOrSet;
  `JoinerEnds` is the promise that a joined call shares; `Commit`, `Delete`,
  `DeleteAcked`, `DeleteFails` are a mutating request.
- **CircuitBreaker.** A slot in `flying` is an operation in flight, `wasProbe` the
  local of `run()`. `Tick` advances time and cannot pass a timeout that is due.
- **ScheduledPublish.** An actor is a worker's job, a request of staff or a sweep.
  The row (`status`, `sched`, `pubAt`) is PostgreSQL's, the job (`job`, `jobAt`,
  `attempts`) is BullMQ's under the post's job id, of which `add` is a no-op while
  a job of that id is there. `Crash` ends every actor, `LoseJob` empties the
  queue's entry, `Trim` is removeOnComplete.
- **ClubApplication.** A transaction reads the application (`seen`), tallies the
  votes where the step is a committee's, and commits by id: the second of two
  writers overwrites the first from what it read before. The chain is `step`, the
  summary `status`, `log` the approvals in the event table.
- **ClubMembership.** `row` is `club_members` (leaving stamps `left`), `last` the
  last history event of a user; the role middleware is in the action that begins a
  request. `FindPresident … MakeOfficer` are the statements of a board election.
- **AuthSessions.** `entry`, `loader`, `mark` are the cached authority in one
  process; `op` the handlers and requests with the row a load has read (`seen`), the
  JWT's tokenVersion (`claim`) and what the owner had been told when the request
  began (`since`). `Fail` lets a handler throw between its writes.
- **Governance** (`ClubFormation`, `ClubBoards`, `ClubAdvisors`, `AcademicTerms`).
  Operations read, test and write by id. Where a history flag (`formingMet`,
  `boardsMet`, `advMet`) is in a property, the code promises it of operations that
  did not overlap; the constraints of the database (no overlapping terms, no term
  deleted that an event names) are guards of the write and hold always.
- **Activities.** `ActivityRsvp` has the RSVP's three statements
  (`FindExisting`, `CountGoing`, `UpsertAttendee`) and staff's read, write and drop; `ActivityCheckIn` the
  screen's GET and SET of the key and the scan's three steps; `ActivityHosts`
  learns the universities after an acceptance and before a removal, as the code does.
- **Administration.** `Authority`'s `MayAssign`, `MayRemove`, `MayShape` are what guard
  and service read of the caller's cached authority, the target and the role;
  `WriteRoleReq` is a later step and `DropAuthorities` the last. `TenantSettings` writes one key a
  step; `Accounts` mails after the commit; `TenantTree` and `Tenants` look for
  children or residents in one statement and remove in another. In `Tenants` a registration
  and the acceptance of an invitation are judged by the cached status and write later.
  `ApprovalCommittees` takes castVote apart where `ClubApplication` has it whole: who is
  a member, the votes and the number of members are read in statements that each see
  what is committed then (`moved` marks a vote beside which the committee changed).
  `ReviewChecklist` writes the row of a tick and its event apart (`astray` marks items
  whose two were mixed or cut short).
- **Delivery.** `NotificationFanout` filters, inserts chunk by chunk, publishes and
  pushes; `Crash` leaves a large fan-out to the queue, which starts it again.
  `NotificationSockets` has one registry an instance. `Paging` keeps microseconds
  in rows and milliseconds in cursors. `RateLimiter` counts with INCR and TTL
  together and EXPIRE after them. `Shutdown` runs the task list while work in hand
  asks for the connections. `Deployment` runs the provisioning statement by
  statement, beside others and beside administrators.
  `Gallery` writes the file, the row, the entry and drops the list one after the other,
  and `JobFails` cuts a request anywhere.

### Composition

`AuthSessions` composes the one-time links, sessions, cached authority, tickets and
sockets of an account; `ScheduledPublish` the queue, the sweep, the services and
their lists; `ClubMembership` members, history and elections; `Accounts` the
invitation and the mail queue; `Shutdown` the queues, requests, sweep, connections
and health. Modules that share no state are run together by a variable `part`
chosen at the start: a behaviour works on one of them and the others rest, so that a
run pays for the sum of the state spaces and each part is checked as if alone. The
properties `ApplicationSound`, `GovernanceSound`, `DeliverySound`, … ask of a part
what its module's `XSound` says; the conjuncts are named and commented there.

### The abstract specification

`ApplicationOutcome` says what a student who applied can rely on without looking
into the chain: open, then approved, rejected or withdrawn in one step; the club
comes with the approval and with nothing else; a rejection is reopened by an upheld
appeal only. Once two requests have been under way together it is `contested` and
promises less. `ClubApplication` implements it under the mapping `outcome` =
"open" for pending or waiting for a revision, else the status; `clubs`;
`contested` = `overlapped` (`KeepsOutcome`).

## 3. Runs

| Run | Instance | What it shows |
|---|---|---|
| `CacheOneProcess` | 1 process, 2 calls, 2 writes, version 1 loads as null | `AckedInvalidationSticks`, `StaleOnlyIfOwed`, `DirectReadsFresh`, `SingleFlight`, `MarkDiesWithLoads` |
| `CacheLiveness` | cache: 2 processes, 2 calls on one, 1 write on the other; breaker: 3 operations, threshold 2, open for 3 ticks, timeout 2 | `CallsEnd` with crashes and lost commands; `OneProbe`, `HalfOpenIsProbing`, `Recovers`, `SparesRedis` |
| `Publish` | one worker, one member of staff, one sweep, 2 attempts; one post, clock to 3 and one fault, or two posts, clock to 2 | `PostsSound` (a quiet system is done), `AnnouncedOnce`; `ScheduledLeadsOut` under fairness |
| `ClubLife` | eight parts: an application of a role step and a committee step with 3 people and 2 requests at once; a proposal with 2 supporters; answers of 2 people beside 2 of staff; 2 screens; 2 co-hosts of 2 universities; 2 meetings; 2 invitations; 2 terms | `ApplicationSound`, `ClubNeedsEveryStep`, `DecidedStays`, `MajorityOfMembers`, `KeepsOutcome`; `ProposalSound`, `AnswersSound`, `AttendanceSound`, `CoHostsSound`, `GovernanceSound` |
| `Membership` | 3 people, one request at a time with 3 boards, one removal and one crash, or 2 requests interleaved | `MembershipSound` (one president, history tells the row) one at a time; `AdmissionDecided`, `ReturnsAsMember` also interleaved |
| `AuthSessions` | one account, 2 handlers at once, one verification and two reset links, and one of: a socket, a fault or crash, a second link of a kind | `RevokedStaysOut`, `SuspendedStaysOut`, `AnonymizedStaysOut`, `VerifiedAtOnce`, `LinksSound`, `SuspendedHearsNothing` |
| `Administration` | seven parts: 2 super admins, an admin and a student; a tenant's role that may be given any name; a committee of 3 users; an application with 2 checklist items; a tenant with 2 domains and an invited administrator; a tenant, faculty, department and user; 2 settings; 2 invitations of an address; 2 requests at once in each | `RightsSound`, `DirectorySound` |
| `Delivery` | ten parts: 2 notifications to 2 people; 3 sockets on 2 instances; 2 browsers; 3 rows in pages of 1 or 2; 3 announcements and a limit of 0, 1 or 2 pins; a poster code, 2 scans, 2 edits; 2 uploads and 2 gallery entries; 4 hits of limit 2; 2 signals; 2 bootstraps and a server | `DeliverySound`, `ListsSound`, `LimitsSound` |
| `PublishSweepStale` (violation) | one activity | the sweep publishes an activity and leaves its cached lists stale |
| `ApplicationTwoClubs` (violation) | the default chain of one role step, 2 requests | two last approvals create two clubs |
| `MembershipTwoPresidents` (violation) | 3 people, 2 requests | two transfers leave two presidents |
| `DeploymentLegacy` (violation) | one bootstrap over a legacy permission | provisioning fails, and fails again at every rerun |

Each property's comment names the code or the document it is about, and each
exception it makes is named after the line that allows it.

**Why the bounds are enough.** The races need one actor that read, one that
writes, and where a third matters (a joined call, a voter beside two deciders, a
president handing over to either of two people) the instance has a third. Two
writes let an acknowledged and a failed invalidation meet. Three people give a
committee whose majority (2) is neither one nor all; three interchangeable people
who are staff, committee and reviewers at once allow all that people with fewer
roles could do. The parts of `ClubLife`, `Administration` and `Delivery` let two
requests overlap, each of which reads before it writes, so every pair of operations
meets in every order; the budget of requests is what an overlap needs with its
preparation and its aftermath: `MaxRoleRequests` 3, `MaxTenantReqs` 4, `MaxTreeReqs`
5, `MaxPatches` 3, `MaxAccountReqs` 5, `MaxForming` 5, `MaxAdvising` 5, three
requests about terms, `SomeRsvps` for answers and staff, `MaxScans` 2 (scans and
marks together), `MaxMuteChanges` 2, `MaxChoices` 3 (what administrators do beside
the bootstraps), `MaxRequests` 6 for uploads and the gallery. `CommitteeBudgets` allow
two overlapping updates, or one update beside a vote or a reading of the tally;
`ChecklistBudgets` three ticks with one change of the switch, or two with two. Of three
checklist keys one is required, one optional and one unknown. `MaxStalls` 1 is the default of BullMQ, which the code leaves alone. `PosterQr` bounds the
overlap to one update and one cancellation (`MaxVersion` 3 is the row with both
applied). `PinLimits` {0, 1, 2} let the limit be lowered below what is pinned, and raised again. Clocks are ticks: `LastTick` 5 and `LastCode` 4 let a code be rotated
before, at and after its buffer and the check-in window open and close; `LastMoment`
6 is three windows of `RateLimiter`; `Ticks` 2 and `MaxInstant` 2 put rows of
`Paging` into one millisecond, into two, and into one microsecond; three rows with
pages of 1 and 2 have a page that ends in the middle of a tie. `CachedUsers` holds
the cached authority to one user, because entries of two users share nothing.

A property with a condition such as `~overlapped`, `~metTree`, `~boardsMet` or
`crashes = 0` is a promise the code keeps in that case only; the history variable
marks the one pair of steps that breaks it, and everything else remains asked of
all behaviours. Symmetry is over people or calls that the module does not tell
apart, in runs without liveness.

`CHECK_DEADLOCK FALSE` is said where the instance may rightly stop: calls and
writes that run once are over (`CacheOneProcess`, `CacheLiveness`), the clock and
faults are used up (`Publish`), an application is withdrawn, a process has ended, or
a budget of requests is spent (`ClubLife`, `Administration`, `Delivery`,
`AuthSessions`, `DeploymentLegacy`).

**Fairness.** `Cache`: a continuation that is ready runs, every store command
ends by answer or timeout (`Cache.timed`), the database answers or fails;
nothing of the TTL, delivery, the connection or crashes. `CircuitBreaker` (stated
in `MCCache`): operations end because `TimeoutCacheStore` ends them, time
passes, and the application keeps asking the cache (without requests an open breaker
has nobody to probe it). `ScheduledPublish`: time passes, and the sweep, a timer
every server starts (`src/index.ts:220-228`), fires and goes on; nothing is
owed by staff, by the worker or by Redis, so that `ScheduledLeadsOut` rests on the
sweep alone. The other modules are about safety only: what should happen in the end
there is asked as "when no request is under way" or "when it is over".

## 4. Proofs

| Module | Theorems | Inductive invariant |
|---|---|---|
| `CacheProofs` | `TypeCorrect`, `SingleFlightHolds`, `MarkDies` for any processes, calls and writes | `Shape`: the load counter is the number of calls between beginLoad and endLoad, a mark belongs to a counted load, the running loader is the one in the in-flight slot |
| | `AckedSticks`, `StaleIsOwed`, `DirectReads` for one process | `Shape` and `Fresh`: versions are bounded by the row's; an older value in Redis, on the wire or in a running load has a delete behind it on the same connection or a mark on the load; what a write did is remembered by its state |
| | `BreakerTypes`, `OneProbeAtATime`, `HalfOpenDecides` of `CircuitBreaker` | `BreakerInv`: half-open exactly while the probe flag is set and one flying operation is the probe |
| `AuthSessionsProofs` | `RevokedRefused`, `SuspendedRefused`, `AnonymizedRefused`, `VerifiedSeen` for any handlers, links, faults | `Types /\ Heeded`: what was told at the last drop still holds of the row; the cached entry heeds it; a load under way heeds what its own request was told and is marked unless it heeds the last drop too; a resolved request heeds what it was told |
| | `LinksAreSound`, `SuspendedIsCutOff` | `LinksKept`: a link that can still be followed has set no password, and until two requests for a link overlap a kind has one issuer, one live link, and none once the issuer has cleared the kind; `CutOff`: of a suspended account that was quiet, row, cached authority and whatever a handler has read agree, so that nobody is left who could be admitted |
| `ClubApplicationProofs` | `TypeCorrect`, `EveryStepApproved` for any chain, people and overlap; `ChainAgrees`, `ChainIsSound`, `DecidedIsFinal`; `MajorityApproves`; `ImplementsOutcome` | `AppInv`: `Shape` (which requests staff and the applicant can have under way), `Logged` (whatever a step or a request saw approved is in the log) and `Careful` (until two requests overlap, at most one is under way, what it has seen is what is there, and the summary, the club and the order of the chain agree), `Fairly` (of a committee that stays as it is: an undecided step has a majority neither way, and a vote read in a transaction is counted with the others) |
| `ClubMembershipProofs` | `TypeCorrect`, `AdmissionNeedsDecision` for any people, boards and overlap; `ReturnIsPlain` and `MembershipHolds` until requests overlap | `Typed` and `Sensible` (what a request has read and checked before it writes), `Careful` (until two requests overlap, what the one under way saw is what is there, and who waits for a decision holds no office) and `Ordered` (one president, or none between the two statements of an election, and the last event of each person tells the row) |
| `ScheduledPublishProofs` | `TypeCorrect`, `NotifiedOnce` for any posts, workers, staff, sweeps, attempts and faults | `Typed` (with `Wired`: a worker at work holds an active job of its own, which has an attempt left) and `AllOnce`: of a post that is not published nobody was notified nor is about to be; one actor at most is about to notify, and then for the first time |
| | `PostsAreSound` | `Clean`, of a system without faults: a published post has been notified or a handler is about to (`Heard`); lists that are behind, and that nobody is about to drop, are those of a scheduled draft whose job or handler will publish it when it is due, or whose row a handler is about to write (`Fresh`), which needs that jobs and sweeps know the schedule |
| `ClubLifeProofs` | `RsvpIsSound`, so `AnswersHold` | `RsvpInv`: an answer about to be written that nobody made old has a seat that was counted or that its user held (`HoldsSeat`), every capacity anybody read is within the largest ever set, the cached detail is the row's or staff is about to drop it, and while staff work alone a gate passed is older than the cancellation |
| | `CheckInIsSound`, so `AttendanceHolds` | `CheckInInv`: the key holds a code made within its life, a screen that replaces it has seen its time up or was overtaken, a scan that nothing crossed has a row |
| | `HostsAreSound`, so `CoHostsHold` | `HostsInv`: a list that tells no truth is one a request under way is about to drop |
| | `FormationIsSound`, so `ProposalHolds` | `FormationInv`: until operations meet, the one under way knows its proposal, and what the student has open beside reopened applications is one thing; until a withdrawn support meets another, none counts more than there are |
| | `BoardsAreSound`, `AdvisorsAreSound`, `CalendarIsSound`, so `GovernanceHolds` | `BoardsInv`, `AdvisorsInv`, `TermsInv`: the request under way knows the board and the rows to close; one invitation is pending, and an acceptance finds it so unless crossed; stored ranges do not overlap |
| | `LifeIsItsParts`, `ApplicationHolds` | none: a step of `MCClubLife` is a step of one part and a stutter of the others |
| `AdministrationProofs` | `AuthorityIsSound` for any roles, people and overlap | `AuthorityInv`: while nobody judged a super admin has given anything, everybody holds, and every cached entry, load and request carries, roles of their own kind only, the tenant's role stays below the admins', and only the super admins hold anything of the platform's (`Tame`); until two removals meet one is under way at most, and it leaves somebody who holds the role (`OneLeft`); a cached authority that is not the rows' is about to be dropped or known to be old (`Followed`) |
| | `CommitteeIsSound`, so with the two others `RightsHold` | `CommitteeInv`: one update at most holds the row, and knows the members it deleted (`OneHolds`); unless the committee changed meanwhile, whoever is voting is a member and has counted the members there are, and so has the tally (`VotersVouched`, `TallyVouched`) |
| | `ChecklistIsSound` | `ChecklistInv`: what an approval let through asked for is still ticked unless it was overtaken (`AllowedSawTicks`); after an approval nothing moves but by ticks let through before (`FrozenAlready`); who has written an item, alone, is about to tell of it (`WriterTells`) |
| | `TenantsAreSound`, `TreeIsSound`, `SettingsAreSound`, `AccountsAreSound`, so `DirectoryHolds` | `TenantsInv`, `TreeInv`, `SettingsInv`, `AccountsInv`: until two requests meet the one under way knows the rows it checked (`RemovalAlone`, `RemovalHolds`, `PatchesMeet`, `InviteAlone`); in a deleted tenant live only those who accepted on an old cached status; a cached status, list or setting that is old has a request behind it that will drop or rewrite it, or is one of the cases named (`CacheComes`, `ListsCome`, `ResolutionComes`); an account was invited exactly if one invitation is accepted (`AcceptedIs`), and a committed invitation without a mail has a request about to queue it (`MailFollowsCommit`) |
| | `AdminIsItsParts` | none: a step of `MCAdministration` is a step of one part and a stutter of the others |
| `DeliveryProofs` | `FanoutIsSound`, `SocketsAreSound`, `PushIsSound` | `FanoutInv`: a run owes a row to whom it has still to insert and a message to whom it has inserted, and whoever it owes neither was reached, had muted it, or belongs to a run cut short (`Reached`); rows of a user are counted by the reruns of the job (`RowsCounted`). `SocketsInv`: a socket's ticket is spent and its own, and a socket told of a revocation is at a server that heard of it. `PushInv`: what a sender found dead is forgotten by its browser |
| | `BoardIsSound`, `PosterIsSound`, `GalleryIsSound`, so `DeliveryHolds` | `BoardInv`: until two pinning requests race, what is pinned with what is about to be fits the limit, or what was pinned when it was lowered (`PinsFit`); a list that is not the board's has a request behind it that will drop it, or one that failed (`ListsFresh`). `PosterInv`: the row's last version was announced or its edit is about to (`LastAnnounced`), and no scan or entry knows a version later than the row's. `GalleryInv`: a file of an upload under way belongs to that request alone, and a key is answered only with its file written (`KeysHeld`) |
| | `PagingIsSound`, so `ListsHold` | `PagingInv`: what was handed out does not follow the cursor, and what was there all along was handed out or follows it (`HandedBefore`, `StableAhead`), each up to the millisecond of the cursor for the lists that have no tie-break in it, and the cursor is a row that is there unless it was deleted (`CursorStands`) |
| | `LimiterIsSound`, `ShutdownIsSound`, `DeploymentIsSound`, so `LimitsHold` | `LimiterInv`: in each window the calls let through and those between INCR and EXPIRE that will be are at most the count (`Numbered`); a counter without expiry has a call about to set one, unless the store failed (`InTime`). `ShutdownInv`: one signal at most runs the tasks and is where the list of finished ones ends (`OneRuns`, `InOrder`), what is closed was closed by its task (`ClosedByTask`), and work that a finished task awaited is over (`WorkAwaited`). `DeployInv`: one bootstrap at most is between the upsert and its commit, and one that inserts missing roles is alone in it (`RunsAlone`); what it read and will insert is the catalogue but for what administrators did (`RolesAreRead`, `KeysAreKnown`, `RowsComplete`) |
| | `DeliveryIsItsParts` | none: a step of `MCDelivery` is a step of one part and a stutter of the others |

The assumptions are those of the modules' ASSUMEs. `Instances = {p}` is the code's
own restriction: the race mark is process-local (`cache.ts`, "KAPSAM"), a load in
another process may put an old value back, and that it goes with its TTL is Redis's
doing and not a property of the code. The four `AuthSessions` properties are not inductive: a resolved
request says nothing of the load it came from, nor a load of the drop that
overtook it; `Heeded` follows a snapshot from the query through the load to the
cache and to the requests it is answered to. `Lift` (a status `active` is written)
is why `Heeded` speaks of what was *told* and not of the row's present status.

`ClubNeedsEveryStep` is not inductive either: a decision is computed from the chain
a request read before, so that what must be kept is that stale reads, too, saw only
approvals that are logged (`Logged`); this needs no condition on overlap, and is why
the theorem has none. The agreement of summary, club and chain does not survive
overlap (run `ApplicationTwoClubs`), so `Careful` carries it up to the first overlap
only. `ImplementsOutcome` then maps each action: a decision that ends the chain to
`Approve` or `Reject`, review of an appeal to `Reopen`, withdrawal to `TakeBack`,
the beginning of a second request to `Contest`, a commit after that to
`Contested`, and votes, revisions and changes of the committee to stutters.

`AdmissionNeedsDecision` needs of the state before a step only what the request that
takes it has checked; `ReturnIsPlain` also needs that nobody waits with a role of
another time (`Careful`), which a decision that overlaps another can undo.
`MembershipHolds` needs more than `MembershipSound` says:
inside an election and between a write and its event the property's own condition is
false, and `Ordered` says what is owed there. `NotifiedOnce` needs no condition at all:
the update's `status = 'draft'` lets one publication through, and a handler that died
before its fan-out is not repeated, because what it wrote is no draft any more.

The proofs of `ClubLifeProofs` use no bound of the instance: people, screens, clubs,
universities, meetings, invitations and terms are any sets, finite where something
is counted. Two kinds of finding came out of the attempts. First, the assumptions that
were missing: a committee, the supporters and the proposals of a student are finite
sets (they are counted), there is at least one proposal to name, and the row of no
term (`NoTerm`) is not itself a range, so that a range with one end replaced is never
"no row". Second, two CASEs whose guards overlapped, which TLC reads from the top and
the logic does not: `ScheduledPublish.Create` (a post created live is not one
scheduled for the past) and `AnnouncementBoard.Written` (a removal is not an edit);
their guards now exclude each other, as the code's branches do. Several invariants
needed a second part that no property states: which kinds of request there are at
all (`RsvpKinds`, `BoardKinds`, …: with whom each `pc` may occur), because the type
invariant allows records that no handler makes.

The proofs of `AdministrationProofs` use no bound of the instance either, and found
the same two kinds of thing. Missing assumptions: the users and the members a
committee may have are finite sets (the last admin and the majority are counted);
there are a super admin and a university admin to begin with, and nobody is
both; the tenant's own role is none of the four of the catalogue; a node of the
tree that is its own parent is the tenant, which has something below it; a mail has at least
one attempt; no value of a setting is "no row"; and no feature is open by default, as
none is in `tenant-settings.catalog.ts`. And expressions that TLC and the proof
system group differently (a set difference or a union after the prefix operators
SUBSET and UNION), which now have their parentheses. Without those the theorem would
have been about another formula than the run.

`DeliveryProofs` is for any sets and numbers within the ASSUMEs. `Paging` had the longest
way: a page is the first `limit` rows that follow the cursor, which the code leaves to
ORDER BY and LIMIT and the module to a CHOOSE over subsets, in an order that may have
ties. `PageFits` says what the invariant needs of it (no row of the page follows its
last one, every row left over does, each up to the ties that the properties except),
and is proved for each of the four orders; the feed's needs that each of its sources
has a page at all (`TopsExist`).
`Shutdown` needs that the list of tasks is the code's, so that
"connections after the work that uses them" is a fact of ten cases.
The attempts found assumptions that were missing: "no
expiry" and "no row" are no times and no rows; a draft is not the old post; a key of
`LEGACY_PERMISSION_KEYS` is not in the catalogue, as in `rbac-catalog.ts` (else a run
would delete what it then attaches); and what is counted is finite. And they found
one action that was wrong: in `Deployment` a bootstrap that had failed, whose
transaction is rolled back, still kept administrators from the permissions it would
have deleted. The guards now ask of running ones only (`Deleting`), and the run and
its properties hold over the behaviours that were left out before.

Every invariant that a passing run checks is now stated by a theorem. Model-checked
only: liveness (`CallsEnd`, `Recovers`, `SparesRedis`, `ScheduledLeadsOut`), whose proof needs ENABLED or fairness.

## 5. Where code and documents part

Four are runs (`PROJECT.json`, "findings"). Others were met while modelling and
are stated in the modules by what a property excepts:

- **cache**: a call that joins a running load is answered with a value older than
  an acknowledged invalidation (`src/core/cache/cache.ts:167`, against 150); the mark
  of an older overlapping load keeps a later load out of the cache too (204-207).
- **breaker**: a late success of an operation sent before the breaker opened closes
  it early (`circuit-breaker.store.ts:134`, against 23-24).
- **publishing**: the worker and the publish route can both publish an activity
  (`activities.service.ts:161`), also one cancelled meanwhile (171); a moved schedule
  is not obeyed by a job already running (`announcements.service.ts:237`); a crash
  between publishing and the fan-out leaves a post unannounced.
- **applications**: the summary is overwritten from a stale read
  (`admin.repository.ts:121`), an upheld appeal opens an application beside another one
  that the student has open by then (`club-application-review.repository.ts:198`, against
  `clubs.service.ts:66-69`), votes given at once can miss the majority and votes of
  former members count (`club-application-committee.service.ts:312`), a withdrawal
  deletes an application decided meanwhile (`clubs.repository.ts:292`), an appeal
  against a committee's refusal finds no reviewer (`club-application-review.service.ts:249`).
- **committees**: a committee taken out of service between the membership check and
  the count has no members, the threshold is one, and that vote decides
  (`club-application-committee.service.ts:320`); the tally of such a committee says
  that nobody has yet to vote, and names who has not (`:154`, `:187`); an update that
  names only members gives `set()` nothing to set, which throws
  (`approval-committees.repository.ts:77`); castVote reads through the pool while its
  transaction holds a connection, so that as many votes at once as there are
  connections wait for each other.
- **checklist**: `docs/integration/admin-panel.md:287` says that the switch stops an
  approval while required items are open; a last step that is a committee's is
  approved by its vote, which does not ask (`club-application-committee.service.ts:351`);
  a tick let through before an approval is written after it.
- **gallery**: an entry keeps the address of an image its uploader has removed, and an
  upload cut short leaves a file that no row tells of (`db/schema/media.ts:14-17` says so).
- **membership**: a crash while an elected board is written leaves two presidents
  or none (`general-meetings.service.ts:228`); the administration can remove the
  president (`admin.repository.ts:614`) and writes no history (`admin.service.ts:633`);
  the club role guard does not ask `leftAt` (`clubs.repository.ts:124`).
- **governance**: two supports at once are counted once (`clubs.repository.ts:541`); two
  elections at once leave two boards in office (`general-meetings.repository.ts:103`);
  an acceptance writes over a refusal it did not see (`club-advisors.repository.ts:83`).
- **activities**: two answers can take one last seat (allowed by
  `activities.repository.ts:320-322`); a cancellation may be undone by a publication
  that read before it; an activity's cancellation carries no club, so that a mute of
  the club does not cover it.
- **sessions**: a request that joins a load older than a ban is let through after
  the ban was answered (`src/core/cache/cache.ts:166`, against
  `docs/integration/moderation.md:37`); an old verification link lifts a suspension
  (`auth.service.ts:811`); lifting a suspension makes a never verified account active
  (`moderation.service.ts:56`); anonymising leaves the sockets open (146); two
  overlapping requests for a link leave two live links (`auth.service.ts:273`).
- **administration**: a changed rank or name is not told to the cache (`updateRole`);
  authority goes by the name of a role (`auth.routes.ts:59`), which is unique per tenant
  only, and who may make a role may name it (`auth.service.ts:963-1008`); a deleted
  tenant keeps its open invitations and its cached status, on which one may be accepted
  until the TTL (`auth.service.ts:697`, `university.service.ts:189`); two
  removals at once can remove the last two administrators (`auth.service.ts:198`); a
  user may be placed in a deleted department (`admin.service.ts:156`); a failed cache
  write after a change of a tenant's status answers 500, and the retry is refused as
  unchanged (`tenants.service.ts:85`); a login finds an account by its e-mail alone
  where the index is unique per tenant; the schema of a settings patch takes arrays
  of strings only, so that the review checklist cannot be set over the API.
- **delivery**: a fan-out swallows its errors, so that the queue's retries never run,
  and a crash runs the whole of it again (`notifications.fanout.ts:36`);
  `notifications.repository.ts:53-57` says that no row is skipped, but the cursor
  travels in milliseconds; the feed sorts by milliseconds and compares microseconds
  and ends early when its cursor's announcement is deleted.
- **poster codes**: an update with `targetClubId` null and no type leaves a club's
  code without a target, which nobody of the club may cancel any more; one that only
  names an activity sets both columns and keeps the type; a cancelled code can be
  updated.
- **rate limit**: `ratelimit.store.ts:5-11` calls the adapter atomic, but EXPIRE
  follows outside the pipeline and may stretch a window.
- **shutdown**: `src/index.ts:230-232` says that no job is left half done, but a
  publication in hand may find the fan-out queue closed and nobody waits for a sweep.
- **deployment**: `rbac-catalog.ts:148` says that role names are not unique, while the
  schema has a partial unique index on them; of two first runs at once one fails and
  its rerun succeeds.

## 6. Not modelled

In the modules above: several accounts, tenants or clubs at once (they share
nothing there but what is modelled); three or more requests of an application at
once; `Cache.set` and namespace invalidation over sets of keys (the write-through
caches are in `Tenants` and `TenantSettings`); failures of Redis in `AuthSessions`
(they are `Cache`'s); two processes in `AuthSessions` (sockets on several instances
are in `NotificationSockets`); the catalogue of permissions beyond two, and
`deletePermission` but where it meets a bootstrap; updating and cancelling poster
codes more than once each, its retries for a unique code and its analytics;
legacy cursors of the feed; the in-memory rate limit store, which the application
never uses; `seed.ts`, which is for development; bootstraps before a migration (the
deploy runs them after it).

Without a property: the memberships of an elected board are written in separate
statements after the election committed (`general-meetings.service.ts:228`).
`ClubMembership` models it, and `MembershipSound` and `ClubHasPresident` except the
crash between them, because nothing in the code promises otherwise.

Parts listed as not modelled in `PROJECT.json` (exports, public pages and previews,
adapters for logs, mail, metrics and translation) are reads, single-row writes,
rendering and third-party calls: their state is not read
by another step of the program, so no order of steps can break anything a model
could say. Where other parts depend on an adapter (the mail queue, the push service,
Redis, BullMQ), it is modelled from its use and marked external in the map.
