# ObsidianArc: a verification development

ObsidianArc is a Go server that gives its accounts access to language models: it keeps their conversations, forwards a turn to an upstream provider, meters what the turn cost and refuses what an account may not spend. This directory holds TLA+ models of its core logic, the TLC runs that check them on small instances, and theorems that TLAPS proves for every instance. Paths below are relative to `src/internal/`.

To check a run: `tlc -config Quota_windows.cfg MCQuota` (the module of each run is listed in section 3). To check the proofs of a module: `tlapm QuotaProofs.tla`.

## 1. The system and its components

A request of the chat page passes through these parts:

```
chat/http.go          one handler per turn
  chat.Prepare  --> server.go guard:  quota.Begin (a slot, in memory)
                                      quota.ReserveFor (one transaction, with
                                        bonus holds and perhaps a reset card)
  defer release --> free the slot, quota.Release (gives the reservation back)
  chat.Run      --> openTurn (one transaction on the conversation)
                    ForRequest, LoadForMessages, provider call
                    Append (one transaction, if the branch is still the same)
                    record: usage row, quota.SettleTurn (adds the real cost)
                    deferred Discard of the pictures that were sent
```

Before it, a session, an API key or a token of the OpenID provider says who asks, and the catalogue says which model answers: its route to another model, its provider and the provider's keys. Beside it run the administrator's edits and resets, the users' reset cards and invitations, and in the background the health checker, the janitor of invitations, the request log, the backups and the plugins' describe queue.

| component | state | operations | hard part | what makes it correct |
|---|---|---|---|---|
| quota accounting (`quota/`) | `usage_counters` rows per account, window kind and bucket, each with a random generation; the reset epoch | reserve, settle, release, reset one or all, prune | settlement and release in either order; rows deleted and made again under a running turn; a clock read outside the transaction | counters equal what finished turns cost plus what running turns hold; never over the limit; refunds reach only the incarnation they charged |
| bonus bars (`bonus/`) | grants and shared pools with amount and used, a daily share per user, a lazy reset period | take in three phases, settle, refund, revoke, adjust, change rules | holds that cross a reset, a revocation or a change of rules | balances equal charges plus holds; nothing overdrawn; what was revoked stays unspendable |
| reset cards (`card/`) | cards with an expiry and the windows they clear, redemption codes | grant, redeem, use, automatic use in a reservation, revoke, reschedule, claw back | statements of two transactions on one card | a used card bought exactly one reset; a code mints one card for an account, and no more than it carries |
| row locks of quota, bonus, card | PostgreSQL row locks held by a transaction | every path above | paths that take the same rows in opposite order | no cycle of waiting transactions |
| concurrency limit (`quota/concurrency.go`, guard in `server/server.go`) | slots in flight per account, in memory; the limit is a setting | claim, free | failures between claim and deferred release; the limit switched while turns run | the count is exact and every slot comes back |
| chat turns (`chat/`) | none of their own; local variables of a handler | the sequence above | minutes between reading the history and saving the answer | an answer joins only the transcript it answers; every turn is recorded |
| conversations (`conversation/`) | conversations with a branch revision, messages, attachments with bytes | append, truncate, edit, delete, claim and lift pictures, discard, retention | several tabs, cascading deletes, sweeps | pictures stay with their messages; bytes go when their turn is over |
| models and providers (`model/`, `provider/`) | models with a route, a switch and a provider; providers with an address and keys | create, edit, duplicate, route, switch, delete | transactions under READ COMMITTED; forms that show hints of keys | routes take one hop; a key is sent only where it was typed for |
| health checker (`health/`, `admin/health.go`) | evidence, claims on switched-off models, an uptime baseline | a pass per instance, two conditional writes, the reset | results applied to a model that was changed meanwhile; several instances | an operator's switch stands; one notice per switch |
| sessions (`auth/session.go`, `service.go`, `twofactor.go`) | sessions, the password hash, the enrolment and its last step, recovery codes | sign in, rehash, change, enrol, spend a code, sign out, visit the back office | a password takes a tenth of a second to verify, outside any transaction | a session stands on the password and the enrolment on file; a code buys one thing |
| verification (`auth/verify.go`) | links with codes, a budget of guesses | issue, resend, withdraw, follow, guess, move the address, prune | resends that overlap and a mail server that refuses | an address is proved only by a link of its own |
| sign-in limiter (`auth/limiter.go`) | buckets with failures, attempts in flight and a block | begin, finish, sweep, evict | a map at its ceiling, attempts between begin and finish | counts are exact; a block is served |
| registration (`auth/service.go`, `signup.go`, `provision.go`, `screen.go`, `oauth/service.go`) | accounts, rows of creations, a gate per process | preflight, screen, create, delete | decisions taken on an empty instance before the lock is had | one founder; nobody past the controls or the rates |
| invites (`invite/`, `user/membership.go`) | codes with uses, memberships, rewards pending and paid, a throttle of claims | consume, claim, reward, regenerate, revoke | claims in several tabs; the janitor's walk beside an invitee's own action | uses and rewards are counted once; a claim only adds |
| OpenID provider (`idp/`) | consents, codes, pairs of tokens with their root | approve, exchange, rotate, revoke, purge | two transactions per exchange | one live pair descends from a code; an ended line stays ended |
| single flight and its caches (`flight/`, `admin/allowances.go`, `admin/usage.go`) | calls under way per key, a generation, build slots | look up, build, wait, forget | a build begun before a write and finished after it | nobody is given what is older than an announced write |
| request log (`reqlog/`, `cmd/server/main.go`) | a bounded queue, a batch, stored rows | record, write, trim, prune by age, drain | overflow, failing writes, shutdown | every entry is stored, counted as lost, trimmed or pruned |
| system backup (`systembackup/`) | one row with the lease, the result and the destinations | schedule, run by hand, archive, prune, finish, shut down | a lease in the database, several replicas, deaths | one run at a time; a stored archive stays as long as promised; credentials go nowhere else |
| plugins and settings (`plugin/`, `settings/`) | package rows, a gate, a loaded archive, descriptions; settings rows and a cache | install, update, switch, remove, save, describe | rows and their copies under different mutexes | a gate is open only on something; the copies follow the rows |
| usage ledger, check-in, trials, proof of work, API keys, notifications, compatibility API, users and groups | rows | | | not modelled: see section 5 |
| adapters, front end, mail, console, administration handlers, database layer, screening, audit | | conversion, input and output | | not modelled |

`PROJECT.json` lists every component with its sources and status, and under `hazards` what is hard to test in the modelled ones, with the property that covers each.

## 2. Modules

| module | what it is |
|---|---|
| `Quota` | the counters: reservation (with its bonus and card fallbacks), settlement, release, resets, cards, prune |
| `Bonus` | grants and pools: take, settle, release, lazy resets, revocation, balance and period changes |
| `LockOrder` | the rows each transaction of quota, bonus and card locks, statement by statement |
| `Chat` | a turn from slot to deferred calls, the conversation, its pictures, the concurrency limit |
| `Routes`, `RouteTable` | the writers of the catalogue under row locks, and the atomic table they implement |
| `ProviderKeys` | a provider's keys and address through forms, moves and duplicates |
| `Health` | passes of several checkers, operators, the cascade of a provider, the reset |
| `Rankings`, `RequestLog`, `Invites` | the cached aggregates over single flight; the request log; rewards of an inviter |
| `Sessions`, `Verification`, `Limiter`, `Signup` | sign-in and second factor; proof of the address; the throttle; opening accounts |
| `Claims`, `Cards`, `Consent` | invite codes claimed by accounts; reset cards; the OpenID provider |
| `Backups`, `Destinations`, `Plugins` | backups with their lease; where they go; packages and the settings they are configured by |
| `MCQuota`, `MCBonus`, `MCBarsRoutes`, `MCLockOrder`, `MCTurnsLocks`, `MCBurst`, `MCServices`, `MCAccounts` | the instances that TLC checks |
| `QuotaProofs`, `BonusProofs`, `RowProofs` (the two families of row locks), `ChatProofs`, `AccountsProofs`, `AuthProofs`, `ServicesProofs`, `PlatformProofs` | theorems and proofs |

A database transaction is one action wherever the code takes the rows it depends on first: SQLite runs writers one at a time and PostgreSQL holds the row locks. Where a value is read before the transaction (a clock, an epoch, a history, an account whose password is being verified), the read is an action of its own, so the value can be stale. Where a transaction's own statements can be interleaved with others to a different result (`Routes`, `Claims`, `Cards`, `LockOrder`), its statements are separate actions. Definitions whose comment begins "Mutant:" or "A mutated form of" are seeded bugs, used to confirm that each property can fail; no action uses them.

**Quota.** `rows` is `usage_counters`: a key is account, window kind and bucket start. `gen` numbers the incarnations of a key and stands for the random generation that `bump` inserts. Tokens and credits are one figure, `amount`; the code moves both by deltas of the same form. What bonus bars pay is any share of the estimate (`paid`), since `Bonus` says which. A turn is `Ask`, one of `ReserveOnce`, `ReserveFromBonus` and `ReserveWithCard` (reserve.go), then in either order `SettleClock`, `SettleAnchor`, `SettleCommit` or `SettleFail` (settle.go: the clock, the reset epoch and the write are three moments) and `Release`. The release guard's mutex is held across the transaction, so `Release` is one action guarded by `Releasable`. `ResetAll` reads its moment first (`ResetAllClock`). `ResetWindows`, `UseCard` and `Prune` delete rows under running turns.

**Bonus.** Time is in days from 1, and a pool's period start is the first day of its period, 0 when it never resets. A turn takes once (`Take`, in one of three phases), then settles and releases in either order. `epoch` and `charged` are history: how often a balance was wiped, and what settlements charged since; `moved` is the third piece of history: whether new rules set the start of the period under way on or back since the last wipe. The switches (who has switched a bar on, and each pool's mode) are constants of an instance.

**LockOrder.** A script is what one code path locks, as a sequence of statements, each the set of rows it locks in no promised order. A transaction may stop after any statement, as every path may be refused or fail part way. A row is held until the transaction ends. SQLite begins its transactions with the write lock, so this module is about PostgreSQL. Two things are left out: a switch flipped between the hold of a grant and a later take that locks it again, and one transaction over several accounts in `TakeExpiring`.

**Chat.** One conversation of one account. A turn is a call of the chat handler; its steps are the points where others can act: `Begin`, `Reserve`, `Precheck`, `OpenTurn`, `ReadHistory`, `LoadPictures`, `Return`, `Save`, `Record`, `Discard`, `Leave`, and the ways each can fail. `OpenTurn` is the whole transaction of `openTurn`: lift the pictures of the tail, truncate, append the question, claim its pictures, capture the branch revision. A message carries a version that an edit counts up. The provider returns a usable reply, an unusable one or nothing. Meanwhile the limit is changed, messages are edited, the conversation is deleted, the retention sweep runs and the process may crash, which empties the slots and ends the turns where they are.

**Routes.** A writer (`StartCreate`, `StartRoute`, `StartEnable`, `StartDelete`, `StartProvider`) has the list of rows it locks, one statement after another, in the order of the code: `LockRow` waits while another holds the row. `CheckPasses` is the read that decides and `WriteRoute`, `WriteDelete`, `WriteDeleteProvider`, `WriteSwitch` the commit. `RouteTable` has no locks: every writer acts at once on the table as it stands.

**ProviderKeys.** A key is known by the address it was typed for and by its hint. A duplicate is made in the statements of the code: the check of the source's address, the copy made inside the database, and the insert when the form's keys were typed. Not modelled: the headers a provider may carry, which a form shows whole.

**Health.** A pass lists the models once and takes them in order; a step probes, judges on the evidence in view and writes with its condition on the row. `decided` is history: who switched a model last. `Turn` and `Upstream` are what the world does to evidence; `Age` drops what left the window. The reset of the uptime is `BeginReset`, `Reenable` and `EndReset`, since the handler lists first and writes one model at a time.

**Rankings.** The figures are one version number; an editor commits (`Commit`) and then forgets (`ForgetRankings`). A reader looks up, and on a miss joins a build or leads one: it looks again, may wait for a slot, reads, stores when the generation still is what it was, and answers its waiters; a build may panic or get no slot in time. **RequestLog.** The loop of the logger is `Run`; the process stops by `Signal` or `ServeFails`, `StopBackground` and `CloseDatabase`, whose wait is bounded; an administrator's `PruneEntries` takes the oldest of the rows. **Invites.** `Reward` reads the invitee (`CallReward`) and decides under the inviter's row (`Resolve`). The janitor's walk is a cursor and the page it has read.

**Sessions.** One account. Every operation reads (`Ask`, `SignInRead`, `CompleteRead`), checks what it was given and writes in one transaction under the account's row (`Issue`, `Rehash`, `ChangePassword`, `SpendCode`, `Trade` and so on). Sessions carry, as history, the password and the enrolment they proved. A fresh password is any that nothing refers to any more. `Trade` signs in and promises a remembered browser, and `Remember` reads the hash that the cookie is bound to afterwards, as the handler does. **Verification.** A link and its code are one row. `Resend` writes the row, `MailSent` or `MailRefused` comes later, `Retire` is the cleanup; either may fail and leave its row (`CleanupFails`, `RetireFails`). **Limiter.** `Begin` and `finish` are each one critical section; the sweep on the way in, the walk of a full map and the evictions are part of `BeginAttempt`. Which bucket goes among equals is any; a walk that has to evict takes at least a tenth of the ceiling (`Batch`). The back-off doubles from a second and is cut off at `MaxBackoff`. **Signup.** A visitor's preflight reads whether the instance is empty; the locked pass reads it again and hands back what has to be asked after all. A creation is a row `[by, at]`; each process counts those it made. A sign-up through a provider that brings no address has nothing to screen (`Screenings`).

**Claims.** A claim holds its account's row; what others do to the code falls between its read and its conditional spend (`Claim`, `Spend`, `SpendLost`); a claim that fails keeps what resolving the membership wrote (`LeftResolved`). **Cards.** A redemption, an automatic spend and a claw-back are two steps each; `resets` is history: what each card bought. **Consent.** An exchange spends its code (`RedeemCode`) and saves its pair (`IssuePair`) in two transactions, a refresh reads (`Refresh`) and then rotates (`Rotate`). `ended` is history: the lines revoked by a withdrawal, a replay or a password change.

**Backups.** The clock counts in units of the longest run. A run's work ends at its deadline (`MaxRunDuration`, a context deadline) but for a few writes that take seconds, so the clock does not pass a deadline before them; the processes' clocks agree. **Destinations** keeps, for a credential, where it was typed for. **Plugins.** An operation of the manager (`BeginInstall`, `CommitToggle`, `BeginUninstall`, ...) commits its rows and then brings the copies after it, each at its own step, and may fail at each. A save goes `KnowKey` (the setting is one of an enabled package), `WriteSetting`, `PutCache`, `Notify`. The describe queue of an archive runs `StartRun`, `AskBackend`, `EndRun`. While an enabled package is updated its new description is empty between the swap and the run; that gap is the code's, and `OpenOnSomething` exempts it. A commit whose answer is lost is not modelled.

## 3. Runs

Several components that share no variable are checked in one run: a variable `part` says which of them moves, the others stay where they began. The state space is then the sum of the parts, not their product, and each property sees its own part in full.

| run | module | question | bounds |
|---|---|---|---|
| `quota_windows` | `MCQuota` | are counters and request counts exact, and does a spent card always buy an admission, when windows roll over, rows are pruned and reset, and cards are used? | 2 turns, 1 card, cost 1, two moments, windows of length 1 and 2, one reset of everything, no retention, so that the prune takes rows that running turns hold |
| `quota_burst` | `MCBurst` | turns: can a burst hold more than a limit, do releases spare rows they did not charge? keys: does a key stay with its address? checkers and routed: do switches, claims and notices of several instances agree? backups, destinations, plugins: their properties | 3 turns, one exempt, one moment; 2 editors, 2 addresses, 2 keys at most; 2 checkers, 2 models of 2 providers; 2 processes, 2 runs, 4 hours, retentions of 1 and 2; 2 places, 1 sender; 2 savers, 2 archives, 2 settings |
| `quota_overlap` | `MCQuota` | does a charge that overlaps a global reset stay out of the new epoch? (it does not) | 1 turn, two moments |
| `bonus_turns` | `MCBarsRoutes` | bars: are balances exact, never overdrawn, the daily share kept, revoked credit dead and holds gone with their period, also when a pool's period is given or made longer while it is held? routes: do the catalogue's locks make its writers atomic, and do routes take one hop? | 2 turns, 2 pools (one that pays alone and resets daily until it is made to reset every other day, one that never resets until it is made to reset daily; one of the two changes), 2 grants (one that expires), 2 days, 3 where a period is of two; 2 writers, 3 models, 2 providers |
| `bonus_rules` | `MCBonus` | is what a turn held given back when its pool's rules change? (it is not) | 1 turn, 1 pool, 2 days |
| `bonus_longer` | `MCBonus` | is a hold gone with its period when the pool's period is made longer? (it is not) | 2 turns, 1 pool that resets daily, 2 days |
| `locks_sweep` | `MCLockOrder` | the same when the order by expiry differs from the spending order (they deadlock) | 2 transactions, 2 grants |
| `chat_turns` | `MCTurnsLocks` | turns: does an answer join only the transcript it answers, do pictures stay whole, are turns recorded? locks: can transactions of quota, bonus and cards wait for each other in a cycle? | 2 turns, 1 picture, 1 edit per message, 2 messages of history, sweeps, a crash; 2 transactions, 2 accounts, 2 pools, 2 grants, 2 cards, one moment |
| `chat_discard` | `Chat` | are bytes dropped only once they reached the provider? (they are not) | 2 turns, 1 picture, sweeps off |
| `services` | `MCServices` | rankings, request log, invite rewards and slots, with their liveness | 2 readers, 2 aggregates, 2 editors, 1 build slot; 4 entries, queue and batch of 2, 1 stored; 2 invitees, 1 caller and the janitor, pages of 1; 2 turns, limit 0 or 1, one crash |
| `accounts` | `MCAccounts` | sessions, verification, limiter, claims, cards, consent, sign-up | 2 requests, 2 passwords, 2 secrets, 3 sessions; 2 addresses, 2 mails, 3 links; 2 names, 1 address, ceiling 1; 2 accounts, 3 tabs, 2 codes; 2 holders, 2 cards; 1 client, 2 pairs; 3 visitors in 2 processes |
| `plugins_describe` | `Plugins` | is the description in force made from what was saved? (it is not) | 1 saver, 1 archive, 2 settings |

Two actors are the smallest number that can meet, and nearly every property speaks of two parties (a turn and a reset, a request and a password change, a resend and a move). The exceptions have their third: the limit on what runs together has an exempt turn beside two limited ones, claims have a third tab of another account, sign-up a third visitor through the other door. Two moments are a boundary and what lies on each side of it; the clocks of `Verification`, `Signup` and `Backups` have the three or four that their windows and lives need to run out one after another. Deadlock checking is off because all instances end: requests are made once and clocks stop.

Constraints that keep a part small are operators of its MC module. `BurstSymmetry` permutes only the turns that are alike. `OneMoves`, `OneChecked`, `OneServed`, `OneCloses` and `OneUpdates` (`MCBurst`) give each of two actors its role, since two of one role meet nothing new: an editor who moves and one who duplicates; checkers of one model, or of a model and the one it serves; a process that is shut down and one that only dies; two savers or an update. In `MCServices` one turn goes to the end with its question while the other is refused somewhere before; a refusal is always open to the other, so the constraint cuts no fair behaviour short. `MCAccounts` lets the first of two like requests begin first. `EarlyLimit` (`MCTurnsLocks`) lets the limit change and the crash come before the conversation is there, since `services` has them with a turn under way, and `EditsMeetTurns` lets a message be edited only between the opening of a turn and its save, since before that the transcript may as well have been another. `WhileHeld` (`MCBonus`) lets a pool's balance and period change only while a turn holds some of it, since before that the change is another opening; `OneChange` lets one pool's period change once, and `LongPeriods` has the third day, and only the pools pay, where it does: without either the run does not end in time, and `bonus_longer` and the theorems have neither. In `chat_turns` grants expire in the order they are spent (`locks_sweep` is the other case), and all transactions come at one moment: another moment would only give a transaction counters of its own to lock, in the same order.

### What the violation runs show

- `quota_overlap`: settle.go:38-41 says a settlement overlapping a global reset is charged to the older bucket. The clock is read before the epoch (settle.go:57-58, 108-109), so a reset that commits in between gives the new epoch to the older moment, which falls in its first bucket.
- `bonus_rules`: spend.go:27-28 says what was taken is given back. A change of the reset period moves the start by which a hold is recognised (pool.go:222), and the hold stays in the balance until the pool resets.
- `bonus_longer`: pool.go:514-516 says of a refund to a pool that was reset since the hold that the reset took the hold away. Rules that make a period longer set its start back to that of the longer period (pool.go:222-224), which lies before the last reset and may be the very start that an older hold remembers; its refund (pool.go:518-519) then lowers what others have drawn since, and they can draw it again. The other way round, where the pool loses sight of a hold, is `bonus_rules`.
- `locks_sweep`: service.go:95-99 says every transaction takes rows in one order. `TakeExpiring` locks grants by expiry, spending locks switched-on ones first.
- `chat_discard`: attachment.go:201-204 says bytes are dropped once they reached the provider. `Discard` goes by conversation, so a turn that ends drops the picture of a turn in another tab that has not read it yet.
- `plugins_describe`: packages.go:178-180 says a save returns only once the description reflects it. A package that is being switched on is described before its gate opens, and a save that finds the gate shut asks for nothing.

### What the code leaves open, and no property says

Three hazards of the list are real and have no property: `idp/store.go:919`, `admin/health.go:303` and `chat/chat.go:246`. In each the model has the steps, and what one would like to say is false of the code, so no property could pass. The first three entries say what happens, and what the repository says of it.

- Consent. An exchange spends its code, and a password change or the replay of that code revokes what the account has, and then the exchange saves its pair: the consent stands, so the pair lives. The comment of `RevokeAccount` (store.go:913-918) says that a credential that was replaced takes what was issued under it, and this pair is the exception: `RedeemCode`, `Vouch`, `RevokeAccount`, `IssuePair` in `Consent`. No run records it, because the pair is saved after the change, and the sentence may be read as leaving it out. The withdrawal of consent is different: it deletes the grant, and `SaveGrantedToken` asks for it. Under READ COMMITTED the row a rotation inserts can also escape the `UPDATE` of `RevokeAccount` that began before it. `EndedLinesStayEnded` speaks of the pairs that existed when their line ended.
- Health. The reset lists the models and switches them on one by one, so one that an operator switched off in between comes on again; the baseline is written last, so that a pass between the two still sees the old evidence (`Reenable` and a pass between `BeginReset` and `EndReset`). The comments there speak of a failure in between (admin/health.go:306-308), not of other writers. `EnableIfAutoDisabled` under READ COMMITTED has a race of three transactions that the model's atomic write does not show.
- Chat. After a crash the deferred calls of the handler (chat.go:246) do not run: the bytes of its pictures stay until the retention sweep, its usage row is missing, and its reservation is held until the window rolls over. The code restores none of this when it starts, and no text of it says so.
- Models. `Authorize` reads a model and then its route's target in two statements (model.go:1122); a route that moves between them answers with a pair that no single state had. Reads are not modelled.

### Fairness

Fairness is stated in four modules, each for the goroutine the code itself keeps going; nothing is assumed of clients, administrators, sweeps or crashes.

- `Chat` (`SlotReturns`): weak fairness of each turn's steps. Once a handler has started it goes on: queries and transactions have budgets (`SaveBudget`, 15 seconds for the release), the adapters end a provider call by header, idle and request timeouts, and the deferred calls run on every path out, detached from the request's context.
- `Rankings` (`EveryReaderAnswered`): weak fairness of each reader's own steps after a miss. A build has a deadline and a slot is waited for with one; a panic answers the waiters (flight.go:134).
- `RequestLog` (`Flushed`): the loop goes on (a ticker and two channels, each write with a timeout), and the wait of the process for it is bounded.
- `Invites` (`PendingResolved`): the janitor's steps, on its ticker. A reward's transaction may fail only a bounded number of times (`MostRewardFailures`): one that failed for ever would keep its use pending.

## 4. Proofs

Every safety invariant and action property of the passing runs is a theorem; only liveness is left to TLC. Each proof finds an inductive invariant, shows that the initial states have it, that each action keeps it (one lemma per action or per group of actions that do the same to the state) and that it implies the property; the temporal step is propositional. The invariants were first checked by TLC on the runs' instances. The assumptions are those the modules name (`...Assumption`), and TLC evaluates them in the runs.

One hypothesis is not about the shape of the constants, and it is there because the code fails without it: `SweepAgrees`, of `PathsInOrder` and `DeadlockFree`, says that an account's grants expire in the order in which they are spent. `locks_sweep` is the deadlock without it.

The theorems of `BonusProofs` hold for any periods and any changes of them. What a change breaks is said inside the properties by `moved`. A start that was set on makes a pool forget holds that are still in its balance, so the balance is no longer exact, but what is charged stays within it (`ChargesWithinBalance`). A start that was set back makes it take holds that are gone for its own, so neither bound is claimed. Both last until the next reset and no longer: a period that is due starts after every start any turn remembers, whatever new rules did before (`DuePast`). That is the part of these theorems that no instance shows.

| theorem | property | argument |
|---|---|---|
| `QuotaProofs!TypeCorrect` | (the shape of every variable) | each helper keeps its type (`BumpType`, `RefundCounterType`, ...), and each action is taken in turn |
| `QuotaProofs!CountersCorrect` | `RowsExact` | `CountersInv`: a reservation's generation is never newer than the row's (`Incarnations`), so a row made again is nobody's; what a step adds to a row it adds to the set of held units (`Grown`, `Reserves`), and what it takes it takes from there (`GivenBack`, `Cleared`) |
| `QuotaProofs!WithinLimit` | `RunningWithinLimit` | a reservation is admitted when the row has room (`MayStart`), and the row counts at least what running turns hold |
| `QuotaProofs!ReleaseSpares`, `CardAdmits` | `ReleaseSparesNewRows`, `CardBuysAdmission` | from the same invariant: a refund is guarded by the generation; a card is spent by the transaction that clears its windows and reserves in them |
| `BonusProofs!SourcesSound`, `BalancesSound` | `SourcesExact`, `WithinBalance` | what a walk down the sources gives of each is at most its room, and nothing where it did not come (`WalkGives`): the least place in the order at which this fails cannot exist (`InOrder`). `LedgerStands`: a live grant counts its charges and the holds of open turns, and past its amount there are only holds of settled turns (`GrantStands`); the same of a day's draws (`DayStands`). `PeriodsStand`: every start a pool has was the start of the period of some day, and no turn remembers one past that day (`PeriodStands`), so a reset leaves all remembered starts behind (`DuePast`). While rules have not moved the start, the holds a pool knows by it are those since the reset (`HoldStands`) and it counts them and its charges (`PoolStands`); while they have not moved it back, it counts at least those |
| `BonusProofs!RevokedSound` | `RevokedStaysSpent` | a revoked grant is not eligible, has no room in a settlement and takes no refund |
| `BonusProofs!ResetsSound` | `HoldsFollowPeriods` | `HoldStands`: after a reset no start that a turn remembers is the pool's, so a refund finds nothing unless rules set the start back; in a steady pool the holds since the reset are known and in its balance, so a refund is not cut off at zero |
| `RowProofs!PathsInOrder` | (`ScriptsInOrder`) | what service.go:95-99 promises, of every path and every number of windows, pools, grants and cards. A path without the global reset row goes up the places of one chain (`Climbs`); one with it comes to no row for the first time that is lower than one it holds (`Settles`). Both are shown part by part: a part that follows another begins above it (`ClimbsOn`) or locks only what is held already (`SettlesOn`). Hypothesis: `SweepAgrees` |
| `RowProofs!DeadlockFree` | `NoDeadlock` | `PathsInOrder`, and `LockInv`: rows have one holder, a transaction holds the rows of its past statements and waits for a row of its next. A holder that is not a reset waits upward within a chain; one transaction holds the reset row; take the waiter whose row is highest, and it waits for none in the cycle. Hypothesis: `SweepAgrees` |
| `RowProofs!WritesAtomic` | `WritesAreAtomic` | a refinement: `Routes` implements `RouteTable`. Whoever has found a write to fit holds every row it may depend on (`Covered`), nobody else holds one of them (`Exclusive`), and whoever changes an answer must hold one of the same rows, so what fits at the check fits at the commit (`Checked`). A model created under a provider that is being deleted cannot be held before it is there; its creator holds the provider, which the deletion locks first (`OwnerFirst`) |
| `RowProofs!RoutesStanding` | `RoutesStand` | one hop from the refinement; no circle of waits because everybody locks uphill (`Uphill`) |
| `ChatProofs!AnswersMatch` | `AnswerMatchesTranscript` | `TranscriptInv`: a captured branch is never ahead of the conversation's, so a step that moves the branch on leaves every open turn behind for good; a turn whose branch is current still finds all it was given |
| `ChatProofs!SlotsCounted` | `SlotsExact` | `SlotInv`: the counter is the cardinality of the turns that hold a slot |
| `ChatProofs!TurnsRecorded` | `EveryTurnRecorded` | `RecordInv`: past a certain waypoint there is a record, and no way out leads around it |
| `ChatProofs!PicturesSound` | `PicturesKept` | `ContentInv`: a message's pictures and the pictures' messages agree, and a message's id belongs to one turn, so that rewinds and cascades take both sides at once |
| `AccountsProofs!ConsentSound` | `ConsentHolds` | a pair descends from one code; during an exchange no pair has its code yet; a code is spent once and a pair is rotated by a conditional write |
| `AccountsProofs!ClaimsSound`, `ClaimsAdd` | `ClaimsCounted`, `ClaimsOnlyAdd` | a claim holds its account's row, so what it read of the membership is what it writes over; the code is asked again by the conditional spend. `ClaimsOnlyAdd` compares with the membership as it was at the moment of the claim |
| `AccountsProofs!CardsSound` | `CardsHold` | a code that exists has minted for exactly the accounts it counts; at most one card is marked by a reservation under way, and it is the one used card that bought nothing yet |
| `AuthProofs!SessionsSound` | `SessionsHold` | an enrolment never comes back, since a secret is handed out once: a request that read one either finds it on file with the code it matched or never again (`RequestsStand`). Of the codes of the enrolment on file only those up to `last_step` have bought anything (`CodesStand`) |
| `AuthProofs!AddressesSound`, `MailedLinksStay` | `AddressesProved`, `AMailedLinkStays` | a link is live only for the address the account has; a mail under way carries a link of its own that outlives the mail (`MailsStand`), for which `SendTime <= LinkLife` is assumed: mail.Send has a deadline of 30 seconds (mail/mail.go:176), a link lives for a day (auth/verify.go:32) |
| `AuthProofs!SignupSound` | `SignupHolds` | the founder cannot be deleted, so an instance that is empty is new (`EmptyIsNew`); every account of the last hour has its row and a row is one account's, so counting rows counts at least the accounts (`CreationsStand`, `RowsCountAccounts`) |
| `AuthProofs!LimiterSound`, `LimiterKeepsBlocks` | `LimiterCounts`, `LimiterServes` | a sweep, a walk and an eviction forget only buckets that may go (`MayGo`): no attempt runs under them, nothing blocks them, and they are idle or protect nothing; each state of the map in between is the old one with such buckets gone (`Thinned`, `Fit`). A block is no longer than the wait its bucket's failures come to (`Waits`) and the back-off grows, so another failure never shortens one and a bucket without failures has none |
| `ServicesProofs!RankingsSound` | `RankingsHold` | a generation stands for the newest announced write: what was built under the generation of now is no older than that write, and so than any its readers had seen (`SeenStands`); each key has one flight and its waiters are on it (`FlightsStand`, `WaitersStand`) |
| `ServicesProofs!EntriesSound`, `TrimSound` | `EntriesAccounted`, `TrimIsExact` | an entry is in one place (`OnePlace`), the counters count those in none (`LogCounted`), and after the drain nothing records (`LogStops`); the trim's boundary exists and leaves the newest (`BoundaryExists`, `TrimLeaves`) |
| `ServicesProofs!RewardsSound` | `RewardsExact` | a use that was paid stays paid, or its account is gone (`UsesStand`); cards follow the count by the arithmetic of one more use (`Milestone`) |
| `PlatformProofs!HealthSound`, `OperatorsSwitchStands` | `SwitchesHold`, `OperatorStands` | each write asks the row, so nothing is assumed of the lists the passes work from but their shape |
| `PlatformProofs!BackupsSound`, `CredentialsKept` | `BackupsHold`, `CredentialsStay` | a lease outlasts the deadline of the run it was given to (`OnTime`), so while a run works the lease is neither free nor another's; only an archive that has landed is pruned by its age (`Stored`) |
| `PlatformProofs!KeysSound` | `KeysHold` | a list that is written was made in the same step or by the step that opened it (`KeysReady`), of keys that are there and keys typed for the address it is written with (`ListOfAddress`); dropping equals leaves the n-th of the first places at n, which is one place for each n (`NthPlace`, by counting), so no key stands twice and none is new (`UniqueKeys`) |
| `PlatformProofs!PluginsSound`, `CopiesSound` | `PluginsHold`, `CopiesFollowRows` | where a transition stands: until it commits, rows and gate are as it found them (`Uncommitted`), and once it has, the rows say what it will set (`Undertaken`); a save holds the write mutex from the row to the cache (`Writing`), and the numbers of waiting saves are below what the cache says (`Numbered`); whoever is released waited on a run that began after (`Waited`) |

### Only model-checked

- The liveness properties `SlotReturns`, `EveryReaderAnswered`, `Flushed` and `PendingResolved`: liveness under fairness is out of the prover's reach.

## 5. What is not modelled

- Quota: how a policy is resolved from group and account (an instance fixes the limits), the usage summary, fractional credits and their rounding, the token and credit figures apart from each other. `RecordRejection` has no caller.
- Bonus: creating, updating and deleting bars, granting, flipping switches, changes of a pool's reset amount and cap, pruning of old usage rows. A pool that is used exclusively is outside the balance properties, since an exclusive turn is charged what it cost whatever is left.
- Chat: image generation and the API's completion, which have no conversation of their own; titles, projects, prompts; models that take no pictures; the upload limits and the Image Lab library; listing, search and the time of the daily purge.
- Accounts: profile fields, recovery by administrators of other rank, the records of applications and signing keys of the OpenID provider, batches and partner codes as records, listings of cards and codes.
- Platform: what an archive holds and the restore, which runs with the server stopped; compiled-in plugins, the adoption of a package of an earlier build, host calls and the compiler; a second instance's settings cache, which the code does not refresh; the catalogue being edited during a health pass.
- Components without a module: usage ledger (SQL aggregation), check-in, trials, proof of work, API keys, notifications, users and groups, the compatibility API; and those that convert or move data (adapters, mail, console, handlers, front end).

## 6. Plan

1. An abstract ledger, in which a turn is admitted, charged or given back in one step, with `Quota` shown to implement it; then a module that composes `Quota` and `Bonus`, replacing the free `paid` by what the bars give.
2. New modules, in this order: API keys (revocation against the cache of used keys), the compatibility API's turn, check-ins, trials and proof of work as one-time claims, notifications.
