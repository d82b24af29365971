# Projekt Ikaros in TLA+

Projekt Ikaros is the backend of a platform for role-playing games: a NestJS
server (`src/backend`) over MongoDB, Redis, Socket.IO and an SMTP server. Its
frontend lives in another repository. This directory models the parts of the
server whose correctness hangs on interleavings, failures and retries, checks
them with TLC on small instances, and proves the most important results with
TLAPS for all instances.

The server is single-threaded per process but runs many requests at once:
between two `await`s a request is atomic, and at every `await` any other
request, of this process or of another replica, may run. That is the unit of
every model here: **one action is one database command (or transaction commit)
of one request, and a request's local variables live in `req[r]` or `run[r]`.**

A command can fail, and the code answers its failure in one of three ways. An
error that ends the request after earlier writes leaves what a death at the
same place leaves; it is modelled as that death, and apart from it where the
answer matters (map, scheduled messages, accounts and purchases without
transactions). An error that starts a compensation is an alternative of the
command's action. And an error that is swallowed or only logged
(`.catch(() => undefined)`, the "best-effort" clean-ups) is an alternative too:
the request goes on as if the command had run. The properties then name what
such a failure leaves; where that contradicts what a clean-up is for, it is a
hazard of its own in `PROJECT.json`.

## Inventory

Status: M modelled, P partly, – not modelled.

| Component | State | Operations | What is hard | Status |
|---|---|---|---|---|
| Character accounts (`character-subdocs/character-accounts.service.ts`, repository) | balance, history, currency, `updatedAt`, permissions | adjust, monthly, transfer, undo, change of currency (relabel and convert), settings, content, delete | optimistic lock against atomic increments, transactions with retry, compensation without a replica set, idempotence by nonce, crashes | P |
| Shop purchases and refunds (`campaign/services/campaign-purchase.service.ts`) | purchase log, inventory, account | purchase, refund | three documents, one commit; compensation; retries; two refunds of one purchase; undo on the same account | P |
| Tactical map operations (`maps/operations/map-operations.service.ts`) | scene, its counter, log of operations, broadcasts | apply (45 kinds), undo, deletion of the scene | decisions on a snapshot, writes on the current document, numbers allocated afterwards | P |
| E-mail outbox (`mailer/`) and cron lock (`common/locks`) | outbox, counter per day, lock in Redis | enqueue with direct fallback, batch of the cron | crash between sending and noting it, leases, expiring lock, Redis down, daily cap | M |
| Scene assignment (`maps/operations/world-operations.service.ts`, `maps.service.ts`) | current scene of every member, log of the world | assign one or many, unassign, restore, undo, activate, deactivate, delete a scene | assignment against deletion, re-check and rollback (RC-D6) | P |
| Worlds, memberships, roles (`worlds/`) | owner, roles, counter of players, applications, invitations | join, apply, approve, invite, accept, change a role, leave, transfer, delete, restore, purge, closing of an account | an owner who is a member (RC-R2, RC-R3), decisions on roles that change meanwhile, approvals that fail half way | P |
| Login sessions (`auth/`, `security-tokens/`) | refresh tokens in families, grace pairs in memory, one-time tokens, state of the account | login with and without a second factor, refresh, logout, logout everywhere, new password, reset, closing and reopening, ban | two tabs refreshing at once, an end of the session during a refresh, lost answers, restart | P |
| World chat, scheduled messages (`chat/`) | conversation, its readers, messages, scheduled messages | send, edit, delete, moderate, react, drop a conversation, close and restore a world, schedule, cancel, worker every minute | message into a deleted conversation (RC-D3), tombstones overwritten, list of readers, leases of the worker | P |
| Characters, subdocuments, owners of accounts (`characters/`, `character-subdocs/`) | characters, inventories, owners and primary owner of an account | create, delete, convert, open, create an account, add, remove and promote an owner | creation against deletion (RC-D1), limit counted before the insert, owners written back as read | P |
| Pages (`pages/`) | page, slug, version, type, the character it describes | create, edit, rename, change of type, delete | all or nothing over two collections (DI-04, RC-D2), optimistic lock (RC-P1, RC-P4) | P |
| Campaign catalogue, currencies, price lists, calendars | one document each | CRUD | prices and rates enter the models as inputs | – |
| Global and platform chat, presence | memory of the process | join, leave, rotate | rebuilt on reconnect | – |
| Users, administration, moderation, friendships | one document each | CRUD, status changes | sequential checks; closing and banning an account is in `LoginSessions` | – |
| Game events, timeline, news | one document each | CRUD, reminder cron | the cron's lock is in `MailOutbox` | – |
| Weather, bestiary, libraries, community content | one document each | generators, reviewed entries | pure or CRUD | – |
| Search, SEO, uploads, push, export | external services | input and output | no protocol of their own | – |
| Gateways, common infrastructure, scripts | – | – | forwarding, guards, configuration, one-off jobs | – |

How the parts touch each other. A purchase debits, and a refund credits, an
account through the repository of the account component and its `adjust`; both
modules stand on `AccountLedger`. The inventory is also written by `PATCH
inventory`, which the purchase model contains as it is used with a character
of one's own. A page of a player character creates, renames the reference to
and deletes a character; `WorldPages` therefore extends `Characters`, and the
operations of both run against each other in one state space. A change of
membership publishes an event that rewrites the list of readers of a
conversation: `WorldChat` contains the change, the event and the rewriting.
Scenes are deleted by one service while memberships point at them from
another: `SceneAssignment` has both. Mails of registration, password reset and
moderation all go through the outbox, and other crons (clean-up of
accounts, worlds and global chat, reminders) take the lock modelled with it.

`PROJECT.json` lists the hazards, each at the line where it bites, with the
properties that would notice.

## Modules

| Module | What it is |
|---|---|
| `AccountLedger` | one account document and every MongoDB command on it, as operators: append, append if sufficient, replace with optimistic lock, clear a nonce, undo, recompute for another currency. Money is an integer number of ten-thousandths. The sum of a history is a recursive function, so that it can be proved about |
| `CharacterAccounts` | the requests on accounts, over `AccountLedger`. `ReplicaSet` chooses between transactions (snapshot, conflict at commit, retry by the driver) and the fallback with compensation |
| `TransferPromise` | the abstract specification of a transfer: both accounts at once, once per nonce, "replayed" only of a transfer that was made, and never an error for one that was. No balances, no steps |
| `CampaignPurchase` | purchase, refund and everything else that can happen to the same account and inventory, over `AccountLedger`. The transaction is one step here; `CharacterAccounts` has one spelled out |
| `MapOperations` | read, authorize, compute inverse; write; allocate a number; append to the log; broadcast; undo; delete the scene |
| `MailOutbox` | submit, cron runs with lock, claim, cap, send, bookkeeping, retry; time in ticks |
| `WorldMembership` | one world: who is in it, with which role, who owns it, how many players it counts; every way in and out |
| `SceneAssignment` | on which scene each member is, and what becomes of them when scenes go away; the log of the world |
| `LoginSessions` | the sessions of one user: families of refresh tokens, grace pairs in memory, one-time tokens, the state of the account |
| `WorldChat` | one conversation: its messages, who may read them, what deletes them, and the scheduled messages with their worker |
| `Characters` | characters with an inventory and accounts with owners; creation and deletion are sub-routines that a request of `WorldPages` can enter |
| `WorldPages` | pages, over `Characters` |
| `MCAccounts`, `MCPurchase`, `MCMapOperations`, `MCMailOutbox`, `MCWorld`, `MCScene`, `MCSessions`, `MCChat`, `MCPages` | instances for TLC: documents at the start and what the requests may be |
| `AccountLedgerProofs`, `CharacterAccountsProofs`, `CampaignPurchaseProofs`, `MapOperationsProofs`, `LoginSessionsProofs`, `WorldChatProofs` | theorems and proofs, of one component each |
| `MailAndWorldProofs`, `PagesAndSceneProofs` | the same for two components each, `MailOutbox` and `WorldMembership`, `WorldPages` and `SceneAssignment`, which share no state. Definitions that both would name alike carry a prefix in one of them (`WorldSpec`, `SceneSpec`, `sceneVars`), and each theorem speaks of one specification |

### How they correspond to the code

**Accounts.** A document is a record with the fields that the operations read;
monthly templates are their sums, `updatedAt` is `stamp`, labels and notes are
left out. `req[r].pc` is the `await` a request hangs on. For transactions,
`TransferBegin`/`UndoRead` remember the documents, `TransferCommit`/`UndoWrite`
succeed only if these are unchanged (WiredTiger's write conflict) and
`TransferRetry`/`UndoRetry` run the callback again. Between the commit and the
answer the session is closed, so the answer is a step of its own
(`AnswerTransfer`); a duplicate may be told "replayed" before it, and a request
that dies there is "unheard". Without a replica set the
actions are `TransferDebit`, `TransferCredit`, `FreeNonce` and
`TransferRevert`, in the order of `transferSequentialFallback`. Permission
checks are modelled where they read the account. Creation and ownership are in
`Characters`; here accounts exist at the start.

**Purchases.** A purchase is named by the request that made it; `nonce` stands
for buyer and `clientNonce` with their unique index. The three writes are
`PurchaseTx` with transactions and `PushItem` to `CreateLog` without, followed
by `RevertGate`, `Revert` and `TakeBack` when one fails. `alarm` is the log line
that asks for manual repair. A refund whose credit fails flips the purchase back
(`RefundUnflip`); when that fails too nothing is logged, and the answer is
"stranded". `TakeOut`, too, may fail unnoticed. The price arrives after
discount.

**Map.** All 45 kinds of operation are modelled; those that differ only in the
field they write are one kind with its name (`add`, `update`, `remove` and
`replace` of a list, `set` of a field, `allow` and `disallow`). `InverseOp` and
`Update` are `computeInverse` and `applyAtomic`, split by what is written:
tokens, the combat, a list, a whitelist, a field. `WriteNoop` is
`MAP_OP_NOOP`, after which an undo still marks its target (`MarkNoop`). The
counter is a field of the scene (`findOneAndUpdate` with `$inc`), so deleting
the scene removes it. `writes` is a history variable: the order of the writes,
which the log need not have. A command that fails after the write (`Fail`), or
a death there (`Crash`), ends the request with an answer that says how far it
had come: "unlogged" before the append, "unsent" before the broadcast,
"unmarked" while an undo marks its records.

**Mail.** `run[r]` is one run of the cron, in any replica. `due` is
`nextAttemptAt` relative to the present, `age` how long ago the run read
`now`: claims compare and lease with `now`, not with the present, as the code
does. `Fire` needs the lock, `FireUnlocked` is Redis being down. `lost`,
`accepted`, `late`, `drift` and `taken` are history variables that say what
the SMTP server saw and what excuses a duplicate.

**Worlds.** One world and the documents that refer to it: a membership per
user (`Nobody` is no membership; the role `Zadatel` is stored when
`updateMemberRole` is sent it, since `dto/update-member.dto.ts:18` accepts 0,
although `interfaces/world-membership.interface.ts:9` calls it unused), an
application and invitations. The two reads at the start of a request are steps
of their own wherever a write in between could matter. `transferOwnership` has
its three writes, its re-check of the new owner's membership (RC-R2) and its
rollback; with `replicaSet` the writes of an approval with a draft are one
transaction. Both commands of the rollback (`TransferGiveBack`,
`TransferRegrade`) may fail, which the code swallows. `orphaned` and
`uncounted` are history variables: they note the step that left an owner
without a membership on record, or moved a player past the counter, by name of
what the code leaves open.

**Scenes.** `at[u]` is `currentSceneId`. `scenes` and `active` are the scenes
that exist and those that are active. A move validates, writes, re-checks that
the scene still exists and rolls back if not (RC-D6); a bulk move writes one
member after the other; deletion and deactivation take off the members they
found. `last` is the counter of the world, `log` what was recorded.

**Sessions.** `tokens[t]` has its family and whether it is live; a token is
named by the request that made it. A refresh reads the token, the user, revokes
(`revokeByJti`), saves the successor, remembers the pair in the memory of the
process and answers; a revoked token is answered from the grace pair or counts
as stolen and ends the family. A restart empties the memory. The answer of a
request may be lost on the way, and the browser then still has the old token.
One-time tokens (`consume`) are found and marked in two steps. A logout whose
revocation fails is answered like any other (`LogoutEmpty`), and so is a change
of password or a closing whose event listener fails (`RevokeFails`): they have
ended nothing.

**Chat.** `message[m]` has whether it exists, is deleted, hidden, and its text;
`old` is there at the start and every other message is named by who sends it.
RC-D3's re-check follows the insertion. `allowed` is `allowedMemberIds`,
recomputed from a read of the members and of the conversation, and written as
a whole. A worker claims a message (`ClaimDue`, for ten minutes), posts it
through the same steps as a request and sets its status (`SetStatus`);
`TenMinutes` is the lease running out. `Fail` is an error after a message was
saved, in the re-check, the soft deletion, the preview, the read marker or the
status: the sender is told of an error, and the worker writes "failed".

**Characters and pages.** A request that creates a page of a player character
continues in the sub-routine `create` of `Characters` and comes back at
`then`, or at `otherwise` when it fails. Events (`character.created`,
`character.deleted`) are handled by listeners that the emitter awaits, so
their writes are steps of the request. A listener of `character.deleted` may
fail (`CascadeFails`, CD-09). Whether the error of a listener of
`character.created` reaches `create` is up to the emitter's settings
(`suppressErrors`, which the repository leaves at its default): `Furnish` has
both outcomes. So do the deletions of a roll-back (`OpenRollback`,
`UnsaveFails`, `UndoFails`). `junk` is history: what such a failure left
behind. `AccountLimit` is 20 in the code.
A slug is a pair of base and number, because the code looks for the first free
number. `desk[p]` is what a request holds of its page: the version its client
had loaded, and the document it read.

## What is checked

| Run | Shows | Distinct states |
|---|---|---|
| `accounts_tx` | any three requests out of eleven, with transactions and crashes: balances are sums of histories, no update is lost, `TransferPromise` is implemented, every request ends | 158,735 |
| `accounts_fallback` | the same without transactions, with failing commands, without undo: what the compensating sequence keeps by itself | 236,878 |
| `purchase_tx` | purchases, refunds and all other writers, with transactions and crashes: money and log agree, each purchase is paid and refunded once | 91,266 |
| `purchase_fallback` | the same without transactions, starting without an inventory or a shop section: what compensation settles, and that no item is lost | 1,275,720 |
| `map_ops` | a game master and a player: numbers without gaps, answers are true, also when a command fails or the process dies after the write, concurrent hits add up, the log replays to the scene if the numbers follow the writes and the records tell all, an inverse is accepted and restores, but for the ways named | 3,136,427 |
| `mail_outbox` | two runs of the cron and two mails, day after day, with one fault: the lock excludes, duplicates have a reason, outcomes stay, the cap holds, every mail is settled | 1,828,250 |
| `world_membership` | three requests on one world: an owner who is no member is one the named exceptions explain, the counter of players follows the members but for named exceptions, no applicant is lost between application and membership | 1,395,749 |
| `scene_assignment` | moves of members against what happens to scenes: who is on a deleted scene is about to be looked after, or got there by the named ways, and is taken off in the end; the log tells where everybody is | 569,399 |
| `login_sessions` | three requests of one user on two browsers: a token is redeemed twice only by requests that overlap, an ended session has no live token but for a refresh on its way, a refresh is taken for theft only for the reasons named | 1,254,717 |
| `world_chat` | three requests on one conversation and two workers: where a live message can be left in a deleted conversation, what was removed is not readable again but by the named ways, readers follow the membership, a scheduled message is posted once | 1,690,273 |
| `world_pages` | three requests on pages, characters, accounts and inventories: a failed creation leaves nothing behind but what could not be cleaned up, one edit per version, the reference between page and character holds, what is left behind by deletion, owners and the limit of accounts have only the named exceptions | 1,980,611 |

An *explained* property states the promise together with its exceptions, each
tied to the history that caused it: `OrphanExplained` does not say that there
may be orphans, but that there is none unless a named sequence of steps, or a
named clean-up that failed, took place. The histories (`stuck`, `orphaned`,
`escaped`, `slipped`, `reclaimed`, ...) are set by those steps alone, and the
table of the unconditional promises below shows that the runs reach them.

| Run | Finding |
|---|---|
| `sessions_reopened` | who comes back to an account that waits for its deletion goes on waiting for it: the fields are "cleared" by `$set` with `undefined`, which clears nothing |

### Where code and comments disagree

These properties are defined in the modules; add one to the configuration
named to see it fail. They belong to no run, each for a disagreement with the
comment it quotes.

| Property | Configuration | What happens, and the comment |
|---|---|---|
| `CharacterAccounts!NoFalseReplay` | `accounts_fallback` | without transactions a retry that arrives between debit and revert is told the transfer happened (`character-accounts.service.ts:912`); the comment at 932 wants no "falešný replay „úspěchu“" |
| `CharacterAccounts!SameCurrencyMoves` | `accounts_tx` | a conversion that commits between `transfer`'s currency check (661) and its transaction lets it move units between different currencies; "Účty musí mít stejnou měnu" (664) |
| `CampaignPurchase!RefundedHasMoney` | `purchase_tx` | undo takes back the credit of a refund (462): the purchase stays refunded and the money is gone; "status `refunded` bez vrácených peněz (trvalá ztráta" (`campaign-purchase.service.ts:534`) |
| `MapOperations!UndoneOnce` | `map_ops` | two undos that overlap revert the same operation twice (223); "opakované undo nevrací tutéž op dvakrát" (202) |
| `MapOperations!OthersKept` | `map_ops` | `replace-npc` (1175) and `playerState` (949) write back what others have changed since; "PC tokeny se zachovávají jako jsou" (`scene-ops.dto.ts:127`) |
| `MapOperations!NoNumberNoChange` | `map_ops` | the scene is written before the number is allocated, outside any `try` (`map-operations.service.ts:128`, 149): when the allocation fails, the client gets an error for an operation that is in the scene, without number, record or broadcast; "Správné pořadí: **allocate → apply → log insert**" (`docs/arch/maps/operations/ai-notes.md:131`), and of that failure "Klient: retry s exponential backoff" (`errors.md:111`) |
| `MailOutbox!NoDuplicate` | `mail_outbox` | a mail claimed late in a slow batch gets a lease that is already over (`mail-outbox.sender.ts:84`), and is sent by two runs; "dvě instance si mail nevyzvednou" (27) |
| `SceneAssignment!NobodyDangles` | `scene_assignment` | the rollback writes the old scene back without looking whether it still exists (`world-operations.service.ts:261`); `maps.race.e2e-spec.ts:114` tests that nobody is left on a deleted scene |
| `WorldMembership!OwnerIsMember` | `world_membership` | the new owner leaves, or a closing account hands over, at the moment of the transfer, and the owner on record is no member (`worlds.service.ts:2682`) |
| `LoginSessions!TabsStayIn` | `login_sessions` | between `revokeByJti` and `rememberGracePair` a second tab counts as theft and both are logged out (`auth.service.ts:557`) |
| `WorldChat!NoOrphan` | `world_chat` | a message saved after the messages of a conversation were deleted, and checked before the conversation is, lives on in it (`chat.service.ts:659-661`, tested by `deletion.race.e2e-spec.ts:97` in the other order) |

Met while modelling, and part of the models as the code has it:

* *Money.* A purchase retried while its original is running can be
  answered `INSUFFICIENT_FUNDS` although the original succeeds
  (`campaign-purchase.service.ts:191`). Without transactions, when the
  self-adjust of the account is switched off during a purchase that loses the
  race on its nonce, the compensating credit is refused by its own permission
  gate (`:478`); the log then asks for manual repair, which `MoneySettled`
  excepts. An item that costs nothing stays in the inventory when the account
  disappears before `getAccount` (`:460`). `HistoryKept` fails when two writes
  get the same `updatedAt` (`SameMillisecond = TRUE`): the version of the
  optimistic lock is a millisecond; `BalanceIsSum` is proved for both.
* *Map.* Undo falls short in seven ways, the disjuncts of `Lossy`; without any
  one of them `InverseRestores` fails. The inverse of `combat.turn` carries no
  round, and is refused when the token whose turn it was has gone; that of
  `combat.end` restarts the combat; that of `fog.brush` is the opposite brush;
  that of `npcTemplate.remove` leaves out the tokens removed with it (the
  last three as comments say); that of `npcTemplate.add` removes tokens that
  already named the template (`:571`, `:1397`; the `add` looks at none, `:1384`).
  `combat.reorder` must be a permutation
  (`map-operations.service.ts:1318`), but only the length and the membership of
  each id are checked: an order that names a token twice is accepted and cannot
  be put back. An effect that does not carry a `tokenId` of its own gets an
  inverse with an empty one (566), which the validator refuses: the record
  stays on top of the undo stack and blocks it. An absolute `currentHp` is clamped in a copy: log and broadcast carry the
  number that was sent.
* *Inventory.* `PATCH inventory` saves the sections a client loaded before a
  purchase or a refund changed them (`character-subdocs.service.ts:629`).
* *Worlds.* An approval with a draft does not count the player it admits, and
  a transfer that raises one does not discount it; a member who leaves twice at
  once is discounted twice. `acceptUserInvite` (1540) looks neither at the
  expiry nor at the state of the world; an invitation revoked meanwhile becomes
  accepted. A link is followed more often than `maxUses` by requests that
  overlap. A change of role that overlaps a transfer can demote the new owner,
  and an approval with a draft makes an existing PJ a Hrac.
* *Scenes.* `deactivate` takes off a member who has moved elsewhere since it
  read the list (`map-operations.service.ts:1040`); the rollback of a bulk move
  writes null over members moved meanwhile.
* *Sessions.* Overlapping refreshes put two live tokens into one family; a
  refresh on its way during a logout leaves a live token behind it. `banUser`
  keeps an old `bannedUntil`.
* *Chat.* Restoring a world restores every deleted message in it. The re-check
  of RC-D3 does not see a soft deletion. Cancelling a scheduled message that has
  been claimed is answered 204 and it is posted. Of two overlapping changes of
  membership one is lost in the list of readers.
* *Characters and pages.* Changing a page's type to player character creates the
  character before a write that may be refused; the character then blocks later
  attempts with 409. Renaming a page does not rename its character, although
  `pages.service.ts` calls the equality of the slugs an invariant. Fields set to
  `undefined` in `$set` are not cleared here either. An account goes with its
  last owner's deletion although a co-owner was added meanwhile. The slug by
  which DI-04 rolls back can meanwhile be that of another character.
  A character deleted while it is converted can be given an inventory.

### Bounds, and why they are enough

* Three requests (for mails: two runs of the cron; for chat also two workers).
  Every hazard in the list needs two requests that overlap and at most one that
  prepares the ground or repeats an earlier one (a retry, a deletion, a second
  undo). In `MapOperations` and the newer modules `Plans` says which triples are combined;
  the MC modules build them from groups that share state, so that within a
  group every triple occurs.
* Money: two accounts, one nonce, two currencies at rates 1 and 2: transfers
  cross and repeat, halves get rounded. Amounts are small enough to reach the
  limit of a balance and large enough for two debits not to fit.
* Map: three token ids, two cells, hit points up to `MaxHp` = 4: a hit can reach
  zero and a token can disappear and come back under its id. Eight groups of
  operations (tokens, twins under one id, turns, effects of the combat, settings, activation,
  lists, sets); `DiceLimit` = 2 (50 in the code) with one roll at the start.
* Mail: `BatchSize` 2, `MaxAttempts` 2, `DailyCap` 1, `AttemptMax` 2, `Lease` 3,
  `LockTtl` 4, `DayLength` 4, `Backoff` <<1, 2>>, `Margin` 1. The code has 20,
  5, 400, about 40 s, 5 min, 10 min and a day; what matters is kept: an attempt
  is shorter than a lease, a lease shorter than the lock, and a full batch of
  slow attempts outlasts the lease and reaches the lock's expiry. `MaxFaults` =
  1 bounds crashes, errors and lost answers per behaviour; each kind of fault
  occurs at every place it can.
* Worlds: an owner, a helper, a player, a stranger and an administrator, one
  invitation by name and one link with one use, five beginnings (an open world
  with and without a draft or transactions, a public one, a deleted one).
  Crashes at every place.
* Scenes: two scenes, a game master, two players and a stranger.
* Sessions: one user on two browsers, with and without a second factor, with an
  account that is usual, waiting for deletion or banned; `MaxRestarts` = 1.
* Chat: one conversation, one member of it, one other player and a game master;
  `MaxFaults` = 1, a death or a failed command.
* Pages: a page with a character, a page without, a second character and an
  account of both; `AccountLimit` = 2 (20 in the code) is reached by one
  creation; `MaxFaults` = 1, a death, or a listener or clean-up that fails.
* Symmetry is used on requests (and workers) that are alike, and no liveness is
  checked under it. `CHECK_DEADLOCK FALSE`: a finite set of requests is done at
  some point. In `mail_outbox` time goes on for ever.

### Fairness

`FairSpec` of `CharacterAccounts` and `CampaignPurchase` gives each request
weak fairness: the event loop runs a continuation that is pending, and the
driver repeats a callback after a conflict. A crash is never fair.
`Termination` needs no more, because a retry can only be caused by another
request's commit. `FairSpec` of `SceneAssignment` is the same on the steps of
moves and of staging; `DanglingSettled` then says that the re-check of a move,
or the deletion that is under way, takes a dangling member off the scene,
unless a process died or the step is one of those that write a scene back. In
`MailOutbox`, `Fairness` says that time passes and that each run's next command
is carried out; firing is part of it, since the scheduler starts the cron every
30 seconds. No fault is fair and the SMTP server may refuse for ever: `Settled`
then follows from `MaxAttempts`.

## What is proved

For every value of the constants, under the assumptions named in the modules
(`LedgerAssumption`, `AccountsAssumption`, `PurchaseAssumption`,
`MapAssumption`, `MailAssumption`, `WorldAssumption`, `SceneAssumption`,
`SessionAssumption`, `ChatAssumption`, `CharactersAssumption`, which TLC
evaluates in every run of those modules):

| Theorem | Statement |
|---|---|
| `CharacterAccountsProofs!TypeCorrect` | `Spec => []TypeOK` |
| `CharacterAccountsProofs!BalanceAlwaysSum` | `Spec => []BalanceIsSum`, with and without transactions, faults and equal timestamps included |
| `CharacterAccountsProofs!HistoryNeverLost` | `Spec => HistoryKept`, assuming `Serial` |
| `CharacterAccountsProofs!FailuresCompensated` | `Spec => []FailureCompensated`, assuming `Serial` |
| `CharacterAccountsProofs!PromiseImplemented` | `Spec => KeepsPromise` (the refinement of `TransferPromise`), assuming transactions and distinct timestamps |
| `CampaignPurchaseProofs!PurchaseTypes` | types, and every balance is the sum of its history under purchases and refunds too |
| `CampaignPurchaseProofs!RefundOnce` | `Spec => []RefundCreditedOnce`, with and without transactions |
| `CampaignPurchaseProofs!MoneyLogged` | `Spec => [](ReplicaSet => MoneyMatchesLog)` |
| `CampaignPurchaseProofs!BoughtOnce` | `Spec => [](ReplicaSet => PaidOnce)` |
| `CampaignPurchaseProofs!MoneyBalanced` | `Spec => [](NoUndo => MoneySettled)`, with and without transactions |
| `CampaignPurchaseProofs!FallbackBoughtOnce` | `Spec => [](NoUndo => PaidOnce)`, with and without transactions |
| `CampaignPurchaseProofs!RefundsRepaid` | `Spec => [](NoUndo => RefundSettled)`, assuming that no purchase is refunded at the start |
| `CampaignPurchaseProofs!ItemsKept` | `Spec => []ItemsDelivered` |
| `MapOperationsProofs!LogGapless` | `Spec => []SeqGapless` |
| `MapOperationsProofs!BroadcastDurable` | `Spec => []BroadcastIsDurable` |
| `MapOperationsProofs!AnswersTruthful` | `Spec => []AnswerTruthful` |
| `MapOperationsProofs!MapTypes` | `Spec => []TypeOK` |
| `MapOperationsProofs!UndoRestores` | `Spec => InverseRestores`, for every kind of operation |
| `MapOperationsProofs!HitsCount` | `Spec => []HitsAddUp`, assuming of the scene at the start that ids are unique and hit points at most `MaxHp` |
| `MapOperationsProofs!LogReplayed` | `Spec => []LogReplays` |
| `MailAndWorldProofs!LockMutex` | `Spec => []LockExcludes` |
| `MailAndWorldProofs!MailTypes` | `Spec => []TypeOK` |
| `MailAndWorldProofs!DuplicatesExplained` | `Spec => []DuplicateExplained` |
| `MailAndWorldProofs!OutcomesFinal` | `Spec => OutcomeFinal` |
| `MailAndWorldProofs!CapKept` | `Spec => []CapHeld` |
| `MailAndWorldProofs!WorldKept` | `WorldSpec => []WorldConsistent`, the invariant the next four rest on |
| `MailAndWorldProofs!MembershipTypes` | `WorldSpec => []WorldTypeOK` |
| `MailAndWorldProofs!GhostsExplained` | `WorldSpec => []GhostExplained` |
| `MailAndWorldProofs!PlayersTallied` | `WorldSpec => []PlayersCounted` |
| `MailAndWorldProofs!ApplicantsKept` | `WorldSpec => ApplicantKept` |
| `LoginSessionsProofs!SessionsEnd` | `Spec => []EndedStaysEnded` |
| `LoginSessionsProofs!TokensRedeemedOnce` | `Spec => []RedeemedOnce` |
| `LoginSessionsProofs!ReuseExplained` | `Spec => AbuseExplained` |
| `LoginSessionsProofs!SessionTypes` | `Spec => []TypeOK` |
| `WorldChatProofs!PostedOnce` | `Spec => []ScheduledOnce` |
| `WorldChatProofs!ChatTypes` | `Spec => []TypeOK` |
| `WorldChatProofs!RemovedForGood` | `Spec => []RemovedStaysRemoved` |
| `WorldChatProofs!OrphansExplained` | `Spec => []OrphanExplained` |
| `WorldChatProofs!AccessFollowed` | `Spec => []AccessExplained` |
| `PagesAndSceneProofs!EditedOnce` | `Spec => []OneEditPerVersion` |
| `PagesAndSceneProofs!CastType` | `Spec => []Cast`: characters, accounts and pages keep their types |
| `PagesAndSceneProofs!OrphansExplained` | `Spec => []OrphanExplained` |
| `PagesAndSceneProofs!LimitKept` | `Spec => []AccountLimitExplained` |
| `PagesAndSceneProofs!OwnersExplained` | `Spec => []OwnershipExplained` |
| `PagesAndSceneProofs!CreationsWhole` | `Spec => []CreateAllOrNothing` |
| `PagesAndSceneProofs!ReferencesExplained` | `Spec => []ReferenceExplained` |
| `PagesAndSceneProofs!SceneTypes` | `SceneSpec => []TypeOK` |
| `PagesAndSceneProofs!DanglersExplained` | `SceneSpec => []DanglingExplained` |
| `PagesAndSceneProofs!LogTold` | `SceneSpec => []LogTells` |

**Accounts.** `BalanceIsSum` is not inductive: a commit or a conversion writes
what a request remembered. `Consistent` adds that (`RequestsOK`): every
remembered document is itself an account whose balance is the sum of its
history, and a request at a place of `transfer` has the shape of a transfer
(a positive amount, two different accounts). `AccountLedgerProofs` shows that
each command keeps a document sound; the sum is shown to exist and to satisfy
its recursion through well-founded induction on the naturals (`LeastNatural`,
`RunningExists`, `SumRecursion`), and `SumAppend`, `SumFront` and
`SumSameDeltas` are the facts the commands need.

**Histories and compensation.** `Serial` says that two writes of one document
carry different timestamps, and that undo runs in a transaction or not at all.
Both are needed: `changeCurrency` recognises a changed document by `updatedAt`
alone, and the undo of the fallback writes the history it read, whatever was
appended since (which is why `accounts_fallback` has no undo). Under `Serial`
`Traceable` is inductive. `Changed` is all that a step may do to a document;
`AllHeld` says what a request holds at its place (a conversion's document is
the current one if its timestamp is; a history about to be undone ends with an
unlinked entry; a commit's nonce was free); `LegsLinked` keeps undo away from
the legs of transfers; and `AllOnCourse` says which legs are where while a
transfer is under way. `HistoryKept` then follows from `Changed`, and
`FailureCompensated` from `AllOnCourse`.

**The refinement.** With transactions `PromiseInv` adds `NoncesMade` (a nonce
on a source account is that of a transfer that was made, answered or not) and
`ReplaysMade` (the same of the nonce that a replay is about to report). A
transfer that was made stays made (`CarriedStays`): only its answer is left to
come. A commit maps to `Execute`: the nonce cannot be spent, since the snapshot
was free of it and is still current. The answer after it maps to `Confirm`, the
deletion of an account to `Close`, every other answer to `Replay` or `Fail`,
and every other step to a stutter.

**Purchases.** `MoneyConsistent` says, besides types, what the money hangs on.
`Marks`: a purchase's debit carries the origin that undo refuses, so no undo
can separate it from the log. `LoggedLast`: a purchase is in the log only once
its request has ended, so no compensation can follow. `Flipped`: the command
that turns `active` into `refunded` succeeds for one refund, and only that one
(the `Holder`) may credit; this needs no transaction. `Atomic`, under
`ReplicaSet` only: debit and log entry of a purchase come together, and two
entries of one buyer have different nonces. `PurchaseAssumption` requires that
transactions present at the start do not carry a name of a request to come.

**Purchases without transactions.** `Compensated` adds to `MoneyConsistent`
that an account that is gone has no transactions (`Live`), that answers come
last (`Pending`), that the log has one entry per nonce (`OneNonce`) and, at
each place of the sequence, what the purchase has taken and not given back
(`MoneyAt`). The last part holds as long as no undo has succeeded (`NoUndo`):
a compensation and a refund's credit are plain transactions, which `undo` takes
back like any other, so without the condition the statement is false - the
table above has the refund's case. For refunds, `Repaid` says who
covers a purchase that is marked refunded: a request that is about to
credit it or to unmark it, one that died or could not unmark it, or the credit
itself. A purchase that
is refunded before the model starts has nobody who covers it, which is what the
assumption of `RefundsRepaid` excludes. `ItemsKept` rests on `Stocked`: between
the push and the log the item is in the inventory, and only its own purchase,
or the one refund that holds it, takes it out. It needs no condition on undo.

**Map.** `LogConsistent` is `Shape` (the records have their fields), `Numbers`
(for each request: before allocation it has no number, at the append its
number is one the counter gave out and is not in the log, afterwards the log
has it), `Given` (each number up to `lastSeq` belongs to exactly one request)
and `BroadcastIsDurable`. `Given` is where gaps and duplicates would show;
`Numbers` is needed because `AppendRecord` copies the number from the request.
`Answered` then follows each request from its update command to its answer:
`OnItsWay` says what has been written, logged and broadcast at each place, and
`Truthful` what an answer promises.

`MapTypes` and `UndoRestores` rest on `MapTyped`: besides the types, a request
about to write has a payload that passed `Valid` and `Precondition` on its
snapshot, and carries the inverse computed from that snapshot (`Decided`). What
remains of `UndoRestores` speaks of one scene and one operation
(`OperationReversed`): update it, update the result by the inverse, compare. It
is shown kind by kind. Most kinds give back the very scene; `token.remove`,
`remove` of a list, `combat.effect.remove` and `tokens.replace-npc` give it back
up to the order in a list, which is why `SameScene` compares lists that way. The
facts about lists (`KeptFacts`, `WithoutLast`, `BackAtTheEnd`, `KeptFirst`) come
by climbing the sequence (`Climb`) from the recursive function `Kept`. It was in
this proof that the seventh way of `Lossy` showed.

`HitsCount` rests on `HitsCounted`: as long as no other write has set the hit
points of an id, every token of that id has the hit points of the start plus
the sum of the hits written, clamped. A write adds its delta to the sum and to
every such token, whatever its snapshot was; the sum over a set does not depend
on the order in which its elements are chosen (`SumAny`), and clamping after
each hit is clamping the sum, as no sum is positive and the start is within
range (`ClampTwice`). Without the two assumptions the statement is false: a token
above the maximum loses the excess with its first hit, and of two tokens with
one id the code looks at the first.

`LogReplayed` rests on `Replayed`: as long as every record tells all that its
update did, there is a sequence of scenes that begins with the first and ends
with the present one, each made from the one before by the record of a write. A
write adds one: `WriteTold` shows, kind by kind, that an update whose record
tells all does the same when the record is applied to the same scene. The fold
in `LogReplays` is a function on sets of positions; it is shown to exist
(`FoldExists`) and to follow that sequence (`FoldIsReplay`). The proof corrected
the property. It used to ask for unique ids in the scene at the end, which is
not enough: `token.add` does not refuse an id that is taken, a hit then finds
both tokens (`map-operations.service.ts:1599`) and the record has the hit points
of the first only (`:1656`); one of the two may be gone by the end. `Untold` now
names that case beside the stale arrays.

**Mail.** `LockConsistent` is `Shape` and `Owned`: a run that has the lock and
is younger than its expiry owns the key, which expires exactly when the run
comes of age. Two such runs would own one key, hence `LockExcludes`. `Owned`
needs the script that compares the token before it deletes the key.
The other three results rest on `Typed`, which also bounds how long a run has
been at work. `Leases`: until a lease was too short (`late`), a mail that a run
handles is pending, is handled by no other, and comes due only after the attempt
must have ended; so nobody writes over an outcome (`OutcomesFinal`). `Noted`
adds to it that a mail that may still be claimed was taken only as often as its
taking went unnoted (`DuplicatesExplained`). `Tally` says that, without a
fault and a run past midnight (`drift`), one run is at work and the number it
compares with the cap is what the SMTP server took today (`CapKept`).

**Worlds.** `WorldConsistent` is inductive. `LetIn`: whoever is a member is in
`admitted`, and so is the author of an application whose approval is about to
drop it, which is all that `ApplicantKept` needs of a step. `GhostNamed` names
the request that will look again at an owner without a membership: a transfer
to just that user. `Counting` says that an increment is held only at the place
that carries it out; with it `PlayersCounted` is an invariant by itself, a
counting of sets in which each step moves at most one user or one request. That
is why `WorldAssumption` has users and requests finite. The purge and the month
that passes are steps of no request and have lemmas of their own.

**Scenes.** `Minuted` is inductive. `DanglingExplained` is a part of it and
needs `Courses`: what a request at each place of a move has written and has yet
to look at (`Wrote`), that a deletion about to clear has deleted, and that a
move that writes back has been noted in `disputed`. For the log, `Numbers`
says that a number taken is used once. `Known` is the bookkeeping of one member
whom nobody disputes: at most one request has moved him and not said so; what it
will say is true, and will be the last word; if there is none, the last word in
the log is true already - or was, while its scene existed (`Stands`). A record
is written after the move and deletions write none, so no simpler link of `at`
to `log` holds. `SceneAssumption` says that who is no member is on no scene and
that the plan of an unassignment sends its members nowhere (`Absent`,
`Unassigning`): both are what the code's documents and requests are.

**Sessions.** `SessionsConsistent` adds to the two properties `Named` (a family
and a token carry the name of a request that has come so far, so nothing can
appear in a family before it is made), `Carried` (what a request that has found
a token good holds: if its family has ended since, it knows, or the
family is one of those a refresh escaped from) and `Spent` (a token that was
redeemed is no longer live, and whoever still holds it had found it good
before). For `AbuseExplained`, `Reused` says that cookies, grace pairs and
answers name tokens that were saved, and why each spent token is spent
(`DeadExplained`): it was forgotten in a restart or its grace period is over,
its family was ended, it has a grace pair, or its refresh is between the
revocation and the pair. `Typed` needs `Tracked`: a refresh is overtaken only by
the end of a family that its token has.

**Chat.** `ScheduleConsistent` is `Shape`, `Honest` (a worker that has answered
"ok" did post), `Claimed` (two workers hold one message only if it was claimed
again after its lease) and `Told` (a final status was set by a worker that has
done its work). That the status is written after posting is what makes a
duplicate possible after a death, and what makes a lost message impossible.
`ChatTypes` gives the types the other results need. `Removed`: once the message
was deleted its text is gone and nobody who found it before is on his way, or
the excuse is on record. `Emptied`: from the sweep of the messages on, whatever
can be read is passing - its sender is still to look at the conversation, died,
met an error after it was saved, or slipped between the sweep and the deletion.
`Synced` speaks of the changes of membership on their way, which the property
does not: two at once are both marked (`Racing`); one that is not marked knows
the membership as it is (`Knows`); the list it is about to write is right about
its own user and as it was about the others (`Listed`); and who is wrong on the
list in force is on his way (`Followed`). The proof showed that the property has
to call a conversation quiet only when no change is anywhere between its write
and its list.

**Pages.** `EditsConsistent` is `Course` (what a request at each place of an
edit or of the change of type holds, and that the version it loaded is not
newer than the page's), `Unmet` (a page still to be made has no edits) and
`Passed` (a successful edit has left the version it started from behind). Most
steps are a turn of one request that keeps the pages (`Kept`); only saving,
loading and writing a page need an argument.

**Characters.** `Cast` types what the requests know of characters, accounts and
pages; the rest is one layer for each property. An inventory without a character
has somebody who is about to look again or to delete it, or the failure to
delete it is on record (`Explained`). Who is about to insert an account counted
fewer than the limit (`Counted`). The primary owner of an account that no two
requests wrote past each other is among its owners, and each of these exists, is
being deleted or was left on it by a failed listener (`Owned`); that holds
whichever of the remaining owners inherits. `Whole` says that no two characters
share a slug, and how much of a creation is there at each of its places
(`Creator`), up to the roll-back that finds the character by its slug.
`References` is the largest: a page refers to a character made for it (`Refers`)
of its slug and kind (`Fits`), an edit knows what the page was and what it has
become (`Follows`), the character it makes or whose kind it changes is the
page's (`Employs`, `Maker`), and an edit about to write has the kind right, or
another one is as far, or it will be refused (`Waiting`).

Every invariant and every action property of a run is the property of a theorem,
but for three kinds of results that are only model-checked:

* liveness under fairness (`Termination`, `Settled`, `DanglingSettled`), which
  is out of the provers' reach;
* properties whose theorem has a condition on the constants or on the history:
  `HistoryKept` and `FailureCompensated` for equal timestamps, `MoneySettled`,
  `PaidOnce` and `RefundSettled` once an undo has succeeded, `HitsAddUp` for
  scenes that start with twins. There the run shows what it shows for its
  instance, where they hold, and the condition is one without which the
  statement fails;
* the finding, the run `sessions_reopened`, and the unconditional promises that
  the code does not keep.

## Not modelled

The models cover the code whose correctness depends on an order of steps. They
map to about 7,500 lines, a small part of the server, and no more of it is
claimed: most of the other lines are validation, mapping between documents and
DTOs, permission tables, generators (weather, seeds, content), read endpoints,
scripts and tests' support, without state that two requests could disagree
about. Left out where a part is modelled:

* accounts: templates and labels; the catalogue of the shop;
* map: fields of a token and of a player's state that no property tells apart,
  `combat.turn` without a token, the diary that mirrors hit points, the blob an
  image leaves behind, the deprecated endpoints that write without the log;
* worlds: creation, themes, slugs, member profiles, elevation of administrators;
* scenes: creation, configuration and templates of scenes;
* sessions: registration, change of e-mail, set-up of the second factor,
  trusted devices, access tokens (they expire by themselves within minutes);
* chat: editing of groups and conversations, previews, whispers, dice, read
  markers, and `PATCH` of lists by hand;
* pages: proposals of players, protected tabs, search, backlinks, templates. An
  approval that overlaps the discarding of its proposal is answered with success
  by both, and an author's edit that overlaps an approval goes live unreviewed;
  proposals are the first candidate for a module of their own.

## Plan

1. `PageProposals`: draft, approval, discarding, and the tabs merged from a
   stale read.
2. `CampaignCatalogue`: a price changed between the display of a shop and the
   purchase; campaigns' storylines.
3. Proofs: that twins on the map come only from `token.add` and from undos of
   one removal by two requests, which would bound what `Untold` excuses.

## Running

    tlc -config accounts_tx.cfg MCAccounts.tla
    tlapm CharacterAccountsProofs.tla

`PROJECT.json` names, for each run, its module and its properties; for each
definition, the lines of the code it models; and for each property a mutated
definition, standing beside the original in its module, that breaks it.
