# sixel-mail in TLA+

sixel-mail gives an AI agent an email address with one allowed contact. The
program is a FastAPI service over Postgres, an email Worker at the edge of the
contact's mail, and Resend for what goes out. Nothing in it is a transaction of
more than one statement: each handler is a coroutine that reads a row, suspends,
writes, suspends, and all of them interleave, on one machine or on several. That
is what these modules are about.

## 1. The system

### Components, their state and their operations

| component | code | state | operations |
|---|---|---|---|
| gate columns | `routes/account.py`, `routes/admin.py`, `routes/allstop.py` | `channel_active`, `admin_approved`, `nonce_enabled`, `allowed_contact` of `agents` | enable/disable, reactivate, toggle, bulk actions, set/link/update contact, `/allstop` |
| nonces | `services/nonce.py` | table `nonces` | generate, validate, check_expired (all one conditional statement) |
| credits | `services/credits.py` | `credit_balance`, table `credit_transactions` | deduct_credit, add_credits (two statements each) |
| inbound webhook | `routes/webhooks.py` | table `messages`, `attachments`, `_knock_timestamps` in memory | `cf_inbound` |
| heartbeat | `services/heartbeat.py`, `routes/api.py` (`get_inbox`), `routes/alerts.py` | `last_seen_at`, `heartbeat_checked_at`, `agent_down_notified`, `alert_status`, `alert_mute_until`, `heartbeat_enabled`, `_heartbeat_cache` in memory, an advisory lock | poll, check cycle, alert links, switches |
| outbound | `routes/api.py` (`send_message`) | `messages`, balances | external and agent-to-agent sending |
| inbox | `routes/api.py` | `is_read` | list and mark read, fetch one, attachments |
| Stripe | `routes/webhooks.py`, `routes/signup.py` | ledger rows with a session id | checkout, webhook with dedupe |
| edge | `_sync_agent_to_kv`, `cf-worker/src/worker.js` | Cloudflare KV | push after each page, lookup per mail |
| sign-up and keys | `routes/signup.py`, `auth.py`, two `rotate_key` | `agents`, `api_keys`, `owner_config` | create agent or pair, rotate, delete |
| limits | `ratelimit.py`, `services/email.py` | windows and a day counter in memory | check |
| migrations | `main.py` | `_migrations` | run at startup |
| client | `client/sixel_client.py` | failure counter | poll, decrypt, alert |
| pages | `landing.py`, `blog.py`, `bestpractices.py` | none | HTML |

### How they interact

* The **Worker** reads KV, refuses strangers, and POSTs the mail to the **webhook**
  with the part after `+` as its nonce. It ignores the answer's status.
* The **webhook** reads the gate columns once, burns or issues **nonces**, takes a
  **credit**, stores a message, or mails a fresh nonce through Resend.
* **Outbound** mail, the down alert and the recovery mail each issue a nonce for
  the Reply-To, so that the contact's reply opens the door.
* The **pages** write the same row from other requests and then push it to KV.
* Each poll of the **inbox** is also the heartbeat; the **checker**, one per machine,
  compares what the polls wrote with what it saw a cycle before.
* **Stripe** delivers each paid session to the webhook until it hears a 200; what a buyer
  paid becomes credits of the same balance that both directions of mail charge.
* **Sign-up**, the key pages and the operator's **deletion** work on rows that the mail
  handlers refer to; the foreign keys are what stops them.
* A **machine** migrates the database before it serves, beside another that may be doing
  the same, and counts requests and mails in its own memory.

### What is hard here

Two deliveries of one mail; a kill switch or a contact change that lands between
two awaits of a handler; an expiry that falls between two statements; a failure
between the charge and what was paid for; caches of several machines that know
nothing of each other; two checkers; an exception that ends a whole cycle; an
alert that is muted, dropped or refused; a balance that was looked at awaits before it is
charged; a message that is marked read on the way to a client that never gets it; an
event delivered twice at once; whole values pushed from stale reads; two requests that
replace a key, or a count and an insert with another insert between them; two machines
that migrate. `PROJECT.json` lists these, each at its
line, under `hazards`, with the properties that cover it or the reason why none
does yet.

### What makes each part correct

* **Door** (nonces and webhook): a nonce opens the door once, for its own agent,
  before its expiry; a good one is never refused without a reason; a mail enters
  only while the channel is open.
* **Credits**: no balance below zero; every credit that leaves was taken by one
  mail that had passed the door; balance and ledger differ only by statements that never ran.
* **Heartbeat**: no alert for an agent that polled recently; one alert and one
  recovery mail per outage; an agent that stays silent is reported in the end.
* **Outbound**: an answer means what it says, a refusal nothing and anything else every
  copy; a letter goes free only when another charge crossed it; no credit goes astray.
* **Inbox**: a message is returned, not again to a poll that begins later, and with the
  attachments that were there, unless a contact change deletes them or it meanwhile; a
  failure or a contact change is the only way to lose one. **Client**: it
  opens what was sealed within its window, across midnights, and refuses the rest.
* **Stripe**: a paid session is credited in the end, and twice only when deliveries
  overlapped or a ledger row was lost.
* **Edge**: a page that runs alone leaves KV a copy of the row; the checks that Worker and
  webhook both make (known, approved, the contact's) differ about a mail only while pages
  were at work or had crossed. This is not to say that the webhook keeps what the Worker
  accepted: the channel, nonces, credits and limits are not in KV, and a mail they stop is
  dropped without a word, as is one whose webhook fails.
* **Keys and sign-up**: a rotation that answered revoked every key there was; two live
  keys, an exceeded limit or half a pair need two requests that crossed; an agent is
  not left without a key by requests that have all answered.
* **Deletion**: it breaks off half way only if a row was added meanwhile.
* **Limits**: what one process lets through in any window, and nobody refused early.
* **Migrations**: no machine serves an unmigrated database, every machine serves in the
  end, and a file runs twice only after a race or a stop.

## 2. Modules

| module | what it is | code |
|---|---|---|
| `Accounts` | the four gate columns and the pages that write them | account.py, admin.py, allstop.py |
| `Nonces` | the nonces table and its statements (extends Accounts) | nonce.py |
| `Credits` | balance and ledger (extends Nonces) | credits.py |
| `Inbound` | the webhook; composes the three above | webhooks.py |
| `Door` | what the webhook promises, without statements and awaits | (abstract) |
| `Outbound` | sending, to people and between agents; composes the same three with the handler of the other direction | api.py |
| `Topups` | Stripe's deliveries against the dedupe (extends Credits) | webhooks.py, signup.py |
| `Client` | the codes and dates a client tries on a message | sixel_client.py |
| `Inbox` | polls, the messages they take, and the client that reads them (extends Client) | api.py, sixel_client.py |
| `Heartbeat` | polls, checkers on several machines, alert links | heartbeat.py, api.py, alerts.py |
| `Edge` | the pages' pushes to KV, the Worker on KV, the webhook on the row | signup.py, account.py, admin.py, worker.js |
| `Roster` | sign-up with its limit and its pairs, keys, deletion | signup.py, account.py, api.py, admin.py |
| `Startup`, `Limits`, `Machines` | migrations; counts in memory; the machines that have both | main.py, ratelimit.py, email.py |
| `MCInbound`, `MCHeartbeat`, `MCOutbound`, `MCRoster`, `MCEdge` | symmetry for TLC; the `.cfg` files give the instances | |
| `Inbound_proofs`, `Outbound_proofs`, `Topups_proofs`, `Heartbeat_proofs`, `Inbox_proofs`, `Edge_proofs`, `Roster_proofs`, `Machines_proofs` | theorems | |

### How a module corresponds to the code

An action is what happens between two awaits: one statement (atomic in Postgres),
or one call to Resend, together with everything the handler computes before it
suspends again. So `SelectAgent` is the SELECT of the agents row with all early
returns of `cf_inbound` up to its next await, including the knock window, which
is plain memory and needs no await.

* `pc[r]` is the await at which POST `r` is suspended or the reason it answered.
  `req[r]` is what its local variables still matter for: the agent, the nonce, the
  `nonce_enabled` it read, the nonce it issued.
* `op[o]` is the same for a page: the value it computed from its read and has yet
  to write. A page that only issues one UPDATE has no such state. The admin's
  toggle of the nonce writes one of the two values `SwitchNonce` writes.
* Time is not a number in `Inbound`. A nonce is `"live"` until `Expire` makes it
  `"stale"`, which is the only thing a timestamp decides there; a timestamp leaves
  the knock window in `WindowSlides`. In `Heartbeat` the arithmetic of intervals is
  the point, and `now` is a number.
* A sender presents any nonce that was ever mailed, to any agent, as often as it
  likes, or one nobody issued. The webhook is behind the Worker, and a POST the
  Worker did not make is refused before it reads anything, so it is left out; so
  is one for an address without a row.
* `Fail` is an await that raises: the POST answers 500 and stays where it was.
  `Restart` is the end of the machine that serves the POSTs, with its knock
  window. `Fault` in `Heartbeat` bounds crashes, refused mails (`raise`), mails
  dropped by the daily cap (`cap`) and database errors (`db`); a statement whose
  error hides whether it ran is both.
* `ledger[a]` is the sum of the agent's ledger rows; credits are added one at a
  time, since the amount matters to nothing.
* `served`, `alerts`, `greets` and `by` are history: when a monitored poll was last
  answered in time, how many mails were sent, which POST set `burned_at`.

In the modules of the other components:

* `Outbound`. `pc[s]` is again the await of a request or its answer. The shared tables
  are those of `Inbound`, through the same modules; what the webhook takes from a
  balance is one action, `ReceiveElsewhere`, and a page is `Settings` or the three
  steps of `update_contact`. A failure is a request that takes no more steps, which
  every behaviour may contain because none is forced to. `paid` says which charges
  found a credit, since the code goes on either way. `crossed` is history: who was
  charged between a look at a balance and the charge.
* `Topups`. Deliveries are slots, taken by Stripe for a session and given back with the
  answer. Stripe delivers while it has no 200 and nothing is open, and `MaxExtra` times
  more than it should. A session is worth one credit.
* `Inbox`. The state of a poll is its await and the local variables `rows` and
  `attachments_map`; `known` and `settled` are what was true when it began. An answer
  reaches the client in the same step in which the client sorts it, or it is lost
  (`Fail`). `update_contact` is `ClearAttachments` and then `ClearMessages`, or `BreakOff`
  when the second DELETE is never made; `stripped` are the messages there are that
  lost attachments to the first. `filed` says of a message that all its attachments are in the
  table, so one that loses some while others are still being inserted is never filed.
  Time is counted in TOTP steps: a message opens under exactly one pair of
  step and date, and `Client` holds the two loops that guess the pair.
* `Edge`. A page is the id and the image it computed from the row: the value it will
  push, of which one column is what it writes. The pages differ only in that column, so
  they are one action with a column as parameter. `active` is the row's `channel_active`,
  which `SetChannel` and the all-stop write and nothing pushes. `Outcomes` is what the
  webhook makes of a mail in the order of its early returns; past the four checks on the
  row every outcome is possible, since which one it is depends on state that is
  `Inbound`'s. `rows` tells a deleted address from
  the one signed up for after it.
* `Roster`. A row is named by the sign-up that inserts it, a key by the request that made
  it. A foreign key is a guard: an INSERT for a row that is gone raises, and so does the
  DELETE of a row that some table still refers to.
* `Startup`. `boot[m]` is where a starting machine is and the names it has read;
  `Limits` adds the memory of the machine, which `StopMachine` empties in both.

### Abstract specification

`Door` has no statements, awaits or failures. A mail enters while the channel is
open, passes the lock with a key that works once (or finds the lock off when it
enters), pays a credit from a purse that holds one, and lodges. `Inbound` implements
it under the mapping at its end: `DoorPromise`. What it says about the kill switch
is as much as the code gives: a mail that read the row before the switch may still
be stored, one that reads it after may not.

## 3. What is checked

Twelve runs; each property has a mutant of the code that it must catch.

| run | instance | shows |
|---|---|---|
| `inbound_replies` | 2 agents, 2 nonces, 2 POSTs, 1 credit, 1 grant, knock limit 1 | `TypeOK`, `NonceSpentOnce`, `DoorKnock`, `ChargedOnce` |
| `inbound_pages` | 1 agent, 2 contacts, 1 nonce, 2 POSTs, 2 page requests, one of them in flight at a time between its read and its write | `RefusalJustified`, `DoorPromise` |
| `heartbeat_safety` | 1 agent, 2 machines, 2 polls, interval 2, timeout 3, 5 instants, one fault of any kind | `TypeOK`, `OneMailPerOutage`, `AlertJustified` |
| `heartbeat_live` | 2 agents, 1 machine, 1 poll, pauses, one crash, refusal or database error | `SilenceReported` under `FairSpec` |
| `heartbeat_ten_minutes` | minutes: interval 10, timeout 15, checker every minute, polls at most 10 apart | expected violation of `PollingKeepsAlive` |
| `heartbeat_poison` | 2 agents, one whose mail is always refused, no other fault | expected violation of `SilenceReported` |
| `outbound` | 2 agents, a person and a dead address as contacts, 2 requests, 1 page, 1 credit each, 1 credit charged by inbound mail | `TypeOK`, `FreeOnlyInARace`, `MoneyAccounted`, `WholeOrNothing` |
| `topups` | 2 sessions, 2 deliveries at a time, 1 superfluous one, 2 failures | `TypeOK`, `TwiceOnlyInARace`, `AnsweredIsCredited`; `PaidIsCredited` under `FairSpec` |
| `inbox` | 2 messages, one with attachments, the other maybe sealed, 2 polls, window 1, the three steps around midnight, 1 contact change at a time, 1 failure of a poll or a contact change | `TypeOK`, `NothingVanishes`, `NotTwice`, `CompleteWhenSettled`, `RefusedForAReason`; `InboxDrains` under `FairSpec` |
| `roster` | 2 sign-ups, 2 rotations, 2 addresses, limit 1 or 2, 1 deletion, 1 row of traffic | `TypeOK`, `LimitOnlyInARace`, `PairOrNothing`, `OldKeysRevoked`, `OneKeyUnlessTangled`, `KeylessOnlyWhile`, `DeletedWholeUnlessTouched` |
| `edge` | 2 pages, 1 mail, 2 contacts, 2 rows of one address, 1 loss | `TypeOK`, `AgreesWhenSettled`, `ChecksDifferOnlyInARace` |
| `machines` | 2 machines, 2 files, 2 calls per window of 2, 1 mail a day of 2, 4 calls, 1 stop | `TypeOK`, `TwiceOnlyInARace`, `ServedOnMigrated`, `WithinLimits`, `RefusedOnlyWhenFull`; `EveryoneServes` under `FairSpec` |

**Why the bounds are enough.** The hazards of the webhook are races of two: two
POSTs with one nonce, a POST and a page, a POST and a clock. Two POSTs and two
nonces of two agents show every pair; one credit makes both the last charge and
the refused one happen, knock limit 1 both the allowed and the limited knock. In
the second instance one agent is enough because the pages of two agents touch
different rows, and what one nonce can suffer from a contact change and a second
POST needs no second nonce. In the monitor, interval 2 and timeout 3 is the
smallest pair in which a poll can be throttled, an agent be overdue at a time its
throttled polls have ended, and the difference be positive; five instants hold an
outage and a recovery; two machines are two caches and two rivals for the lock.
The others are races of two as well. Two agents, each of which may have the other,
itself, a person or nobody as its contact, give every shape of a letter; with one
credit each, two letters and one received mail, a charge can find nothing on either
side. The `CONSTRAINT` of that run, `Followed`, stops TLC from following pages that
repeat what another page does to a letter, and pages beside a contact whose letters are
refused anyway; the theorems have no such limit. Two sessions make sure that deliveries of one do not count for the other, and two
failures can hit both the statement after an addition and the repetition. The three
steps around a midnight hold a message sealed before and read after it, inside and
outside a window of 1. Two sign-ups for the same two addresses collide as single agents,
as pairs, and crosswise; a limit of 1 or 2 is reached by each. Two machines and two
files are the smallest race for a name that leaves a file to run after it; one contact
change is enough for a poll to fall between its two DELETEs, and one failure for the second
never to be made; four calls
fill a window and are refused, before and after a restart.

For the safety properties that are also theorems the bounds no longer matter.

**Deadlock** is not checked: requests, deliveries, calls and faults are finite, and the
clocks stop at `MaxTime`, so the behaviours of an instance end.

**Fairness.** In `Heartbeat`, `FairSpec` is weak fairness of each poll in flight, of each
machine's checker and of the clock. asyncio runs every task that is ready, `heartbeat_loop`
is started with the application and survives every exception, and time passes. No
fairness is assumed of agents, of the owner, or of crashes and refusals: these may
stop or happen as they like, as long as they are finitely many (`MaxFaults`). A
checker that fails to take the lock sleeps a period and tries again. The live
instance ends its clock at `MaxTime`, where a sleep counts as over, so "in the
end" is the rest of the behaviour and not an artefact of the clock stopping.

In `Topups` it is weak fairness of the handlers, for the same reason, and of Stripe's
delivery of an event that was not answered and is not open: Stripe repeats it for days.
Nobody has to buy or pay anything. In `Inbox` it is weak fairness of the handlers and of
the agent's next poll, which is the loop the client's documentation tells it to run;
failed polls are finitely many, and contact changes need not go on. In `Machines` it is weak fairness of `BootStep`: a
process that was started goes on, and the platform starts one again that failed or was
stopped. The other modules claim only safety and assume no fairness.

### Findings

* **The documented ten minutes are not enough.** `SKILL.md` tells agents to poll at
  least every ten minutes. A poll less than 600 s after the last write is answered
  without a write, so a poll at minute 9 leaves no trace; from minute 16 on the row
  is overdue, and the agent is reported although no gap exceeded ten minutes. The
  theorem `PunctualNeverAlerted` says what is enough: gaps of at most
  `Timeout - Interval`, five minutes.
* **One refused mail silences the monitor for others.** `send_email` raises on a
  refusal, the loop over the candidates does not catch it, and the same agent is a
  candidate again a minute later. Agents behind it are not reported, and expired
  mutes are not lifted, as long as the refusals last.

## 4. What is proved

Every invariant and every action property of the passing runs is also a theorem, as is
the refinement of `Door`; only the liveness properties are not. All of it holds for every
value of the constants, under the assumptions named in the modules (`AccountsAssumption`,
`NoncesAssumption`, `CreditsAssumption` and one of the same kind per component): the
markers differ from the data they stand beside, limits are naturals, there are finitely
many POSTs, letters, sessions, deliveries, polls and sign-ups in a behaviour (where they
are counted), a sign-up is not a rotation (both appear as the maker of a key), and the
client's window is at most a day. The lemmas on the tables that the webhook, sending and
top-ups share (`AccountsTyped`, `NoncesTyped`, `CreditsTyped`) stand in front of each
proof that uses them.

**`Inbound_proofs`.** `TypeCorrect`, `DoorHolds`, `SpentOnce`, `RefusalsJustified`,
`NoCreditLost`: each safety property of the two inbound runs. The inductive
invariant is

    IInv == Typed /\ Addressed /\ Rows /\ Held /\ DoorKnock /\ RefusalJustified

`DoorKnock` alone is not inductive: that a POST at the charge has its nonce burned
by itself follows only if no other POST can un-burn or re-own a row (`Rows`: what
each state of a row says about its owner and burner), if the POST still waiting to
validate or to check the expiry holds nothing yet, and a POST that was refused by
`validate_nonce` keeps a reason (`Held`), and if every POST past the SELECT has a
recipient (`Addressed`). The proof does not go action by action over every
conjunct: the lemmas `HandlerEffects` and `Effects` first reduce the whole next-state
relation to what it does to one POST and one row, `RowEffects` and `PostEffects`
say it from the point of view of the row and of the POST, and each conjunct is
kept by one lemma over those effects. `SpentOnce` then follows without further
induction: the burner of a nonce is one POST. `NoCreditLost` counts POSTs: the step
lemma `ChargeEffects` gives the amounts, `Counted` moves the cardinalities with them.

The module ends with the refinement, `HandlerKeepsPromise`: `Spec => DoorPromise`.
`SelectImplements`, `HandlerImplements` and `OthersImplement` map each step to a step of
`Door` or a stutter; `IInv` supplies that a nonce being burned is owned by somebody.

**`Heartbeat_proofs`.** `NoFalseAlarm` (`AlertJustified`) and `PunctualNeverAlerted`.
The strengthening says that a machine's cache is never newer than `last_seen_at`
(`CacheBehind`). That is not obvious, because a poll refreshes its cache even when its
recovery UPDATE matched no row; `ClearedSince` is why it holds: the row was then
cleared by another poll, and `last_seen_at` written, after this one took its time.
`ServedFresh` follows: a served poll was written, or throttled by a write less than
an interval before.

`MailsAlternate` (`OneMailPerOutage`) rests on two more invariants. `Cycle` is what the
advisory lock is worth: one machine at a time is in a cycle, and what it has selected
nobody else flags before it is mailed. `Even`, the property itself, counts: each mailed
outage is greeted, or in the hands of the poll that cleared the flag, or still reported;
only the poll whose conditional UPDATE matched moves one from the last to the second.

**`Outbound_proofs`.** `AnswersTell`, `LettersArePaid`, `NoCreditAstray`: each safety
property of the run. The invariant is

    IInv == Formed /\ Secure /\ FreeOnlyInARace /\ MoneyAccounted

`Formed` says what the place of a request means for its record, its mail and its two
copies; `WholeOrNothing` is a consequence of it. `FreeOnlyInARace` is not inductive: that
the charge finds its credit is what `Secure` carries from the look at the balance to the
charge, namely that whoever looked and was not crossed since still finds one. The money
is a count of the requests that paid, moved by one in each of the four steps that pay or
book. `Verdict` and `ReadRecipient` decide in the order of the code's early returns.

**`Topups_proofs`.** `CreditsOnce`, `AnsweredMeansDone`. `Booked` says that every addition
has a ledger row, a handler about to write it, or a lost one. A lookup that sees none of
these therefore precedes every addition, and `RaceInv` follows for a session nobody raced
for: one delivery past its lookup at a time, and none that has yet to add what was added.

**`Inbox_proofs`.** `Accounted`, `NoRepeats`, `Complete`, `RefusalsHaveReasons`, and
`WindowOpens`: the two loops of the client open a message exactly if it is no older than
the window, for every window of at most a day. `OutInv` (nothing that was taken is unread
again) and `MemoryInv` (what a poll remembers of its beginning is still so) are what
`NotTwice` and `CompleteWhenSettled` lack; the last theorem needs `TimesInv`, that a
message was sealed before it was received and received before now.

**`Edge_proofs`.** `CopyAgrees`, `DifferOnlyInARace`. `SoloInv` says of a page that was alone
since it began that the row is still the one it read, up to the column it writes.
`MailInv` says of a mail on its way from Worker to webhook that it is excused, or that
the copy it was admitted by still stands.

**`Roster_proofs`.** `LimitHolds`, `PairHolds`, `RevocationHolds`, `OneKeyHolds`,
`KeylessHolds`, `DeletionWhole`: each safety property of the run. `Good` is type
correctness with the foreign keys and the unique address, and not inductive without
`Aimed` (a request that has begun works on a row that was inserted). `Placed` says
which rows a sign-up has inserted where it is. On these two rest one invariant per
property: `Fits` (who was not inserted past still finds the room it counted; inserting
is a step of the cardinality), `Guests` (before a pair is whole, only a visitor can have
given its first agent anything the clean-up trips over), `Revoked` (the request that
made a key a rotation found is past its insert, so the key does not come back),
`Entangled` (two keys for one agent need two requests that were both about to insert),
`Excused` (whoever is without a key has a request to blame) and `Emptied` (what a deletion
has emptied stays empty unless the agent was touched).

**`Machines_proofs`.** `MigratedOnce` and `MigratedFirst`, from `Racing` and `Migrated`. A
file that two starting machines have not seen is doubted from the moment the second one
looks; so a file recorded behind a machine's back is, and a file that was executed is
recorded, about to be, or left by a machine that was stopped. The names in `_migrations`
stand for executed files, and `First` takes the smallest, which is a lemma of its own
(`FirstFile`, from the well-foundedness of the numbers). `LimitsHold` and
`NobodyRefusedEarly`, from `Remembered` and `Tallied`: the log of a process holds exactly
those of its calls that the window still covers, wherever a window begins, and its counter
covers the last day on which it sent.

**Only model-checked.** The liveness properties `SilenceReported`, `PaidIsCredited`,
`InboxDrains` and `EveryoneServes`: fairness and ENABLED are out of the prover's reach.
`PollingKeepsAlive` is refuted for the documented gap and proved for a smaller one
(`PunctualNeverAlerted`).

## 5. What is not modelled, and the plan

Not modelled, as components: the MIME parser of the Worker, signed cookies and the OAuth
callback, the signing of alert links, and the site pages. The first is text from end to
end, the others keep no state that two requests could disagree on.

Left out of the modules on purpose: the text of mails, HTML, logging, `cc_email` beyond
the await it costs; a second machine's knock window beside the handler (`Limits` has the
test itself); the connection pool's size; the time Cloudflare takes to spread a KV value;
steps of the clock; the race of two `CREATE TABLE IF NOT EXISTS` on an empty database,
which only makes a start fail; a top-up for an agent that was deleted; the creation of an
all-stop key; the operator's grants beside `Outbound` (they are in `Inbound`).
`validate_nonce` and the gates are in `Inbound` only, `Outbound` has the same columns but
no incoming mail other than its charge.

Five hazards have no property. The toggles of the admin page write the negation of
what they read, and nothing in the code says who should win against an all-stop. What an
old contact can leave in the inbox while `update_contact` runs needs the sender in the
request record of `Inbound`, and its own run. The agent that is reported because it polled
before its monitoring was switched on is outside `AlertJustified`. The mail that is
accepted and then dropped by a check the Worker cannot make, or lost with a 500, is in
`Edge` and allowed there, since the code promises its sender nothing. Where a property
confines a hazard to requests that crossed rather than excluding it, `PROJECT.json` says
so in the hazard's `note`.

What is left, in order:

1. What the safety half of the liveness properties rests on can be proved: that a handler
   or a checker in flight always has a step to take, in `Heartbeat` and `Inbox` first.
2. The contact change in `Inbound`, with its sender.
