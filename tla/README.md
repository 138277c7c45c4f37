# TLA+ models of sigints.club

sigints.club sells streams of signals. A **maker** registers a stream with its
tiers on chain; **subscribers** buy a subscription with one token as their
pass, and register an X25519 key; the maker, or an **agent** the maker has
granted publishing to, sends a signal to the backend, which seals it for the
keys of the active subscribers and stores it, and then records its hash on
chain; **listeners** hear of the changed account and fetch the signal.
Descriptions of streams live in a social graph (Tapestry) that the backend
writes and reads, and are held against the chain before they are shown.

The modules here model these parts from the source under `src/`, TLC checks
them on small instances, and TLAPS proves the main results for every value of
the constants.

## 1. Inventory

### 1.1 Components

| component | source | state | operations |
|---|---|---|---|
| stream registry program | `programs/stream_registry` | `StreamConfig`, `TierConfig`, `PublisherDelegate` accounts | create, update, set tiers, upsert tier, grant, revoke |
| subscription and royalty program | `programs/subscription_royalty` | `Subscription` and its Token-2022 mint, `StreamState.subscription_count`, three kinds of key accounts, one `SignalRecord` per stream, balances | subscribe, renew, cancel, three key registrations, record signal by maker or delegate |
| challenge program | `programs/challenge_slashing` | `Challenge` accounts | open, resolve, slash |
| SQL signal store | `backend/src/signals`, `db/schema.ts` | `signals_latest`, `signals_events`, `keyboxes_latest`, a sequence | two upserts in a transaction, reads by hash, the event log by cursor |
| publishing | `routes.ts` `/signals`, `SignalService.ts`, `sdk/src/publish.ts`, `PublishSignal.tsx` | a session between *prepare* and *record_signal*; the signals whose text stands in the social graph | prepare or publish, post to the social graph, sign and send, confirm or retry |
| listening | `sdk/src/index.ts`, `jetstream.ts`, `routes.ts` `/storage` | `seenSignals`, one running handler per record | listen, wait for metadata, decrypt (a request per step), call `onSignal` |
| event-log polling | `StreamPageClient.tsx` | `lastEventIdRef`, answers under way | first load, poll, receive |
| the rail of all streams | `StreamsRail.tsx`, `lib/api/signals.ts`, `listRecentSignalEvents` | signals shown, one cursor, a cache in localStorage, requests under way | mount, first load, poll, merge |
| the publish switch | `AgentPageClient.tsx`, MCP `grant_publisher`, `revoke_publisher`, delegated `publish_signal` | what the switch shows, the toggle under way | load the status, toggle, send, confirm, load again |
| discovery | `TapestryStreamService.ts`, `DiscoveryService.ts`, `StreamRegistryClient.ts`, `routes.ts` `/streams` | contents and follows in Tapestry, requests under way | post a stream, search, list, fetch, attach the chain's terms |
| Tapestry client and mock | `backend/src/tapestry` | the graph | find-or-create, update, follow, search, list |
| agents | `SqlAgentStore.ts`, `SqlAgentSubscriptionStore.ts`, `routes.ts` `/agents`, `/agent-subscriptions`, the registration wizard, the agent page, the MCP tools | tables `agents`, `agent_subscriptions`; the wizard's flags | create, link, unlink; the wizard's three deploy buttons |
| subscribe flows | `SubscribeForm.tsx`, `SubscriptionCard.tsx`, the action links and `/subscribe…` routes, `OnChainSubscriptionClient.ts`, MCP `flow.subscribe` | the terms shown, the wallet connected, the transaction under way, the subscriptions cache in the browser | show, change the wallet, build, sign, send, confirm with a time limit, look for the account, renew, cancel, register a key |
| keys of a reader | `KeyManager.tsx`, `/subscription-key/sync`, MCP `flow.register_…_key` | the key entered, the key shown as registered, the wallet connected | open, change the wallet, enter or generate, register, confirm, sync |
| stream registration flows | `register-stream/page.tsx`, `RegisterStreamForm.tsx`, MCP `flow.register_stream`, `seed/demo.ts` | which of the three steps are done | look, create the stream, create the tier, post to the backend |
| reading on demand | `DecryptPanel.tsx`, `TradeSignalCard.tsx`, MCP `decrypt_latest`, `decrypt_by_hash` | the signal noted at opening, requests under way | note, press, look up, be checked, fetch, show |
| users and social | `SocialService.ts`, `SqlUserStore.ts`, `/users`, `/social` | rows of `users`; profiles and what they say in Tapestry | log in, read, rename, ensure profile, post, comment, like, follow, take back |
| feed, post and agent pages | `FeedClient.tsx`, `PostPageClient.tsx`, `AgentPageClient.tsx`, `lib/api/social.ts` | hearts, lists, caches | press, load more, comment, delete, reload |
| what pages show of the wallet | `userProfile.tsx`, `walletKeyStatus.tsx`, `StreamPageClient.tsx`, `ProfileContent.tsx`, `MyStreamsSection.tsx`, … | twelve panes, requests under way, caches | connect, answer, refuse, change, disconnect |
| demo seed | `seed/demo.ts` | the marker file; rows, accounts and contents of the demo | one run, step by step; started again |
| listeners of the MCP server | `server.ts`, `sdk/src/index.ts`, `jetstream.ts` | `activeStreams`, subscriptions, running handlers | listen, hear, report, stop |
| alternative stores and providers | `InMemory*`, `File*`, `storage/`, `metadata/`, `OnChain*Recorder`, `ListenerService` | maps and files | the SQL stores' interfaces |
| agent programs, scripts, trade actions, landing page | see `PROJECT.json` | little or none | calls of the other components |

`PROJECT.json` has the same list with what is modelled of each part, or why it
is not.

### 1.2 Interaction

* The programs share accounts: `subscribe` and `record_signal` read the registry
  inside their transaction. A transaction of either is one atomic step.
* Everything else is asynchronous. The backend reads the chain and then acts on
  what it read; pages and agents build transactions from what they read; a
  transaction that was sent may land later or never; notices of account
  changes are delayed, repeated, reordered or lost; every HTTP answer may be
  lost after the work is done.
* The backend's SQL store is shared by concurrent requests over pooled
  connections. Only the signal upserts use a transaction.
* Tapestry gives single calls, no transactions, and find-or-create by id.

### 1.3 What is hard, and what must hold

| part | hard because | must hold |
|---|---|---|
| subscription program | long sequences of legal calls; repricing, pausing, cancelling and renewing between them; rounding; one wallet in several roles | the subscriber count is right, one pass per subscription, nobody charged twice, money conserved, terms kept |
| signal store | statements of two publishes interleave; ids are drawn before commits; failures anywhere | payload and keybox belong together, the log's newest event is the latest signal, pages miss nothing |
| delivery | four parts, each reading what another changes meanwhile; lost, late and repeated notices; retries with a limit | the listening path gives a private signal only to who it was sealed for; only what was recorded is handed over, once; who can read does get it |
| discovery | a description is many calls; several requests and readers overlap; stale and half-written contents; ids that share a slug | nothing is shown that the chain does not hold; what was posted is found by its id, and is on the list if its follow went through; the stream asked for is the one answered |
| clients of the chain | what was read is old when the transaction lands; transactions are late, lost and out of order, while clients stop waiting and retry; several makers register one id; the wallet is changed under an open page | nobody lists what is another's; the price paid is the price shown; "subscribed", "registered" and the tool's "done" are so |
| reading on demand | four requests, each checked on its own, while signals are replaced and rights change | what is shown was the latest and the reader's to read since it asked |
| social | read-merge-write of a row, look-up-then-create in a service that may fail, by requests that overlap | one profile, one author, the name one gave oneself |
| pages | optimistic updates, pages of lists, caches, answers for a wallet that has left | hearts and lists are the server's; nothing of another wallet is shown |
| seed, listeners | crashes and restarts with new keys, and in the middle of the marker file; a table written after an await, handlers that outlive a stop | the keys of a whole marker open the demo; every listener can be stopped |
| rail | ids of all streams are drawn before they are committed, pages are asked for from a cursor that moves, first loads overlap polls | nothing the cursor has passed is left out for want of anything but room |
| publish switch | a transaction given up lands later, tools grant and revoke beside the page | what is shown as disabled cannot have published |
| agents | check-then-insert without a lock; a wizard that can be edited, interrupted and retried | duplicates come only from overlapping requests; what is shown as done is done |

`PROJECT.json` lists each hazard at its line with the properties that would
notice it, or a note on why none does.

## 2. The modules

| module | what it is | extends or instantiates |
|---|---|---|
| `StreamRegistry` | the registry program: state and one action per instruction | |
| `SubscriptionRoyalty` | the subscription program beside the registry | `StreamRegistry`; refines `Membership` |
| `Membership` | abstract: who joined, who is present, the head count | |
| `SqlSignalStore` | the store's transactions statement by statement, and polling pages | refines `SignalBoard` |
| `SignalBoard` | abstract: one post per stream, replaced as a whole | |
| `SignalDelivery` | from *prepare* to `onSignal`, one action per await | acts on `Membership` and `SignalBoard`; refines `SignalFeed` |
| `SignalFeed` | abstract: each announcement handed to a listener at most once | |
| `StreamDiscovery` | posting and looking up streams call by call, beside the registry | `StreamRegistry`; refines `StreamDirectory` |
| `StreamDirectory` | abstract: what is shown is what the chain holds | |
| `AgentRegistry` | the agents' tables, requests by the await, wizard, page and tools | |
| `Transactions` | from a client to the chain: sent, then landed or failed at any later time | `SubscriptionRoyalty` |
| `RegisterFlow` | the four programs that register and list a stream | `Transactions` |
| `SubscribeFlow` | the five that buy, renew and cancel | `RegisterFlow` |
| `KeyFlow` | the three that register keys, and the sync route | `Transactions` |
| `ClientFlows` | all of these, the network, and anyone who sends instructions directly, on one chain | `SubscribeFlow`, `KeyFlow`; implements the programs' own specification |
| `SignalReader` | panels, trade card and tools that read the latest signal | |
| `SocialService` | users and Tapestry profiles, requests by the await | |
| `FeedPage` | a post's heart; lists of posts, comments and links | |
| `WalletPanes` | what pages show of the wallet connected | |
| `DemoSeed` | runs of the seeder and its marker file | |
| `McpListeners` | `activeStreams` of the MCP server | |
| `StreamsRail` | the rail, and the log it reads | |
| `PublisherSwitch` | one agent's grant, its switch and the tools beside it | |
| `Absence`, `Web`, `Page` | the value that stands for nothing, the wallets and requests, a page's wallet and requests: each declared once for the modules that share it | |
| `MCDelivery`, `MCDeliveryLiveness`, `MCDiscovery` | two instances of delivery or discovery in one run, which a variable tells apart | `MC…` of the module |
| `MCCommunity` | `SignalReader` to `PublisherSwitch` beside one another, for TLC: a behaviour is of one of them | |
| `*_proofs` | theorems and proofs about the module they are named for; `Community_proofs` about `SignalReader`, `McpListeners`, `PublisherSwitch`, `DemoSeed` and `StreamsRail`, `Social_proofs` about `SocialService`, `WalletPanes` and `FeedPage` | `TLAPS` |
| `MC*` | values for constants and symmetry for TLC | |

So the layers meet in abstract specifications: `SignalDelivery` does not repeat
the subscription program or the SQL transaction, it takes steps of
`Membership` and `SignalBoard`, and the programs that implement these are shown
to do so in their own modules (`BoardImplemented`, `MembershipImplemented`). That the
delivery keeps to the two is by construction, and so it is no theorem.

### 2.1 Correspondence with the code

**Programs.** An account's address is derived from its keys, so a table is a
function from keys to an account or `NoAccount`. A failing `require!` or account
constraint undoes the transaction and is a false guard. u64 arithmetic saturates
at `MaxU64` exactly where the code says `saturating_*`. Left out: bumps, rent,
network fees, timestamps nobody reads. `paid` is an auxiliary variable: the
price a subscription was sold at.

**Store.** `txn[c]` is the transaction open on connection `c`. Its writes are
visible to others at `Commit`; what another statement waits for (`Waits`) and
what violates the unique index on `signal_hash` (`Unique`) is PostgreSQL's READ
COMMITTED behaviour for `INSERT … ON CONFLICT (stream_id)`. `signals_events.id`
is drawn before commit and not given back. The database itself is not under
`src/`; its behaviour is taken as documented by PostgreSQL.

**Delivery.** A step is what the code does between two awaits. `session[p]` is a
publisher's request and then what its client was answered; `handler[w][r]` is
one run of `handleDecodedSignal`, whose `step` names the next request. Each check
of the storage routes is a step of its own (`LookUp`, `Entitle`, `CheckKey`,
`ReadEntry`, `FetchPayload`), on the state of that moment. A key pair is its
owner and a number; a ciphertext is readable by the pairs it was sealed for.
`Store` ends with the post to the social graph (`social`), which has the text of the signal, of
a private one too. `SocialPublisher` says whether `SignalService` was given a publisher, as the
server does; as nothing of the rest reads `social`, the runs about the rest go without one. When the post
fails, the request ends with an error although the signal is stored.
`recorded`, `issued` and `addressed` are auxiliary.

**Discovery.** Contents are addressed by slugs, and `SlugOf` need not be
injective. `POST /streams` is a check of the chain followed by create and
update of the description and of each tier and a follow; each is a step, and
the request may end between any two. The follow may fail without the request's knowing: `follows`
says whether it went through. A look-up searches, or lists a page, reads
the description of each profile and, later, its tiers. `tiersHash` stands for the
tier list it is computed from. `alone` is auxiliary: no other request has
written under the slug since this one began.

**Agents.** `call[c]` is the request of a client at its next await. What a request
reads of subscriptions and keys on chain is left open, so that a check of them
may pass or fail at any moment. The wizard keeps the flags its buttons are
enabled by; it may be edited, closed and reopened while a request runs.
`before` (in a row, the ids that existed when its request began) and
`everLinked` are auxiliary.

**Clients of the chain.** `txs` is every transaction sent, with its fate. A transaction
is built from what its client knew when it sent it, and `Land` executes the
instruction of `SubscriptionRoyalty` or `StreamRegistry`, so that what the chain
refuses, cannot land. A client that waits may see the fate or give up; giving up
does not stop the transaction. The programs of one kind differ only in sets:
who looks whether the stream exists (`LooksFirst`), who waits for the stream and for
the tier (`AwaitsStream`, `AwaitsTier`), who waits for a purchase
(`AwaitsSubscribe`), who asks the backend afterwards (`AsksBackend`). `POST /streams`
is one step here, `StreamDiscovery` has it call by call. `connected` is the wallet of a
page and `since` those it had since it was opened; on the pages in `Pages` it may be changed at any moment
(`ChangeWallet`). `cached` is the
subscriptions cache in localStorage, `agreed` is auxiliary: what client sent a
purchase, and at what price it had shown. A behaviour has one *cast* of clients at
work; the member `Direct` stands for anyone who sends instructions without these
programs.

**Reading on demand.** `reading[r]` is one press or call at its next request; the
checks of the storage routes and the look-ups are a step each. `meta` is what a panel
noted when it was opened. `were` and `had` are auxiliary: what was the latest
signal, and which rights the reader had, since it asked. A tool serves one call
at a time; a button that is not disabled may be pressed again.

**Social.** `users` has the display name and the profile of a row; `upsertUser` is read,
merge and write, each an await. `ensureProfile` confirms the row's profile, looks
for another and creates one, in the order of the code; any call to Tapestry may
fail, and may have been carried out all the same. `saved` and `troubled` are
auxiliary: the name a request gave that ran alone and whose calls succeeded, and
the wallets for which a look-up failed, two requests created at once, a stream's
profile was not described yet, or the name was another's (comment at `Trouble`). What a profile says is
a *deed*: posts, likes, comments and follows differ in nothing the properties see.

**Pages.** `FeedPage` cuts the handlers at their awaits; a request may be refused, or
carried out and its answer lost. `WalletPanes` says of each pane in one line what
it shows until the answer comes, whose answers count, and what a refusal leaves;
the steps are the same for all. `DemoSeed` walks through the seeder's phases,
`McpListeners` through one call of `listen`: look in the table, await the
transport, write the table. The marker file is emptied in one step and written in the next. A
listener's handlers run on whatever becomes of it: `Hear` begins one and `Report` ends one, with
or without a message to the client, and a jetstream that was stopped is `ending` until the
server's half has ended too.

**Rail.** The store draws an id, and commits or rolls back at any later moment; a page
of the log is the newest events, or the lowest ids after a cursor. A request is
`first` (its answer replaces what is shown) or a poll (its answer is merged and cut
to the room there is), knows the cursor it was sent with, and is `live` until the rail
is mounted again; afterwards it still writes the cache. Auxiliary are `overtaken`, the
events committed after one with a higher id, and `raced`: the newest events came while
another request was under way.

**Publish switch.** `sent` has the transactions of the page and of the tools; one lands,
fails or expires at any later moment, whether or not anybody waits. A toggle is
built, sent and confirmed, or ends before, and then the status is loaded in two
steps, the account and the answer. Auxiliary are `changed` and `recorded`: what
happened on chain since the page last read it.

**`_Slip`.** An operator whose name ends so is not part of any specification. It is
the next definition as a plausible bug would have it (a guard dropped, a reset
forgotten). Each property of a passing run has one that breaks it; the pairs
are under "mutants" in `PROJECT.json`.

## 3. The runs

All with `tlc -config X.cfg MCModule`. Every run ends by itself: counters have bounds
in the guards, each named by a constant (`MaxTime`, `MaxEvents`, `MaxAnswers`,
`MaxRecords`, `MaxSignals`, `MaxAgents`, `MaxLinks`, `MaxGeneration`, `MaxSends`, `MaxDirect`,
`MaxRequests`, `MaxItems`, `MaxPage`, `MaxHandlers`). Deadlock is checked except in `client_flows` and
`social`, where everything a bound allows may be done: all transactions sent and
settled, all requests made.

| run | distinct states | question |
|---|---|---|
| `subscription_count` | 35 417 | Do count, pass, ledger, terms and the membership book hold for two subscribers and a maker that subscribes to its own stream, with every instruction of both programs and two prices? |
| `sql_signal_store` | 838 298 | Do two connections that publish on two streams, failing anywhere, keep the store's tables together, and does a page with overlapping requests miss nothing? |
| `private_delivery` | 868 656 | Two instances, a private stream and a public one. To whom does listening give a private signal, and how often, when a subscriber lapses, cancels, renews and rotates its key between any two requests? |
| `delivery_liveness` | 83 796 | Two instances, a private stream and two public ones on which a text comes back. Does a listener that could read a signal get it? |
| `discovery` | 323 836 | Two instances. Once a request nobody interfered with has answered, does its stream's id find it, and is it on the list if its follow went through? Is what readers are shown free if public, the chain's, and what they asked for? |
| `agent_registry` | 2 344 944 | Do duplicates come only from overlapping requests, and is "done" true, for a wizard and a second client? |
| `client_flows` | 1 624 538 | Do clients tell their users the truth, list only what is their own and charge only what they showed, for ten casts of them, two with a page whose wallet is changed? |
| `social` | 1 212 549 | Ten instances: a wallet's two overlapping requests and a third, two wallets, a heart, a list, a pane, the seeder, listeners, a reader, the rail, the publish switch. |
| `known_only_if_sealed_for` | violated | finding 1 |
| `latest_is_fetchable` | violated | finding 2 |
| `stream_appears` | violated | finding 3 |
| `every_role_registers` | violated | finding 4 |

Type invariants that are proved are not repeated as properties of the runs, which have
deeper ones to check: those of `SqlSignalStore`, `StreamDiscovery`, `SignalDelivery` and
`SignalReader` are theorems, and `SwitchTypeOK`, `SeedTypeOK`, `RailTypeOK`, `PaneTypeOK`,
`SocialTypeOK` and `ListenTypeOK` conjuncts of the inductive invariants of section 5.
`FeedTypeOK` is there to be read; the parts of it that the proofs need are in `HeartInv`
and `ListTyped`.

**Why the bounds suffice.**
*Subscriptions*: properties relate a stream, a subscriber, and the maker and dao
that are paid; a second subscriber shows that they do not disturb each other,
the maker as subscriber that roles may coincide, prices 99 and 250 give a fee of
nothing and one that is rounded, and 200 lamports afford the one and not the
other; `MaxU64` is small enough for the multiplication to saturate. The proofs
are without these bounds.
*Store*: two connections are enough for every pair of statements to meet; two streams
and a public text that comes back give the unique-index conflict; four ids with
rollbacks give gaps and out-of-order commits; a page limit of 1 makes every
answer partial; two answers can overtake each other.
*Delivery*: one client whose handlers of two records run concurrently, two
publishers of one stream, two key pairs, two tries of `waitForMetadata`. Clients
share no state of the SDK, so that a second adds nothing but size. In the run for liveness one
publisher and one try; either the private stream, with the client's first key pair, or the two
public streams with one record are used.
*Discovery*: two requests on one stream with one tier, one request at a time and one
reader on two streams with a page size of 1, so that one newer content pushes a
description off the page; a variable of `MCDiscovery` says which of the two.
*Clients*: one stream, two makers that may race for it, a buyer and a second wallet to change to; two prices, two
keys, four transactions, one instruction from outside. Casts are chosen so that
each client meets those whose work it reads: the wizard and the tool register the
same id; the form and the seeder; link and card buy what a wizard lists and lists again
at another price; tool and server of one wallet buy what the tool registers; the tool lists beside the
seeder; the page buys
while anyone repricing the tier is at work; a form whose wallet is changed meets what the tool
lists, and a key page whose wallet is changed is alone; both key clients of one wallet; the tool for
wallet keys. The theorems are without these bounds and casts.
*Social*: a profile needs two overlapping requests to go wrong and a third, alone,
to find what they left. Two wallets show that names and profiles are not
exchanged. Swapping the names, with their usernames, is sound, as is swapping requests.
*Pages*: two requests under way and two wallets are an answer that comes too late; two
items and pages of one make every list partial.
*Seed*: one plain and one private stream, a run and a second one after or beside it.
*Listeners*: three calls with two ids, two handlers at a time. *Reader*: two signals, two presses.
*Rail*: three ids at two times, and a page and a rail of two: gaps, ids committed out of
order, ties, and one event more than there is room for. *Publish switch*: two places
for transactions, so that one given up lands beside another.
*Agents*: one stream, two rows of each table, a wizard and a client that is page
and tool at once: the smallest instance with overlapping creates and links. One
stream makes a run of `deployLink` a single request; that a run over several
streams keeps `DoneIsLinked` is what the theorem adds.

**Symmetry** is over interchangeable values only (the two publishers, connections,
posters, and the two ordinary subscribers), and never in the run with fairness; the
refinements checked under it are safety properties that name none of these values.

## 4. Fairness and liveness

Only `delivery_liveness` assumes any: weak fairness of a client's `Notify` and
`HandlerStep` for each record. A notice that has arrived is dispatched by the
event loop, and an awaited request of a handler ends; nothing else of the code
promises to go on. Publishers, subscribers, the network (`Lose`) and the chain owe
nothing, and no strong fairness is used. The run sets `FaultyNetwork` to FALSE: a
failing request ends the handler by design, and then the listener never gets
the signal, which the comment at `Fail` says. `HandedUnlessOvertaken` therefore
promises a call unless the notice is lost or reading becomes impossible
first. It is checked by TLC only; liveness is out of the prover's reach.

## 5. What is proved

All eight proof modules are checked by TLAPS to the last leaf, for any sets of
streams, wallets, keys, clients, connections, requests and readers, and any size of
pages, logs and lists. The assumptions are the named `ASSUME`s of the modules: types
of the constants, that the values for "nothing" differ from the others, and, for the
subscription program, that the subscribers are finitely many and no more than
`u64::MAX` (`SubscribersAssumption`: without it the saturating count would be wrong) and
the streams finitely many (`StreamsAssumption`: an id is a hash of 32 bytes; the ledger
sums over them).

| theorem | says | argument |
|---|---|---|
| `SubscriptionRoyalty_proofs!TypeCorrect` | `[]TypeOK` | inductive as it stands; per instruction |
| `CountCorrect` | `subscription_count` = number of active subscriptions | with `TypeOK`; a *page* lemma per instruction says how the active set and the count of its stream move and that others are kept; there is room for one more because the newcomer is not yet active |
| `OnePassCorrect` | one pass per subscription, and its stream state exists | with `TypeOK`; the mint is created and closed in `Subscribe`, which never runs twice |
| `MembershipImplemented` | refinement of `Membership` | from the page lemmas: Join, Return, Leave or stutter |
| `TermsCorrect` | a subscription's tier and price are kept (an action property) | with `TypeOK`; no instruction but `Subscribe` writes them, and it needs an absent account |
| `LedgerCorrect` | every wallet holds what it began with, less what it paid, plus royalties and fees (`LamportsLedger`) | `LedgerInv` = this and `SoldHere`: what was paid belongs to an account that exists. A purchase raises one term of each sum (`SumWithOneRaised`), whichever of buyer, maker and dao are the same wallet; `PriceSplits` says that no lamport is lost in rounding or saturation. The sum over a set is some function that satisfies a recursion equation; that there is one (`SomeSum`), and that the equation fixes its value, are inductions on cardinality, for which a theorem about well-founded relations and a set in place of the predicate will do |
| `SqlSignalStore_proofs!TypeCorrect`, `KeyboxCorrect`, `NewestCorrect` | types; payload and keybox are of one post; the newest event is the latest signal | `StoreInv` = these and `LocksInv`: a transaction past its upsert holds the stream's row (`RowLocked`), its hash is nobody else's (`SignalFree`), its event's id is above those committed for the stream (`EventsOrdered`). The last is why ids drawn before commits are harmless within one stream |
| `BoardImplemented` | refinement of `SignalBoard` | `Commit` is a post, all else stutters, from `StoreInv` |
| `PageCorrect` | a page misses nothing | `PagesKnow`: the cursor is an event's id or 0, everything from start to cursor was received, and every answer under way is whole for the cursor it was asked with (`AnswerWhole`) |
| `SignalDelivery_proofs!TypeCorrect` | `[]TypeOK` | a handler's step is a *move* of one handler (`HandlerStepMove`) |
| `FeedImplemented` | refinement of `SignalFeed` | `FeedInv` = `TypeOK` and *what a client has heard of is recorded* and *called once exactly when the handler is done*; needed because `Hand` asks for an announcement and for no earlier call |
| `SealedCorrect` | listening gives a private signal only to those it was sealed for | `SealedInv` = `FeedInv` and that sessions, posts and handlers past the keybox are sealed for, or opened by, those of `addressed` only |
| `LookupIsUnambiguous` | a hash finds at most one stored signal, on one stream | `OneHome`, kept by every step of the board |
| `StreamDiscovery_proofs!TypeCorrect` | `[]TypeOK` | per step |
| `DirectoryImplemented` | refinement of `StreamDirectory` | `DirectoryInv` = `TypeOK`, `WritesListed` (a request writes only tiers of its list), `SearchesOne` (a search is for a stream, not for all), `OwnersVouched` (every description stored, being written or being read names the wallet that registered its stream). The last is what makes a torn read harmless: whatever mixture of requests a reader puts together, the owner was checked when it was posted and an account's authority never changes, while status and tiers are compared at the answer |
| `PostedCorrect` | after a request that answered undisturbed, its stream's id finds what it wrote while the search page holds it, and the registry's list has it if the follow went through | `WritesStand`: as long as it is alone, what a request has written so far, a follow that went through included, is still there |
| `PublicCorrect` | a public stream is shown free, if no two streams share a slug (`DistinctSlugs`) | `FreeInv`: contents, requests and look-ups of a public stream hold free prices only; needed because what is shown is put together from many requests |
| `AskedCorrect` | a look-up answers with what was asked for, if no two streams share a slug | `FindsWhatIsWanted`: what a search is reading lies under the slug of the stream wanted |
| `AgentRegistry_proofs!TypeCorrect` | `[]TypeOK`, so no row breaks the role's CHECK | per step |
| `OneSenderCorrect`, `LinkedOnceCorrect` | duplicates only from overlapping requests | `AgentInv`, whose `CallOK` says that a request that has found nothing knew of nothing to find when it began, and `RowsInOrder` that ids grow |
| `DoneIsLinkedCorrect` | what a wizard shows as done was linked | `WizardOK`: what a run has behind it is linked as long as it noted no error, and the request under way is the wizard's own |
| `ClientFlows_proofs!FlowsTypeCorrect` | types of chain, transactions, clients | `FlowsTyped` adds that a pass under way has an offer and a purchase its terms |
| `ProgramsImplemented` | `FlowsSpec => Spec` of `SubscriptionRoyalty` | each step is an instruction or leaves the accounts alone; so count, pass and terms hold beneath any clients |
| `ListedCorrect` | listed by the owner | `ListedInv`; an account's authority never changes (`AccountsKept`) |
| `ChargedCorrect` | the price paid is the price shown | `SoldAsAgreed`: the transaction of a purchase says the price shown; the chain compares it with the tier's |
| `SubscribedCorrect` | "subscribed" is so of a wallet the client has served | `HeldInv`: the cache holds existing accounts (`CacheSound`), a landed purchase has its account (`LandedSound`), a client that waits waits for a purchase some wallet of its signed (`PurchaseSound`); `since` only grows until the page is left (`SignersGrow`) |
| `KeyShownCorrect` | a key shown as registered has an account of a wallet the page has served | `KeyInv` = the property and `KeySent`: a page that confirms or is about to sync does so for a transaction that a wallet it has had signed; key accounts are never closed |
| `PublicFreeCorrect` | what is bought of a public stream from a page, card or link costs nothing (an action property) | `FreeInv` = `ListedFree`, `ShownFree`, `SentFree`: free in the listing, hence in what a page noted, hence in the transaction it sent; visibility never changes |
| `BuyableCorrect` | when the tool says done, the stream is shown and its tier sells at the price listed | `BuyableInv` = `ListedTrue` and, for the tool's pass, what it has sent (`PassSends`), that a tier which landed is the one priced (`TierIsPriced`) and that what is done is listed (`DoneIsListed`) |
| `Community_proofs!ShownCorrect`, `ReaderTypeCorrect` | what is shown was latest, and the reader's to read, since it asked | `ReaderInv`; `CallSound` says what a call has learnt at each of its steps |
| `ListenersKnown` | every listener is in the table, about to be, or was stopped; one that was stopped is out of the table and closed or closing | `ListenInv`; `IdsApart`: the id of a call under way is free and no other call's, or it is noted as collided; `CallsOver`: what is in the table or was stopped has no call under way |
| `SwitchCorrect` | the publish switch says what the chain says | `SwitchInv` = `SwitchTypeOK`, `SwitchIsHonest` and `ToggleSound`: the account a toggle is about to show is the chain's unless that changed since |
| `MarkerCorrect` | the keys of a whole marker open the demo's private signals | `SeedInv` = `SeedTypeOK`, `SeedSound` (per run: what it has sealed is sealed for its own people, while it has not come to the marker there is none, and then one that is not whole) and `OneAtATime`, unless runs overlapped |
| `RailCorrect` | the rail leaves out nothing its cursor has passed, but for want of room | `RailInv`: the store's rows (`StoreInv`), what an answer is when it is served (`AnswerSound`: the newest, or all from its cursor to its highest id), that the cursor of a poll is not beyond the page's (`PollingSound`), and what is missed (`NothingMissed`); merging two lists and cutting them keeps the first of both |
| `Social_proofs!OwnDataCorrect` | what a pane shows is of the wallet connected | `PaneInv` = `PaneTypeOK`, the property and `CallSound`: a request whose answer counts was sent for the wallet connected, or that one has left and none came |
| `HeartCorrect` | a heart that was answered undisturbed is the server's | `HeartInv`, whose `PressSound` says of a press that is alone what the server has before and after |
| `ListCorrect` | a list loaded undisturbed shows nothing twice, nothing deleted and the first of what the server has | `ListInv`: the server's list rises (`Rising`); what is shown, and what will be when an answer is added to it, holds what its pages may (`Whole`); a load that is alone has no other request beside it, and asks for the page that comes next (`LoadSound`); what a deletion was served for is gone, and an honest list knows of every deletion that was served (`ChangeSound`). `Without` is defined by rank, and `WithoutFacts` proves what a filter keeps |
| `ProfileCorrect`, `VoiceCorrect`, `NameCorrect` | one profile, one author, the name one gave oneself | one invariant, `SocialInv` = `SocialTypeOK`, `WalletSound` (the row's profile is the wallet's own; of a wallet without trouble all profiles are one, all deeds are that one's, and the saved name is in the row and in the profile) and `RequestSound` (at each await, what the request found still holds: profiles are never taken away; only one request of a wallet without trouble is about to create; one that is alone has no other beside it) |

Each theorem `Spec => []P` is `Init => Inv`, `Inv /\ [Next]_vars => Inv'` and `Inv => P`,
put together by a last temporal step. Modules with theorems use no recursive
operators.

**Only model-checked**: `HandedUnlessOvertaken`, as liveness is out of the prover's reach.
All other properties of the passing runs are theorems. The findings are counterexamples
that TLC finds; there is nothing to prove about them.

**Preconditions worth knowing.** `AnswersWhatWasAsked` and `PublicIsFree` are checked and
proved for streams with different slugs. When two ids have one slug, a content may become
the other stream's between search and fetch, and nothing compares what search
found with the id; what is shown is still the chain's, as
`DirectoryImplemented` does not assume distinct slugs.
`ChargedAsShown` leaves out action links: a link shows its price in one request and builds
the transaction, with the price of that moment, in another. `SubscribedIsHeld` speaks of
private streams where the form is concerned, which calls every visitor of a public
one subscribed. `ToolDoneIsBuyable` supposes that the wallet has sent nothing else about the
stream: with two passes at two prices the tier of one may land after the listing
of the other; and that no seeder listed it last, as the seeder lists unchecked.
`PublicCostsNothing` is about casts without a seeder for the same reason. `OneProfile`,
`OneVoice` and `NameIsSaved` except the wallets in `troubled`. `RailShowsNewest` excepts
`overtaken` events and everything while `raced` holds; `SwitchIsHonest` excepts the time
between a change on chain that the page did not make and its next load.
`EveryListenerIsKnown` excepts ids that two calls used at once, `MarkerOpensSignals`
runs of the seeder that overlapped: there the code does lose track. `PostedIsVisible` speaks of the
list only where the follow went through. `SubscribedIsHeld` and `RegisteredKeyExists` are about the
wallets a page has been connected to since it was opened, not about the one it has now.
`HeardOnlyIfSealedFor` is about the listening path; what the social post gives away is finding 1.

## 6. Findings

1. `known_only_if_sealed_for`. Publishing a private signal hands its plaintext to the social
   publisher (`SignalService.ts:104`), which creates a Tapestry content with the text in it
   (`TapestryPublisher.ts:24`), so that whoever reads the social graph knows the signal.
   `README.md:69` says of a private stream: "only paid subscribers can decrypt and act upon", and
   `documents/Hybrid_Encryption_Delivery.md:43` lets the content hold the pointer.
2. `latest_is_fetchable`. `prepare` replaces the one stored signal of a stream
   before `record_signal` is sent, so the signal on chain is not in the store until
   then, and never again if the maker does not sign.
   `documents/Prepare_Publish_Signal_Flow.md:158`: "Subscribers detect change and
   fetch ciphertext + keybox".
3. `stream_appears`. A tier dropped from a stream stays in Tapestry; its presence
   makes the hash of what is read differ from the chain's, and the stream is
   hidden for good although `POST /streams` answered 200 and its follow went through.
   `documents/E2E_Website_Flow.md:66`: "Stream appears in discovery grid."
4. `every_role_registers`. The route and the wizard allow the role `both`; the
   table's CHECK does not. `documents/Plan_Agent_Publish_Delegation.md:35`: "we should
   allow agents to both listen + publish".

Remarks, modelled as they are and not counted as findings:

* `renew` takes any expiry, also an earlier one, and any quota, and asks no price.
* A listener that holds the previous key of a subscriber is refused although the
  keybox has its entry: the key sent must be the registered one.
* The wizard passes over a selected stream that is no longer offered. After a
  run that stopped halfway, its retry meets 409 for the links already made, so
  the step ends in an error until those are deselected. The publishing grant
  counts as done when sent.
* Nothing keeps one agent key to one stream, which
  `documents/Plan_Agent_Publish_Delegation.md:14` describes; `DELETE
  /agent-subscriptions/:id` does not ask for the owner.
* No client sends `set_tiers` or `update_stream`: a second pass of a wizard with another
  price lists that price while the tier on chain keeps the old one, so that nobody
  can buy. The wizard does not wait for the tier's transaction and says the stream is
  live (`documents/E2E_Website_Flow.md:65`).
* `KeyManager` shows its own new key and "Backend sync complete." while the chain may
  still hold the old one; the sync route reads the account and keeps nothing.
* The action link takes the quota by `Number(…)` (`routes.ts:870`), the other clients by
  `parseQuota`, so that "100 calls/mo" is 100 to these and no number to the link;
  `GET /streams/:id/subscribers` counts cancelled and expired subscriptions; the
  lifetime in the subscriptions cache is never looked at.
* The public panel reuses the signal it noted when it was opened: after another is
  published, every "Retry Loading Signal" fails until the page is opened anew. The route
  for ciphertexts asks for no rights, only that for keyboxes does. `decrypt_latest` gives
  the age of the chain's latest record, whatever its hash.
* The follow of a stream may fail and `POST /streams` answers 200 all the same
  (`TapestryStreamService.ts:47`): the stream is found by its id and on no list, which
  `documents/E2E_Website_Flow.md:66` does not tell of.
* A public text that was recorded on one stream and published again on another is found on the
  latter, and then that stream's subscription is asked for, not that of the stream listened to.
* `SubscribeForm` never takes "Subscribed" back when another wallet is connected
  (`SubscribeForm.tsx:44`, `:102`), and a purchase or a request that is answered after the change says it
  of the new one; `KeyManager.tsx:137` writes its answer for whichever wallet is connected by then.
* Two overlapping `listen` calls with one id leave a listener that cannot be stopped; a
  jetstream that fails stays in `activeStreams`. After "Stopped listener" the handlers that wait for
  metadata or decrypt still send their message, and a jetstream, which is closed on the client's side
  only, may start more.
* A like stands although the heart was turned back when only the request for the count
  failed; `liked` is neither loaded nor reset when the wallet changes. "Load more" pressed
  twice loads a page twice; after a deletion it skips a comment.
* A refresh numbered before the wallet was disconnected shows its answer afterwards; a
  follow or save that is answered after a change of wallet is shown as the new
  wallet's; several loaders (`ProfileContent`, `MyStreamsSection`, the refreshes of the
  stream page) do not look whose answer they have. `OwnDataShown` excepts these by `late`.
* A lost update of `users` lets a stale name win over Tapestry's; `findUserProfileByWallet`
  sees twenty profiles only.
* The rail has one cursor for all streams, whose publishes hold no lock in common: an
  event committed after one with a higher id is not asked for again. When the newest events come while
  a poll is under way, the one replaces what the other had merged.
* The seeder lists its streams without the checks of `POST /streams`, and may list one with
  an address but no authority after a failure on chain. If it is stopped while it writes the marker
  file (`seed/demo.ts:964`), what is left of the file counts as planted.
* When `waitForMetadata` gives up, or a request fails, the record stays in
  `seenSignals`: a later notice of it is ignored.

## 7. Not modelled, and why

Ciphers, hashing, string formats, presentation and deployment scripts: no state of
their own, or outside what a model tells apart. Trade quotes and swaps: calls of an
outside service that keep nothing. The alternative stores: not built by the service
container. The challenge program: called by nothing, and
`resolve_challenge` and `slash_and_refund` assign a status whatever the present one is,
for any signer, so that it keeps no order a property could state. The rail's list of streams and subscriber
counts: reads that are shown as they come. Connecting another wallet is modelled for the
stream page's form and keys and for `WalletPanes`; the wizard, the card and the older form have one
wallet as long as they are open, and that a wallet is disconnected without another coming is in
`WalletPanes` only. The database, Solana's runtime, Token-2022 and
Tapestry are modelled from how the code uses them.

## 8. Plan

Order follows how much of the system depends on the part. The modules of the plan are
written, and their safety properties proved.

| step | modules | abstract specification | theorems |
|---|---|---|---|
| 1 chain (done) | `StreamRegistry`, `SubscriptionRoyalty` | `Membership` | types, count, pass, terms, ledger, refinement |
| 2 store (done) | `SqlSignalStore` | `SignalBoard` | types, keybox, newest event, pages, refinement |
| 3 delivery (done) | `SignalDelivery` | `SignalFeed`; `SignalBoard` and `Membership` beneath | types, sealed, unambiguous look-up, refinement |
| 4 discovery (done) | `StreamDiscovery` | `StreamDirectory` | types, posted, public, asked, refinement |
| 5 agents (done) | `AgentRegistry` | | types, uniqueness, done |
| 6 clients (done) | `Transactions`, `RegisterFlow`, `SubscribeFlow`, `KeyFlow`, `ClientFlows` | the programs themselves | types, listed, charged, free, buyable, subscribed, key, refinement |
| 7 readers, listeners, rail, switch (done) | `SignalReader`, `McpListeners`, `StreamsRail`, `PublisherSwitch` | | shown in time, listeners known, rail, switch |
| 8 social, pages, seed (done) | `SocialService`, `FeedPage`, `WalletPanes`, `DemoSeed` | | profile, voice, name, own data, heart, list, marker |
| 9 to come | `StreamsRail`, `StreamDiscovery` | | that the rail's log behaves as that of `SqlSignalStore`; that discovery's registry is that of `StreamRegistry` |
