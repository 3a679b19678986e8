# A verification project for the architecture-course servers

The repository holds eight small network servers, each the answer to one style of
API: WebSocket, long polling, gRPC, SOAP, JSON-RPC, REST, webhooks and
server-sent events. They share a logger and nothing else. This directory
models their logic in TLA+, checks the models with TLC and proves the main
properties with TLAPS. Paths below are relative to `src/src/`.

## 1. Inventory

| Part | State | Operations | What is hard |
|---|---|---|---|
| **Auction manager** `websocket_auction_server/auction_manager.*` | users with balances; items with status, price, leader, bid history, limits of automatic bids; one mutex | `CreateUser`, `UpdateBalance`, `AddItem`, `StartAuction`, `EndAuction`, `PlaceBid`, `SetAutoBid`, reads; internally `ApplyAutoBids` | several auctions draw on one balance; a loop under the mutex; three fields that must agree |
| **Auction server and sessions** `websocket_auction_server/server.*, session.*, main.cpp` | the set of sessions under a mutex; per session a strand, a read loop, a write queue | accept, handshake, read and answer a request, broadcast an event, write, fail | handlers of different sessions overlap on `threads` threads (2 by default) |
| **Chat manager** `long_polling_chat_server/chat_manager.*` | participants, rooms with members and messages, one id counter; a mutex and a condition variable | create participant/room/message, invite, remove, read, poll | a monitor that waits: lost, shared and spurious wake-ups, timeouts, membership that changes during the wait |
| **Chat HTTP server** `long_polling_chat_server/main.cpp` | a pool of 16 workers with a queue | one handler per endpoint | a poll holds its worker while it waits |
| **Shop storage** `grpc_server/in_memory_storage.*` | products and categories, each link stored at both ends, twice at each | add, edit, delete, attach, detach, reads | four copies of a link, generated ids, lists sent by clients |
| **Shop service** `grpc_server/ecommerce_service_impl.*` | none | a handler per operation | a change and the look-up of its result are two critical sections |
| **SOAP task server** `soap_server/` | tasks under a mutex; a file written on shutdown; a detached thread per connection | create, get, update, delete; load, save | update is read-modify-write over two critical sections; crashes during the save |
| **JSON-RPC secret server** `json_rpc_server/` | secrets with access levels under a mutex; sessions on the io_context's threads | add, get, list, delete, in batches; connect, read, answer, fail | sessions race to add one id; a client that lost the answer tries again; levels are strings, and those nobody knows count as the lowest (`secret_data_manager.cpp:155`) |
| **REST library** `rest_server/main.cpp` | books, authors and id counters under one mutex | add, update, delete, read; lists by page and with counts | handlers that lock more than once (:407, :437, :458); offsets into a list that changes (:333); page arithmetic in `int` (:243) |
| **Webhook example** `webhook_example_server/main.cpp` | a bounded list of events and a counter | receive, list | one thread, one connection at a time, no timeout; the bound; an answer that is not received |
| **SSE example** `sse_example_server/main.cpp` | none | accept, send ten ticks, close | everyone waits for the stream being written |
| Logger `logger/` | none of its own | set up the logging library | - |

How they interact: in the auction, a session calls the manager, then the server's
`Broadcast`, which posts to the strands of all sessions; in the chat, httplib's
workers call the manager, and pollers and posters meet at its condition variable;
in the shop, gRPC's threads call the service and it the storage; in the task
server, connection threads call the manager, which meets the file system at start
and stop only. In the JSON-RPC server sessions call
the manager request by request; in the library httplib's workers call the
database. No server talks to another one.

What makes them correct:

- *auction manager*: nobody goes into debt and no money appears or vanishes; price,
  leader and history agree; automatic bids stay within their limits, are minimal,
  come to rest and leave nobody able to outbid; a closed item never changes;
- *auction server*: never two writes on a stream at once, never none while a
  message waits; a connected client misses no change and hears of its own first by
  the event; every request is answered; snapshots are consistent;
- *chat*: a client that follows `sinceId` gets each message once; no poll sleeps
  over a message; a removed member stops reading; every request is answered
  although polls hold the workers;
- *shop*: the two ends and the two copies of each link agree; deleting and editing
  do what their comments say; a call that did its work says so;
- *secret server*: a secret that was accepted stands until it is deleted, so that a
  client that learnt of it can rely on it, and is told to nobody whom the strings
  given as levels do not allow;
- *library*: no book is left without an author; answers put together from several
  critical sections or requests are off by what changed in between, and by nothing else;
- *examples*: an event whose id was acknowledged is listed while it is among the
  last; whoever waits is served unless one silent client holds the thread for ever;
- *task server*: an update touches only the fields it names and revives nothing; a
  file that loads cleanly is the table at the last stop.

## 2. Modules

| Module | Models | State and code |
|---|---|---|
| `AuctionManager` | `Auction::AuctionManager` | `users`, `items` are the tables; `pass` is the local state of `ApplyAutoBids` (item, loop position, `progressed`), stepped through one iteration per action while the mutex is held; `credited` is a history variable |
| `EnglishAuction` | abstract specification | what the manager promises: open ascending auctions paid from purses |
| `AuctionServer` | `Server`, `Session`, the threads | `phase`, `handler`: the read side of a session and where its handler is; `posted`, `write_queue`, `writes`, `sent`: its write side; `version` counts the manager's changes and stands for its state |
| `ChatManager` | `Chat::ChatManager` and clients that follow `sinceId` | `participants`, `rooms`, `next_message_id`; `call` is each client's poll (waiting, woken, expired); `received`, `repeated`, `leaks` record what clients saw |
| `RoomLogs` | abstract specification | what the chat manager promises: a log per room, which members read to its end; no clocks, waiting or last ids |
| `ChatServer` | the pool over `ChatManager` (extends it) | `queue`, `busy`: jobs without and with a worker |
| `ProductStorage` | `InMemoryStorage` | `products`, `categories`: id to entry; an entry's `links` is the vector, `ids` the field of the message |
| `EcommerceService` | `EcommerceServiceImpl` over `ProductStorage` (extends it) | `call`: a handler between its two critical sections |
| `TaskServer` | `SOAPServer`, `TaskManager`, the data file | `proc`, `tasks`, `file`; `call`: an update between its two critical sections |
| `LibraryServer` | `Database` and the handlers of the REST server | `authors`, `books`, `nextAuthorId`, `nextBookId` are the database; `call` is what a client is in the middle of: a page sequence, a `PUT` before it reads back, the books of one author or of all being counted; `changes` numbers the changes |
| `SecretServer` | `SecretDataManager`, `Session`, the threads | `data_store_`; `session`, `todo`, `received`: where each session is in its message; `accepted`: the adds with the strings that came with them, `disclosed`: what the last request was told of secrets, `owns` and `known`: the secrets each client is being told, and was told, to be its own. Levels come in as strings, "other" standing for all that the schemas do not know, and `stringToAccessLevel` converts them |
| `ExampleServers` | the webhook and the SSE server, which share their accept loop | `backlog`, `at`, `connected`, `sent`: who waits, where the thread is, who listens, whose request has arrived; `at.blocked`: the answer is larger than the buffers of the socket and the client has not read; `events_`, `next_id_` are the event store; `acknowledged` records the ids clients got |
| `DataLemmas` and `...Proofs` | proofs | see section 6 |
| `MC...` | instances for TLC | values a `.cfg` cannot write, and symmetry sets |

Conventions. A public method that holds its mutex throughout is one action; a call
that returns an error changes nothing and is left out, unless the answer matters. Each
definition whose comment begins with "Slip:" is a plausible mistake, which no
action uses: put in the place of the definition after it, it breaks a property,
which shows that the property has teeth.

## 3. Runs

All finish in under three minutes on two cores.

| Run | Checks | Instance and why it is enough |
|---|---|---|
| `Auctions` | `TypeOK`, `HistoryAgrees`, `AutoBidsWithinLimit`, `AutoBidsMinimal`, `Solvent`, `MoneyConserved`, `QuiescentOnRelease`, `AutoBidsTerminate` (liveness), `ImplementsEnglishAuction` (refinement) | 2 users, 2 items, balances up to 6, half-step amounts (step 2; prices 0 and 1, amounts 2 and 6): two automatic bidders duel for one item while they lead the other, so that money for one is bid twice; a limit may lie half a step above the price; money is gained and spent meanwhile |
| `AuctionSessions` | `TypeOK`, `OneWriteAtATime`, `LiveSessionsRegistered`, `NoChangeMissed`, `EventBeforeResponse`, `ClientsDoNotGoBack`, `EveryRequestAnswered` (liveness) | 2 sessions on 1 or 2 threads, 2 changes, 1 request each: with two threads both may broadcast at once, to one that is connecting or failing; with one, requests, posts and completions compete for it, and nobody may be told of an earlier state after a later one |
| `ServerTornSnapshot` | `SnapshotIsOneState`: **violated** | finding 1 |
| `ChatRooms` | `NoMissedWakeup`, `GapFree`, `LeaksAtMostOneAnswer`, `OrphanedRoomsStayEmpty`, `ImplementsRoomLogs` (refinement) | 3 clients in 2 rooms that share ids and the condition variable, 2 messages: two waiters and a poster, members removed while they wait. Types are checked in `ChatPool`, whose `ServerTypeOK` has the manager's `TypeOK`; filtered polls too, and the proof of the refinement covers them |
| `ChatPool` | `ServerTypeOK`, `EveryRequestAnswered` (liveness) | 2 workers and 3 clients: both workers may hold polls while the third client wants to post; a clock of two values that may go back, filtered and unfiltered reads, so that a poll may be woken by a message its filter hides |
| `StorageReusedId` | `CategoryIdsAreWhereProductIs`: **violated** | finding 2 |
| `ShopService` | `StorageTypeOK`, `MirrorsAgree`, `LinkingKeepsSymmetry`, `OnlyDeletesLoseEntries` | 2 parallel calls; 2 products and 1 category (the two tables are mirror images, so a deleted category has two products to unlink); lists of up to 3 links with duplicates and dangling ids; ids generated, chosen, reused |
| `TaskRestarts` | `TaskTypeOK`, `LoadsLastSave`, `SavesAreWhole`, `DeletedStaysDeleted` | 2 connections, 2 tasks of one field, stops and crashes in every state |
| `TaskLostUpdate` | `UpdateKeepsFieldsNotGiven`: **violated** | finding 3; one task of two fields |
| `Library` | `LibraryTypeOK`, `PagesAreRuns`, `PagingOffByChangesOnly`, `CountsOffByChangesOnly`, `PutAnswersItsBook` | 2 clients, a shelf of 3 books in two genres, as `main` fills it with 6, 3 changes, 2 authors; page sizes from below 1 to above the maximum of 3; an `int` of 4 bits, so that `(page - 1) * limit` overflows for page numbers that fit, with room for `start + limit` when the page starts within the list |
| `Secrets` | `SecretTypeOK`, `SecretsFlowUp` | 3 clients on 2 threads, 2 ids, 2 messages of up to 2 requests, 4 strings as levels: two sessions race for an id, or a client repeats an add whose answer it lost, while a third waits for a thread and others add under the same id |
| `Examples` | `AcknowledgedEventsListed`, `EveryClientServed` (liveness) | 3 clients, a store of 2 events that gets 3, streams of 2 ticks: the store overflows, an acknowledged event drops out, one client is served, or never sends or reads what it should, while two wait |

Bounds (`MaxUsers`, `MaxItems`, `MaxBalance`, `MaxVersion`, `MaxRequests`,
`MaxRooms`, `MaxMessages`, `MaxProducts`, `MaxCategories`, `MaxLinks`,
`MaxAuthors`, `MaxBooks`, `MaxChanges`, `MaxBatch`, `MaxPosts`) are
constants of the modules and guards of the actions they bound. Where a run sets
`CHECK_DEADLOCK FALSE`, the system may really stop: clients need not ask for
anything, and every counter may be at its bound. Symmetry is used for clients and
sessions in runs without liveness properties only.

## 4. Fairness

- `AuctionManager!FairSpec`: weak fairness of `ApplyAutoBids`. A call that holds
  the mutex runs on a thread that nothing suspends.
- `AuctionServer!FairSpec`: weak fairness of each running handler; strong fairness
  of posted lambdas and of write completions, which need a free thread again and
  again and are queued by the io_context in order. Nothing is assumed of clients:
  they may send nothing, or vanish.
- `ChatServer!ServerSpec`: workers take jobs, handlers run, and the timeout of
  each poll (clamped to 1..60 s, `main.cpp:387`) expires. This is the one place where a
  timeout is relied on: without it (slip `NoExpiry`) polls starve the pool.
- `ExampleServers!FairSpec`: weak fairness of the one thread where it is not blocked.
  Nothing is assumed of clients: they may connect and send nothing, ask for the list
  of events and not read it, or vanish. Neither `http::read` (`main.cpp:151` of the
  webhook server) nor `http::write` (:157) has a timeout, so one such client stops
  the server for everyone; `EveryClientServed` says that nothing else does: whoever
  sent a request, or hangs up, is served, unless the thread waits for one client for
  ever. That an id, an error or a tick fits the buffers of the socket, so that its
  write does not wait, is an assumption.

## 5. Findings

1. `get_state` (`websocket_auction_server/session.cpp:255`) copies users and items
   under two locks. With two threads the answer may be of no moment at all:
   users from before a change beside items from after it. `test.txt:25` calls it the full
   snapshot of the state.
2. `AddProduct` (`grpc_server/in_memory_storage.cpp:5`) numbers by table size.
   After a delete the number is in use, and the new product overwrites a live one;
   categories go on listing it, and its `category_ids` no longer say in which
   categories it is (`ecommerce.proto:12`).
3. `HandleUpdateTask` (`soap_server/soap_server.cpp:290`) keeps "the existing"
   title (:295) as it was before another client's update: a lost update.

Seen while reading and not the subject of a run: `DeleteProduct`
(`grpc_server/in_memory_storage.cpp:60`) follows the product's own list, where
:59 says "all categories", so a category that was created with a product the
product does not mirror keeps it; `EditProduct` (:41) replaces the categories its
comment (:33) preserves; in `soap_server/main.cpp:45` the
condition is inverted, so the acceptor is never closed (the process ends all the
same); an item whose leader cannot pay stays open until somebody outbids him;
`UpdateBalance` does not wake automatic bids (`websocket_auction_server/auction_manager.cpp:56`);
tasks are saved by the destructor only, so that a crash loses what was answered
since the start; deleting an author who does not exist is answered "has books"
(`rest_server/main.cpp:536`); the `total` of a list of books is the size of the page
(:343); a page number whose offset overflows shows some other page, or the first;
errors of JSON-RPC methods are always told in English
(`json_rpc_server/session.cpp:122`), whatever language the request asks for; an access
level that the schemas (`json_rpc_server/secret_data_manager.cpp:36`, :76) do not know
is not refused with `INVALID_ACCESS_LEVEL` (:118), which nothing raises, but counts as
`user` (:161), so that a secret added with one is told to everybody (`MayBeTold` of
`SecretServer` says so; a mistyped level protects nothing).

## 6. Proofs

TLC checks the instances above; TLAPS proves the following for all values of the
constants, from the named assumptions on them (`AuctionAssumption`,
`ServerAssumption`, `ChatAssumption`, `TaskAssumption`, `LibraryAssumption`,
`SecretAssumption`, `StorageAssumption`, `ExampleAssumption`: bounds are naturals, amounts integers, the
step positive, ids finite; in the library, the shelf that `main` fills is within the
bound on books, and that bound, with a page added to it, is an `int`, as ids and the
ends of pages are). Every proof is complete.

**`AuctionManagerProofs`**
: `TypeCorrect` (`TypeOK`), `HistoryCorrect`, `LimitsRespected`,
  `AutoBidsAreMinimal`, `AlwaysSolvent`, `ReleasedQuiescent`, `BiddingWarWindsDown`,
  `MoneyIsConserved` (`MoneyConserved`) and `Refinement` (`ImplementsEnglishAuction`). `TypeOK` is inductive. `HistoryAgrees` is inductive
  with it, and carries the other two: a bid's amount is above the price, and the
  history's last entry is the price, so amounts rise; a limit is only set above the
  price, so it stays above every bid made automatically under it. `ReleasedQuiescent`
  needs the loop's invariant: in a pass that has not progressed, the users already
  looked at cannot outbid (nothing they depend on changes until a bid sets
  `progressed`). `BiddingWarWindsDown` is what `AutoBidsTerminate` rests on: while the
  loop holds the mutex no balance moves, and each of its steps lowers a natural number
  (`WorkLeft`) or ends it. A bid stays within its bidder's balance and takes at least
  one unit off the room between the price and the richest balance, a user passed over
  shortens the pass, and the end of a pass takes back that it had progressed. So the
  loop runs for a number of steps known when it starts; that the thread takes these
  steps is the fairness assumed. The refinement maps each iteration that bids to `Raise`, the rest
  of the loop to stuttering, and `EndAuction` to `Hammer` or `Withdraw`.
  `MoneyConserved` is a sum over all auctions: what a user was credited is its
  balance and what it paid, `Paid`, a recursion over the items. That this recursion is
  the sum of the `Charge` of each item, whatever the list, is `PaidIsSum`. From it
  follow, by induction on the list, what appending an item and changing one item do to
  the sum (`PaidAppend`, `PaidExcept`). Closing an auction moves exactly one
  charge from the balance to the sum; no other step changes either, since only a
  closed item with a leader is charged and no item is closed twice.

**`ChatManagerProofs`**
: `ChatInvariant` establishes `ChatInv`: the types, `IdsRise` (ids rise
  within each room and stay below the counter), `ReceivedPrefix` (what a client has
  is all of the room up to its last id), `SinceLast` (a poll in
  progress asks for what is after that), and that nothing was repeated. None of these
  is inductive alone: that an answer closes no gap needs the order of ids, that it
  repeats nothing needs `SinceLast`. From it follow `TypeCorrect`,
  `NothingMissedOrRepeated` (`GapFree`), `PollsDoNotOversleep` (`NoMissedWakeup`),
  `RemovalTakesEffect` (`LeaksAtMostOneAnswer`, with an invariant of its own: a
  client that used up its answer is in no poll of that room) and
  `OrphanedRoomsAreLost`.
  `ManagerImplementsRoomLogs` (`ImplementsRoomLogs`) maps a room to its members and the
  ids posted in it, and a poll that waits to a ticket for one answer. Reading and
  a poll that finds something are `Read`, a poll that starts to wait is `TakeTicket`,
  and its return, in time or not, `Redeem`; waking up, running out of time
  and waiting on are stuttering. That an answer from the last known id on is all
  that the reader lacks (`AnswerCatchesUp`) needs `ReceivedPrefix` and `IdsRise`; for
  an answer after a wait it needs `SinceLast` too.
  `ServerImplementsManager` says that the HTTP server over the manager
  (`ChatServer!ServerSpec`) implements it: every step of a worker is a step of the
  manager or leaves it alone. So all of the above holds for the server.
  `WorkersAreHeld` (`ServerTypeOK`) counts the workers in use: a poll that waits is in
  a worker, a client has one request at a time, in the queue or in a worker
  and never in both, and a job is only taken while a worker is free.

**`SmallServersProofs`**
: About the two small servers, the task server and the webhook server. Of the task server,
  `TaskInvariant`: while the process saves, the table stands still, the count in the
  file is the table's and the entries written are a part of it; otherwise a whole
  file is the table at the last stop. A finite set has no proper part of its own
  size, so a save interrupted before its last entry is never whole. It gives
  `TaskTypeCorrect`, `CrashesDoNotPassForSaves` (`LoadsLastSave`),
  `SavesLoadBack` (`SavesAreWhole`) and `UpdatesDoNotRevive`
  (`DeletedStaysDeleted`).
  Of the webhook server, `AcknowledgedAreListed` (`AcknowledgedEventsListed`), for every
  bound on the events and any number of clients. `ExamplesInv` says
  that the ids in the store are the last ones given, without a gap, as many as
  there were events or as the bound allows (`LastOnes`), and that each acknowledged id was
  given to the event of that client (`GivenTo`). Which events are listed alone is not
  inductive: what adding one drops depends on the ids of all.

**`AuctionServerProofs`**
: Three invariants, for any number of sessions, threads and changes.
  `ControlInv` has the types, one write per stream, the set of sessions, the form of
  each handler (a change that is being told of has a version; one that replies
  has a reply), and that nothing is queued for a session that has not come yet.
  It gives `SessionTypes`, `WritesNeverOverlap` (`OneWriteAtATime`) and `RegistryIsExact`
  (`LiveSessionsRegistered`). `LogInv` is about the log of a
  session, which is what was written, what is queued and what is posted, in this order:
  posting appends to it, the strand and the writes only move its parts. Each change
  is *told or on its way*: in the log of every session that was there before it, or
  still to be delivered by the one handler that made it; two handlers
  never tell of one change. Hence `EveryChangeToldOnce` (`NoChangeMissed`), and
  `OwnEventFirst` (`EventBeforeResponse`), since a handler replies when it has no
  delivery left. `OneThreadInv` says that with one thread the one running handler
  holds the current version, which is why `OneThreadNeverGoesBack`
  (`ClientsDoNotGoBack`) holds there and not with two threads.

**`LibraryServerProofs`**
: `LibraryInv`: the types, ids below their counters, and for authors whose books are being
  counted, that the books counted and those not yet counted together are as many as there
  were, but for the changes since. It gives `TypesAndAuthors`
  (`LibraryTypeOK`), `PutReadsBackItsBook` (`PutAnswersItsBook`, which holds as ids
  are never given out again) and `CountsAddUp` (`CountsOffByChangesOnly`).
  `PagesShowTheirRun` (`PagesAreRuns`) is about one request: for every list, page,
  page size and width of `int`, the page is a run of the list, within it and no longer
  than the page size, even where the multiplication wraps around; where it does not,
  it is the run that the page number says. It is proved of the arithmetic (`PageIsRun`,
  by way of `Quotient`), and holds in every state since ids do not pass their bound.
  `PagingShifts` (`PagingOffByChangesOnly`) is about a client that reads page after page
  while others add, change and delete books. The mark after the last place it read
  divides the list: `UpTo` it and `Beyond`. The invariant `PagingInv` bounds what
  was *missed* (books up to the mark that stayed all the time and were not
  shown) by the books that left the list, and what was shown again together
  with what is shown already and still *ahead* (beyond the mark) by those that came.
  `PagingOffByChangesOnly` alone speaks of the end only and is not inductive. A
  book that leaves pulls one book at most from beyond the mark to before it, one that
  comes pushes one at most the other way; a book put into another genre does one or
  the other. Reading a page moves the mark over books that are now
  shown, which misses nothing, and counts those seen before, which are then no longer
  ahead.

**`SecretServerProofs`**
: `SecretInv`: the store is what was accepted, each level in it the conversion of the
  string that came with the add; each client's `owns` and `known` are ids of
  secrets of its own that are stored; what was told came from the store. `OwnersRight`,
  the part about `owns`, is what makes the rest inductive: what an answer says only
  becomes what its client knows when it arrives, and others add and delete in between.
  It gives `StoreIsWhatWasAccepted` (`SecretTypeOK`, of which `KnownSecretsStand` is a
  part) and `NothingFlowsDown` (`SecretsFlowUp`). The latter compares strings, not
  levels: `RanksRespectStrings` shows that the conversion followed by the comparison
  of ranks allows no more than `MayBeTold`, the rule in terms of strings.

**`EcommerceServiceProofs`**
: Each entry is made of one list (`StorageInv`), which every operation preserves,
  so `MessagesMirrorTheVectors` (`MirrorsAgree`); and the entry a call is going to
  look up exists or was deleted meanwhile (`InStoreOrRaced`), so
  `LosesToDeletesOnly` (`OnlyDeletesLoseEntries`).
  `ServiceImplementsStorage`: whatever calls run in parallel, the storage sees its own
  operations one at a time. With it, what is proved of `StorageSpec` holds in the
  service: `TablesStayTyped` (`StorageTypeOK`), and `LinksHaveTwoEnds`
  (`LinkingKeepsSymmetry`), that attaching, detaching and deleting keep the number of
  times `p` is in the list of `c` and `c` in that of `p` the same, if they were. Both
  rest on what the loops over a list do, for lists of every length: erasing (the `erase`
  of `remove` in the code) is shown to keep the other elements, in their order
  and number, by way of a function from the places that are kept to those in the result.

**`DataLemmas`**
: what the modules above share. Positions when a sequence is appended to,
  concatenated, or an element moved between two; `LeastNat` (a set of naturals that is
  not empty has a least element); from it `SetInduction`, induction for *sets* of
  naturals, which the provers can apply where the library's rule, for operators,
  cannot be instantiated; and `PrimitiveRecursion`, that a recursion over numbers has
  a solution, which sums over items and loops over lists need.

Every safety property of a run that passes is proved. Only model-checked are the
liveness properties (`AutoBidsTerminate`, `EveryClientServed` and the
`EveryRequestAnswered` of both servers), as TLAPS does not reason about fairness and
`ENABLED`; of the first, the part without fairness is `BiddingWarWindsDown`.

## 7. What is left out, and why

- Money is integer multiples of a grid of which the step is a whole number, on
  which `double` is exact. Above 2^53 adding the step may change nothing, and two
  automatic bidders would take turns for ever; this is not modelled.
- The text of requests and answers, parsing, validation messages, logging. A
  request that does not parse or validate is refused, and a refusal changes nothing. One case is not modelled: a binary frame that is not
  UTF-8 makes `dump()` throw while the auction server answers that it does not parse
  (`session.cpp:62-64`), and the exception leaves `OnRead`; `ReadMalformed` always answers.
- In the auction server a broken connection is noticed by the read side or by a
  write; what the WebSocket library does with a write during the handshake is only
  modelled as far as it may fail. Requests of one client are read one at a time.
- In the chat, API keys are taken to be unguessable; `toTs` only narrows a
  read, and clients do not count narrowed reads; connections kept alive between requests
  (httplib closes them after some seconds) are not counted against the pool.
- In the shop, reads, filters and pagination; names and prices.
- In the task server, what a request is answered while the manager is being
  destroyed (undefined); a torn file loads as anything that includes what was
  written, or not at all.
- In the library, names, titles and years, and the handlers that read one thing under
  one lock. A library of so many books that `start + limit` (:250) overflows, about
  2^31, is excluded by assumption. `(page - 1) * limit` wraps around where it overflows, which is what the
  build does, although the language leaves it undefined.
- In the secret server, languages and the texts of errors; the table of methods,
  which does not change once the server runs. There are no accounts: which string a
  client sends as its level is its own choice, and so it is in the model.
- In the example servers, the shared secret of the webhooks and their content; that a
  client who posts again after a lost answer has its event stored twice, is
  possible in the model and promised by nobody to be otherwise.
- The logger, a wrapper around a logging library, and the build files: they have no
  state the servers depend on.

## 8. Plan

Done: all eight servers, the English auction and the room logs as the abstract
specifications of the auction manager and the chat manager, and proofs of every safety
property the runs check.

What would add most next, in this order:

1. An abstract specification of `AuctionServer` (a feed of changes that every connected
   client reads in some order, each once), with the refinement, for which `LogInv` is
   the argument.
2. `AuctionManager` over a saturating sum, for a hazard that has no property yet
   (`auction_manager.cpp:347`): at 2^53 the step is lost in rounding, and two
   automatic bidders take turns for ever while they hold the mutex;
   `BiddingWarWindsDown` then fails at its first step.
3. The reads of the shop: filters and pages of products, against a reference definition.
