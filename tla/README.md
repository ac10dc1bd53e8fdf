# Fructose in TLA+

Fructose is a customer-management platform of ASP.NET Core microservices that
talk to each other through an *event bus*; its pages get their tokens with an OpenID
Connect client, `oidc-token-manager.js`, which brings its own promises and its own
cryptography along. This directory is a TLA+ development
of the parts whose correctness depends on order, failure and concurrency: modules
that model the code, TLC configurations that check them on small instances, and
theorems about them checked by TLAPS. Paths are relative to the repository root;
`EventBus/Impl/...` and the like are below `src/`. `JS` is
`src/services/Customer/Customer.API/Auth/Client/oidc-token-manager.js`, and a number
after a colon a line of it.

1. [The system](#1-the-system)
2. [Modules and code](#2-modules-and-code)
3. [Runs](#3-runs)
4. [Bounds, fairness, assumptions](#4-bounds-fairness-assumptions)
5. [Proofs](#5-proofs)
6. [Plan](#6-plan)
7. [Not modelled](#7-not-modelled)

## 1. The system

One process hosts one service (`Customer.API`). It has one event bus object,
chosen by configuration among two implementations of `IEventBus`, and one
subscriptions manager that the bus reads and writes.

| Component | State it keeps | Operations | Interacts with |
|---|---|---|---|
| Subscriptions manager, `Fructose.Common/EventBus/Impl/InMemoryEventBusSubscriptionsManager.cs` | `_handlers`: event name to a list of (dynamic?, handler type); `_eventTypes` | add and remove typed and dynamic subscriptions, `Clear`, look-ups | raises `OnEventRemoved` to the RabbitMQ bus; read by dispatch threads while the host calls it; has no lock |
| RabbitMQ connection, `Fructose.EventBus.RabbitMQ/Impl/DefaultRabbitMQPersistentConnection.cs` | `_connection`, `_disposed`, a lock | `TryConnect`, `IsConnected`, `CreateModel`, `Dispose`, three callbacks | the bus calls it from any thread; the client library runs its callbacks on threads of its own |
| RabbitMQ bus, `Fructose.EventBus.RabbitMQ/Impl/EventBusRabbitMQ.cs` | `_queueName`, `_consumerChannel` | `Publish`, `Subscribe`, `SubscribeDynamic`, both `Unsubscribe`s, `Dispose`, the `Received` callback | the connection, the manager, the broker, the handlers |
| Azure bus, `Fructose.EventBus.AzureServiceBus/Impl/*.cs` | the subscription's client, the topic's client; at the service: rules, locked messages | the same interface | the manager, the service, the handlers |
| Event log (outbox), `Fructose.EventLog.EntityFramework/**`, `services/Customer/Customer.Service/Integration/Impl/CustomerIntegrationEventService.cs` | a row per event: its state and `TimesSent` | save in a business transaction, retrieve pending, mark in progress, published, failed; the loop that publishes | the database, the bus |
| Customer commands, `services/Customer/Customer.Service/**` | a database context per request; customer rows | create, update, delete, get, status change, enrolment | the database, the mediator, the lookup caches; an integration event that enrols |
| Lookup caches, `Customer.Service/Map/LookupDataValueToKeyDatabaseResolverFructose.cs`, `Customer.Infrastructure/Repository/LookupDataRepository.cs` | cached lookup tables | value to key, list of statuses and types | the database, the cache of the framework |
| Database schema, `Customer.Infrastructure/ORM/**`, `Customer.Domain/Entity/**`, `database/**` | tables | - | the commands |
| Host, controllers, middleware, `Customer.API/**` | configuration; two test switches | start-up, routing | all of the above |
| Token manager, `JS` 8413-8737 | per tab: `_token`, two timers, silent renewals under way; of all tabs: one entry of `localStorage` | constructor, `saveToken`, `removeToken`, `redirectForLogout`, silent renewal, the storage listener | the other tabs (storage events), the timers, the token requests |
| Token requests, `JS` 7812-8411 and 8741-8888 | `request_state` in `localStorage`, shared by all flows; `_pendingPopup`; windows, frames, intervals | `redirectForToken`, `renewTokenSilentAsync`, `openPopupForTokenAsync`, `processResponseAsync` and its validations | the provider, the promises, the cryptography |
| Promises, `JS` 6674-7798 (es6-promise) | each promise's state, result and subscribers; asap's queue | `new Promise`, `then`, `catch`, `all`, `race`, `flush` | everything asynchronous in the client; the page's callbacks |
| Cryptography, `JS` 1-6672 (CryptoJS, jsbn, jsrsasign) | digits of integers, half-filled blocks of a digest, what a JWS object has parsed | arithmetic, RSA, hashes, encodings, DER, certificates, JWS | the token requests verify id_tokens with it |
| `CustomerSearch.API`, the page that enables the client | - | a template; one handler that opens the popup | |

**What is hard in it.**

- *Threads share state without locks.* The manager's dictionary and lists are
  written by the thread that subscribes and enumerated, across `await`s, by every
  message being dispatched. The connection's fields are read outside its lock.
- *Everything remote fails.* Connections are lost and recovered, deliveries held
  by a lost channel come back while their tasks still run, locks of the Azure
  service expire under a handler, a publisher stops between two writes.
- *The process dies and restarts.* An exception in the RabbitMQ `Received`
  callback leaves an `async void` method and ends the process. Its tables are gone
  then; queues, bindings, rules and log rows are not.
- *Order matters.* Bind before add and remove before unbind; send before the mark;
  acknowledge after the handlers; `_disposed` before the connection is closed.
- *Tabs share a store, flows share a key.* A storage event says that the token changed,
  not to what; by the time it is handled the store may have changed again. Redirects,
  silent frames and popups, in whatever tab, all overwrite one `request_state`.
- *Callbacks re-enter.* The engine of promises walks arrays to which the callbacks it
  calls append. A popup's cleanup may run from four places, in any order, twice.
- *Numbers have edges.* Timers at the last second of a token; 32 bits of a delay; carries,
  borrows and quotient estimates of multi-digit integers; a message that ends where its
  length should be written.
- *Reads are old when they are used.* A command commits what it made of a row it read
  before other requests committed; a status comes from a list nothing invalidates; a
  resolver may put a list into the cache that is older than the one just removed.

**What makes each component correct.**

| Component | It is correct when |
|---|---|
| Subscriptions manager | it is a set of (event, handler) pairs; no event is left with an empty list; a typed handler's event type is known; an event that loses its last handler is announced, once |
| Connection | the connection in use answers its own loss, and is registered once, however many threads reconnect; no thread is refused without a cause; nobody waits for the lock for ever; `Dispose` closes what is in use |
| RabbitMQ bus | a subscribed event is bound to a queue that the bus keeps; a routed message is in the queue, in one delivery's hands or settled; it is settled only after its handlers returned, is not lost for a handler subscribed all along, and is settled at last |
| Azure bus | a message is completed only after the handlers it is looked up for returned, not lost for one found by its label all along, and completed or a dead letter at last |
| Event log | a row never claims more than happened; a row in progress has a publisher; an event is sent once per retrieval |
| Customer commands | no committed change is overwritten or deleted unseen; each command takes effect at one moment, on the customer as it then is, or not at all |
| Token manager | the timers are those of the token held now; tabs that have handled their events agree; no timer removes a token another tab renewed; a page is told before its token goes, unless the token was gone by the time the page's callback was registered; an expired token does not stay |
| Token requests | a request yields one token at most, and only the last request any; nothing is saved that failed a check or whose caller was told it failed; nobody waits for ever |
| Promises | a promise is settled once, its callbacks are called once, in order, after that, and eventually |
| Cryptography | integers are integers, powers powers, digests those of the message, texts read back; a token verifies by its signer's certificate and no other |
| Lookup caches | a value in the table throughout a look-up is found, unless a list read before its insertion was still on its way to the cache; in the end every look-up finds it |

The hazards behind these, each at its line, are in `PROJECT.json`.

## 2. Modules and code

| Module | Models | Uses |
|---|---|---|
| `SubscriptionRegistry` | what `IEventBusSubscriptionsManager` promises: a set of pairs | |
| `SubscriptionsManager` | the manager, one call per action | refines `SubscriptionRegistry` |
| `RabbitMQBus` | the RabbitMQ bus in one process, with the broker | `SubscriptionsManager` (INSTANCE: its look-ups, and refinement of the registry) |
| `AzureBus` | the Azure bus in one process, with the service | `SubscriptionsManager` |
| `PersistentConnection` | the RabbitMQ connection with its callers and callbacks | |
| `EventLog` | the outbox, its transactions and publishers | |
| `CustomerRegister` | what the customer service's commands promise: each is one step, or none | |
| `CustomerCommands` | the commands over the tables Customer and CustomerStatus | refines `CustomerRegister` |
| `LookupCache` | the resolver of look-up values with its cached table | |
| `TokenManager` | the manager of each tab, and their store | |
| `TokenRequests` | the flows that ask for a token | |
| `PromiseContract` | what promises promise | |
| `Promises` | es6-promise, one turn of a loop per action | refines `PromiseContract` |
| `BigInteger` | jsbn: the integers' algorithms, as operators | |
| `BigIntegerCalls` | sequences of calls on one integer, beside the true integer | `BigInteger` |
| `Octets` | hex, base64, base64url, PEM, UTF-8 | |
| `Certificates` | ASN1HEX, X509, the PKCS#1 key | `Octets` |
| `Digests` | word arrays, the padding and blocks of the hashes, 64-bit sums | |
| `IdTokens` | RSA, RSASSA-PKCS#1, JWS | `BigInteger`, `Certificates` |
| `Cryptography` | the library as its callers use it | `BigIntegerCalls`, `Digests`, `IdTokens` |
| `MC*` | small instances of these for TLC | |
| `*_proofs` | theorems; `CustomerService_proofs` those of `CustomerCommands` and `LookupCache`, `TokenClient_proofs` those of `TokenRequests` and `Promises` | the modules they are about |

**SubscriptionsManager.** `handlers` is `_handlers`, `eventTypes` is
`_eventTypes`; `result` records how the last call ended and which events
`OnEventRemoved` was raised for. `AddDynamicSubscription`, `AddSubscription`,
`RemoveDynamicSubscription`, `RemoveSubscription` and `Clear` are the methods.
Names and types are distinct sets joined by `NameOf` (`typeof(T).Name`), so that
two types may share a short name: the removal of the last handler then throws in
`SingleOrDefault` after the key is gone (`RemoveLast`).

**RabbitMQBus.** A call of the host is a record `call` whose `pc` says what it
does next; it is taken apart at each write another thread can observe: `Bind`,
`AddKey` (the key with an empty list), `AppendHandler`, `AddType` for Subscribe;
`RemoveHandler`, `DropKey`, `Unbind`, `CloseChannel` for Unsubscribe;
`DisposeChannel`, `ClearTable` for Dispose. A delivery is a record `task[d]`:
`Deliver`, `Check` (`HasSubscriptionsForEvent`), `Get` (`GetHandlersForEvent`: the
live list), `MoveNext` (the `foreach` up to the await), `HandlerReturns`,
`HandlerThrows`, `Ack`. `stale` is the enumerator's version check: a change of the
list makes the next `MoveNext` throw. What leaves the `async void` callback is
`ProcessDies`, followed by `Restart`. The broker (`ready`, `acked`, `bindings`,
`fate`) requeues what a lost channel held; the task that held it runs on, and its
`BasicAck` is ignored or throws. `ConsumerChannelReplaced` is the callback of the
consumer channel: it disposes the channel and creates another, which may fail, and then
the bus consumes no longer (`consuming`), with its handlers subscribed, until the process
is started again.

**AzureBus.** As above, with the service instead of the broker: `rules` for the
bindings, `mail` for the fate of a message, a lock per delivery (`LockExpires`),
at most `MaxConcurrent` messages in hand and `MaxDeliveries` deliveries. An
exception abandons the message and does not end the process. The constructor
(`Start`) removes the default rule and registers the message handler before
anything is subscribed.

Of the names, the model keeps what the conversions do. `Publish`, `AddRule` and
`RemoveRule` take "IntegrationEvent" out of the name (:44, :64, :98), which is `LabelOf`;
the callback puts it behind the label (:132), which is `NamedBy`. `Heard(m)` is the name
that comes back: for an event whose name does not end in the suffix it is another name.
Such an event shares its rule with the one that has the suffix, and its messages go to the
handlers of that one, or to nobody: `ProcessEvent` returns false then, the callback does
not complete the message (:135), and the message stays locked until the lock expires, comes
back, and ends as a dead letter after `MaxDeliveries`. The table itself goes by full names.

**PersistentConnection.** `current` is `_connection`; `link` and the two handler
counters belong to a connection object. `TryConnect` is `Enter` (lock), `Connect`,
`AttemptFails` / `GiveUp` (the retry policy), `Verify` (the test of `IsConnected`
after connecting), `AddShutdownHandler`, `AddOtherHandlers`. When the connection is
lost before the first handler is added, the client library calls it at once, in the
same thread and inside the re-entrant lock: `depth` counts the outer calls that
wait, and an outer call, once back, goes on with the handlers it has left on
whatever `_connection` is then. `Use`, `CreateModel`, `OpenChannel` are a thread of
the bus; `StartCallback`, `Callback` a callback thread; `Dispose`,
`DisposeConnection` the two halves of Dispose; `Lose`, `Recover`, `RaiseOther` the
network, the client library and the broker.

**EventLog.** `row` is the table, as committed. `BeginTransaction`, `ChangeData`,
`SaveEvent`, `Commit`, `Rollback` are `ResilientTransaction.ExecuteAsync` around a
business change and `SaveEventAsync`. A publisher is one call of
`PublishEventsThroughEventBusAsync`: `Retrieve`, `NextEvent`, `MarkInProgress`,
`Send`, `MarkPublished`, `MarkFailed`, and `Crash` between any two. `tracked` is the
entity a database context keeps: it is not read again, so `TimesSent++` starts from
the context's own value.

**CustomerCommands.** A `request` is one call of the mediator, or one delivery of an
enrolment: its parameters, what it has read (`read`), what it is about to write
(`row`) and where it is (`pc`). `CreateAsync`,
`Update`, `Delete`, `ChangeStatus` send it; the handlers are cut where requests can
overlap: at the query (`HandleUpdate`, `HandleDelete`, `HandleStatusChange`), at the
look-up in the cached statuses (`FindStatus`) and at `CommitAsync` (`Commit`,
`CommitFails`). `MapOver` is what the map does to a customer, `FirstStatus` included.
A commit is one transaction under the constraints that `FructoseContext.cs` and
`fructose.sql` declare: the row version (`RowIsAsRead`), the unique reference
(`ReferenceIsUnique`; NULL counts as one value, as in SQL Server), the foreign key to
the status (`StatusExists`) and those from other tables (`NothingRefersTo`). These
constraints only guard the writes; no property restates them. A caller of the mediator's
`Update` and `Delete` does not wait for the handler and is told "ok" whatever comes of it;
what callers are told is not modelled. `CustomerRegister` knows no queries, copies,
versions or transactions: a command is asked for, changes, makes or removes its customer as
it is at that moment, and has ended; or it fails and has changed nothing. In the refinement
the moment is the commit (`Registered`, `Outcomes`), but for a command that has read what
it would write (`Needless`, with `Made` for what it would write): its row need not be
written and its version not be looked at, and so its moment is the query.

**LookupCache.** `rows` is one look-up table, `entry` its copy in the cache, `call`
the calls of `Resolve` under way: `Hit`, or `Absent`, `GetDictionaryToCache` and
`Store` (the steps of `GetOrAdd`), `GetLookupValue`, and on a miss `Remove` and
all of it `again`, then `Return`. `Expire`, `InsertRow`, `DeleteRow` are the cache's
timeout and changes of the table. `certain` is the history variable of `HealingFinds`:
the calls for a value that was in the table, and in every list on its way to the cache,
when they began, and has not left the table since.

**TokenManager.** `tab[t]` is a page with one manager: the token, the handles of the
timers (`start` is the one without delay that registers the expiring callbacks),
storage events on their way and silent renewals under way. What one task of the browser
does is one action: `Open`, `Obtain`, `RemoveToken`, `RedirectForLogout`,
`RenewSucceeds`, `RenewFails`, `StorageEvent`, `Start`, `ExpiringTimer`, `ExpiredTimer`,
`Close`, each with the whole of `SaveToken` or `LoadToken` and the callbacks these run
(`CallTokenObtained`, `CallTokenRemoved`, `CallTokenExpiring`). `Token`,
`FromResponse`, `ToJSON` and `FromJSON` keep what is `undefined` apart from what is
null: comparisons with it are false, and so it is neither expired nor in time. `Tick`
may leave timers and events behind, as in a tab in the background: those that are due, and
also `start`, since `setTimeout(..., 0)` (:8621) promises no more than that the present
task ends first.

**TokenRequests.** A `flow` is one call of `redirectForToken`,
`renewTokenSilentAsync` or `openPopupForTokenAsync` with what becomes of its response;
its `pc` says which document it waits for. `CreateRequest` writes the shared
`requestState`; `ProcessResponse` takes it out before it looks at the response, and
`ResponseChecked`, `SignatureChecked`, `ClaimsChecked`, `AccessTokenChecked` are the
validations between two XMLHttpRequests. A popup has its window, its interval
(`CheckClosed`), the tries of `RedirectPopup` and the global callback, and `CleanedUp`
is its `cleanup()`. A rejected promise does not stop what the flow was about.

**Promises.** `engine` holds the promises and the queue; the library's functions are
operators from one engine to the next (`Resolve`, `Reject`, `Fulfill`, `Subscribe`,
`HandleOwnThenable`, `Tell` for the subscribers that are no children), so that a call of
the API is one action. `Flush` and `Run...` are the turns of `flush`, `PublishToChild`
and `PublishToOther` those of `publish`; the page's callbacks (`CallbackReturns`,
`CallbackThrows`) run between them and may call `Then`, `All`, `Race`, `New`,
`CallResolve`, `ForeignResolve` and the rest first. `PromiseContract` sees only the
states, the parents and how often each callback was called; `parent` and `called` record
them.

**Cryptography.** `BigInteger` keeps the algorithms of jsbn with the widths they have in
the code as constants. A loop with a count is a function of the turns taken, a `while` a
recursive operator; each step of a long loop body is an operator of its own, which "map"
gives its lines. A choice from a set with one element has TLC compute an intermediate
result before it goes on. `BigIntegerCalls` applies any method to the result of the ones before, and
keeps the integer beside it. `Digests` treats a hash value as the sequence of blocks that
the compression function was given. `Cryptography` puts four units, which share no
state, behind one `Next`: a behaviour chooses one (`unit`). `signed` is the table of
what `generateJWS` returns for every header, payload and key of the instance. It is made
once, in `Init`, and never changes: the functions it tabulates have no state.

History variables (`told`, `late`, `latest`, `saves`, `parent`, `called`, `value`,
`covered`, `missed`, `unverified`, `gaveUp`, `marks`,
`retrieved`, `abandoned`, `certain`) record what happened for the properties; no guard reads
them.

## 3. Runs

Every property has a mutant: a plausible bug in a definition that models code,
under which TLC finds the property violated in the same run. The mutants sit in
the modules, before the definition they change.

| Run | Instance | What it shows |
|---|---|---|
| `subscriptions` | 2 names, 3 event types of which 2 are namesakes, 2 handler types; every sequence of calls | the table's consistency (`TableAgrees`); `LastHandlerAnnounced`; the table implements the registry (`ImplementsRegistry`) |
| `connection` | 2 callers, 3 connections, 1 retry, 2 calls, 1 loss or event | `SupervisedOnce`, `RefusedForCause`, `DisposedIsClosed`; every thread ends and a loss is answered (`ConnectionRecovers`) |
| `bus` | 2 types of one name, 2 handlers of which 1 resolves, 1 message, 3 calls, 1 fault | whoever is subscribed is bound, and the queue kept (`SubscribedIsRouted`); a message is in one place and not lost or acknowledged unhandled (`AtLeastOnce`); calls taken apart still implement the registry (`CallsImplementRegistry`); `RoutedIsSettled` through a crash or a lost connection, unless the consumer channel is gone for good |
| `azure` | 2 names of one label, the message that of the name without the suffix; 2 handlers of which 1 resolves, deliveries that overlap when a lock is lost, 3 calls, 2 faults | `AtLeastOnce`; every message is completed or dead-lettered (`RoutedIsSettled`) |
| `eventlog` | 2 overlapping publishers, 2 events of which 1 cannot be deserialised, 3 faults, any crash | `LogIsTrue` (no row claims more than happened; a row in progress has an owner); `SentOncePerRetrieval`; `RetrievedIsSettled` |
| `customers` | 3 overlapping requests of any kind, 2 customers, 2 references, 2 statuses that come and go | `NoBlindWrite`; the commands implement the register (`CommandsAreAtomic`) |
| `lookups` | 3 overlapping calls, 2 values, 1 row that comes and goes | `HealingFinds`; stale lists are got rid of at last (`HealsEventually`) |
| `tokens` | 2 tabs of which 1 renews, 2 tokens of four lifetimes and without one | `TimersMatchToken`, `TabsAgree`, `FreshTokensSurvive`, `TimersActInTime`; `ExpirationIsNoticed` |
| `requests` | a redirect whose page is loaded again, a silent renewal, 2 popups; any defect in any response | `OneTokenPerRequest`, `SavedIsSound`, `PendingPopupIsWatched`, `OnlyLatestRequestAccepted`; `FlowsSettle` |
| `requests_popups` | 3 popups | **violated**: `OnePendingPopup` (below) |
| `promises` | 3 promises, every use of the interface during a flush and between flushes | `EngineIsSound`; the engine implements the contract (`ContractIsKept`), its liveness included (`CallsEventually`) |
| `cryptography` | integers of 4-bit digits, messages up to 70 octets in any pieces, texts up to 3 octets, certificates, 2 signers and 2 tokens | `NumbersAgree` (with `PowersAgree`), `DigestIsOfMessage`, `TextsReadBackOctets`, `CertificatesAreRead`, `VerifiedIsSigned` |

Some names are conjunctions: `TableAgrees` of `TypeOK`, `NoEmptyEntry`,
`RemovalIsUnambiguous` and `TypedHandlersDispatchable`; `SubscribedIsRouted` of `TypeOK`,
`SubscribedIsBound` and `SubscribedHasQueue`; `LogIsTrue` of `PublishedWasSent`,
`PendingIsUntouched` and `InProgressHasOwner`; and so on. The definitions say so,
and each part has its own comment.

**The disagreement.** `openPopupForTokenAsync` refuses a second popup, "Already a pending
popup token request." (:8804). But a popup that the user closes while the metadata are
being loaded is cleaned up after (:8829) and its flow goes on; when it fails in its turn
(:8869, :8875) it calls `cleanup()` again, which deletes `_pendingPopup` (:8822) although
by now the flag belongs to a popup opened since. A third popup then opens beside the
second. `requests_popups` finds this; `requests`, with `PendingPopupIsWatched`, shows that
the flag never stays behind.

Some properties say exactly how much the code promises, where one would first
write more:

- `LastHandlerAnnounced` excludes `Clear`, which raises no event, and events with
  two types of one short name, where `SingleOrDefault` throws first.
- `SupervisedOnce` excludes a connection that `TryConnect` found lost right after
  making it: it stays in use without handlers until somebody calls `TryConnect`.
- `DisposedIsClosed` excludes a connection made by a `TryConnect` under way during
  `Dispose`, or called after it.
- No property says that a subscribed event has its rule at the Azure service. It need
  not: an Unsubscribe takes the rule that other handlers, or an event of the
  same label, still need; a dynamic subscription adds none; and any error of the service
  while a rule is added is taken for a rule that exists.
- At the Azure bus, too, `NoLossWhileSubscribed` speaks of the handlers under the name that
  the message's label leads back to. Handlers of a name without the suffix are never found.
- `SubscribedIsRouted` does not say that the messages are consumed: a consumer channel
  that could not be created again stays closed.
- `SentOncePerRetrieval` is the most two overlapping publishers get.
- `InProgressHasOwner` excludes rows whose publisher stopped: no query ever reads
  them again.
- `NoLossWhileSubscribed` speaks of handlers subscribed in this process since the
  publication. A process that restarts consumes before the host has subscribed, and
  settles what it is given then with nobody to handle it.
- `NoBlindWrite` is about the read of the handler. A caller's own reading, on a screen
  say, is not covered: the commands carry no version.
- `CommandsAreAtomic` lets a command that would change nothing end without another look at
  its customer, who may be changed or gone by then. It says nothing of what a caller is told.
- No property says which status an update leaves. By the map it is the first, so that
  an update after a status change undoes it.
- `HealingFinds` excludes a value that some list on its way to the cache did not have
  when the call began: that list may be stored between the `Remove` and the second
  look-up. `HealsEventually` says that this does not go on for ever.
- The timer properties of `TokenManager` speak of tokens whose expiration is known and
  within the reach of `setTimeout` (`InRange`), and `TimersMatchToken` and
  `ExpirationIsNoticed` of tokens not taken over in their last second (`late`). The
  model has the behaviours left out: a delay beyond 24.8 days is over at once, so that
  the expired timer removes a fresh token; an id_token alone whose `exp` claim was
  filtered has no expired timer, and is announced as expiring each time it is obtained,
  and so renewed again and again, like a token with a lifetime of at most 60 seconds; and
  in a token's last second, where :8505 looks for more than no second left, no timer is
  set. `ToldBeforeExpired` leaves out a token that has expired by the time
  `configureTokenExpiring` has run (`missed`): the page is told nothing of it, and the
  expired timer removes it. The timer without delay has that much time.
- `FreshTokensSurvive` and `TabsAgree` speak of tabs with no storage event on its way. A
  tab whose timer runs before its event does remove the token another tab has just
  renewed.
- A silent renewal that ends after the token was removed saves its token all the same.
  No property says otherwise.
- `FlowsSettle` counts no caller of a popup that the user leaves open: it waits with
  the user. Nor does a redirect, whose page is gone.
- `VerifiedIsSigned` speaks of JWS objects that have not parsed a token with its
  signature before. One that has keeps what it parsed, whatever it is given next; the
  client makes a new object for every token. `PowersAgree` leaves out the inverse of
  zero, for which `modInverse` does not end.

## 4. Bounds, fairness, assumptions

**Bounds** are constants, used in guards only.

- `MaxCalls`, `MaxFaults`: calls of the host, and faults of any kind. Two or three
  calls make a handler come, go and come back around a message; each hazard listed
  needs one or two faults.
- `Tasks` of the RabbitMQ bus has `1 + MaxCalls + 2 * MaxFaults` deliveries per
  message: a call costs a message one redelivery at most (it may end the process),
  a fault two (the lost channel requeues, then the task that finds its channel
  closed ends the process). The bound is never what stops a delivery.
- `MaxConnections`: attempts to connect fail once that many connections were made,
  as they do when the broker cannot be reached.
- `MaxConcurrent` and `MaxDeliveries` are settings of the Azure bus and service, ten
  each by default; with two, deliveries overlap and run out.
- One message is enough where properties speak of one message and messages interact
  through the table only; it overlaps with itself when it is redelivered.
- `CustomerCommands` has three requests: one to read, one to commit in between, and one
  to change what the second leaves (a note, a status). Each is sent once; two customers
  and two references let requests meet at one customer or in one reference, and swap
  references. Versions are unbounded, and bounded in fact by the requests. Symmetric: requests, customers,
  references (`NoBlindWrite` quantifies over all of them).
- `LookupCache` has three calls: one that removes, one with an old list on its way, and
  one that asks. `MaxKey = 1` row of either of two values, inserted and deleted once; a
  row that comes back has a new key and is a new case of the same. Calls repeat without
  a bound.
- `TokenManager`: `Lead = 1` for 60 seconds, and lifetimes below (0), at (1), above it
  (2) and beyond `MaxTime` (8), where `TimerSpan = 14` lets the longest overflow when it
  is counted with the second past it. `MaxTime = 3`: the longest that ends (2) can be
  obtained and expire, and the one with the expiring timer at once (1) be renewed and
  expire. Two tabs, since a tab reacts to the store alone; two
  tokens, one that is replaced and one that replaces it.
- `TokenRequests`: one flow of each kind and a second popup, as they meet in the request
  state and in the flag only. `Tries = 1` for ten; one replay of the callback page. The
  run that finds `OnePendingPopup` violated needs three popups and nothing else.
- `Promises`: three promises are a parent with two children, a chain of two, or an
  `all` or `race` of two; one call of each promise's resolving functions that should
  have no effect after one that has. `all` and `race` take two promises at most; the loop
  over them is written out (`ForEach`), also for the proofs.
- `BigInteger`: a digit has 4 bits instead of 28, so that all carries, two digits and all
  signs occur below `Bound = 300`, and arguments and results have up to five digits
  (`Operands`, products). `FP`, `HB`, `ByteBits`, `IntBits` are 7, 3, 3, 6 where the code
  has 52, 15, 8, 32: same relations to the digit (`WidthAssumption`). `Windows` is
  <<2, 5, 150, 200>> for <<18, 48, 144, 768>>: exponents of this size use the three
  smaller windows. `MaxExponent = 255` for the 2^32 - 1 beyond which `exp` returns 1.
  Everything is deterministic, so `Operands`, `Moduli`, `Exponents`,
  `Radices` and `Bases` bound the arguments only.
- `Digests`: blocks of 4 and 8 words with 2 and 4 for the length, for 16 and 32 with 2 and
  4; 70 octets are four blocks of the smaller. `HalfBits = 4` for the 32 of an `X64Word`.
- `IdTokens`: RSA keys of 48 and 53 bits, a one-octet hash with a one-octet head, and at
  least one octet of padding (`MinPadding = 8` digits; 22 in the code). A key has a whole
  number of octets. `Fillings` makes lengths in certificates that take one, two and
  three octets.

**Fairness.**

- Tasks and publishers run on once started, handlers return or throw (`WF` on
  `TaskStep`, `LoopStep`): nothing in the code waits without an end.
- A dead process is restarted (`WF` on `Restart`, `Start`), by the container's host.
- A lost RabbitMQ connection of the consumer recovers (`LinkRecovered`): automatic
  recovery is the client library's default. `PersistentConnection` does not assume
  it; there it may.
- An Azure lock expires when its task no longer runs (`~Active(d) /\ LockExpires(d)`).
- In `PersistentConnection` every thread runs on, and the lock goes to some waiting
  thread; with finitely many calls and losses that is weak fairness of each.
- A call of `Resolve` that has begun runs to its end (`WF` on `Step(c)`); the table, the
  cache's timeout and new calls are not fair. `CustomerCommands` has no liveness
  property and no fairness.
- `TokenManager`: the clock runs, and a browser runs the timers that are due in an open
  page, in the end. Storage
  events and renewals are not fair.
- `TokenRequests`: some XMLHttpRequest ends or some timer fires as long as there is one.
  Neither the provider nor the user has to answer.
- `Promises`: the browser runs the scheduled flush and callbacks return. Thenables and
  resolvers of the page are not fair.
- Not fair: calls of the host, publications, faults, and `Retrieve`, since nothing
  in the repository calls `PublishEventsThroughEventBusAsync`.
- `RabbitMQBus!RoutedIsSettled` assumes that the bus keeps consuming from some time
  on: after the last Unsubscribe the consumer channel is closed for good, and one that
  could not be created again stays closed until the process is restarted.

**Assumptions about what is not in the repository.** RabbitMQ: a direct exchange, a
durable queue, manual acknowledgement, requeueing on loss; RabbitMQ.Client 5.1:
topology recovery, a shutdown handler added late is called at once, an exception of a
shutdown handler goes to `CallbackException`. Azure Service Bus: peek-lock, delivery
count, dead letters. Entity Framework: a tracked entity is not re-read, `Update`
writes every column, no concurrency token on the log. .NET: the version check of list
enumerators, `async void`. SQL Server and Entity Framework for the customer service: a
commit is one transaction, an UPDATE or DELETE names the row version that was read, and
an entity that is as it was read need not be written. `core.yml` configures an in-memory
context; the commands are modelled over the database that `fructose.sql` defines. A
commit may always fail, with any error of the database. `ICache` (an external package):
`GetOrAdd` runs its loader outside any lock and keeps the list it loaded or one stored
meanwhile; an implementation with a lock does less. The browser: tasks run one at a time, timers
of a page in the order they are due; a write to `localStorage` that changes it is an
event for every other tab of the origin; `setTimeout` keeps 32 bits of its delay;
asap's scheduler (mutation observer, message channel or timeout) runs the flush later,
once. Each is an `external` entry of the map, or a comment of the
module.

**Assumptions about use.** The host subscribes, unsubscribes and disposes from one
thread (as `Startup.ConfigureEventBus` does): the manager has no lock, and two
writers of a `Dictionary` have no defined outcome. It makes no call after Dispose.
Each publisher of the event log has its own `DbContext`. A page has one token manager,
with `persist` and `localStorage`, and the callbacks that it registers with the manager
do not throw. A commit that fails has not
happened: the case of a commit whose answer is lost is left out.

## 5. Proofs

TLAPS proves these for every value of the constants. A proof module states an
inductive invariant of the component (`Inv`, `IInv`, `EngineInvariant`), shows that it
holds initially and that every action keeps it, one lemma per action, and derives the
properties. Types and inductive invariants are theorems of their own; every property
that the table names otherwise is one that a run checks as well, or a conjunct of one.

| Theorem | Property |
|---|---|
| `SubscriptionsManager_proofs!TypeCorrect` | `TypeOK` |
| `...!NoEmptyEntries` | `NoEmptyEntry` |
| `...!RemovalUnambiguous` | `RemovalIsUnambiguous` |
| `...!TypedDispatch` | `TypedHandlersDispatchable` |
| `...!TableAlwaysAgrees` | `TableAgrees`, the four together |
| `...!TableImplementsRegistry` | `ImplementsRegistry`, a refinement |
| `...!LastHandlersAreAnnounced` | `LastHandlerAnnounced`, an action property |
| `RabbitMQBus_proofs!BusInvariant` | the inductive invariant |
| `...!SubscribersAreRouted` | `SubscribedIsRouted` (`TypeOK`, `SubscribedIsBound`, `SubscribedHasQueue`) |
| `...!MessagesAreKept` | `AtLeastOnce` (`Custody`, `AckedOnlyWhenHandled`, `NoLossWhileSubscribed`) |
| `...!CallsImplementTheRegistry` | `CallsImplementRegistry`, a refinement |
| `AzureBus_proofs!BusInvariant` | the inductive invariant |
| `...!MessagesAreKept` | `AtLeastOnce` |
| `EventLog_proofs!LogTypeCorrect` | `TypeOK` |
| `...!PublishedIsTrue` | `PublishedWasSent` |
| `...!PendingIsTrue` | `PendingIsUntouched` |
| `...!InProgressIsOwned` | `InProgressHasOwner` |
| `...!LogTellsTheTruth` | `LogIsTrue`, the three together |
| `...!AttemptsAreCounted` | `SentOncePerRetrieval` |
| `PersistentConnection_proofs!ConnectionTypeCorrect` | `TypeOK` |
| `...!ConnectionIsSupervised` | `SupervisedOnce` |
| `...!RefusalHasCause` | `RefusedForCause` |
| `...!DisposeCloses` | `DisposedIsClosed` |
| `CustomerService_proofs!CustomersTypeCorrect` | `TypeOK` |
| `...!CommitsAreNotBlind` | `NoBlindWrite`, an action property |
| `...!CommandsImplementRegister` | `CommandsAreAtomic`, a refinement |
| `...!LookupTypeCorrect` | `LookupTypeOK` |
| `...!SecondLookHeals` | `HealingFinds` |
| `TokenManager_proofs!ManagerTypeCorrect` | `TypeOK` |
| `...!TimersAreOfToken` | `TimersMatchToken` |
| `...!TabsAlwaysAgree` | `TabsAgree` |
| `...!FreshTokensAreKept` | `FreshTokensSurvive`, an action property |
| `...!TimersAreInTime` | `TimersActInTime`, two action properties |
| `TokenClient_proofs!RequestsTypeCorrect` | `TypeOK` |
| `...!TokensAreSingle` | `OneTokenPerRequest` |
| `...!SavedTokensAreSound` | `SavedIsSound` |
| `...!PendingIsWatched` | `PendingPopupIsWatched` |
| `...!LatestIsAccepted` | `OnlyLatestRequestAccepted`, an action property |
| `...!EngineInvariantHolds` | the inductive invariant |
| `...!NothingIsLeftBehind` | `EngineIsSound` |
| `...!PromisesKeepTheirContract` | `ContractIsKept`, a refinement |

- *SubscriptionsManager.* The four properties are inductive together: that removal is
  unambiguous is what makes a list lose one entry at a time, and so never be left empty
  or without the type of a typed entry. For the refinement a list is seen as the set of
  its handler types: `Append` adds one, and `RemoveAt` drops one *since the types on a
  list are distinct* (`AppendAddsType`, `RemoveAtDropsType`); a call changes one list at
  most. `LastHandlerAnnounced` follows from which keys a call can drop. Assumed:
  `NameOfAssumption`.
- *RabbitMQBus.* `IInv` has six parts. `TableSound`: a call between its writes may leave
  an empty list, but no handler twice. `CallSound`: what a call has made sure of by its
  next write, such as that the event is bound before `AddKey` and `AppendHandler`, and
  that its key is gone before `Unbind`; no other activity writes what it relies on, and
  a fault that ends the process ends the call. `BusSound`: the keys of the table are
  bound, and a bus that has let go of its queue has no key. `TaskSound`:
  what a task has handled is what its `foreach` has passed (`Past`), and what is covered
  is on the list that it got; it was when `Get` looked, and stays there, since
  handlers subscribed after a publication are never covered by it, and those withdrawn no
  longer are. `Kept`: a routed message is
  in exactly one of three places, and two deliveries never hold it at once.
  `CoveredSound`: who is covered is subscribed, and has handled a settled message. The
  actions fall into classes that lose a channel, write the table, end the process, or
  move one task, each with a lemma that frames the rest (`ChannelGoneSpares`, `WriteKeeps`,
  `ProcessDiesKeeps`, `OneTask`). The facts about lists are those of
  `SubscriptionsManager_proofs`, by INSTANCE. In the refinement only `AppendHandler`,
  `RemoveHandler`, `ClearTable` and the end of the process are seen. Assumed: the four
  assumptions of the module; the bounds may be any natural numbers.
- *AzureBus.* `TaskSound` is
  that of the RabbitMQ bus, with a lock per delivery and the table looked up under the name
  the label leads back to (`Heard`): a callback whose lock is lost runs
  on beside the next delivery of its message. What keeps the two apart is `OneLock`: one
  delivery of a message at most has its lock, and only with it is the message completed,
  so the delivery that completes it has itself passed every handler covered
  (`CoveredSound`). `OneTask` frames the steps of one delivery, and says how the lock may
  move. The facts about lists are again those of `SubscriptionsManager_proofs`. Assumed:
  the assumptions of the module, of which `LabelsAssumption` says no more than that labels
  and names lead to each other, so that any names may share a label and any of them be the
  one it leads back to; the number of concurrent deliveries and the delivery count may be
  any natural numbers.
- *EventLog.* `RowsAreCommitted`: the events with a row are those of the committed
  transactions, and only these are sent. `InHand`: publishers work
  on committed events. `Progress`: an event past its mark is no longer NotPublished, and
  one past `Publish` was sent; it holds since a tracked entity only moves away from
  NotPublished. With these the three properties of the rows and `InProgressHasOwner`
  are inductive. `SentOncePerRetrieval` compares counters that several publishers
  increase. `RetrievalsCover` pays for it: what was sent plus the number of publishers
  that still hold the event (`HeldBy`, on their list or about to be sent) is no more
  than what was retrieved. A retrieval raises both sides; a send moves one unit from
  the second summand to the first, as the event is off the list of its publisher by then
  (`OffTheList`); whatever drops an event lowers the left side. The
  set `HeldBy` stays finite without any bound on the publishers, since every holder
  retrieved the event. `TimesAreMarks` does the same for `TimesSent`. Assumed:
  `EventsAssumption`, `FaultsAssumption`.
- *PersistentConnection.* `Mutex`: whoever is inside `TryConnect` holds the lock.
  `Supervision`: between `Connect` and the registration the connection in use has no
  handler and its maker is inside; at all other times it has one or was found lost.
  `HasCause`: a caller past its check has a working connection, or the object is
  disposed, or the loss of the connection is remembered in its `hit`. Assumed:
  `BoundsAssumption`, and that callers are not numbers (`CallersAssumption`), which
  keeps callers and connections, both threads, apart.
- *CustomerCommands.* `ReadIsPast`: what a request has read is its customer as it is or
  in an earlier version, unless the customer is gone; so equal versions mean equal rows,
  and a commit that passes the version check replaces what was read. It needs
  `RowsAreUsed` (a key is not given twice) and that every write goes past the present
  version (`Advances`, of each commit). `RowReady`: what a request is about to write is made
  of what it has read as the command says. With both a commit that passes the version check
  does to the customer what the register's step does, and one that writes nothing is that
  of a request that was `Needless` from its query on. Assumed: `FirstStatusAssumption`, and
  that NULL is not a reference (`ReferencesAssumption`).
- *LookupCache.* `Findable`: the value of a certain call is in the table and in every list
  on its way. `Healed`: so once the call has removed the entry, whatever takes its place
  has the value, and the second look finds it. Assumed: `MaxKeyAssumption`.
- *TokenManager.* `TimersSound`: a timer that is set is set for the token the page holds,
  and that of a token that was late is not set. It is inductive only together with
  `StartSound`: until `configureTokenExpiring` is registered no expiring timer is set, and
  the token had not expired when the timer that registers it was set. `Agrees`: a tab without events
  on its way holds what is stored. `FreshTokensSurvive` needs both: the timer that is
  due belongs to the tab's token, and the stored one is that token. `Lent`, that no
  token is changed by `Token(other)` again, is what makes what is read back from the
  store equal to what was written. Assumed: `LifetimesAssumption` (lifetimes are natural
  numbers), `LeadAssumption` (times and the range of `setTimeout`), `SentinelAssumption`
  (what is undefined or off is not a number) and `NoneAssumption`: null is not an object.
- *TokenRequests.* A flow goes through stages (`Asking`, `Checking`, the end), and `Sound`
  says what it has by then: no saves before the end, no defect of a kind whose check it
  has passed, no watch on a window that is gone. What flows share is `StoredIsLatest`: the
  request in the store was made last, and its flow is still unanswered, or gave up. So a
  response that finds its request in the store answers the last one, and the page of a
  redirect that is loaded again finds none. `PendingPopupIsWatched` is inductive on top of
  these. Assumed: `FlowsAssumption`, `BoundsAssumption`.
- *Promises.* A call of the API passes the engine through a dozen functions that call one
  another. What they have in common is `Grows`: a promise that is settled stays as it is,
  subscribers and entries of the queue are only added, none of those added is a child,
  and who is settled with subscribers is put into the queue. It is transitive, so each
  function has one lemma. `EngineInvariant` is then about places. A child whose callback
  was not called stands with its parent's subscribers or in an `invoke` entry of the
  queue, at a place the flush has not passed (`Awaits`), and conversely one that stands
  there was not called (`CallsKnown`): so a callback is called once. Children stand in the
  order of their creation, among the subscribers and in the queue (`SubscribedInOrder`,
  `InvokedInOrder`), and an `invoke` entry comes after the entry that publishes the
  subscribers before it (`NoneOvertakes`): so callbacks are called in order, also when
  then() is called on a settled promise while its subscribers are still being called.
  `QueueSound` says that
  no entry is stranded, `FrameSound` that the callback that runs is of the entry at the
  index. In the refinement a step of the API moves `state` and `parent`, a turn of a loop
  `called`. Assumed: `PromisesAssumption`, that the bounds are natural numbers.

Model-checked only:

- Liveness: `ConnectionRecovers`, `RoutedIsSettled`, `RetrievedIsSettled`,
  `HealsEventually`, `ExpirationIsNoticed`, `FlowsSettle`, `CallsEventually`. No prover here
  handles fairness or ENABLED.
- Cryptography. What is recursive (the loops of jsbn, DER, base64) is out of the
  prover's reach, since it takes induction over data. It is checked over bounded inputs
  against a reference definition: the integers, the padded message, the octets that were
  encoded.

## 6. Plan

Done: manager, RabbitMQ bus, event log, connection, Azure bus, customer commands, lookup
cache, token manager, token requests, promises, cryptography; theorems of all of them but
the cryptography.

Possible extensions:

1. `EventDelivery`, an abstract at-least-once delivery (published, handled by some,
   settled), which both buses implement.
2. Composition of the outbox with a bus: an event of a committed change, once
   published, reaches its handlers; and of a bus with the enrolment, whose second
   delivery the database refuses and the bus settles or repeats.

## 7. Not modelled

- Start-up, dependency injection, configuration (`Startup`, `Program`): executed once,
  in one order. `WebHostExtensions.MigrateDbContext` and `UseFailing` have no caller.
- Controllers, filters, middleware: stateless, but for two switches used by tests.
- `CustomerSearch.API`: a template. `enable-token-client.js`: one handler that opens the
  popup.
- `DefaultAzureServiceBusPersisterConnection`: it replaces a closed topic client; a
  publication that fails is the publisher's error on either bus.
- `GetCustomerByID`, which changes nothing; the person, type and organization of a
  customer; tables other than Customer and CustomerStatus, but for the fact that a row
  of theirs refers to a customer. `GetAllCustomerTypes` has no reader.
- Payloads, JSON, logging, retry delays. A `Publish` of the RabbitMQ bus either
  reaches the exchange or throws after its retries.
- `AddAndSaveEventAsync` passes no transaction to a method that requires one, and
  throws before it changes anything.
- In `JS`: the compression functions of the hashes (a hash value is what they were
  given; the sums SHA-512 makes of 64-bit words are modelled); am1 and am2, the
  multiplications for other browsers; and what calls code the file does not contain
  (SecureRandom, KEYUTIL, HMAC, ECDSA, DSA). Stores other than `localStorage`. `createLogoutRequestAsync`, which keeps no state.
  The counter with which `parseOidcResult` stops at 50 parameters.
- What `JS` reads at a position that is not there, as DER that is not well-formed makes
  `ASN1HEX` do.
