# A TLA+ verification project for the EqSiteCMS backend

The repository is the backend of a CMS for equestrian clubs: a FastAPI
application on PostgreSQL, an S3 bucket and NATS JetStream, run by several
uvicorn workers and serving several clubs (tenants, `equestrian_id`). This
directory holds TLA+ models of its parts, TLC runs over small instances and
theorems checked by TLAPS. Paths below are relative to `src/`, the Python
package lies in `src/src/`.

The failures worth modelling here come from three facts:

* **One transaction per request, READ COMMITTED.** `get_session`
  (`src/depends/utils.py:23`) opens a session, runs the handler, commits after it
  has returned and rolls back when it raised. A statement sees what was committed
  when it started, plus its own transaction's writes. The services read, decide
  in Python and write; nothing they read is locked.
* **Whole-row writes.** `TenantScopedRepository.update`
  (`src/repositories/abstract_repository.py:141`) writes every column of the entity
  that was read at the start of the request, and looks at no row count.
* **Stores without a common transaction.** Objects in S3 and events in NATS are
  written while the transaction is open, or after a commit of their own, and are
  compensated by hand.

## 1. Inventory

| Component | State | Operations | Interacts with | What is hard | What makes it correct |
|---|---|---|---|---|---|
| Photos (`core/services/photos.py`, `repositories/photo_repository.py`, `utils/media.py`) | rows of `photos`, objects of the bucket | create, update, delete, batch delete | S3; names unique per tenant | two stores; partial failure; lost S3 answers; compensations that fail too; candidate names tried without a lock; stale whole-row write | rows and objects in step when no request is running; no object is shared; nobody harms another photo; requests end |
| Prices and groups (`core/services/prices.py`, `repositories/price_repository.py`) | `prices`, `price_groups`, `price_groups_relations(display_order)` | create, update, delete a price, reorder a group, delete a group | cascades; partial unique index on (group, order) | MAX + 1 in two statements; delete and insert of links; renumbering under a unique index in two phases; gaps | one link per price and group, orders distinct, dense where promised, others keep their order |
| Horses and pedigree (`core/services/horse.py`, `repositories/horse_repository.py`) | `horse`, `horse_children` | create, update, delete, set pedigree, list candidates | photos, prices of services, owners | role of a parent follows from its current sex; validation against what other requests change; no constraint in the table | parents older than children, dam alive, one sire and one dam, the request gets what it asked |
| Photo attachment (`horse_photos`, `price_photos`, `news_photos`) | link rows with `is_main` | replace the list, choose the main photo | photos | a list read once and written back after every file; lists replaced without a lock; errors of a file are caught in an aborted transaction; no constraint on the main photo | at most one main photo; the list is as asked; what a request linked is there when it commits |
| Users and authentication (`core/services/users.py`, `user_management.py`, `auth.py`) | `users`, scopes, tokens | login, refresh, profile, create, edit, block, soft delete | tenant context | targeted updates next to whole-row updates; role checks on stale reads | no administrative request undoes a deletion; scopes as requested; a superuser remains |
| Callback requests and events (`core/services/callback_request.py`, `clients/nats/publisher.py`) | `callback_requests`, the stream | create (commit, then publish), status, spam | NATS | failed publish after commit; client retry; new message id for each publish; status and spam by different requests | stored, then announced, then answered; spam implies status 2; no committed change undone |
| NATS connection errors (`clients/nats/lifecycle.py`) | count of failures in a row, incident flag | error, disconnect, reconnect, closed callbacks | logging | the library calls back in its own order; a first connect has no reconnect callback | one report for an outage |
| Startup (`main.py`, `utils/seeding/init_registry.py`, `migration/env.py`, seeders) | schema version, seed rows | migrate, seed, connect, serve; attempts | every worker runs it | repetition after a partial failure, several workers | what serves is complete; workers do not make each other give up |
| News (`core/services/news.py`, `core/utils/news_slug.py`) | `news` | create, update, soft delete, the clock | photos | soft delete against whole-row update, three definitions of status | an item appears and disappears on purpose |
| Catalogue names and slugs (breeds, groups, coat colours, owners, services, horses, prices, price groups, settings) | one table each | create, update, delete | each other | look-up, then insert; suffix within a length limit; ten slightly different services | names differ, keys are not violated |
| Services of a horse (`horse_service_relations.py`) | relation rows | attach, change, detach | horses, prices | look-up, then insert without constraint | one relation per service |
| Site settings (`site_settings.py`) | key, type, value | create, update, delete | | value checked against the type read | value fits its type |
| Lists (`repositories/*`: fifteen `get_filtered`/`get_public`) | none | filter, order, limit, offset, count | every table | order without a tie-break; filters joined by OR | pages partition the list |
| Routes, CORS, contexts (`api/`, `core/middleware/cors.py`, `depends/services.py`) | none | preflight, dispatch, dependencies | browsers, sites, services | three descriptions of one route table: the routes, the CORS prefixes, the inventory | they agree; who may call a route can |
| Proxies (`core/services/*_proxy.py`, `clients/`) | none; the peer's | one or several HTTP calls | e-mail, VK, notification, SEO, Yandex services | lost replies; pages of a list that moves | the status is true of the peer |
| Tables and migrations (`models/`, `migration/versions/`) | schema and rows | 21 revisions up and down | every repository | new constraints over old data; downgrades | the head is what the models declare; legal data migrates |
| Settings, security helpers, metrics, maintenance scripts | none | | | | not modelled |

What may go wrong in this code, line by line, is the list of hazards in
`PROJECT.json`; those without a property say why no property covers them, and a few
with one say what the property leaves out.

## 2. Plan

The order followed what unit tests with one session and a fake repository do not
reach. First the components with several transactions or stores: `PhotoStore`,
`PriceOrder`, `Pedigree`, `CallbackRequests` with its abstract specification
`CallbackPromise`, `UserRecords`, `PhotoAttach`. Then `Startup`, the parts around the
catalogue (`Catalogue`, `SiteSettings`, `News`, `Listing`), the schema (`Models`,
`Migrations`), the way of a request (`Routes`, `Inventory`, `Gateway`), and the
outside (`Proxies`, `Broker`).

Left: the deletion of the owner of a photo list in `PhotoAttach`; changes of the rows
between two pages in `Listing`; the timeout of a startup attempt.

Theorems: every safety property of the passing runs is proved, except two about
the fixed tables of routes (section 6). What would be next are the requests the first
paragraph leaves out.

## 3. Modules

Every model has *sessions*: a session is one HTTP request at a time together with
its database transaction. What the transaction has written and not committed is
kept apart (`pend`, or `added`, `removed` and `mark`) and becomes part of the
committed tables in `Commit`. A statement that would write a row, a unique key or
a referenced row that another open transaction has written is not enabled
until that transaction has ended, which is what PostgreSQL does; when that
order can matter for *what* the statement then finds, the action `Wait`
records the rows it had found before. Rows outside the tenant are never touched
(every statement carries `equestrian_id`), so a model is one tenant. Permission
checks, DTOs, texts, descriptions and logging are left out.

Definitions named `Bug...` are variants of the definition after them, with a
plausible mistake. No specification uses them; `PROJECT.json` pairs each with the
property that notices the mistake.

### PhotoStore

`rows` is the committed table `photos` (name and path), `objects` the keys in the
bucket, `born` and `issued` the uuids already used. `pc[s]` is the next external
call of the handler: the await points of the coroutine are the
interleaving points.

| Action | Code (`core/services/photos.py`) |
|---|---|
| `CreatePhoto`, `UpdatePhoto`, `DeletePhoto`, `BatchDelete` | entry of the handler up to its first write: 109, 142, 230, 280 |
| `SaveFile` | `media_storage.save`, before the `try` |
| `WriteRow`, `NameConflict`, `WriteFails` | the INSERT or UPDATE with the loop over candidate names (56-93) and its savepoint |
| `PurgeOld`, `RevertRow`, `CleanUp` | deletion of the replaced file, the second UPDATE when it fails, `_safe_delete_file` |
| `ReadNext`, `LoadFile`, `UnlinkFile`, `DropRows`, `RestoreFile` | the loops of batch delete and its compensation |
| `Commit`, `Rollback`, `Crash` | `get_session`; a dead worker or a cancelled request runs no `except` branch |

`Candidates[b]` stands for the names `photo_names.py` makes of a requested name;
their computation is not modelled, that two requested names can lead to the same
candidate is. `delete` is the same sequence of calls as a batch of one.

`mild` is chosen once, in `Init`. In a *mild* environment requests for one photo are
kept apart and only S3 calls and statements fail; otherwise `Overlap` and `Faults`
allow what they say. The properties named `Mild...` are about the first, the others
about both.

### PriceOrder

`links[r]` is the `display_order` of relation row `r` (`Null` is 0, orders start
at 1), `prices` and `groups` are the ids in their tables. A request goes through
the statements of `PriceRepository` one by one: `TouchPrice` (UPDATE of the price
row, only if the request has other fields), `ReadOldGroups`, `DropLinks` (DELETE),
`ReadMax` and `InsertLink` for each group, then for each group the price left
`Renumber`, `NullOrders` (phase 1: all orders NULL) and `PutOrder` (phase 2, row by
row). `Reorder` is `reorder_prices_in_group` up to its first statement; `Moved` is
the body of its loop. `OrderMaps` is the `order_map` that a
listing of a group becomes: one entry per price, although a price may be listed twice. `ErasePrice` and `EraseGroup` are the DELETEs with their
cascades. `Listings` yields every order an `ORDER BY display_order NULLS LAST`
permits.

### Pedigree

`horses` is the committed table `horse` reduced to sex, birth and death (0 is
unknown), `links` the table `horse_children` as rows (parent, child, copy): the table
has no unique constraint. `SetPedigree` is the validation of `set_horse_pedigree`
against the committed state; the statements of `clear_pedigree` and `set_pedigree`
are put on `plan[s]` by `Statements` and executed by `ClearLinks` and `PutLinks`. `SetRequest`
is the request's schema.
`UpdateHorse` and `WriteHorse` write the whole row. `Accepted` is the validation,
`OfferedSires`, `OfferedDams`, `OfferedFoals` are the lists of
`get_available_pedigree`. When a horse has several parents of one role the code
shows the one its query returns last, which is any of them (`Shown`). A request
reads twice before it writes (`get_by_ids`, then the pedigree); the model takes
both from one state.

### CallbackRequests and CallbackPromise

`rows` is the committed table, `stream` the set of events JetStream has stored,
`answered` the forms whose visitor has read 201. `Submit`, `Store`, `Publish` or
`PublishFails`, and `Answer` are `create` (`core/services/callback_request.py:72`):
the row has a commit of its own before the publish, so a failure leaves it.
`PublishFails` covers a client that is not connected, an error and a lost `PubAck`;
in the last case the event is in the stream although the visitor reads an error.
A visitor sends the same form again after an error, or twice at once, and each
POST makes a row of its own. `AskStatus`, `AskSpam` and `AskDelivery` go to `Update`,
one UPDATE with RETURNING: it waits for the row and is evaluated on its newest
version, the `CASE` on `is_spam` included. `After` gives the three row versions.

`CallbackPromise` is what a visitor is promised: a form is kept, then told to
the notification service, then answered, and none of it is taken back. The
refinement maps `kept` to the forms with a row, `told` to the forms an event
announces *whose row exists*, `done` to `answered`.

### UserRecords

`rows` is the table `users` (username and the two flags), `scopes` the relation to
SUPERUSER and USER_MANAGER, as a set for each user. `ent[s]` is the entity a
handler works on, `pend`, `cut` and `grant` what its transaction has written,
deleted and inserted.

| Action | Code |
|---|---|
| `AskCreate`, `AskUpdate`, `AskMark` | `UserManagementService`, entry of the handler with the guard `require_user_management`, the rules on the target and the look-up of the username |
| `AskProfile`, `OverwriteUser` | `UserService.update_my_profile`, `change_my_password`: read by id, UPDATE of the whole row |
| `InsertUser`, `UpdateUser`, `SetScopes` | `create_user`, `update_user` (filter on `is_deleted`, rowcount), `_set_user_scopes` |
| `MarkUser` | soft delete, block, unblock, password: one column, same filter |
| `NotFound`, `Commit`, `Abort` | rowcount 0; `get_session`; an aborted request also stands for a username the unique index refuses |

The actor, the target and their scopes are read in several statements; the model
takes them from one state. Personal names and the password hash are left
out; requests that set only these still write the row. A deleted account is still
an actor, because the code looks at `is_blocked` alone and reads the account by its
token's username. The first user is put into the database by hand, since
registration is disabled.

### PhotoAttach

`links` are the committed link rows of one owner: every photo has a few possible rows
(`Copies`), because the table has no key and two requests can link one photo twice;
a row is absent, plain or the main photo. `pend` is what each open transaction has written
to them, `fresh` the photos it has inserted, `broken` the transactions a statement of
which has failed, `waiting` and `found` the statements that wait for a row another has
written and the rows they found when they started. `owner` is a horse or another item,
because a horse's main photo is marked by the INSERT and that of a price or a news item
by two later UPDATEs. `serial`, chosen in `Init`, keeps the requests for the list apart;
nothing in the code does, so it is only a condition of the properties that need it.

| Action | Code |
|---|---|
| `SetPhotos` | `update_horse_photos`, `update_price_photos`, `update_photos` of news, with their checks |
| `UploadPhotos`, `CreateFile`, `CreateFails` | `upload_and_attach_photos`: the list is read, then file by file a photo is created (`PhotoStore` has the details) |
| `DropLinks`, `InsertLinks`, `ResetMain`, `ChooseMain`, `MarkMain` | the statements of `set_horse_photos`, `set_price_photos`, `set_news_photos`; `ChooseMain` is the SELECT, with the INSERT if it found nothing |
| `Wait` | a DELETE or UPDATE meets a row that another transaction has written; when that ends it goes on with the rows it found, and not with those inserted meanwhile |
| `StatementFails` | the `except` branch of the loop, or the exception of an update |
| `Commit`, `Abort` | `get_session`; the COMMIT of an aborted transaction is a rollback |
| `AddPhoto`, `RemovePhoto` | other requests; a deletion cascades to the links and waits for transactions that have written a link of the photo (`InUse`) |

The owner is not deleted. `photo.id` is told in the response as soon as the links are
inserted (`job.told`). Rows that one INSERT writes for one photo (an upload that has
read it twice writes it back twice) are found, changed and deleted together and
count as one.

### Startup

`version`, `registry` and `statuses` are what is committed; `ddl` is the worker whose
migration holds its locks; `worker[w]` has the stage (`pc`), the attempt, and what its
open transaction has read and written. `ReadVersion`, `RunRevisions` and
`CommitMigration` are `run_migrations` with `env.py` (all pending revisions in one
transaction, no advisory lock); `ReadScopes`, `InsertScopes`, `PutStatuses` and
`CommitSeeds` are the two seeders in one session; `Serve` is the rest of `lifespan`.
`Fail` is the `except` branch of the retry loops of `init_registry.py`: the last
attempt's exception ends the worker. `foreign` stands for a row that has the name or
id of the SEO scope and is not the seed, which the seeder refuses to touch;
`used` for a request that refers to a status the seeder deletes.

### Catalogue

One table, `rows` with name and slug, chosen by `table` in `Init`. `Created` and
`Updated` are what the service of that table makes of a request: the row it will
write, or `Refused`. `GenerateSlug` is the conversion of a name, `Suffixed` and
`Fitted` the two ways a free slug is looked for. `Ask` is the look-up part of a
request, `Write` the statement with the keys of the table, `Commit` the end.
`raced` tells whether another request has committed in between. A relation of a
horse to a service has the service in place of the name; the slug of a site
setting is its key.

### SiteSettings, News, Listing

* `SiteSettings`: type and value. `Valid(text, type)` is the set of normal forms a text has
  as a value of a type (none or one). Four of the eight types are modelled: float,
  date, time and datetime are parsed and written back like number.
* `News`: `Public`, `OfStatus` and `StatusRank` are the three places that decide what is
  published. `Changed` is the update: neither slug nor mark is among the columns it
  sets. `now` is the clock transactions see. `stale` tells whether the row a request has
  read was changed since.
* `Listing`: `List(joins, lastById)` says of each of the fifteen lists how it joins its
  filters and whether its order ends with the id. `Orders` are all the orders the
  database may return; `Read` is one page and one count.

### Models and Migrations

`Models` has one definition for each table of `src/models`: columns, nullable columns,
unique and other indexes, foreign keys. `Migrations` has one `Up_` and one `Down_` for
each revision: what it adds and drops, the columns it fills in rows that exist,
the duplicates it renames. `Remaining`, `Applicable`, `Carried` and `Lawful` are what
PostgreSQL does with an edit. `data` holds the facts about stored rows that a
revision can meet: a table has rows, a column has a NULL, two rows agree in a column
within a tenant, across tenants, or as photo names too long for a counter.
`Upgrade` goes one revision or to the head in one transaction, `Downgrade` one back,
`StoreRow`, `StoreNull`, `StoreEqual` store what the schema allows. The last section of the
module states what the revisions are by themselves: `VersionsFit` (each leads from the
schema of its version to that of the next, its downgrade back) and `FactsFit` (each single
fact passes it, or is one that has no way). Neither mentions a constant or a variable.

### Routes, Inventory, Gateway

`Routes` is the route table in the order of `main.py` and the routers, with what the
dependencies of each route ask of the caller. `Inventory` is `classify` of
`maintain/route_inventory.py`. `Gateway` takes a call from a page of the CMS, a page of a
site, or a microservice through `Ask` (the preflight a browser makes) and `Send`:
`Dispatch` finds the route, `Resolve` runs its dependency, `SendWithCors` decides who may
read the answer. Clients use every word for a parameter that some other route has
in its place (`Words`).

### Proxies

`request` is one call of an API of another service; `Refusals` is what the CMS refuses by
itself; `CheckPage` and `FindConnection` are the reads before the call
(`yandex_proxy.py`), where `Page` is what the peer lists after the accounts of the pages
before; `CallDone` is a call the peer carries out, whose reply may be lost
or unreadable; `CallFails` any other. `Status` turns replies into statuses, one
operator for each service. `Disturb` changes the peer's accounts meanwhile. A request
names a user (`ForUser`), brings a code (`ByCode`), names an account (`ForAccount`) or nothing.
Two routes of the e-mail proxy have no session (`Sessionless`): they confirm by a code, and send
a confirmation to the user the request names, without looking at who asks. `OwnTarget`
is about the others.

### Broker

`link` is the state of nats-py's connection, `_consecutive_failures` and `_escalated` are
those of `NatsErrorPolicy`. `noise` counts failures the policy has from before
the outage.

### Modules that compose

* `MCRecords` extends `CallbackRequests` and instantiates `PhotoAttach`, `Gateway`, `Proxies`;
  `MCCatalogue` extends `UserRecords` and instantiates `Catalogue` (twice), `SiteSettings`,
  `News`, `Listing`, `Migrations`, `Broker`. `which` is chosen in `MCInit`, and only the
  component it names takes steps. The components share no state, so the behaviours are
  those of the modules.
* `MCPrices` and `MCPedigrees` choose (`crowded`) between two instances of one module. The
  module they extend has the constants of the cfg, with two requests at once; `Serial` is
  an instance with its own requests, one by one, in which sex and dates change, or
  an update may leave the row of its price alone.
* `MCLiveness` chooses between `Startup` and two instances of `PhotoStore`: batches of two
  photos with requests for one photo kept apart, and requests for the same photo
  with batches of one. Together they would exceed what liveness checking affords.

## 4. Runs

Two requests at a time are enough for a conflict between transactions on one
resource; the third actor of the stories below (the committed state that
earlier requests left) is always there because requests repeat for ever.

| Run | Question | Bounds |
|---|---|---|
| `photo_safety` | Every failure (also a lost S3 answer, a failed commit, a crash) and requests on the same photo: `PathsDisjoint`, `NamesDisjoint`, `OnlyOwnObjectsRemoved`, `PublishedIsStored`. Do the compensations keep row and bucket in step when requests for one photo are kept apart and only an S3 call that did nothing or a statement fails: `MildStorageMatches`, `MildOnlyProvidedFields`. | 2 requests, at most one failure each, 2 photos, 3 files, 3 names for 2 requested names that share a candidate |
| `prices` | One request after the other: `SerialNumbering`, `OrderAsRequested`, `SerialDenseAfterLoss`. Two that write the price row: `NeverLinkedTwice`, `CrowdedGroupsAsRequested`. | 3 prices, 2 groups, orders up to 3, 1 change per reorder; 1 price, 2 groups when crowded |
| `pedigree` | One request after the other, clients choose from the offered lists, sex and dates change at any time: `OffersAccepted`, `SerialOneParent`, `SerialRolesAsRequested`. Two requests with any accepted pedigree, sex and dates fixed once a horse has relatives: `ParentsFit`. | 3 horses, 2 of the fields sire, dam, foals and 1 foal per request; 3 generations and 1 field when crowded |
| `records` | Callback requests: `SpamIsClosed`, `NoLostChange`, `KeepsPromise` (refinement). A photo list, changed by overlapping requests while photos come and go: `CommittedLands`; by requests one after the other: `SerialListAsAsked`. Routes: `NamesBeforeWords`, `BrowserMayCall`, `AsInventoried`. Proxies: `AnswerMatchesPeer`. | 2 requests; 2 ids and 2 forms; 2 photos, each linked twice at most, and a third one when requests come one after the other, 2 files per upload; every route, word and caller; 3 accounts, pages of 1, 1 disturbance |
| `catalogue` | User accounts: `ScopesAsRequested`, `DeletedIsFinal`, and `SuperuserRemains` when requests do not overlap. Names and slugs: `RacersOnlyFail`, `AllNamesDiffer` (usernames too). Settings: `ValueFitsType`. News: `VisibilityOnPurpose`. Lists: `PagesPartition`. Schema: `SchemaIsOfVersion`, `LegalDataMigrates`. NATS: `OutageReportedOnce`. | 2 users, 2 usernames, 2 requests; 3 rows, one request; 2 rows, two requests; slug column of 3 characters; 1 setting, 1 news item, clock to 2; 3 rows, 1 filter, pages of 1; 1 stored fact; 5 errors, 3 outages, report after 2 |
| `liveness` | Startup: `ServingIsReady`, `NobodyGivesUp`, `StartupEnds`. Photos: does every request end (`RequestsEnd`)? | 3 workers, 2 attempts, 1 fault; 2 requests, 2 photos, 2 files, 1 requested name with 2 candidates |
| `photo_stale_write`, `price_gap`, `price_refused`, `pedigree_redated`, `photo_main_lost`, `photo_reported` | violations, see findings | as small as shows them |

The bounds named in the constants cut only resources (`MaxOrder`, `MaxFoals`, `MaxFields`,
`Copies`, `Files`, ids); an action whose resource is used up is disabled and the
requests that need none go on. Photo ids and file names are never used again in
`PhotoStore`, so a run of it is a bounded number of creates and replacements,
enough for two photos to be created, one of them to be replaced or both deleted and
compensated. Two callback ids allow one retry of a form, or two forms; with two
users every rule about oneself, a superior and an equal has its case. Three photos let
an upload of two meet a list of one that is deleted. When requests overlap there are two
(`Crowd`), each with two rows: two requests with a list of their own, or two
that link the same photo. A request that would need a third row of one photo gets no further. Horses and prices are
created again with a fresh id as soon as nothing mentions the old one. A slug
column of three characters is shorter than a slug with a suffix and than one of the
names' slugs, so both cutting and overflow happen; three rows need the second
suffix. Three workers let one fail on what the second has done while the third
waits. One stored fact at a time is enough for the migrations because each
constraint is about one fact; the fact may be stored at any of the 22 versions
and carried in both directions. In `catalogue` and `liveness`, components really stop (a
page is answered, a closed connection is kept, a worker serves), so deadlock is not
checked there; it is in the other passing runs, where `Answered` names the requests of
`records` that are at their end. Symmetry is used over interchangeable ids in the
safety runs, never in the liveness run; `records` keeps the third photo apart and `catalogue`
permutes only requests and ids that no constant tells apart within a component.

**Fairness.** Only `liveness` assumes any. `SF_vars(Progress(s))` of `PhotoStore`: a handler
that can go on does. The event loop schedules every coroutine and PostgreSQL serves
the queue of a row lock, so a statement that is enabled again and again is
executed; weak fairness would let a request wait for ever for a row that others
keep taking. `WF_vars(Work(w))` of `Startup`: a worker that runs goes on; a wait for
another worker's locks ends when that commits, fails or dies, and no lock is taken
again and again. No request or worker has to start, nothing has to fail.

**What holds only in part.** `SerialNumbering` (every link has an order, and a renumbering
is not refused) is about requests one after the other, because both fail for
concurrent ones (finding `price_refused`). `NeverLinkedTwice` and `CrowdedGroupsAsRequested`
are about updates that write the row of their price (`Touches = {TRUE}`) and so hold its
lock while they replace its links. An update that only lists groups writes no
such row: with `Touches = {TRUE, FALSE}` TLC finds two of them that both delete the old
links, then both insert, and the price is in one group twice. Nothing in the
repository says it cannot be, so this is a hazard, not a finding. `MildStorageMatches` is checked without failed commits and crashes: the
object is deleted before the transaction commits, and nothing repairs a row
whose transaction then failed; and without lost S3 answers: an
upload outside the `try` block that took effect and raised stays in the bucket.
`SerialListAsAsked` (the list is as asked, with one main photo at most) is about requests
for a photo list one after the other. Two that overlap lock nothing that the other needs
when the list is empty: each deletes what it sees and inserts its own, so the list is the
union of both, with a main photo from each. An upload writes back the list it read
first, and takes away a photo that another request attached meanwhile. The model has all
of that, and no property denies it. What holds under any overlap is `CommittedLands`: what
a request itself linked is there when it commits, because its rows are locked until then.
The code excludes neither a second sire or dam (given by the list of foals of
another horse, without the offered lists) nor, with unknown dates, two horses that
are each other's parents; the model has both, and no property denies them.

`SuperuserRemains` is stated for requests that do not overlap (`overlap = FALSE`): two
superusers who block each other at the same time both succeed. `DeletedIsFinal` holds for
administrative requests only: the whole-row write of the own profile or password
really brings back a flag that was changed since the row was read; no doc or test
of the repository denies it, so it is an exception in the property and a
hazard, not a finding.

`AllNamesDiffer` leaves out the race of two requests for one name where the table has no
unique index (price groups, prices, services of a horse): both can store it.
`RacersOnlyFail` admits a server error for the loser of a race where the repository does
not translate the violation, and for a slug longer than its column where the
service does not cut it. `VisibilityOnPurpose` admits that a request which read a news item
before another changed it undoes that change, a deletion included: the whole row is
written. `PagesPartition` holds of the lists whose order ends with the id; the others may
repeat or omit rows that are equal in what they are sorted by. `OutageReportedOnce`
exempts outages the policy counts earlier failures towards: those of a slow
first connect are not reset when it succeeds. `AsInventoried` leaves out two routes
(`Misclassified`): logout needs no session and answers 204, and the list of services
available to a horse needs a session; the inventory says otherwise of both.
`NobodyGivesUp` is about workers alone: a fault, a foreign SEO row or a status in use
does end a worker.

## 5. Findings

* `photo_stale_write` (`photos.py:201`): an update without a file that has read the
  photo before another request replaced its file writes the old path back;
  the object behind it has been deleted. A test says "updates only provided fields".
* `price_gap` (`price_repository.py:279`): an update gives a price that stays in its
  group MAX + 1 and leaves a gap; a later reorder keeps it, although a test says the
  orders are 1..N after any reorder.
* `price_refused` (`price_repository.py:410`): phase 1 resets the rows it had found
  when it started. A row inserted and committed while it waited keeps its order,
  and phase 2 meets the unique index its comment says it avoids.
* `pedigree_redated` (`horse.py:497`): an update of sex or dates does not look at the
  pedigree, so the rules enforced by `set_horse_pedigree` do not last.
* `photo_main_lost` (`news.py:345`, also `horse.py:960`, `prices.py:762`): an upload
  writes the list back with `main_photo_id=None`, which the comment explains as "we do
  not change main"; all links are inserted again with `is_main` false.
* `photo_reported` (`news.py:361`, also `horse.py:976`, `prices.py:778`): the uploads
  promise that "the successful files are committed" (`news.py:283`). A statement that
  fails aborts the transaction all files share; the error is caught, the COMMIT is a
  rollback, and the response lists files of which nothing is stored.

Not runs, but met on the way: two rows of the generated route inventory (see
`Misclassified` above); `test_photo_service_s3_rollback.py:266` describes a
delete as "DB record deleted first, then S3", the code deletes the object first;
the error text of `set_horse_pedigree` (`horse.py:734`) warns of links
left half cleared, which the rollback of `get_session` excludes. `set_horse_photos` calls
itself a full replacement of the links (`horse_repository.py:958`); two that overlap on
an empty list leave the photos of both. The condition on the tenant is one more
alternative of the filters of photos (`photo_repository.py:117`, `Matches` of `Listing`), so a
filtered list of photos has every photo of the tenant, and the photos of other tenants
that fit, where the API describes a filter by name (`api/photos.py:63`).

## 6. Proofs

Checked by TLAPS for every value of the constants that satisfies the named
assumptions of the modules (`PhotoConstants`, `PriceConstants`, `PedigreeConstants`, `Absence`,
`StartupAssumption`, `RowConstants`, `PageConstants`) and what a theorem itself assumes. All of
them are evaluated by TLC on the runs, as is `RevisionsFit`, which is no assumption on
constants but a computation over the 21 revisions (below). Every inductive invariant was
first an invariant of a TLC run on small instances. Theorems about a component that a
run reaches through an instance are about that instance (`Values!Spec`, `Serial!...`).

| Theorem | States | Assumes |
|---|---|---|
| `TypeCorrect` | `PhotoStore`: `Spec => []TypeOK` | |
| `NoSharedObject`, `NoBystanderLoses` | `PathsDisjoint`, `OnlyOwnObjectsRemoved` | |
| `NoSharedName` | `NamesDisjoint` | |
| `UploadedBeforePublished` | `PublishedIsStored` | |
| `CompensationsWork`, `ChangesWhatIsAsked` | `MildStorageMatches`, `MildOnlyProvidedFields` | `MaxFaults <= 1` |
| `PricesStayLinkedOnce`, `CrowdedLinkedOnce` | `TypeOK`, `NoDuplicateLink` (`NeverLinkedTwice`) | `~Overlap`, or every update writes its price |
| `GroupsAsAsked`, `CrowdedGroupsAsAsked` | `GroupsAsRequested` (`CrowdedGroupsAsRequested`) | the same |
| `OrdersStayDistinct`, `SerialNumbersDiffer` | `AllNumbered`, `NoDuplicateLink`, `OrdersDiffer`, `NumberingNeverRefused` (`SerialNumbering`) | `~Overlap`; the instance's `SerialConstants` |
| `OrderStaysAsRequested`, `SerialOrderAsRequested`, `SerialGroupsStayDense` | `OthersKeepOrder`, `ReorderLands` (`OrderAsRequested`), `DenseAfterLoss` (`SerialDenseAfterLoss`) | the same |
| `MoveKeepsPositions`, `MoveKeepsDistinct`, `ChangesKeepDistinct` | one change, and all changes, of a reorder | |
| `DatesStayInOrder`, `ParentsStayFit` | `ParentsOlder`, `DamAlive` (`ParentsFit`) | `~Redate` |
| `OffersStayAccepted` | `OffersAccepted` | |
| `RolesStayAsRequested` | `SerialRolesAsRequested` | |
| `SerialKeepsOneParent` | `SerialOneParent` | finitely many horses |
| `CallbackTypes`, `SpamStaysClosed`, `ChangesAreKept`, `PromiseKept` | `TypeOK`, `SpamIsClosed`, `NoLostChange`, `KeepsPromise` | |
| `MainStaysOne`, `ListsAsAsked`, `CommitsLand` | types and one main photo in every state, `SerialListAsAsked`, `CommittedLands` | `PhotosApart`: no photo or list stands for none; `MaxFiles \in Nat`; `Crowd` are photos |
| `ServesWhatIsThere`, `TogetherIsSafe` | `ServingIsReady`, `NobodyGivesUp` | |
| `UsernamesUnique`, `ScopesLast`, `DeletionLasts`, `SuperuserStays` | `TypeOK` of `UserRecords`, `ScopesAsRequested`, `DeletedIsFinal`, `SuperuserRemains` | `Apart`; the founder is a user |
| `NamesStayDifferent` (twice) | `NamesDiffer` of `Catalogue`, `AllNamesDiffer` | `Apart` |
| `OnlyLosersFail` (twice) | `OnlyRacesFail` of `Catalogue`, `RacersOnlyFail` | `SlugConstants` (`RowConstants`): ids are finitely many, names are sequences, a column has room for two characters, different counters are written differently |
| `PagesTogether` | `PagesPartition` | `Numbered`: finitely many rows, ids and sort keys are numbers |
| `SchemaStays`, `DataStaysMigratable` | `SchemaIsOfVersion`, `LegalDataMigrates` | `RevisionsFit` |
| `StatusIsTrue` | `AnswerMatchesPeer` | `PageConstants`: finitely many accounts, a page holds one |
| `PagesMayCall` | `BrowserMayCall` | |
| `ValueStaysFit` | `ValueFitsType` | |
| `ShownOnPurpose` | `VisibilityOnPurpose` | no news item is `NoItem` |
| `OutagesReported` | `OutageReportedOnce` | `ReportAfter \in Nat` |

`PhotoStoreProofs`: under every failure, for any number of requests.
* *Types.* `TypeOK` is not inductive: a step that takes the head of a list, or a file
  name out of the entity, needs to know that there is one. `TypeInv` adds `Loaded`, which
  says for each `pc` which local variables are filled.
* *Objects.* A path also sits in uncommitted writes, entities, replaced paths and the
  work lists of deletions, from where it can return to a row or reach S3.
  `OwnedBy(own)` says there is a map from file names to photos such that every place
  that holds a path holds one owned by the photo it is for; `Owned` says such a map
  exists, and a step that issues a name extends it. This is an argument about
  history without a history variable.
* *Names.* The unique index alone compares committed names. `NameInv` adds what its
  locks keep: one writer for each row (`OneWriter`), no name in two open transactions
  (`WrittenDiffer`), and nobody but its creator knows of a photo that is not committed.
  The hard step is `RevertRow`, which writes a name without looking whether it is
  free: its transaction has it already (`Reverts`), or has found the row gone.
* *Uploads.* `UploadPrivate`: until a request commits, no other place mentions the file it
  has saved, so nobody can delete it between the save and the commit (`Uploaded`).
* *Compensations.* In the mild environment, for any number of requests on different
  photos: `Updating` and `Deleting` say what each step of a handler still owes. A
  failed update has left the old file and takes its upload away, a deletion keeps
  what it has removed until it has dropped the rows of all of it, and so can put all of it
  back. `MaxFaults <= 1` is what the compensations can do: the code
  logs and goes on when one of them fails too, and then row and bucket do differ.

`PriceOrderProofs`: nothing in the table keeps a price from being in a group twice, so
the proof is about locks. `OneWrites` and `OneMarks`: a row of either table is written by
one transaction at a time; `FoundAll`: a DELETE that waits has found every link of its
price, as the lock of the price keeps others from adding one; `LinkedOnce` and
`LinkedAll`: after the DELETE, the links of the price are those this transaction has
inserted, one for each group it is done with. Renumbering and reordering by
others change orders, never which links there are (the section on listings). The
assumption is needed, see section 4. What one change of a reorder does to a
group of any size is stated by itself: distinct positions of 1..n stay so, the
price lands where asked, the others keep their order; with gaps, orders stay distinct.
`ChangesKeepDistinct` is the same for the whole list of changes: that the recursion of
`AfterChanges` has a value at all is shown by least counterexample (`Recursion`), then
what it leaves, by another.

*Numbering, one request after another.* A numbering writes NULL everywhere first and then
one order after the other, so in between orders are missing on purpose. `NumInv` says of
the request that runs (`OneByOne`: nobody else has begun) which rows have no order yet,
that these are exactly those its plan has still to place, and that the orders they are
going to get differ from each other and from those that are there; outside the two
phases every order that the request sees is there and different from the others.
`MapOfListing` is what makes a plan safe: an `order_map` over a listing of rows that differ
in their price has no price twice and no order twice; for a reorder that is
`ChangesKeepDistinct`. The unique index can refuse a write only if two rows get one order, so
`NumberingNeverRefused` follows.

*What a commit makes of the groups.* `Goal` is the order that a row is going to have once
the numbering that is under way is done: the order in the plan for a row still to be
placed, what the request sees for any other. The statements of a numbering take orders away
and give new ones, but leave the goals as they are, and at the commit every goal has been
reached. `GoalInv` says of the goals what is promised of the orders: rows of prices the
request does not name stand to each other as in the table (`Kept`); a group that the price
has left is still to be numbered, or its goals are 1..n (`Losses`), as a plan over n rows
with n prices and different orders of 1..n uses every one of them (`AllUpTo`); and of a
reorder, in a group that was numbered 1..n, the goals are 1..n again and the price
changed last has its place (`Landing`). That an update still sees the table when it reads
the groups the price has (`Early`) makes `Losses` true in the first place.

`PriceProofs` transfers these theorems to the two
instances that `MCPrices` puts together; `SerialConstants`, evaluated by the run, says
that its prices meet `PriceConstants`.

`PedigreeProofs`: a request is validated against what is committed, and others commit
before it does. `Inv` says that what it was validated for still holds: `AddedFit` and
`PlanFits` are about the rows it has inserted and those its plan has yet to insert. With
`~Redate`, sex and dates change only while a horse has no relatives and no other
request runs (`Alone`), and the whole-row write of any other update writes back what
is there (`Unaltered`); an id that is used again belongs to no link, since a deletion
cascades. Without the assumption the property is false (finding `pedigree_redated`).
`OffersStayAccepted` needs no assumption: lists and checks are compared in every state
in which rows have their type. Who is shown as sire and dam cannot be the same horse
because no sex makes both; that there is only one of each turned out not to matter,
so the premise the property once had is gone.
The serial instance has requests one after the other, offered candidates, sex and
dates changed at will, and any number of horses, rows between two horses, foals and
fields. `SerialInv`: the plan of a request is what its statements
leave from the k-th on (`From`), and sire, dam and foals show, before the k-th, what was
there, nothing, or what was asked for (`At`). A DELETE takes the rows of its role and no
others because no horse is its own parent (`ClearParents`); an INSERT adds what it names
(`AddParent`, `AddFoals`); statements the request does not have change nothing (`Skip`). At
the commit k is 10, which is `SerialRolesAsRequested`. For a horse other than the target
only a foal gets a parent, and an offered foal has none of that role (`FoalsFit`), which
is `SerialOneParent`; counting needs the finite set.

`RecordsProofs`, requests: the inductive invariant is `TypeOK /\ Order`. `Filed` relates what is
answered, announced and stored (every event and every request past its commit has
its row with its form), which the refinement needs for `Tell` and `Settle`; `Staged`
says that an uncommitted row version is what the request makes of the committed row,
and that no two transactions hold the same row, from which `ChangesAreKept` follows at
`Commit` and `SpamIsClosed` by the shape of `After`.

`RecordsProofs`, photos: `ListInv` has two parts. Under any overlap, `Fits` says what a request has
written so far (`UploadFits`: once a file is attached, the whole list and all that was
told; `SetFits`: the list, and its main photo marked; `WaitFits`: an UPDATE that waits has found
the transaction's own rows), and `Apart` that no two transactions have written one row and
that what is linked exists. A written link holds its row, and its photo cannot be deleted
(`InUse`), so at the commit it is still there: `CommittedLands`. When requests come one
after the other (`Alone`), the list of an upload has all that is linked and told and nothing
else that still exists (`UploadAlone`), a list that was set is what the request sees
(`SetAlone`), a photo chosen as main is linked and cannot be deleted any more once all links
were reset (`ChoiceAlone`), and there is no main photo before one is marked
(`MainAlone`): `SerialListAsAsked`.

`RecordsProofs`, proxied requests: an account is looked for page by page in a list that others
change. `Ahead` says that the account the request names is still to come, further down
the list than what was read; `PeerInv`: so it is during the search, unless the account was
missing at some time or the list moved (`absent`). A full page brings the search on by its
size (`PageStep`, with `EveryRank` and `PageFits`), an account that is
added or removed shifts the others by one (`Inserted`, `Removed`), and only one that is taken
away before the place read can hide another. A call is made for an own account only, from
which the statuses follow (`StatusesOfReplies`).

`RecordsProofs`, routes: that a page may make a call is a matter of the whole route table,
of the CORS prefixes and of the word the client puts in place of a parameter.
`RoutesAreServed` goes through the routers one by one (`UnderIs` for a prefix of a router,
`JoinedRoutes` for their concatenation): a route a site may read is `/health`, or its
first word after `/api` is none of the protected prefixes and no parameter. A word of
the client stands only where the route has a parameter (`AddressOf`), so the
path that is sent begins like the route, and the middleware lets it pass
(`CallPasses`). `WebInv` carries that through the preflight to the answer. The argument
holds for any word; the table is the one of `Routes`, and a public route added under a
protected prefix would make a step of `RoutesAreServed` fail.

`StartupProofs`: what a worker may rely on depends on where it is (`Ready`): from the
seeding on, the schema is the latest; between the read and the commit of the
scopes, what is missing is in its own list; after it, nothing is. That is stable under
the others because they only add to the database (`Grows`, `OthersStayReady`): no one
downgrades or deletes a scope. `NobodyGivesUp` needs the attempts too: `Second` says that
a worker in its second attempt finds the work done, since the only thing its first
attempt can lose to is another worker's commit. The bound of two attempts is
tight for any number of workers.

`CatalogueProofs`, with `NameProofs`:
* *Accounts.* `Apart`: what stands for no user or unchanged scopes is none of either. `UInv`
  says what the locks keep: a transaction that has written a row is the only one to
  hold it, so a row it found live stays live until it ends (`Locked`), and what
  `SetScopes` has found is still there at its commit (`Promised`), because every
  statement for the relation follows one for the user's row. `SuperuserStays` adds
  `Spared` for the single request that is under way: if its target is the superuser
  that counts, the request leaves them unblocked with their scope, or there is
  another one, the caller. That needs `OneAtATime`; two superusers can block one another.
* *Names.* `NameInv` has two cases. Where the table has a key (`Keyed`), two transactions that
  are about to commit have different names (`Separate`), because the key makes the second
  one wait. Where it has none and requests come one by one (`LookedUp`), what the service
  has looked up is still so when it writes. `AllNamesDiffer` is that for both instances of
  `Catalogue` in the run, and usernames.
* *Settings.* A value that was normalised is its own normal form (`NormalForm`), and a
  request takes both type and value of what it writes from one row (`ChangedFits`);
  that others write in between can undo a change, but never mix a type with another's
  value.
* *News.* `Edits`: the entity of a request that nobody has overtaken agrees with the
  stored row in what it was not asked to change, so a change of what visitors see is the
  clock's or is asked for.
* *Slugs.* `FirstFree` tries as many counters as there are rows and one more. The candidates
  differ, because what is cut off is as long as the suffix that replaces it and counters
  are written differently, so by counting rows one of them is free (`OneIsFree`); that
  holds of the suffix that is appended (`SuffixedFree`) and of the one that is fitted
  into the column (`FittedFree`). `KeysInv` then keeps, for a request that nobody has
  overtaken, that no key is violated by what it is going to write (`Sound`), and of two
  that have written, that they differ (`Apart`).
* *Lists.* An order that ends with the id is the only one the rows have (`OneListOrder`), so every
  page is cut out of the same sequence, and the pages so far are a prefix of it (`Begins`).
* *Migrations.* `AtVersion`: the schema is that of the version. The 21 revisions are data of
  the program, and what becomes of one schema, or of one stored fact, under one
  revision is a computation on them, which TLC does (`RevisionsFit`). What it cannot
  do is any amount of stored data, written at any versions and carried through any
  sequence of commands. That is proved: a revision treats stored facts one by one
  (`CarriedByFact`), an allowed set of facts consists of allowed facts (`LawfulByFact`) and
  has a way if each has (`WayByFact`), so that a revision fails only for a fact that
  alone has none (`DataMoves`); a late upgrade is a chain of revisions (`UpToChain`), along
  which that stays so (`ChainData`). `DataFits` is the invariant: what is stored fits the
  schema and its constraints.
* *NATS.* The flag holds exactly when the counter is over the threshold, and the counter
  is what came before the outage plus its failed attempts (`BrokerInv`).

Met while proving, and corrected: two `CASE` expressions of `Catalogue` had conditions that
overlap (TLC takes the first, the meaning is any); `VisibilityOnPurpose` looked up the
slug of the row after the step where it meant the one before; `Renumber` and
`Reorder` did not say what happens when a group is longer than `MaxOrder`.

Only model-checked, and why:
* liveness (`RequestsEnd`, `StartupEnds`): out of the prover's reach;
* what the 21 revisions make of their schemas and of single facts (`RevisionsFit`): a
  computation without a parameter;
* two facts about the concrete table of routes: `NamesBeforeWords` compares every route
  with every other, and `AsInventoried` evaluates the rules of the inventory for every
  route. The routes, words and callers are written in the modules, so there is no
  constant to generalise over, and TLC evaluates both for every route, word and caller.

## 7. Not modelled

* Contents: texts and HTML clean-up, patterns of filters, formats of requests and
  responses, the validation of uploads and of fields, types and lengths of columns
  other than slugs, what proxied calls carry.
* Permissions inside a service (who may change which entity of a tenant), except the
  roles of `UserRecords` and the scopes of `Gateway`.
* Issue and rotation of tokens: they are signed and kept nowhere, so a login
  changes no state.
* The deletion of the owner of a photo list, and a
  timeout of a startup attempt (its thread goes on in the background).
* Settings, metrics, password hashing, log formats and the maintenance scripts other
  than the route inventory: no state of their own that lives longer than a call.
