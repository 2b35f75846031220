# Specifications of the american-food site

The repository is a restaurant site on Drupal 9.3.8: Drupal core (`src/core`),
contributed modules (`src/modules`), themes and vendored libraries. This
directory holds TLA+ specifications of the parts of it where steps of several
actors meet, their TLC configurations, and proofs. There are two kinds of them.

- On the site, a PHP request is a process of its own. Requests share the
  database, the cache backends and the clock, and nothing else: whatever goes
  wrong between them does so between two statements, which is where the models
  look.
- In the browser, one thread runs the handlers of events, timers, deferred tasks
  and answers, one after the other. A handler is not interrupted; what it relied
  on may have changed by the time its timer ends or its answer comes.

Contents: [inventory](#inventory), [modules](#modules), [runs](#runs),
[proofs](#proofs), [findings](#findings), [not modelled](#not-modelled),
[plan](#plan). Paths below are relative to `src/`; `Core/` is
`core/lib/Drupal/Core/`.

## Inventory

Each component with its state, its operations, whom it works with, what is
hard about it and what makes it correct.

| Component | State | Operations | Works with | Hard because | Correct if |
|---|---|---|---|---|---|
| Lock service, `Core/Lock/DatabaseLockBackend.php`, `LockBackendAbstract.php` | table `semaphore` (name, value, expire); per request `$this->locks` | `acquire`, `release`, `releaseAll`, `lockMayBeAvailable`, `wait` | cron, route rebuilding, cache collectors, temporary stores, configuration import | each operation is several statements; leases run out while a statement waits; requests are killed | a lease that runs is its holder's alone; no row outlives its request except after a kill; calls return |
| Cron and the queue, `Core/Cron.php`, `Core/Queue/DatabaseQueue.php`, `system_cron()` | table `queue` (expire per item), state `system.cron_last`, the lock `cron` | `run`, `processQueues`, `createItem`, `claimItem`, `releaseItem`, `delayItem`, `deleteItem`, `garbageCollection` | lock service, queue workers, crontab and automated_cron | runs overlap, and only the handlers are guarded by the lock; workers throw four kinds of exception, or die | items are executed at least once, by one worker at a time while leases hold; abandoned items and locks come back |
| Cache tags, `Core/Cache/CacheTagsChecksumTrait.php`, `DatabaseCacheTagsChecksum.php`, `DatabaseBackend.php`, `ApcuBackend.php` | table `cachetags`, cache bins, three static caches per request | `invalidateTags`, `getCurrentChecksum`, `isValid`, transaction end callback | entities that are saved, every cache bin, database transactions | invalidations are delayed to the end of a transaction and skipped when repeated; counts are cached in a request | an item is not valid once what it was computed from has changed |
| Chained fast cache, `Core/Cache/ChainedFastBackend.php` | item in the consistent backend, copy per web node, last write timestamp, the request's reading of it | `get`, `set`, `delete`, `deleteAll`, `invalidate*` | database cache bins, APCu | read, compare, write and copy are separate steps by the clock | a copy that is returned is the item of the consistent backend |
| Table reservations, `modules/bookable_calendar/src` | contacts, bookings, openings and their instances with a list of bookings | book, edit, check in and out, cancel, delete a booking | entity storage, entity cache, transactions, mail | constraints are checked on a cached copy before the transaction; hooks of one entity save others | never more bookings than slots; list, bookings and contacts agree |
| Database transactions, `Core/Database/Connection.php`, `Transaction.php` | stack of savepoints, callbacks at the end of the root transaction | `pushTransaction`, `popTransaction`, `rollBack`, `commit` | every save of an entity, cache tags | savepoints go out of order; callbacks run after the commit | what is rolled back leaves nothing; callbacks run once |
| Entity storage, `Core/Entity/ContentEntityStorageBase.php`, `Sql/SqlContentEntityStorage.php` | entity tables, static and persistent entity caches | `loadMultiple`, `loadUnchanged`, `save`, `delete`, `resetCache` | cache tags, transactions, hooks | the cache is filled after a read that others have overtaken; unchanged fields are skipped | a load returns what was saved last |
| Tabbing manager, `core/misc/tabbingmanager.es6.js` | a stack of contexts; on each element the records of its `tabindex` and `autofocus`, per level | `constrain`, `release`, `activate`, `deactivate`, the focus trap | dialogs, contextual links, the toolbar's edit mode | contexts are released in another order than the one they nest in; the page changes under them | every element gets back what the page gave it; the newest request that is left is in force |
| Quick Edit, `core/modules/quickedit/js`, `QuickEditController.php`, `QuickEditFieldForm.php` | state machines of entities and fields, the array `fieldsInTempStore`, requests; on the site the PrivateTempStore | open, highlight, activate, edit, save, commit, close, discard | forms, temporary stores, entity storage | listeners set each other off, now or deferred; answers come after the state they were asked in is gone | one field is edited at a time; no edit is dropped silently; what is kept is stored; the fields of a closed entity are inactive |
| Machine names and form updates, `core/misc/{machine-name,form,debounce}.es6.js` | one timer and one request for all labels of the page, one debounced event per form | `machineNameHandler`, `clickEditHandler`, `transliterate`, `triggerFormUpdated` | `MachineNameController` | every label cancels what the others have under way; answers come late | the name is that of the label's text, or what the user gave |
| Cache collector, `Core/Cache/CacheCollector.php` | a merged cache item, keys to persist or remove | `get`, `set`, `delete`, `updateCache` | lock service, cache bins | merges under a lock with what others have written, or removed | no value that was deleted comes back |
| Route rebuilding, `Core/Routing/RouteBuilder.php` | router table, flag `router.rebuild_needed` | `rebuild`, `rebuildIfNeeded`, `setRebuildNeeded` | lock service, events | a request without the lock waits and returns | what needed a rebuild gets one |
| Temporary stores, `Core/TempStore/SharedTempStore.php` | expirable key values with owners | `set`, `setIfNotExists`, `setIfOwner`, `delete`, `deleteIfOwner` | lock service | some operations lock, others do not | an owner's data is not replaced by others |
| Configuration import, `Core/Config/ConfigImporter.php` | configuration to process, a persistent lock | a batch of steps over several requests | lock service, batch | a request dies between two steps | the import ends, or can be started again |
| Flood control, `Core/Flood/DatabaseBackend.php` | table `flood` | `register`, `isAllowed`, `clear`, `garbageCollection` | login | check and registration are separate | attempts within a window stay below the threshold |
| Batch processing, `core/includes/batch.inc` | table `batch`, queues of operations, progress | `batch_process`, `_batch_page`, `_batch_process` | queue, session | a page is reloaded, or dies | each operation runs, in order |
| Menu tree storage, `Core/Menu/MenuTreeStorage.php` | materialised paths p1..p9, depth, has_children | `save`, `delete`, `rebuild` | lock, cache tags | moving a subtree rewrites every descendant | paths agree with parents |
| Commerce orders, carts, checkout, `modules/commerce/modules/{order,cart,checkout}` | orders with a version, their items and adjustments, the checkout step | `preSave`, refresh, add to cart, `processOrderStep` | state machine, entity storage | two tabs save one order; a version mismatch is only logged by default | no item or payment is lost |
| Commerce numbers, promotions, payments | sequences, usages, totals paid | `generate`, `register`, `updateOrders` | orders, transactions | `SELECT FOR UPDATE` of a row that is not there | numbers are unique |
| State machine, `modules/state_machine` | a state field and its workflow | transitions | orders | events in the middle of a save | only transitions of the workflow |
| Rooms and events, `modules/{bat,bee}` | availability calendars | `getAvailability`, `addEvents` | commerce orders | checked at validation, written at submission | a unit is reserved once |
| Webforms, dates, display modules, administration helpers, themes, vendored code | mostly none that is shared | rendering, forms, plugins | the services above | | |

The components touch in these places. Saving an entity opens a transaction,
writes rows, and invalidates cache tags, which the transaction delays. Reading
one goes through the persistent cache, whose items carry tag checksums. Cron
takes a lock and works on queues. Every long operation that must not run twice
takes a lock. Reservations are entities with hooks that save other entities
inside the same transaction. In the browser, Quick Edit works on a copy of the
entity in a temporary store of the site; the entity changes when it is
committed. The machine names listen to the debounced events of the forms.

## Modules

Each module's header says which code it translates. On the site an action is one
PHP step with at most one read or write of what requests share, wherever other requests may
come between; reading the clock is a step of its own too where something is asked of the
database after it. In the browser it is one whole handler. Auxiliary variables and fields, which the code does not have,
are marked as such where they are declared.

| Module | Models | Composes or refines |
|---|---|---|
| `LeaseLock` | what the lock service promises its callers | abstract specification |
| `DatabaseLock` | the lock service, statement by statement | refines `LeaseLock` (`ImplementsPromise`) |
| `CronQueue` | cron runs, queue, garbage collection | uses what `DatabaseLock` guarantees of `acquire('cron')` as one step |
| `CacheTags` | checksums, delayed invalidation, one bin | cache tags composed with transactions and a bin |
| `ChainedFast` | consistent and fast backend of one item | |
| `BookableCalendar` | reservations of one opening instance | entity storage, entity cache, row locks and the module's hooks |
| `TabbingPromise` | what the tabbing manager promises the scripts that call it | abstract specification |
| `TabbingManager` | the stack of contexts and the attributes of the page | refines `TabbingPromise` (`ImplementsPromise`) |
| `QuickEdit` | entities, fields, deferred tasks, requests, and the site's stores | the page composed with the controller and the temporary store |
| `MachineName` | labels, their names, the timers of forms and names, the requests | `machine-name` composed with `form` and `debounce` |
| `DatabaseLockProofs`, `CronQueueProofs`, `CacheTagsProofs`, `ChainedFastProofs`, `BookableCalendarProofs`, `TabbingProofs`, `QuickEditProofs`, `MachineNameProofs` | theorems | extend the module they are about |
| `...MC` | model values and symmetry for TLC | |

### DatabaseLock and LeaseLock

`semaphore` is the table, `locks[p]` the array `$this->locks` of request `p`,
`frame[p]` the local variables of the call it executes and the statement that
comes next. `acquire()` is `BeginAcquire` (which fixes `$expire`), then
`Extend` (the UPDATE of an own row), or `Insert`, `Remember`, `InsertConflict`
(the INSERT, its success and its exception). `lockMayBeAvailable()` is
`Select`, `SeenAlive`, `BreakExpired` and returns into whichever of
`acquire()`, `wait()` or the request called it (`Return`). `wait()` is
`BeginWait` and `Sleep`. `End` and `Fatal` run the shutdown function, `Kill` does not. The clock may
tick between any two statements. `lease` is auxiliary: the expiry a request
wrote last.

`LeaseLock` has a name, its lease, and four things that may happen to it:
grant, renew, free, and break once it no longer protects its owner. The
refinement maps the table to the leases and `Epsilon` to the abstract `Slack`.

Not modelled: creating the table on first use, hashing of long names, clocks
that run backwards. The interface's documentation warns of the last.

### CronQueue

`expire` holds the rows of the table `queue`: an item is in its domain until
deleted, and 0 means available. A run passes through `Acquire` or `Refuse`, the
handlers with `CollectGarbage`, `RecordTime`, `ReleaseLock`, and then, with or
without the lock, `BeginQueue` and the loop `CheckTime`, `SelectItem`,
`ClaimItem`, `Process` and one of the outcomes of a worker: `DeleteItem`,
`DelayItem`, `RequeueItem`, `SuspendQueue`, `FailItem`. `Abort` is a fatal
error (shutdown functions run), `Kill` is not caught by anything. `LeaseTime`
is what `isset(...) ?: NULL` evaluates to, given whether the worker declares a time
(`declared`, chosen once): one second or none.

`Recoverable` keeps failures to before the last tick, and to leases that run
out before the bound of the clock. The clock of the model stops, the real one
does not, and an item that fails at the last tick could not come back.

### CacheTags

A tag is at the same time the record it is named after. `Write` changes the
record (in or out of a transaction), `InvalidateTags` follows as it does in
`EntityBase::postSave()`. `Commit` makes the rows visible, then `Callback` marks the
delayed tags one by one; `RollBack` forgets them. Reading is `Get`, `Check`
(the checksum decides on a hit) and, after a miss, `Compute` (reads the
records), `CurrentChecksum`, `Set`. `TransactionalBin` tells a bin that is a
database table, and so rolls back, from one in APCu. `Sum` adds the counts of a
checksum, those the request loaded earlier and those it loads now.

Not modelled: savepoints within the transaction, expiry and garbage
collection of bins, invalidation of single items.

### ChainedFast

`row` is the item of the consistent backend, `stamp` the last write timestamp,
`fast[n]` the copy on node `n`. A read is `Get`, `Load` (the timestamp, once per
request), `GetFast`, `GetConsistent`, `Fill`; a write is `SetItem`, `Delete` or
`DeleteAll`, then `markAsOutdated()`: `ReadClock` takes `mark`, `Load` asks for the last stamp
unless the request knows one, `Compare` compares the two and `WriteStamp` writes. The clock may tick and
other requests may stamp between any two of them. Each copy carries its own cause for being stale
(`raced`). A request may end at any point,
APCu may evict a copy at any time. Values are numbered in the order in which
they are set, so that two of them are never mistaken for each other.

Not modelled: `invalidate()` and its kind, requests for several ids, a clock of
its own per node.

### BookableCalendar

`opening` holds the settings of the opening, chosen once. `contact` and `booking` are
the two tables, `list` the field `booking` of the opening
instance, `cached` that field in the entity cache. A call begins with `Book`,
`Edit`, `CheckIn`, `Cancel` (deleting the contact) or `Drop` (deleting one
booking). `Load` and `Fill` read the instance through the cache,
`Validate` evaluates the vacancy and party size constraints, `Refuse` stands for
the other reasons to say no. `CreateContact` or `SaveContact` open the
transaction; `Add`, `Shrink`, `Remove`, `Removed`, `InSync` are the steps of
`BookingContact::postSave()`, `preDelete()` and the hooks of `Booking`; `Commit`
publishes everything. `Fail` rolls back at any point. A row lock is held from
the first write of a transaction to its end (`ContactLocked`, `ListLocked`). Every save
of the instance takes the lock on its row, one that leaves the list as it is
included: the base row is always updated (`SqlContentEntityStorage.php:902`). A request that has saved
the instance (`saved`) reads past the cache entry, which it has deleted for itself (`Hit`).

`overtaken` and `unchecked` are auxiliary: an edit is overtaken if the contact
had more people when it was validated than it had bookings when it was loaded,
and the bookings it adds are `unchecked`, since the constraint credits it with slots that
somebody else has been given. Ids are bounded, and a call begins only when there are ids
left for what it and the calls under way have yet to add (`ContactLeft`, `IdsLeft`,
`Lacking`), so that no call stops in its middle for want of one.

Assumed: statements of a transaction read what is committed and what the
transaction itself wrote (read committed). Not modelled: the contact's own
entity cache, mails, negative party sizes, several instances at once, and
creation of openings.

### TabbingManager and TabbingPromise

`stack` is `manager.stack`, a context with its `level`, the sets `$tabbableElements`
and `$disabledElements`, its trap and whether it is released. `page` holds what
the document has: attributes, which elements are shown, the records that
`jQuery.data` keeps for each element and level, and the elements with a
`keydown.focus-trap` handler. `Constrain` puts the context at the top to sleep and
activates the new one; `Release` marks a context, drops the released ones off
the top, and activates the one that is there now. `Toggle` and `SetIndex` are
the page's own scripts, which know nothing of the contexts. The operators
`Recorded`, `Restored` and `Dropped` are `recordTabindex()`, `restoreTabindex()`
and what it does with the records of deeper levels.

`TabbingPromise` has a set of requests that are held and what can be reached: what
the newest of them asked for. The refinement maps the contexts that were not
released to the requests, and the one that is active to what can be reached.

Not modelled: the focus itself, and the events that are fired for others.

### QuickEdit

`ui` is the page: `ent` and `fld` are the models of entities and fields, with
`own` and `shared` for the array `fieldsInTempStore` (an entity that has none of its own
uses the one of the defaults, which all share), `tasks` are the deferred calls,
`out` the requests. `temp` and `final` are the site's PrivateTempStore and its
entities. Every `set()` of a state is `SetField` or one of the operators on
entities (`Open`, `Commit`, `Deactivate`, `Closed`), which apply what the
listeners do, in the order in which they were attached. The user's actions
are `ClickQuickEdit`, `MouseEnter`, `MouseLeave`, `Click`, `Edit`, `ClickSave`,
`ClickClose`, and `Confirm` and `Discard` in the dialog; `RunTask` runs the
oldest deferred call; `Answer` applies an answer, in any order;
`Reload` stands for `window.location.reload()`. A field whose new model replaces an old one (`Rerendered`)
stands for both: what was to become of the old one is gone.

The site is `QuickEditController` and `QuickEditFieldForm`, a step for each read and write. A request
has its place in the code (`at`) and the entity it has read (`copy`). `fieldForm()` is `LoadEntity`
(of the path), `GetCopy` (from the temporary store), `InitCopy` (where there is none, or the form is to reset
it), then `ServeForm`, or for a submit `Reject` (validation), `StoreCopy` (`submitForm()`) and `ServeSubmit` (the
field is rendered from what the store has by then). `entitySave()` is `GetToSave`, `SaveEntity` and
`ServeCommit` (which deletes the copy and answers). Nothing is locked between them: two submits of an entity may
read the same copy and write it one after the other, and `Fail` may end a request at any of these places.

Auxiliary variables name what the page cannot know, or does not care for:

- `bypassed`: the fields that are active although another one was activated which was inactive, or on its way,
  and so asked nobody to yield (`AppView.es6.js:224`).
- `racing`: the fields whose stored text something was still to overwrite when the page was told that it is stored: a
  form that starts the copy over (`ResetComing`), an older submit of the field, from before it was rendered
  again or the page reloaded (`OlderComing`), or a request that had read a copy with an older text, or a commit from
  before the page reloaded (`OlderHeld`).
- `late`: the fields an answer came for when their entity was being committed or was left.
- `untimely`: the fields with a text typed when the entity was not open, or when the field was being saved or still to be
  rendered with what was sent before.
- `lost`: the fields whose text a step has thrown away (`Reverted`) that was neither stored nor discarded,
  and is in none of the cases above. Two more are left out where they happen: a form that does not
  load takes back whichever field is active by then (`util.es6.js:140`), and an invalid field that is taken up again
  is no longer `invalid` with the text that was refused. TLC finds a lost text for each exception when it is left out.

Not modelled: other view modes, contextual toolbars and decoration, the loading
of metadata and of editors, CKEditor.

### MachineName

A text is the number of the edit it comes from and its kind: empty, plain (its
name is the text itself), other (the site has to transliterate it), or symbols
(its name would be the replacement character). `Init` is `attach()`, with the
names the page was served with. `MoveFocus`, `Type`, `TypeElsewhere`, `TypeName`
and `ClickEdit` are the user's. `Elapse` ends the oldest timer, as they all last
300 ms: an event of a form, handled by `Handle` (`machineNameHandler()`) if a
label listens to it, or the timer that sends a request. `Answer` is the
callback. `robbed`, `failed`, `overtaken` and `exposed` are auxiliary and name why
a name may be another than its label's.

Not modelled: forms rebuilt by Ajax, disabled fields, the cut to a maximum
length, and the other behaviors of `form.es6.js`.

## Runs

Each property has one question behind it; the comment above its definition
states it. All bounds are constants of the cfg.

| Run | Instance | Shows |
|---|---|---|
| `lock` | 2 requests, 1 name, leases of 0 (raised to 2), 2 and 3 ticks, waits of 3, an epsilon of a whole tick, clock to 5 | `LeaseHonoured`, `MutualExclusion`, `NoStrayRow`, `CallReturns`, `ImplementsPromise`. Five ticks let a lease end and another be taken and end; the epsilon of 0.0001 s can matter only if it is as long as a tick. More requests and names are left to the proofs, which hold for any set of them |
| `cron_runs` | 2 runs that start again and again, 1 item, worker with and without a declared time (lease 1 or 0), a delay of 1, cron lock 2 ticks, clock to 4 | `AtLeastOnce`, `SharedOnlyIfLate`, `HandlersExclusive`, `DelayRespected`, `AbandonedReturns`. Four ticks let one run be late, the other collect garbage, take over and be late in turn; items meet only through the runs |
| `tags_database` | 2 requests, 2 tags on one page, 2 writes | `MarkedMeansFresh`, `EveryChangeMarked`, `OwnWritesSeen` for a bin in the database. Two writes are the least with which one follows an invalidation; two tags are marked one by one after a commit |
| `tags_apcu` | 2 requests, 1 tag, 3 writes | `CommittedOnly` for a bin that does not roll back |
| `chained_safety` | 2 nodes with one request each, 2 values, clock to 3 | `StaleHasCause`. The proof covers any number of nodes, and of requests on one node |
| `bookable_one` | 1 request, every operation, party sizes 0 to 3, 2 slots for people or for parties of at most 2, 3 contacts, 5 bookings | `WithinSlotsOneByOne`, `ListExact`, `OwnedByContact` when calls follow each other, with failures and stale caches. Three contacts are one more than there are slots. The proofs cover all slots, sizes and ids |
| `bookable_race` | 2 requests that book, edit, check in and cancel, 1 contact, 3 bookings for 2 slots | `ShownWithinSlots`, the one bound that survives races, and `CallEndsUnlessDangling`, through deadlocks. Requests that lock each other out do so over one contact and the list; with two contacts the first of the properties is left to the proof, which holds for any number of requests and contacts |
| `bookable_slots` | 2 requests that book | violates `WithinSlots` |
| `tabbing` | 2 elements, 3 requests, nested or one after the other and released in any order, 1 change of the page, 3 values of `tabindex` | `NothingLost`, `Constrained`, `TrapsInForce`, `ImplementsPromise`. Three requests are the least with a released one between two others |
| `quickedit` | 1 entity with a plain text and a form, 2 edits, 1 mishap | `OneEditor`, `KeptIsStored`, `NoSilentLoss`, `ClosedIsInactive`. A mishap is a request that fails or finds errors, or an event of the user between `set()` and the calls it has deferred. Two edits let one text be stored while the other is typed, sent or stored, each step of the site with the other's between. `MaxRequests` has no field pointed at or taken up while a request is out (the mouse may leave one, and all else goes on); a handler may still send several, and their steps and answers come in any order. Several entities and larger bounds are left to the proofs, which cover them for `TypeOK`, `OneEditor`, `KeptIsStored` and `ClosedIsInactive`; `NoSilentLoss` is checked for one entity only |
| `quickedit_discard` | 2 entities with a field each, 2 edits | violates `DiscardedNotSaved` |
| `machine_name` | 2 labels in 2 forms, first empty or with a text to transliterate, 2 edits, 1 failure | `NeverBack`, `TypedKept`, `CatchesUp`. Texts that are emptied, or have no name at all, are left to the proofs of the first two |

`TypeOK` is checked in a run of each of these modules.
Every property of a passing run comes with a mutant in `PROJECT.json`: a
plausible slip in the translated code, defined next to what it replaces, that
makes TLC violate it.

In the runs of DatabaseLock and BookableCalendar the system may stop (every
request has ended or been killed, or the ids are used up), and so may a page on
which the user does nothing more (TabbingManager, QuickEdit, MachineName);
deadlock is not checked there. In all others it is.

Fairness:

- DatabaseLock: `WF_vars(Continue(p))`. A PHP process that is inside a call
  goes on executing it. No request is obliged to call, to release or to end, and
  the clock need not move: `wait()` ends because its delay is counted in sleeps.
- CronQueue: weak fairness of `Tick`, of `Start` and of the steps of a run:
  time passes, a crontab or automated_cron triggers cron again and again, and a
  process executes its statements. Workers may fail for as long as the clock
  lets them, items need never be processed.
- BookableCalendar: strong fairness of `Step(r)`, since a statement that waits for a
  row lock becomes possible and impossible again while others take it, and the
  database hands row locks to those who wait in turn; weak fairness of
  `Deadlocked(r) /\ Fail(r)`, since the database detects a deadlock and ends one
  of the transactions. Without the latter `CallEndsUnlessDangling` does not hold.
- MachineName: weak fairness of `Elapse`, since the browser runs a timer that
  ended, and of an answer to, or the failure of, the oldest request: a request does not
  stay open for ever. The user need not do anything.
- CacheTags, ChainedFast, TabbingManager and QuickEdit state safety only. A request
  to the site may die, and the handlers of the page end by themselves.

## Proofs

All theorems are for every value of the constants under the assumptions that
the modules name: `RowAssumption` and `TimeAssumption`; `CronAssumption`;
`CacheTagsAssumption`; `ChainedFastAssumption`; `BookableAssumption`; `ElementsAreOrdered`,
`IndexValues`, `BoundsAreNatural` and `NotSavedIsNoValue`; `SourcesNumbered`,
`EveryLabelInAForm`, `Bounds` and `KindsKnown`; `EntitiesNumbered`, `EveryFieldOwned`,
`FormsAreFields`, `Bounds` and `NoneIsNothing` of QuickEdit. They say that identifiers differ
from one another and from the values they stand beside, that the fields and entities of a page are finite, and that
bounds are natural numbers. TLC evaluates them in the
runs.

`DatabaseLockProofs`:

- `TypeCorrect`: `Spec => []TypeOK`. A lemma per way of changing a frame
  (`CallType`, `GotoType`, `LeaveType`, `ReturnType`), then one step per action.
- `LeaseAlwaysHonoured`, `NeverAStrayRow`: neither property is inductive alone. A
  request that extends or releases "its" row relies on the row being its own,
  and whose row it is follows from `NoStrayRow`; that a row once remembered is still
  there follows from `LeaseHonoured`. Their conjunction `TableInv` is inductive
  relative to `TypeOK`. Lemma `TableStep` says what a step of one request
  has to respect: rows of others that still run, no row made for another, and its
  own lease as it was last written. Each action is shown to be such a step. For
  `BreakExpired` the argument is the one the code relies on: the row it
  deletes has the value it read and an expiry no later, but for the epsilon, than
  the one it read, which is over, and the clock moves in one direction only.
- `MutualExclusionHolds`: two current leases of one name would both be the row
  of the table.
- `PromiseImplemented`: `Spec => Promise!Spec`. Each statement that changes the table is
  a `Grant`, `Renew`, `Free` or `Break`, every other action a stutter.

`ChainedFastProofs`:

- `RequestsWellTyped`: `Spec => []TypeOK`.
- `StaleCopiesExplained`: `Spec => []StaleHasCause`. That a copy is stale says
  nothing of the write that made it so, so the invariant `Inv` does: `ValuesInv`
  (what a request is about to copy is the item, or is marked as overtaken),
  `TimesInv` (nothing is made after now, and no request knows a stamp that
  was never written) and `CopiesInv` (a stale copy was made no later than a write
  that is not stamped yet, was lost, or was stamped later than the copy).

`CronQueueProofs`:

- `TypeCorrect`: `Spec => []TypeOK`, from what a step makes of one run (`Becomes`).
- `HandlersAreExclusive`: a run whose lock has not run out is the owner in the table
  (`LockInv`); a run that overstayed finds another owner there and leaves it alone.
- `EachItemIsExecuted`: a run that is about to delete an item has executed it
  (`ExecInv`), and nothing else takes an item out of the table.
- `ItemsAreShared`: `WorkInv` says that an item nobody was late with has one worker,
  whose lease is the one in the table. Neither half is inductive alone: garbage
  collection leaves the lease because it still runs, and it still runs, or the worker is
  late, because the clock marks those it overtakes.
- `DelaysAreRespected`: a delayed item that nobody was late with stays claimed
  until its delay is over (`DelayInv`).

`CacheTagsProofs`:

- `ChangesAreMarked`: a change that was not counted is still owed (`OwedInv`): by a
  request about to invalidate its tag, or about to run its callback. What a transaction
  wrote is delayed, skipped or next to be invalidated (`TransactionInv`), so that a
  commit hands everything on.
- `OwnWritesAreSeen`: the same invariant, as `isValid()` refuses every item with a
  tag that is delayed: within its transaction a request is given none whose tag it has
  written itself, unless the checksums skipped the tag.
- `MarkedItemsAreFresh`, `OnlyCommittedIsValid`: `isValid()` compares nothing but the sum of
  the counts of an item's tags. `SumMonotonic` says why that is enough: of counts that only
  grow, equal sums are sums of equal counts. There is no induction on sets behind
  it but one on numbers: a fold is unrolled into its partial sums (`Sums`,
  `SumIsPartialSum`), and two of them are compared at the least place where they
  would go wrong (`LeastNat`). The invariant `ItemInv` says of what a request computes, and
  of what is in the bin, that its checksum is a sum of counts its tags once had, and that it has
  seen every version that was marked by then (`Sound`). Hence a valid item's counts are those
  of now (`ValidIsCurrent`), of any number of tags, and whichever of them a request had
  loaded before.
- `ValidIsUpToDate`: with `ChangesAreMarked`, a valid item was computed from the records as they are,
  but for changes still owed, skipped or cut off. No run states it.
- `TypesHold`: `Spec => []TypeOK`, which needs of `ItemInv` that counts are natural numbers,
  so that their sums are, too.

`BookableCalendarProofs`:

- `TypesHold`: `Spec => []TypeOK`. That ids are not used up has to be an invariant of its
  own (`IdsSuffice`): what all calls under way lack fits into what is left.
  `Course` says where in its code a request can be with which variables, `Count` that a contact
  has no more bookings than people once those are in sync.
- `ShownIsWithinSlots`: `Spec => []ShownWithinSlots`, for any number of requests. `PeopleInv` says of
  every copy of the list (the table's, the cache's, and those in memory, validated
  or written but not committed) that it is within the slots, but for the bookings
  that are `unchecked`. No copy needs to agree with another: what is added was validated
  against the very copy it is added to, and that copy is what is written. This is
  why lost updates do not overbook the list.
- `ListIsExact`, `BookingsAreOwned`, `OneByOneIsWithinSlots`: for one request (`Requests = {r}`),
  any number of calls, and failures anywhere. In `OneInv` the cache agrees with the list or is empty; what a
  transaction has written is the table without what it deletes and with what it creates (`Alone`); and, for
  parties, those with their bookings intact are within the slots, and one that is about to add has, or
  finds, a slot (`Settled`, `HasSlot`).

`TabbingProofs`:

- `TypeCorrect`, with the shape of the stack: only the context at the top is in force.
- `NothingIsLost`, `TabbingIsConstrained`, `TrapsAreInForce`: the invariant says of each
  element what the page would be without the context in force, level by level:
  either the record of a level holds what the element had under it, or nothing
  was recorded there and the element has it still. What `autofocus` is under a level needs
  a conjunct of its own, since a script may change an element that is disabled
  (`touched`).
- `PromiseIsKept`: `Spec => ImplementsPromise`. Contexts have increasing ids, so the one at
  the top, once released ones are dropped, is the newest request that is held.

`QuickEditProofs`, for any entities, fields, bounds and interleavings of tasks, clicks and answers:

- Every operator on a page is shown to map good pages to good pages: those that have their
  types, on which a commit under way holds its entity in `committing`, and on which a field that is
  taken up or active is `activeField` or one of a given set (`Yielding(B)`). What an entity
  has all its fields do, and what the app has all other entities do, are folds; a fold keeps
  what each of its steps keeps (`FoldExists`, `FoldStays`, `TellAllKeeps`), again by the
  least number of elements.
- `TypesHold`: `Spec => []TypeOK`, with the mutex: `validate()` is the only way to another state, and
  refuses it while `isCommitting` is set.
- `OneIsEdited`: `Spec => []OneEditor`. While a handler runs `activeField` may be behind, so the
  lemmas speak of the set of active fields (`Good(A, a)`): a field that yields leaves it (`YieldYielding`),
  one that is activated joins it and becomes `activeField` (`ActivatedGood`), and what is left besides
  is what was bypassed (`ActivateYielding`).
- `KeptIsKept`, `ClosedIsLeft`: `Spec => []KeptIsStored` and `Spec => []ClosedIsInactive`, from
  `KeptInv`: every kept text is in the temporary store (`SiteKeeps`), none is newer than the last edit (`KeptFits`),
  and the page is in `Sound(Now)`, the pages on which nothing under way takes one of those texts
  away. `Now` names what the page has to be sound for: the texts kept, and the fields with a text that only
  the temporary store has (`Unsaved`). What `Sound` asks for, and why:
  - `Guarded`: the entity of such a field knows of its copy, is open or committing, and no request
    that is out spoils the text (`Spoils`): no form that starts the copy over and has yet to read it, no
    commit that is about to delete the copy, or has deleted it when the page is not told yet, and none that has read an older text and
    is to write it (`Overwrites`). This is the unlocked read and write of the site: a request
    that reads the copy after the text was stored writes it back, one that had read it before is why the
    field is in `racing`.
  - `OneStore`, `OneCommit`: an answer finds the field saving, or the entity committing, that it was meant for.
  - `UnsentFits`, `SubmitsFit`: no text on its way is older than the one stored, unless it raced.
  - `Ordered`, `Shut`: what is due for the fields of an entity that is left is queued before the calls that
    close it. `ClosedIsInactive` needs the case of each of the states `deactivating`, `closing`
    and `closed`: none follows from the others.
  - `TakenUp`, `Viewless`: the active field was taken up, and a closed entity has no views, so
    that neither brings a field of a closed entity back.

  These hold between handlers, not inside them. While one runs, a field it moves may be
  excused from some conditions (`loose`, `stray` in the parameter of `Sound`), which the lemmas
  on each operator lift again. `Movable` and `FieldFits` say when a field may change its
  state, `Fitting` when a call may be deferred, `Sendable` when a request may be sent.

`MachineNameProofs`:

- `Invariance`: timers and requests as sequences from which some are taken away
  (`ButFrom`, on `OrderedPlaces`, that the n-th member of a finite set of numbers exists).
  What is under way is one timer or one request, besides the first ones
  (`TimersSingle`, `OutSingle`, `XhrInv`: while a timer runs no request with xhr is out, which
  is what makes overwriting xhr harmless); it is no older than the name that is
  shown and no newer than the label (`TextInv`); and there is nothing for a name that
  can be edited unless it was there before (`EditInv`).
- `TypeCorrect`, `NamesNeverGoBack`, `TypedNamesAreKept` follow from it and from
  `NameSteps`, which lists what changes a name.

Only model-checked:

- liveness (`CallReturns`, `AbandonedReturns`, `CallEndsUnlessDangling`,
  `CatchesUp`), which is outside what the prover does;
- `NoSilentLoss` of QuickEdit. Its inductive invariant relates the text of every field to what the temporary store
  and every request and deferred call have of it, and is not proved.

## Findings

Where the code and what the repository says of it part. Each is a run that
violates one property; the counterexample is the scenario.

| Run | Stated at | What happens |
|---|---|---|
| `bookable_slots` | `CalendarOpeningVacancy.php:9` | Two guests validated against the same list are both accepted |
| `quickedit_discard` | `AppView.es6.js:391` | Discarding says that the changes "will not be saved", but nothing drops the site's copy. A session that changes a field starts it over, since the reset flag sent with a form is the boolean `!inTempStore` (`EditorView.es6.js:222`). But the array `fieldsInTempStore` is a default that entities share until they set their own (`EntityModel.es6.js:124`), and has Close ask about an entity of which nothing was changed; Save in that dialog (`AppView.es6.js:387`) commits the old copy with the discarded text |

Properties that hold say precisely where the documentation, or a test, goes too
far. Those named here are defined in the modules, and do not hold:

- `LeasedForCronTime` (CronQueue): `Cron.php:179` takes `isset()` for the time, so that every lease is one second,
  or none, where `CronQueueTest.php:92` and `QueueInterface.php:49` expect the declared time.
  `SharedOnlyIfLate` holds with the leases that the code takes.
- `InvalidatedIsInvalid` (CacheTags, `CacheTagsInvalidatorInterface.php:17`): a request invalidates
  a tag, another stores an item, the first changes the record and invalidates again: the second
  call is skipped and the item stays valid. `EveryChangeMarked` excepts what was skipped (`missed`).
- `UpToDate` (ChainedFast, `ChainedFastBackend.php:29`): a slow reader copies a replaced value after
  the stamp, or a slow writer puts back an earlier stamp. `StaleHasCause` names the causes.
- `EveryChangeMarked` allows a change whose invalidation is still to come after
  its commit, where `CacheTagsChecksumInterface.php:28` says "just before the
  commit". `InvalidatedAtCommit` states the documented order.
- Checksums add counts a request has loaded at different times. `CountsAgree`
  states that a hit means equal counts, and does not hold once two items
  share a tag (`Cids = {page, block}`, `TagsOf <- PageAndBlock`): a count loaded early and one loaded
  late may add up to another sum. Of the counts of one moment it does (`ValidIsCurrent`).
- `ListExact` and `OwnedByContact` hold while calls follow each other
  (`bookable_one`, `ListIsExact`, `BookingsAreOwned`). They do not hold with two requests: each saves the list, or the
  contact's references, as it has loaded them.
- `CallEndsUnlessDangling` names the one thing that keeps `postSave()` from its end:
  a reference to a deleted booking, with which size and list never agree and the
  save recurses. `CallEnds` leaves the exception out.
- `WithinSlotsOneByOne` has an exception even for one request: with slots counted
  as parties the vacancy constraint credits a contact with its old size although
  its booking was deleted by itself and holds no slot.
- `ShownWithinSlots` excepts what an overtaken edit has added (`unchecked`). A guest edits a
  contact twice at once: the one that is validated last credits itself with the larger party
  that the other has saved by then (`CalendarOpeningVacancyValidator.php:29`), or, if it asks for that
  size, is not checked at all, and adds the bookings once more.

- `OneEditor` excepts `bypassed`, where `AppView.es6.js:218` says "Ensure only one field (editor) at a time
  is active": only a field that is ready, or invalid, has the active one yield. An inactive one
  can be clicked as long as its entity is still `closing`, because another of its fields was rendered again, and
  a form that comes late activates a field of an entity that was left.

And what the models of the browser show without a property of their own:

- Quick Edit: an entity that is being left may stay in `deactivating` or
  `closing` for ever when one of its fields is rendered again or taken up meanwhile; a
  submit that fails on the way leaves its field in `saving`, as no error handler is given;
  `committing` stays when a save finds all fields ready already.
- Quick Edit: two submits of an entity that read the same copy (`QuickEditController.php:231`) write it back one after
  the other (`QuickEditFieldForm.php:161`), and one text is gone although both were answered ok: the title's, when
  another field takes over, and the body's, by Save. A submit and `entitySave()` (line 343) do the same. What
  `KeptIsStored` excepts as `racing` is exactly what was under way then.
- Quick Edit: a plain text can be typed into while it is being saved, and a field's form until it is rendered again. The
  text that comes with the answer replaces what was typed (`AppView.es6.js:506`). `NoSilentLoss` excepts it as `untimely`.
- Machine names: `CatchesUp` has four exceptions, since all labels share one timer and one
  request, a form has one debounced event, a failed request is not repeated, and the first
  request is not kept in `xhr`. `TypedKept` excepts what was under way when the
  user turned to the name.

## Not modelled

`PROJECT.json` lists every component with the reason. In short: rendering, forms,
themes and administration helpers keep no state that requests share. Date
arithmetic rests on PHP's time zone database. Vendored code is not the
program's. The store under bat and bee calls `db_query()`, `db_transaction()` and
`db_merge()`, which Drupal 9 no longer has, so it has no behaviour to model.
Installing modules is done by one administrator and is mostly file and schema
work. Of the browser's scripts, `core/misc/tabledrag.es6.js` keeps a state that is hard to follow (a
swap that is refused leaves the interval of the place it refused), but its
subject is geometry. The remaining components are in the plan.

Hazards of parts that are not modelled, beside those `PROJECT.json` lists: counts of tags
loaded earlier in a request (`CacheTagsChecksumTrait.php:131`); what a transaction wrote
is visible before its tags are invalidated (`Connection.php:1697`); mail sent
in a transaction that may roll back (`BookingContact.php:244`); savepoints out of order
(`Connection.php:1559`); merging collected keys (`CacheCollector.php:238`); the persistent
lock of an import (`ConfigImporter.php:536`); a rebuild that is not repeated
(`RouteBuilder.php:124`); attempts counted before they are registered (`Flood/DatabaseBackend.php:113`);
an order saved over a newer version (`Order.php:660`); the first number of a sequence
(`SequentialNumberPatternBase.php:216`).

## Plan

In order; what comes first matters to most requests of the site.

1. Done: `LeaseLock`, `DatabaseLock`, `CronQueue`, `CacheTags`, `ChainedFast`,
   `BookableCalendar`, `TabbingPromise`, `TabbingManager`, `QuickEdit`, `MachineName`; proofs
   of all of them.
2. `CacheCollector`: collected keys merged under a lock; no deleted value comes
   back, for two or three requests and two keys; an abstract map that it
   implements up to omissions.
3. `DbTransaction`: the stack of savepoints as a sequence with layers popped out of
   order, refining one atomic transaction; callbacks run once.
4. Clients of `LeaseLock`: `TempStore` (owners), `RouteBuilder` (a flag that is set
   while a rebuild runs), `ConfigImporter` (crash between steps).
5. `CommerceOrder`: versions, refresh, cart and checkout with the workflow of the
   order; `NumberPattern`: sequences under `SELECT FOR UPDATE`.
6. `Flood`, `Batch`, `MenuTreeStorage` (a sequential algorithm against a reference
   definition over small trees).
7. Extensions: a clock per node and `invalidate()` in `ChainedFast`; mail and several
   instances in `BookableCalendar`; savepoints in `CacheTags`; forms rebuilt by Ajax in
   `MachineName`.
8. An inductive invariant of `NoSilentLoss` in `QuickEdit`, and its proof.
