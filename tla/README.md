# Pyckle: formal models, checks and proofs

Pyckle connects customers who need an electronic device repaired with
technicians: a customer publishes a repair request, technicians quote, the
customer accepts one quotation, and the technician carries the order through
reception, diagnosis, price changes and closure with a PDF report. The backend
is FastAPI with SQLAlchemy (async) over PostgreSQL, Redis and an object storage;
the frontend is plain JavaScript.

This directory holds TLA+ modules translated from the source, the TLC
configurations that check them on small instances, and theorems about them that
the TLA+ proof system checks for every value of the constants.

    tlc -workers 2 -config order.cfg MCRepairOrder   # one run
    tlapm RepairOrderProofs.tla                      # one proof module

`PROJECT.json` lists the components, the runs, the hazards, the source lines each
definition stands for, and for every checked property the mutations of the model
(operators `Mut...` next to the ones they replace) that violate it.

## 1. Inventory

### How calls run

Every HTTP call has a database session of its own (`db/session.py`): it reads,
checks what it read, and commits; an exception rolls back. Isolation is READ
COMMITTED. Three facts about the session decide most of what can go wrong:

- objects are loaded once: a second SELECT of the same row returns the objects
  the session holds and does not refresh them;
- the UPDATE writes only the columns whose value differs from the one read;
- locks (`SELECT ... FOR UPDATE`) last until COMMIT or ROLLBACK, and hold back
  writers of the row and INSERTs of rows that refer to it, but no plain reader.

### Components

| Component | State | Operations | What makes it correct |
|---|---|---|---|
| Orders (`domains/orders`) | `orders`, `order_events`, `order_price_changes`, `order_cost_items` | transition, details, cost, propose/approve/reject price, complete, not-repairable, cancel | closing is atomic over five tables, once; nobody pays more than was agreed; no work under a pending price; the history tells the truth |
| Report (`orders/reporting.py`, `infrastructure/storage.py`) | `repair_reports`, the PDF in the storage | upload, commit, clean-up | the PDF is the committed report's, and there; no silent orphans; every call returns |
| Quotations (`domains/quotations`) | `quotations`; the request's status, the order, the conversation | create, withdraw, accept | one award, complete and final; notices are true; calls return |
| Repair requests (`domains/repair_requests`) | `repair_requests`, `repair_request_images`, objects | create, update, cancel, add image, delete | edits merge, constraints over columns hold, images are served and limited |
| Authentication (`domains/auth`, `core/security.py`, `core/dependencies.py`) | `users.token_version`, password hash; `refresh:*` in Redis | login, refresh, logout, change of password, deactivation | a session belongs to the current password; a refresh token is exchanged once |
| Registration, OAuth (`auth/service.py`, `auth/oauth_service.py`, `core/phone.py`) | `users`, `oauth_accounts`; state, exchange and onboarding tokens in Redis; the binding cookie | register, start, callback, exchange, complete | one use of each token, one user per person, nobody in another's session |
| Rate limits (`core/ratelimit.py`, `client_ip` in `core/dependencies.py`) | counters and blocks in Redis | reserve, block, reset | bounded attempts in any stretch of time; a block ends; one window per client |
| Conversations (`domains/conversations`) | `conversations`, `messages`, read marks | send, list and mark read, subscribe | no message after the archive, none lost to a reader, read means listed |
| Notifications, realtime (`domains/notifications`, `core/realtime.py`, `core/ws_tickets.py`, `api/ws.py`) | `notifications`, channels of Redis, sockets, tickets | create and push, read, connect | what is pushed exists; tickets are used once |
| Reviews (`domains/reviews`) | `reviews`, rating of the technician | create | one review per order, the rating is that of the reviews |
| Users, admin (`domains/users`, `domains/admin`) | `users` | edit, change password, deactivate, delete | nobody's rows lost with another's, orders outlive everything |
| Technicians (`domains/technicians`) | `technicians`, `specialties` | edit, search, figures | a profile that can be offered; a search that passes nobody over; figures that add up |
| Catalogue (`domains/geo`, `db/seed.py`, migration 3715) | departments, provinces, districts | seed, list, resolve, back-fill | whole after every seeding; what is offered is accepted |
| Policies (`permissions/rbac.py`, `repair_requests/privacy.py`, the `access` modules) | none | who reads, lists, manages | they agree on who sees an address and an order |
| Schema (`migrations`) | the tables | upgrade, downgrade | going back loses nothing silently |
| Client (`frontend/src`) | tokens and user in storage, route, chat page, socket | calls with one refresh at a time, navigation, reconnection | no lost login, no late page over a newer one, no event lost or shown twice |

### How they interact

- `accept` (Quotations) creates the order and the conversation and writes the
  request; from then on the order's handlers write the request and archive the
  conversation; the request's own `cancel`, and a `create` of a quotation that read
  it open before the award, write it behind their back.
- `complete` and `not_repairable` (Orders) upload the PDF (Report) in the middle
  of their transaction.
- Almost every handler creates notifications, some before and some after the
  commit of what they announce, and pushes them through Redis to the sockets.
- A change of password (Users) invalidates tokens that `dependencies.py` checks
  on each call and that `refresh` exchanges (Authentication).

### Hard behaviours

Overlapping calls on stale reads; locks taken after the read they should
protect; two stores without a common transaction (database and object storage,
database and Redis); commits whose reply is lost; clean-ups that run late;
crashes between a commit and what follows it. `PROJECT.json` lists each at its
line under `hazards`, with the properties that cover it.

## 2. Modules

### RepairOrder and OrderContract

One order from the acceptance to its closure. Every writing handler of
`domains/orders` begins with the lock of the order row, so a handler is two
steps: `Lock` (lock and load; `loaded` keeps the request status it read) and the
action of the handler up to its commit, or `Refused`. Actions correspond to
handlers: `TransitionStatus`, `UpdateDetails`, `AddCostItem`,
`ProposeReduction`/`ProposeIncrease` (the two branches of `propose`),
`ApproveChange`, `RejectChange`, `Complete`, `NotRepairable`, `Cancel`. The
request's cancellation, which takes no lock of the order, is
`RequestCancelCheck` and `RequestCancelCommit`; the end of a quotation's creation
in a call that read the request open before the acceptance, and that writes
`quoted` over whatever the request has become, is `QuotationCommit`. Amounts are numbers; `Stored` is
what the NUMERIC(10,2) column makes of them, any idempotent and monotone
rounding, because `propose` compares the amount as submitted and stores it
rounded. The history is abstracted to its latest status, the set of statuses it
holds and whether it has an event without a status (`remarked`); cost items to their number; texts to whether they are recorded; the
rows of other tables to their status. Ratings, notifications, previews of the
report and texts are left out.

`OrderContract` is the abstract specification: open until closed once, charge
within what was agreed, report and end of the conversation in the closing step.
`ImplementsContract` maps the five tables to it.

### Quoting

One request and the calls of its customer and several technicians, each two or
three steps: the read its checks are made on, the lock (accept only), the commit,
the notice in a second transaction. `call[k].seen` and `.offer` are the statuses
as the call read them: `Acceptable` is evaluated after the lock on those, which
is what the code does. `RowFree` is the wait for the lock; `CreateCommit` needs
it because of the foreign key. The order's handlers appear as `OrderRead`,
`OrderProgress`, `OrderClose`: what they do to the request. `Abort` is a refusal, a
constraint, or the death of the process.

### ReportStorage

The closing calls of one order over database and storage. `report` is the
attempt whose row is committed, `document` the attempt whose PDF lies under the
one key all attempts share; `pending` is `_pending_report_key`; `orderStatus` is
all it keeps of the order. `UploadFails`,
`Crash` and a failing `Cleanup` are bounded by `MaxFaults` where they leave
something behind; `CommitUnknown` is a commit whose reply is lost.

### Sessions

One user: the row (`user`), the keys in Redis (`epoch`, `live`), the tokens each
call issued. Login, refresh, logout and change of password are sequences of
single reads, UPDATEs and Redis commands, with `Crash` after any of them,
deactivation, expiry, and a Redis that loses its data (`Flush`). A password is
named by the call that set it, a pair of tokens by the call that issued it.

### RequestEditing and RequestImages

`RequestEditing`: `PATCH` calls that read, merge and check (`UpdateRead`) and
write the changed columns later (`UpdateCommit`), with the status moving behind
them; a payload satisfies what its schema validates. `RequestImages`: uploads (count, save, commit, clean up) and the
administrator's deletion (objects one by one, then the rows), with faults and lost
replies, over a storage with one key per upload.

### RequestPrivacy (with Quoting)

The policies and lists evaluated over the tables of Quoting, so that they meet
every combination of statuses that overlapping calls leave: `CanView`,
`CanSeeAddress`, `OrderViewer`, `ShowsInternal`, `Participates` and the others are
the functions of that name; `Mine`, `Available`, `Moderated`, `OrderListed` are
the queries of the lists. A viewer is a user with any set of roles
(`ROLE_PERMISSIONS`, `Requires`), with or without a technician's profile.

### OrderFigures and OrderMigration (with RepairOrder)

Functions of an order's state, checked in every state the handlers reach.
`OrderFigures`: the counters of the technician's panel, of the customer's and of
the administration, each with the join and the list of statuses of its query.
`OrderMigration`: migration f2c1d3e4a5b6, which gave orders their present life
cycle: `GoesThrough` says whether its downgrade meets a constraint, `RoundTrip`
what is left of an order, `Present`, after going back and forth.

### SignIn, PhoneNumbers and RegisteredPhones

`SignIn`: flows with Google (`Begin`, `Callback`, `Exchange` and what lies between;
a code is exchanged in any browser, and `given` keeps in which)
and calls of `register` and `complete`, each a read of what is available, the consumption of
its token, the insertion. Keys of Redis may expire between any two steps,
administrators deactivate and delete accounts, and an account of Google changes
its address. The unique indexes are the only locks on users. Google's answer is
an external choice among `People`; that its identity token is verified is taken
as the code takes it. `PhoneNumbers`: the normal form of a number in
`core/phone.py` and in the migration that back-filled the column, over every string
of the digits the two tell apart, with national numbers of three digits for nine.
`RegisteredPhones` puts the two together: the phones of the rows of SignIn are
numbers in normal form.

### RateLimiter and ClientAddress

`RateLimiter`: the attempts of one identifier, each call a sequence of the Redis
commands it sends, with crashes between them, resets by a right password, and a
clock that counts down the keys. `ClientAddress`: `client_ip`, a function of the
connection and of `X-Real-IP`, over every way a request can reach the program
through Nginx or past it; it extends `RateLimiter`, whose identifier is an
address and an account.

### Messaging

Calls of `send_message` (check, commit, publish, notify, commit), the closing
handler that archives the conversation, the listing that marks as read and
commits (`List`) before it is answered or lost (`Answer`, `AnswerLost`), and a
page with a socket: ticket, subscription, messages on their way, a connection
that breaks. A publication reaches the sockets subscribed at that moment, and
Redis may not answer. `begun` is the `created_at` of a row, the time at which its
transaction began, taken from a clock that the calls count on; `Precedes` orders
the listing by it.

### Deletion

Which rows of the user's, the customer's and the technician's history exist, and
the foreign keys between them (`CascadeKeys`, `SetNullKeys`, `RestrictKeys`, from
the models). The counts of `admin_delete` are separate steps, then the DELETE with
its cascade; every other handler inserts its row whenever its parents exist. A
request is published with the specialty or without (`PublishRequest`), and an edit
gives it the specialty or takes it away at any time (`EditRequest`); `given` keeps
that one gave it since the deletion began.

### Technicians, GeoCatalogue and PlacesCatalogue

`Technicians`: overlapping edits of a profile (read and check, then the UPDATE of
the columns that differ), reviews (read, insert, average and count flushed,
commit) and searches (one query for the page, one for the total, level by
level). `GeoCatalogue`: seeding, the lists of a form, what `resolve` accepts and
what a profile stores, and the back-fill of legacy texts, over every pair of
small data files and over a piece of the shipped one, named by its own names
because they repeat. `PlacesCatalogue` puts the two together: the places of the
profiles are those that `resolve` accepts from a catalogue of their names.

### History variables

`crossed`, `late`, `overlapped` and `lost` are no state of the program. They record that
calls overlapped, and properties use them as conditions: what the code keeps as
long as certain calls do not overlap, while everything else may. `born`, `given`,
`heard`, `shown` and `unanswered` record what was inserted, edited, handed out,
published, shown or lost. None of
them is ever read by a guard. Each condition is needed: without it TLC finds the interleavings listed
in section 5.

## 3. Runs

Each invariant or property of a run is one question. Where the answer has
several parts it is a conjunction of definitions with names and comments of
their own, the type invariant being one of them, and the proofs are about the
parts.

| Run | Instance | Properties | Shows |
|---|---|---|---|
| order | 7 amounts in half cents, 2 price changes, 2 request cancellations, 1 late quotation, 1 cost item (2.6 M states) | ClosureIsWhole, PriceIsAgreed, OnlyAnIncreaseSkipsReception, OnlyUntouchedOrdersGoBack, FiguresAddUp, PastStands, ImplementsContract | every handler in every order, and the refinement |
| quoting | 2 technicians, 2 calls (97 k) | AwardIsWhole, AwardIsComplete, OnlyThePartiesSee, AwardIsForGood, CallsReturn | any two calls overlapping, any number in sequence; what each viewer is shown |
| report_storage | 3 attempts, 2 faults, lost replies (2.4 k) | ReportHasItsDocument, ClosedOnce, AttemptsEnd | two stores, retries and faults |
| sessions | 5 calls (369 k) | PasswordRules, OneSuccessor, RevokedStaysRevoked | logins, refreshes and changes of password in any overlap |
| editing | 2 calls, 2 amounts, 3 districts (356 k) | RowIsCoherent, EditsMergeUntilTheAward | overlapping edits |
| images | 4 uploads, limit 2, 2 faults (36 k) | ImagesHaveTheirObjects, SerialUploadsAreLimited | uploads against a deletion |
| sign_in | 2 browsers, 2 flows, 2 calls, 1 account of Google, 2 emails, 1 phone (3.1 M) | AccountsAreSingle, SessionsAreOfOneHand, BurntNeedsAReason, PhonesAreFoundAgain | sign-in and registration in any overlap |
| rate_limit | 3 calls, limit 3, 4 ticks, 3 hosts (51 k) | WindowIsOfRecentAttempts, EachClientHasItsLimit, BlocksEnd | windows, crashes and resets in time |
| messaging | 2 messages, listings of 1, one under way at a time (2.1 M) | MessagesReachTheirReader, WhatIsToldIsStored, HistoryStands, EveryMessageIsAnnounced | messages, archive, listings and their answers, socket |
| deletion | 2 deletions (680 k) | DeletionsStayApart | counts and cascades among insertions and edits |
| technicians | 2 technicians, 3 places, 2 orders, 2 calls; 2 departments, 3 provinces and districts (1.9 M) | ShownReviewsExist, CatalogueStaysWhole, EditAloneIsWhole, ReviewsAddUp, NobodyNearerIsPassedOver | edits, reviews, searches; the catalogue |
| increase_without_approval | as order, without cancellations and quotations | IncreaseNeedsApproval, violated | section 5 |

Bounds and why they are enough. Two price changes are needed for a change under
another and for a stale approved price; the amounts leave room for two on
both sides of the quoted price, with halves of a cent so that rounding matters;
two cancellations and one late quotation of the request write it in every order
around a close.
In Quoting, identities are created and reused: a call that has ended can be made
again, so two calls are two *overlapping* calls and any number in sequence (the
proofs are for any number); the quotation of a technician is unique, so two
technicians give a winner and another. In ReportStorage one attempt fails, one
retries and a third comes late. In Sessions five calls are a login and a refresh
of a first session, two changes of password and a third writer. In
RequestEditing two overlapping calls already break every constraint over two
columns. In RequestImages the limit is passed by one upload and two more race
with the deletion. In SignIn two flows and two forms are enough for a token sent
twice, two people with one email or phone, and a flow taken to another browser.
In RateLimiter the limit is reached by three overlapping calls, and four ticks
give every admitted attempt an age of its own; counts above the limit are alike.
In Messaging two messages overlap each other and the archive, and a listing of
one cuts the history; the listings of the two parties mark different rows, so one
of them is under way at a time (`AtOnce`; the proofs are for any number). In Deletion a second target follows what the first left
behind. In Technicians two reviews of one technician and two edits of another
overlap with a search, at three places that differ in district, province and
department.

Symmetry is used over calls, technicians, uploads and browsers, which are
interchangeable there, and never in a run with liveness. Deadlock is checked
where the system always goes on; the configurations of the others say why they
may end (a cancelled request, calls that have all returned).

### Fairness

`CallsReturn`, `AttemptsEnd`, `BlocksEnd` and `EveryMessageIsAnnounced` are the
liveness properties. The scheduler of asyncio runs every call that can go on,
and PostgreSQL grants a lock that keeps becoming free in the order of its queue:
hence strong fairness for the steps that wait for it, weak fairness for the
rest of ReportStorage and for the steps of a call and of the closing handler in
Messaging. Calls in progress in Quoting go on strongly fairly because other calls
toggle what enables them. In RateLimiter only time is fair (`Tick`): a block has
to end without any help of its caller, who may go on trying. Nobody has to begin
a call; no crash, fault or cancellation has to happen; a rollback is fair only
for a call that cannot go on (`MustFail`).

## 4. Theorems

All are checked by TLAPS from nothing but the named assumptions on the constants,
and hold for any number of calls, users, technicians, messages, attempts, price
changes and amounts. The assumptions, each as weak as the code justifies:

- null values are nobody's (`NobodyAssumption`, `NoneAssumption`), limits and
  lengths are natural numbers, positive where the code has them so
  (`LimitsAssumption`, `LimitAssumption`, `MaxCostItemsAssumption`,
  `FaultsAssumption`, `RepeatsAssumption`, `NationalDigitsAssumption`);
- amounts are natural numbers and the column's rounding is idempotent and
  monotone (`AmountsAssumption`, `StoredAssumption`, `QuotedPriceAssumption`);
- the owner of a request is none of its technicians (`CustomerAssumption`); each
  message has a sender, and the reader is one of the two (`ByAssumption`); each
  order has one technician, and there are finitely many (`OrdersAssumption`);
- what a form can bring has passed its schema: `PayloadsAssumption` for profiles,
  `PhonesAssumption` for phones in normal form; places that agree in a smaller
  unit agree in the larger ones (`PlacesAssumption`);
- the proxies are hosts (`HostsAssumption`), and the shipped piece of the catalogue
  is coherent and has names that are unique where the code looks them up
  (`ShippedAssumption`).

TLC evaluates every one of them on the instance of a run.

- **RepairOrderProofs** (RepairOrder, OrderContract, OrderFigures, OrderMigration,
  ReportStorage). `ConsentBoundsThePrice` and `PendingChangeIsSafe` rest on
  `PriceInv`: besides the properties themselves, prices in the tables are already
  rounded (`PricesAreStored`; otherwise an approval could move the price past what
  was agreed) and every approved price is within what the customer agreed to
  (`ApprovedWithinConsent`; a close may name any of them). `ClosureIsAtomic` rests
  on `ClosureInv`, whose strengthening is about the request: once the order is
  closed, the status the lock holder has loaded is also one of the settled ones
  (`LoadedRequestEnded`), because `SetRequest` writes nothing when it read the same
  value; settled are the ended ones, and `quoted` once a late quotation has
  committed (`RequestSettled`). `ClosedStaysClosed` and `DecisionsStand` follow per action.
  `OrderImplementsContract` shows that initial states map to initial states and
  every step to one of Lower, Agree, Finish, WalkAway or a stutter.
  `ReceptionIsSkippedByIncreases` needs that a proposed increase never
  disappears. `FiguresAgree` follows from `ClosureInv` and the type: each counter
  looks at a state from its own side. `NoWayBackFromWork` needs `MigrationInv`:
  an order that awaits its device has nothing but its creation in its history
  (`AwaitedHistory`), and one whose history has no event without a status has no
  text, no report and no price change (`Unwritten`).
  The document: `ReportInv` says that the attempt in its transaction holds the
  lock, and that a PDF without a row is owned by an attempt that still has to
  clean up, or a fault happened; `KeptInv`, behind `ReportIsNotLost`, that with no
  late clean-up nobody who still has something to delete shares the key with the
  report.
- **QuotingProofs** (Quoting, RequestPrivacy). `QuotingInv` adds to the three
  invariants that a call past its commit is about something in the tables.
  `AwardAloneIsComplete` needs `AloneInv`: while nothing crossed an acceptance, what
  a call has read and is about to write still fits the tables
  (`CallsAreCurrent`). `OnlyPartiesSee` then looks at no step: the technician that
  each policy looks for is the one of the order (`OneTechnician`).
- **RequestProofs** (RequestEditing, RequestImages). What a call is about to write
  is named by its payload (`EditsAreNamed`); while nothing overlaps, the row is
  still the one it checked (`SerialInv`). Of images, `MissingInv` follows an object
  from its upload to its row, `OrphanInv` says who is going to discard an object
  without a row, and `LimitInv` that the only upload under way has counted what
  is still there; they bound a set of rows by its cardinality, with the library's
  theorems on finite sets.
- **AccountProofs** (Sessions, Deletion). `TokensInv` (a refresh token is held by the
  one call that took it away, or has become one pair), `VersionsInv` (no call and
  no token is ahead of the row's version), `VouchedInv` (a token of the row's
  version was vouched for by the row's password). `WhatIsDeletedIsItsOwn` rests on
  `DeletionInv`: no row refers to one that is gone (`KeysHold`), what depends on a
  new row is new (`BornTogether`), and what a count did not find, or found not to
  refer to the specialty, was inserted or edited behind it (`CountedAreBorn`). The cascade is computed as a fixed point in a
  bounded number of rounds; that they are enough is `TakenIsAll`, by the
  `Height` of a table: no chain of foreign keys is longer than four.
- **SignInProofs** (SignIn, PhoneNumbers, RegisteredPhones). `BrowserInv`: a cookie is
  of a flow its browser began, so a flow past its callback is in the browser it
  began in. `TokenInv`: of the calls of one flow at most one is past its token.
  `RowInv`: a live row is what its call brought, and the unique indexes hold.
  `UsedInv`: whatever came of a flow, its callback is over and was in the browser
  that began it. `SessionInv`: the user a flow leads to was created with the flow's
  account of Google, and its code is either there or was handed out. `ConflictInv`: what a call checked still holds at its insertion, or
  another's commit overtook it. `PhonesStayFound`: a prefix is a statement about
  digits (`CodesByDigits`), after which the lengths decide which forms the two
  programs tell apart (`NormalForms`); it holds for any length of a number and any
  rows that the migration comes to first, where the run has one phone.
- **RateLimiterProofs** (RateLimiter, ClientAddress). `WindowInv`: the attempts of the
  open window are as many as its counter says, up to the limit, and those that
  lie further back are of one window before it. Hence twice the limit in any
  stretch of a block's length. `EachClientIsLimited` is about the function of the
  address alone.
- **TechniciansProofs** (Technicians, GeoCatalogue, PlacesCatalogue). `EditInv`: put into
  the row it was made from, an edit is a valid profile. `ReviewInv` and
  `CountedInv`: rows inserted by two calls are of two orders, and each count is of
  reviews that stand or that its call is about to commit. `SearchInv`: past a
  level of the search there was nobody to show on it. `CatalogueIsWhole`: seeding
  preserves a coherent catalogue from coherent data files, whatever is seeded
  twice, and a place chosen from its lists is accepted and stored as itself.
- **MessagingProofs** (Messaging). `CallInv` (what a call has left behind says how far
  it got), `TimesAreDistinct` and `LaterCallsCross` (a later commit of an earlier
  beginning is known as a crossing), `ArchiveInv`, `PageInv` (a
  listing under way that will make the page whole lacks only what came through
  the socket since) and `AnswersInv` (listings under way are marked already). They
  give that a page which lists behind its socket misses nothing published, what
  is_read is of, that what was told is stored, and that the history only grows.

Each of these modules ends its parts with the theorems that state the properties
of the runs as their configurations name them. With them every safety and every
action property that a passing run checks is proved.

Only model-checked are the four liveness properties (`CallsReturn`, `AttemptsEnd`,
`BlocksEnd`, `EveryMessageIsAnnounced`), which need ENABLED and fairness and are
beyond the prover, and the violation of `IncreaseNeedsApproval`, which is a
counterexample and nothing to prove. That the state spaces of the runs reach the
cases the properties are about is shown by the mutations in `PROJECT.json`, not by
the theorems.

## 5. Where the code and its documentation part

One run shows a disagreement on a property of its own:
`increase_without_approval`. A close may name any price that was ever approved;
after two reductions the first of them raises the price without the customer.

Others are visible as conditions of the properties that hold. Dropping the
condition makes TLC show them:

- `OnlyAnIncreaseSkipsReception`: an increase proposed while the device is
  awaited leads to diagnosis without reception.
- `ClosureIsCoherent` (`RequestSettled`): a quotation created across the acceptance
  sets the request back to quoted without any lock, also after the close of its
  order; nothing but a cancellation ends that request.
- `AwardIsComplete`, `CancelledIsNotAwarded` (`~crossed`): a quotation created
  while another is accepted stays pending and sets the request back to quoted, and
  one created during a cancellation reopens the request; a withdrawal read before
  the acceptance is written over the winner's; what `accept` checks behind its lock
  was read before it, so a cancelled request can still get an order.
- `ReportIsKept` (`~late`): the clean-up of a failed close runs without the lock
  and deletes the PDF of a retry; a commit whose reply is lost deletes the PDF it
  committed. An order cancelled by its parties closes without a report.
- `SessionsAreOfThePassword`, `PasswordStands`, `RevokedStaysRevoked`
  (`~crossed`): two changes of password that cross write the same version, and a
  third one a lower; a login that renews a hash stores the password it verified
  over one changed meanwhile.
- `SerialEditsAreCoherent`, `AwardedIsNotEdited`, `SerialUploadsAreLimited`,
  `EditAloneIsValid`, `MoveAloneIsCoherent` (overlaps): overlapping edits may leave
  budgets crossed, a repair at home or a workshop without address, a technician
  without a modality, a district in another department; an edit may be committed
  after the award; two uploads may pass the limit.
- `MissingNeedsAReason` (`lost`, `deletion`): an upload whose commit reply was lost
  loses its object, and an administrator's deletion removes the images first and
  may then be refused because the request has an order.
- `ListsAgree`: a customer who also has a technician's profile is not listed his
  own orders by `GET /orders`.
- `OnlyUntouchedOrdersGoBack`: the downgrade of f2c1d3e4a5b6, which README.md:179
  and 198 show as a plain command, fails as soon as one order of the whole
  table was received, described, repriced or closed (an event without a status,
  or a notice the old CHECK does not admit); where it goes through, it drops the
  cost items.
- `IssuedWhereBegun`: the binding of a sign-in to its browser ends with the
  callback. `POST /auth/oauth/exchange` and `/complete` are bound to no browser: whoever
  brings the code or the onboarding token first gets the session or the account.
- `SpecialtiesAreKept` (`born`, `given`): a request published with a specialty, or
  edited to have it (`PATCH`, service.py:168), between the count and the DELETE of
  that specialty loses it, and any technician may then quote.
- `FiguresAddUp`: the customer's completed repairs count orders closed as not
  repairable.
- `BurntNeedsAReason`: a form that passed every check may be refused at the
  insertion, when its onboarding token is already gone.
- `BackfillAgrees`: the migration leaves out national numbers written with 00 in
  front, which the application accepts.
- `AttemptsAreLimited`, `RefusedForRecentAttempts`: README.md:322 says the third
  failure blocks for 300 seconds; the fourth attempt is the first refused, the block ends
  with the window of the first attempt, and the key `blocked` is never read.
- `NothingIsMissed` (`whole`, `heard`): listings return the oldest messages up to
  their limit, so a long conversation (README.md:414: "con todo el historial") is
  cut at its newest end; a message whose publication failed reaches no socket;
  and the client lists before it listens (its page is not one of those the property
  speaks of).
- `ReadMeansListed` (`unanswered`): list_messages commits is_read before it answers, so
  a crash or a lost connection leaves messages read that nobody was shown.
- `NoticesFollowMessages` (`crashed`): a notice is pushed before its commit.
- `CountIsOfReviews`: overlapping reviews lose one from the count, until the next
  one alone puts it right.
- `NobodyNearerIsPassedOver` (`words`): the count of a search by words lacks the join
  to the technician's user, so any user's name makes the total positive and the
  search stops widening on an empty page.
- `BackfillStaysInTheDepartment`: a legacy text such as Miraflores, Lima is placed
  in either of the two districts of that name. `SeedingKeepsItWhole`: rows that
  exist are not updated, so a data file that moved a province would leave its
  old row beside the new districts.

## 6. Not modelled, and what is left

Properties of an order are about orders created by an acceptance: those that the
upgrade of f2c1d3e4a5b6 made of older ones (a completed one has no report, no
texts and no price changes) are not among the initial states.

Not modelled, and why: the client (`frontend/src`), whose sessions, pages and sockets
are a system of their own that the server does not rely on (what it may do is an
input of Sessions, SignIn and Messaging); the drawing of the PDF; demonstration
data; configuration, logging and the mapping of exceptions to answers; offsets of
pagination; the verification of technicians, the search in their texts and the
rows that link them to their specialties; the profile of a customer beyond the
place it stores; `mark_all_read` and the socket of notifications, which is the
conversation's without a listing; the signature and time of a media URL, one pure
function; previews of the report; the reverse proxy, but for the header it sets.

What is left is to state more and prove it. Abstract specifications still worth
stating: a contract of the request that composes Quoting with OrderContract, so
that what the two say of the request's status is one statement; and a log of
messages that Messaging implements, with reading as a prefix of it. Lemmas that
two proof modules state for themselves (sets that grow by one element, prefixes
of sequences) could be one module.
