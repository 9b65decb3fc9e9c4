# TLA+ verification of the hotel management backend

The backend (`src/src`, NestJS over Prisma and PostgreSQL) takes bookings of rooms, payments of
bookings, and reports on rooms, from users who log in and hold tokens. Its handlers do several database statements each, none inside a
transaction, and several server instances may run them. This directory holds TLA+ models of the
services that change data and of what they answer about it, the TLC runs that check them on small instances, and TLAPS
proofs of the main results for every size.

## 1. Inventory

| part | state | operations | hard behaviour | what makes it correct |
|---|---|---|---|---|
| booking service | `bookings`, `rooms.status`, `housekeeping`, audit log | create, update, status, cancel, check-in, check-out | status read before an await and written after it; availability checked two statements before the insert; the room written after the booking; a swallowed housekeeping error | timestamps tell a possible history; no overlap is admitted; room status has a booking that explains it; numbers are unique and consecutive; the log is truthful |
| daily numbers (booking and payment service) | the numbers in the table | generate the next number | two requests generate the same one; the fifth digit after 9999 | consecutive, distinct, and generation stops for the day rather than wraps |
| payment service | `payments`, `bookings.paymentStatus`, money at the gateway, audit log | create, process, refund | external effect before the row is written; recomputed status that is stale; a handler that throws at its end | never paid above the price, never returned above the payment, status backed by money |
| room service | `rooms`, `hotels.totalRooms`, `housekeeping`, audit log | create, update, status, delete, housekeeping report | counter and table in two statements; a find before a create; queries that use enum members that do not exist | unique numbers, references kept, counter exact, few open tasks |
| audit log | `audit_logs` | `logAction`, three queries, deletion of old entries | its insert may fail and is swallowed | an entry reports what was done |
| authentication (register, login, refresh, logout, password reset, two-factor) | `users`, `refresh_tokens`, `user_sessions` | 10 handlers, token clean-up | two refreshes of one token; a stop between the new token and the revocation of the old; tokens of one second; a session kept under one token's hash and looked for under another's | a token is accepted until it is exchanged, named by a logout or over; an exchanged token does not stay valid; its successors are few |
| guards, roles, strategies | none | decide on one request | none | - |
| listings, availability search, statistics | none | queries | a page and its count are two statements over rows that move; figures of tables that two services write; a search that filters by statuses that do not exist | a walk misses and repeats no more than what moved; figures differ by no more than what clients marked; what is offered is free |
| Prisma service, configuration, logger, filters, interceptor | connection, settings | - | none | - |
| employee, guest, health, hotel, housekeeping, invoice, notification, report, user modules; mail, redis, storage, database | none | none | none | the classes are empty |

How they interact: the services share tables, and none calls another but for
`AuditService.logAction`, which all of them call last, and the token service, which the authentication
service calls. The booking service writes `rooms.status`, which the room service also writes and
searches; the payment service writes `bookings.paymentStatus`; the room service deletes rooms that
bookings refer to; the clean-ups delete rows that handlers in progress have read. Client requests are
the only source of activity: there are no jobs, queues or callbacks, and the two clean-ups are
called by nothing in the repository (they are modelled as requests that may come).

## 2. Modules

| module | what it is |
|---|---|
| `Numbering` | the generator of daily numbers, in string order, with its overflow |
| `BookingLifecycle` | abstract specification: the events of a booking only accumulate, each after its predecessor |
| `Bookings` | the booking service; `ImplementsLifecycle` is its refinement of the abstract specification |
| `Payments` | the payment service and the gateway's ledger |
| `Rooms` | the room service, with the booking service as its environment |
| `Hotel` | `Bookings` and `Rooms` on the tables they share, the availability search, the counts of both statistics; `ImplementsRooms`: the booking service is an environment that `Rooms` allows |
| `TokenLife` | abstract specification: nobody loses a token that was neither exchanged nor named by a logout before its life is over |
| `Tokens` | the authentication and token services; `ImplementsTokenLife` is its refinement of the abstract specification |
| `Listings` | a walk through the pages of a table that changes |
| `MCBookings`, `MCPayments`, `MCRooms`, `MCHotel`, `MCTokens`, `MCListings` | instances for TLC: symmetry sets, a price, views |
| `NumberingProofs`, `BookingsProofs`, `PaymentsProofs`, `RoomsProofs`, `HotelProofs`, `TokensProofs`, `ListingsProofs` | theorems and proofs of the module of that name |
| `SumProofs` | lemmas about sums over finite sets, for the amounts of payments |

**A request is a process.** `req[r]` is what request `r` still has to do: the handler (`op`), the
next statement (`pc`) and the locals the code carries there. One action is one awaited statement
that reads or writes shared rows; whatever the code computes between two awaits is part of the
action before or after. The arrival of a request is one step with its first read: a request the
first checks refuse changes nothing and takes no step. `Fail` ends a request between any two
statements: a statement that throws, or a server that stops; what was written stays written. At
`audit` it also stands for the error that `logAction` swallows.

| action | code |
|---|---|
| `BeginCreate`, `CheckRoomAvailability`, `GenerateBookingNumber`, `InsertBooking` | the awaits of `createBooking` in their order |
| `BeginUpdate`, `WriteDates` | `updateBooking` |
| `BeginStatus`, `BeginCancel`, `BeginCheckIn`, `BeginCheckOut` | the reads and checks of the four status handlers |
| `WriteStatus`, `UpdateRoom`, `TriggerHousekeeping`, `LogAction` | the statements these handlers (and the tail of `createBooking`) share |
| `BeginCreate`, `GeneratePaymentNumber`, `InsertPayment` | `createPayment` |
| `BeginProcess`, `WritePaid`; `BeginRefund`, `ProcessGatewayRefund`, `WriteRefunded` | `processPayment`; `refundPayment` |
| `CalculateTotalPaid`, `UpdateBooking` | their common end; in a refund `UpdateBooking` is the last step, since the audit entry names the undeclared `refundReason` and building it throws |
| `BeginCreate`, `InsertRoom`, `UpdateTotalRooms` | `createRoom` |
| `BeginUpdate`, `GetRoomById`, `CheckNumber`, `WriteRoom` | `updateRoom` (`BeginStatus`, `GetRoomById`, `WriteRoom` for `updateRoomStatus`) |
| `BeginDelete`, `GetRoomById`, `DeleteRoom`, `UpdateTotalRooms` | `deleteRoom`; its count of active bookings asks for two statuses that do not exist and finds none |
| `BeginHousekeeping`, `WriteHousekeeping`, `FindTask`, `WriteTask` | `updateHousekeepingStatus` |
| `BookRoom`, `WriteBookedStatus` | what the booking service does to rooms, in `Rooms` |
| `RoomBegin`, `RoomContinue`, `RoomFail`; `BookingBegin`, `BookingContinue`, `BookingFail` | the actions of `Rooms` and of `Bookings`, in `Hotel`; `BookingBegin` adds the read of the room, `BookingContinue` the foreign key (`HasRoom`) |
| `BeginRegister`, `CreateUser`, `GenerateTokens`, `CreateSession`, `LogAction` | `register`; from `GenerateTokens` on also `login` (`BeginLogin`) |
| `BeginRefresh`, `GetUser`, `GenerateTokens`, `RevokeToken`, `RemoveSession` | `refreshToken` |
| `BeginLogout`, `RevokeToken`, `RemoveSession`, `LogAction` | `logout` |
| `BeginCleanUp`, `CleanSessions` | `cleanupExpiredTokens` |
| `SwallowError` | the errors that `createSession` and `revokeToken` log and keep |
| `Tick` | a second passes |
| `BeginWalk`, `FindMany`, `Count`, `Answer` | `getBookings`, `getPayments`, `getAuditLogs`, page after page |
| `Add`, `Enter`, `Leave`, `CleanUpOldLogs` | what other requests do to the listed table meanwhile |

Modelled by what they do:

* the numbers: a number is its sequence within one day. `Leading` and `Precedes` are the string
  order after the padding is exceeded, `LastDigits` is `slice(-4)`;
* the unique index on `bookingNumber` and `paymentNumber` and the one on the hotel and the room
  number refuse an insert or update at the statement itself;
* `triggerHousekeeping` provides neither `hotelId` nor a default for it, so its create is rejected
  (`RequiredColumns`, `ProvidedColumns`, `CreatedTask`), and the error is swallowed;
* `RoomStatus.CONFIRMED` and `.CHECKED_IN` are not in the enum and thus `undefined`. Whether a
  list filter may hold `undefined` is the constant `UndefinedInList`: the Prisma of package.json
  (5.2) rejects it. The value TRUE admits more behaviour (`GetRoomById` may go on), so all runs
  use it. The availability search swallows the rejection, and its list of unavailable rooms is empty
  either way (`SoughtStatuses`, `UnavailableRoomIds`);
* a `bookingPrice` in an update is never `===` to the row's decimal object, so it always makes the
  room AVAILABLE;
* foreign keys of bookings and housekeeping tasks restrict the deletion of their room, and refuse the
  insert of a booking whose room is gone;
* a token is its user and the second of its signing (`iat`): the payload holds nothing else that
  changes, so two tokens of a user and a second are the same string, and the unique index on
  `refresh_tokens.token` refuses the second. It is signed at the end of the step before the
  insert. The `expiresAt` of its row is a fraction of a second later than the expiry in the token;
* a session row lives from `createSession`, which may be a second after the signing (`SessionExpired`);
* `sha256` is injective, and a refresh token is never an access token (`Hash`);
* `updateMany` with `token: undefined` has no filter: it reaches every row (`Named`); hashing
  `undefined` throws, and `revokeToken` swallows that;
* a client may present any valid token on record, also one whose response got lost;
* a row of a listing is its place in the order of creation; `Promise.all` runs `FindMany` and `Count`
  in either order.

Abstracted: guests, prices of bookings, deposits, notes, guests counts, and the users who act;
timestamps are the set of those that are not null. Prices and amounts are any integers: neither
`createPayment` nor `refundPayment` has a lower bound, and a price may be a product with a negative number of nights. The
gateway gives nothing back for zero or less (`Money`). A refund always states a number.
Passwords and two-factor codes are "the check was passed". A housekeeping report always names a status. The rooms that `Bookings` is about stay (in
`Hotel` they do not), as do the bookings that `Payments` is about (the code has no deletion of a booking).

## 3. Runs

Deadlock checking is off in every run: clients may stop sending requests, and the ids of rows run
out, so a state without a step is a normal end.

| run | expect | properties | bounds |
|---|---|---|---|
| `bookings_race` | pass | `TypeOK`, `RequestsOK`, `HistoryOK`, `OccupiedWasCheckedIn`, `AuditBacked`, `ImplementsLifecycle` | 2 requests of any kind, 1 booking, failures |
| `bookings_numbers` | pass | `NumbersConsecutive`, `ExhaustedNumbersStop` | 3 creations at a time, 4 ids, `SeqLimit` 2, failures |
| `bookings_sequential` | pass | `RoomStatusExplained`, `NoOverlapAdmitted` | 1 request, 2 rooms, 2 bookings, 3 dates |
| `bookings_double_booking` | violation | `NoDoubleBooking` | 1 request, 2 bookings |
| `payments_race` | pass | `TypeOK`, `RefundBacked`, `StatusBacked`, `NumbersConsecutive` | 2 requests, 2 payments, amounts -1 and 2, failures |
| `payments_sequential` | pass | `NeverOverpaid`, `ReturnedAtMostPaid`, `StatusNotOverstated`, `RevenueBacked`, `ProcessedIsLogged` (liveness) | 1 request, 2 bookings of prices 2 and 0, 2 payments, amounts -1, 0, 1 and 2, no failure |
| `rooms_race` | pass | `TypeOK`, `ReferencesKept`, `TotalRoomsExact` | 2 requests, 2 rooms, bookings, no failure |
| `rooms_failing` | pass | `NumbersUnique`, `OpenTasksBounded` | 2 requests, 2 rooms, 3 tasks, failures |
| `hotel_race` | pass | `TypeOK`, `BookingsHaveRooms`, `FiguresExplained`, `ImplementsRooms`, `RecordedIsLogged` (liveness) | 1 request to each service, 1 room, 1 booking, clients ask for OCCUPIED, at most one failure; every handler but the housekeeping report and the change of dates |
| `hotel_search` | violation | `OfferedNotBooked` | 1 request to each service, 1 room, 2 bookings, 2 dates |
| `tokens_race` | pass | `TypeOK`, `ExchangedIsRevoked`, `SuccessorsBounded`, `ImplementsTokenLife` | 2 requests, 1 user, lives of 2 and 1 seconds, 3 seconds, clean-ups in the last two, failures |
| `listings_walk` | pass | `TypeOK`, `MissedAtMostShifts`, `RepeatedAtMostCame` | pages of 2, 5 rows, 1 return of a row |

Why the bounds are enough. Two requests suffice for every pair of a read and another's write in
between, which is how these handlers disturb each other; three creations make two collide on the
number that a third one inserts. One booking is what the handlers of the race share; what
bookings do to each other (numbers, overlap, one room) is in the runs with two and four, and the
theorems of section 5 hold for any number. `SeqLimit` is 9999 in the code; 2 reaches the overflow,
its refusal and what comes after. Three dates give bookings that overlap, touch, and are empty or
reversed. `MaxReturned` bounds the refunds of one payment above its amount, so that an excess is
in reach. `MaxTasks` 2 bounds the beginning of a report: two in progress give three tasks, one
more than the bound of `OpenTasksBounded`. `NewStatuses` is empty in `rooms_failing`, whose two
invariants are about numbers and tasks; `rooms_race` asks for CLEANING.
`payments_sequential` has a booking without a price, on which a payment of zero is accepted and one of a
negative amount too; an amount above zero needs a negative one before it. `Calls` names the handlers a run's clients use.

`hotel_race` has one request to the booking service because `FiguresExplained` says what one at a time gives, and one to the room service to keep it small;
races within one service are in the runs of that service. One failure in a behaviour is enough to
show that references stay and that the room service's view is kept. Its clients mark the room OCCUPIED, with a booking
or without (`updateRoom` takes any status, `updateRoomStatus` only those that `ValidTransitions` has, and OCCUPIED is none of them). A change
of dates touches nothing the two services share. Housekeeping
reports write neither a room's status nor its existence and are left to the `rooms` runs.
In `tokens_race` three seconds and a `RefreshLife` of 2 let a token be exchanged, its successor be
another token, and both expire, with a request in progress across any of these; clean-ups in the last two seconds meet
active, revoked and expired rows and leave time for a login after them; one user suffices because tokens of different users meet only in
a logout without a token. In `listings_walk` five rows are three pages of two.

Requests, ids, rooms and numbers are interchangeable in every definition, so the safety runs use
symmetry; the runs with a liveness property do not. `rooms_failing` explores states that differ only
in the audit log once (`WithoutAudit`), `tokens_race` states that differ only in the log or the
sessions (`WithoutLogs`): no handler decides anything on either, and of the properties only `TypeOK` names
them. For that part of `TypeOK` the run says less, and the theorem `TokensTypeCorrect` all.

Fairness: `WF_vars(Continue(r))` for each request. A handler in progress is a chain of promises
that the Node event loop carries on; nothing in the code cancels it. No fairness is assumed of
`Begin` (clients may stop), of `Fail` or of `Tick`. A server that stops logs nothing: the liveness
property of `payments_sequential` is checked with `MayFail` FALSE, that of `hotel_race` is about the
behaviours without a failure (`[]~failed`).

### What holds

Whatever races and fails: the timestamps of a booking tell a possible history although the handlers
overwrite each other's status; an occupied room has had its guest; the audit log never reports
what did not happen; the numbers have no gap; a refund on record was paid out; a payment status
has a cause; references and the counter of rooms are kept. Duplicate open housekeeping tasks do
happen, but never more than there are requests at a time.

Between the services: a booking always has its room though the room was read three statements before;
the booking service never does to a room what `Rooms` does not expect. Tokens: an exchanged token
that is still valid is about to be revoked, or a failure came between; a token is exchanged no
more often than there are requests at a time, so racing exchanges do not multiply; and nothing
but an exchange or a logout takes a token from its holder before its time. Listings: a client that walks to the end misses at most one row for each that left the
pages it had passed, and sees at most one again for each that came.

One request at a time, the checks do what they say: no overlap with a confirmed booking is
admitted, no payment exceeds the price, no refund the payment, the revenue figure is backed by money, and the
figures of rooms and bookings differ by no more than the rooms that clients marked. These properties are checked in sequential runs because they need it.

### Where code and text disagree

* Double booking (`bookings_double_booking`): two pending bookings of the same days are both
  confirmed; the documentation says there is none.
* The availability search offers booked rooms (`hotel_search`): "Find rooms that are NOT booked during the
  requested period" (`room.service.ts:390`) looks for bookings in states that do not exist, so `rooms.status` alone decides,
  and the cancellation of one booking makes the room AVAILABLE while another holds it.

The same models show more, not kept as runs: a cancellation between the read and the write of
another status change is overwritten and the booking goes on; the refund of one of two payments is
subtracted from a total that payment is no longer in, and the booking is told that nothing is left;
with `UndefinedInList` FALSE no update, status change or deletion of a room ever takes effect; the
"Remove session" of `revokeToken` never finds the session; a logout without a token ends
everybody's; a login in the second of another login of the same user is refused; rows of a
listing are missed or repeated; a conflict confirmed between the check and the
insert, dates changed after a check-in in between, two payments or two totals that cross, a
refund paid twice when the server stops after the gateway and the client retries, a payment
processed after its refund, a checked-out booking cancelled (`cancelBooking` has its own list of
statuses, and the table of `validateStatusTransition` makes CHECKED_OUT final), a room made AVAILABLE with a guest in it by the cancellation of another
booking, a check-out that never creates its housekeeping task, no refund in the audit log, two
open tasks of one room, and a room counter wrong for good after a stop. They show when the
properties of the sequential runs are given a second request or a failure.

## 4. Set aside in the source

The models take the services as they run once compiled. These slips keep the code from compiling or
starting as it is, and are not modelled: the stray braces in `payment.service.ts` (114, 141, 207,
243, 347), the `@Module({})` of booking, payment and room that registers no controller, the
field `role` twice in the model `User`, decorators that are used and not imported in DTOs, and the type errors
of the missing enum members and of `refundReason` (the last two are modelled as what they do
at run time). `GET rooms/:id` is declared before `GET rooms/available` and takes its requests.

In the authentication: `cookie-parser` is not installed and `req.cookies` is undefined, so the refresh
handler throws (and `UnauthorizedException` is not imported, `auth.controller.ts:137`) while logout
passes `undefined`; login, register and logout take `@Response()` without `passthrough` and never answer;
`configService.get('jwt...')` misses the namespace `app` of the configuration, so the defaults of 24 hours and 7 days
apply; `verifyPasswordResetToken` is not awaited, so `payload.sub` is undefined and a password reset
always fails at its update; no reset e-mail is sent; `isActive` is never written; `otplib` is not a
dependency. The model takes tokens as presented to the service.

In the listings: `limit` arrives as a string and Prisma rejects it (the model takes it as the number it
means); `getBookings` does not find a stay that spans the whole period it is asked for.

## 5. Proofs

TLAPS checks the theorems of this section for every value of the constants: any requests, rooms,
bookings, payments, users, pages. Each proof assumes what its module assumes of its constants
(`BookingsAssumption`, `PaymentsAssumption`, `RoomsAssumption`, `TokensAssumption`, `HotelAssumption`,
`ListingsAssumption`, `SeqLimitAssumption`: types, and that `Unset` is no date, number or
status) and, where the list says so, one of

* `IsFiniteSet(Requests)`, to count requests at all;
* `MayFail = FALSE`, for what a stop between two statements breaks;
* `OneAtATime` (`\A q, r \in Requests : q = r`), for what two requests at a time break: the
  section above lists how.

The bounds that only TLC needs are not in the way: `MaxReturned`, `MaxTasks`, `MaxTime`, `MaxRows` and
`MaxReturns` may be any number.

| module | theorems | further assumption |
|---|---|---|
| `NumberingProofs` | `NextNumberHasPredecessors` | |
| `BookingsProofs` | `TypeCorrect`, `RequestsCorrect`, `HistoryCorrect`, `NumbersCorrect`, `OccupiedCorrect`, `AuditCorrect`, `ExhaustionStops`, `Refinement` | |
| | `AdmissionAlone` | `OneAtATime` |
| | `RoomsExplainedAlone` | `OneAtATime`, `MayFail = FALSE` |
| `PaymentsProofs` | `PaymentsTypeCorrect`, `RefundsBacked`, `StatusesBacked`, `PaymentNumbersCorrect` | |
| | `NeverOverpaidAlone` | `OneAtATime` |
| | `ReturnedAlone`, `StatusAlone`, `RevenueAlone` | `OneAtATime`, `MayFail = FALSE` |
| `RoomsProofs` | `RoomsTypeCorrect`, `RoomNumbersUnique`, `RoomReferencesKept` | |
| | `RoomsCounted` | `MayFail = FALSE` |
| | `RoomTasksBounded` | `IsFiniteSet(Requests)` |
| `HotelProofs` | `HotelTypeCorrect`, `HotelReferencesKept`, `HotelImplementsRooms`, `HotelKeepsBoth`, `HotelAuditCorrect`, `HotelImplementsLifecycle` | |
| | `HotelFiguresExplained` | `OneAtATime` of the booking requests |
| `TokensProofs` | `TokensTypeCorrect`, `ExchangedTokensRevoked`, `TokensImplementTokenLife` | |
| | `SuccessorsAtMostRequests` | `IsFiniteSet(Requests)` |
| `ListingsProofs` | `ListingsTypeCorrect`, `RepeatedAtMostArrivals`, `MissedAtMostMoves` | |
| `SumProofs` | `SumRemove` | |

### The numbers

`LastFitsPadding`: in a table without gaps the last number in string order is the largest that fits the
padding; the overflow number, which sorts below, is never last. Hence the generated number has
all its predecessors (`NextNumberHasPredecessors`) and adding it leaves no gap (`AddedNumberLeavesNoGap`).

### The booking service

`HistoryOK` is not inductive: nothing in it says that the check-in about to be
written was decided on a confirmed booking. `RequestsOK` supplies that: timestamps are only ever
added, so a request that saw a confirmation can rely on `confirmedAt` although the status it
saw may be gone. `NumbersConsecutive` in turn needs that a number carried to the insert still has its
predecessors, which is also in `RequestsOK` and follows from the numbering lemmas. So the
inductive invariant is `Inductive == TypeOK /\ RequestsOK /\ HistoryOK /\ NumbersConsecutive`,
proved with one lemma for each action. `OccupiedWasCheckedIn` and `AuditBacked` are inductive
relative to it: rooms and log are written by requests whose timestamp `RequestsOK` keeps.
`ExhaustedNumbersStop` follows because a number generated with the overflow in use is in use itself.
`Refinement` maps a row to `created` and each timestamp to its event: a step that adds a timestamp
is a `Record`, any other step a stutter; the predecessor of the event comes from `RequestsOK`.

With one request at a time a stronger fact holds of it: what it decided on is still so when it
writes (`DecisionsHold`). That gives `NoOverlapAdmitted`, failures included.
`RoomStatusExplained` is about moments without a request and becomes inductive as
`RoomsExplained`: each room's status has its booking, or the request is about to write that room.

The invariant is split into `Sound`, which says nothing of the room statuses, and their type, and
the steps are proved from `Sound`: `HotelProofs` uses these lemmas where the statuses change beside the service.

### The payment service

`RefundBacked` and `StatusBacked` need of a refund in progress that its payment was processed, that
its amount is at most the payment's, that the gateway has returned no less by the time the row is written, and that
the row is stamped before the booking is written (`SettlementOK`); of a creation, what a booking's creation needs
(`CreationOK`). Amounts and stamps of a row only grow, whoever writes it.

With one request at a time: a creation that passed the check keeps the sum below the price until its
insert (`DecisionOK`), which gives `NeverOverpaid`, failures included. Without failures the gateway's ledger is what is on
record, nothing for a refund of less than nothing, but for the refund about to be written (`Ledger`), which gives `ReturnedAtMostPaid` and
`RevenueBacked`. For `StatusNotOverstated` the invariant says that the status fits the payments of the
booking, or a request that wrote one of them is about to write the booking (`StatusesFit`), with the status it
carries being the one that is due (`StatusDue`).

The sums are `SumFunctionOnSet` of the community modules, which folds over a choice of elements.
`SumProofs` unfolds it: the recursive function behind the fold exists, the order of choice
does not matter (`SumRemove`), and the sum is monotone, additive and unaffected by the rest. The inductions
are by a minimal counterexample in a well-founded order (`WFMin`), over sets of what has the property
rather than over operators.

### The room service

`ReferencesKept` needs of requests what the foreign keys then enforce at each statement (`FoundOK`),
and `NumbersUnique` that a creation's id is its own (`CreationsApart`). `TotalRoomsExact` counts requests: the counter differs from the
number of rooms by the creations and deletions that have done their first statement; each step
moves one room and one request (`RoomsCounted`, which also proves the sets finite). `OpenTasksBounded` is strengthened to
`ClaimsBounded`: the tasks that are open or may be opened again by a report that found them, and the
reports about to add one, are together at most as many as requests, for a report adds a task only when none is open.

### Both services together

`HotelProofs` instantiates the two proof modules and shows that a step of the hotel is a step of
either or leaves its tables alone. The booking service does not see deletions, so its invariant there is `Sound`, and
its rooms are those of the column `StatusColumn`. The room service gets from `Sound` that a status change is of a room that has a
booking (`ChangedRoomExists`), so the environment it assumes is what the booking service is: `HotelImplementsRooms`.
`HotelKeepsBoth`, `HotelAuditCorrect` and `HotelImplementsLifecycle` carry over what each does alone.

`FiguresExplained` speaks of moments without a request, and of the rooms whose status a client was the last to
change: the history variable `marked`, which a request to the room service adds to and a booking request takes from.
Between those moments (`Agreeing`): until a request fails, the counter counts the rooms but for the requests about to
write it (`Counted`), and each room is marked, or AVAILABLE, or has its booking, or is about to be written by the
booking request (`RoomsAccounted`). A room that the room service gives another status is marked (`RoomsMarked`),
with any number of its requests racing; one that a booking request gives another is explained by its booking
(`RoomsUnmarked`), since nothing came between its check and its write. Choosing a booking for each room that is held
and not marked gives the inequalities, as a booking is of one room (`NoMoreRooms`, `PartAndRest`).

### The tokens

`ExchangedIsRevoked` needs that no token is dated in the future (`Dated`): otherwise a token
yet to be signed could equal one exchanged already. `SuccessorsBounded` is strengthened to
`SuccessorsMatched`: while a token is active, each of its successors belongs to a request that is still about to
revoke it, so a revocation closes the account and no request is counted twice. `TokensImplementTokenLife`: the
tokens a `TokenLife` step may end are those exchanged or excused (by a logout or by a clean-up after expiry); one lemma for each statement.

### The listings

Neither counting property is inductive: each speaks of what has been delivered, and what goes wrong
later is decided by where the rows stand. The invariant counts rows by the place `End` that `findMany` has looked up to:

* `RepeatedCounted`: rows given again, on the page at hand and before, plus the rows given that now stand
  after `End`, are at most those that came. A row that comes moves at most one row past that place,
  whichever place it takes; a row that goes moves none; the next page turns rows after the place into rows given again.
* `MissedCounted`: rows missed are at most those that left, and either even with all rows still ahead, or
  with `End` in place of those and the rows passed on the other side. Rows passed are a
  prefix of the table (`PassedFirst`), so a full page raises both sides by a page, and a page that is
  not full has nothing ahead.
* `RacedCounted`, `LastCounted`: when `count` of the last page ran first, it is too low by what came since, and so
  is the number of rows the page leaves out.

### What is only model-checked

Liveness (`RecordedIsLogged`, `ProcessedIsLogged`) is out of the prover's reach: it rests on the
fairness of `Continue`. Every other property of a passing run is a theorem, under the assumptions listed above.

## 6. Not modelled, and why

* Of the authentication: changing a password and switching two-factor on or off read and write one row
  of one user and neither touch nor read tokens and sessions; a password reset never succeeds
  (section 4). Passwords and codes themselves are data.
* Of the queries: averages, rates and distributions, the revenue of bookings, the paged listing of rooms (in
  the order of floor and number, which change), and the queries of one row.
* Guards and strategies decide on one request from its own data. Configuration, logging, filters
  and the interceptor hold no state of the business. The modules without providers have no code. The web
  client is a build configuration.

## 7. Plan

1. (done) `Numbering`, `Bookings`, `BookingLifecycle`, `Payments`, `Rooms`; proofs of the booking
   service.
2. (done) `Hotel`, `Tokens` with `TokenLife`, `Listings`; the figures of the statistics.
3. (done) `PaymentsProofs`, `RoomsProofs`, `TokensProofs`, with the counting of requests; the composition in `HotelProofs`.
4. (done) The sequential properties with their assumption; `SumProofs`; `ListingsProofs`.
5. (done) Amounts of either sign in `Payments`; `FiguresExplained`, for whatever statuses clients give the rooms, from what
   the booking service decided on (`DecisionsHold`) and `Counted` of the room service.
