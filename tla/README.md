# Formal models of the learning platform

TLA+ models of the platform's services, model-checked with TLC on small
instances and, where a result should hold for any number of users, orders,
requests and events, proved with TLAPS. The reference is the code: every
definition names, in `PROJECT.json` under `map`, the lines it stands for.

    tlc -config PaymentService.cfg MCPaymentService.tla      # check a run
    tlapm PaymentServiceProofs.tla                           # check the proofs

## The system

The platform sells courses. Each service is a NestJS process with a Postgres
database of its own; nothing is shared but events on a Redis bus and internal
HTTP calls.

| part | state | operations | talks to |
|---|---|---|---|
| `packages/shared` event bus | the envelopes in flight, `lp.events.dlq` | `publish`, `subscribe` | every service |
| `payment-service` | table `payments` | `createOrder`, `verifyPayment`, `createRefund`, `handleWebhook` (captured, failed, refund processed) | Razorpay; course-service for prices and coupons; publishes `payment.completed`, `payment.refunded`, `payment.failed` |
| `enrollment-service`, enrollments | tables `enrollments`, `processed_events` | `handlePaymentCompleted`, `handlePaymentRefunded`, `enrollFree`, `grant`, `revoke`, `isEntitled` | consumes both payment events |
| `enrollment-service`, progress | table `lesson_progress`, cached percent on the enrollment | `savePosition`, `completeLesson`, `recalculate` | course-service for the curriculum; publishes `course_completed` |
| `certificate-service` | tables `certificates`, `certificate_verifications` | `issue`, `verify`, `revoke` | consumes `course_completed`; asks progress |
| `lab-service` | table `lab_sessions`, namespaces or containers, open sockets | `start`, `redeemTicket`, `attach`, `stop`, `reapExpired`, `reapOrphans` | Kubernetes or Docker; asks enrollments |
| `auth-service` | users, sessions, refresh tokens, verification tokens | `register`, `login`, `refresh`, `logout`, password reset and change | mail; publishes `user.*` |
| `course-service` | courses, modules, lessons, coupons | publishing, reordering, counters, slugs, prices, coupons | asked by payment, progress, certificates |
| `api-gateway` | none of its own (the framework's rate limiter counts in memory) | proxying, the entitlement query on lesson reads (fails closed) | all of the above |

Not in the repository at this commit, though the README and the infrastructure
name them: media, quiz and notification services and the web application.
`payment-service` has `PaymentsService` but no controller that calls it, and
its module provides no `EventBus`: the model takes its public methods as the
operations, called the way their arguments and the gateway's routes
(`/payments`, `/webhooks`) say.

### What is hard in it

Handlers await the database, Razorpay, Redis or Kubernetes between reading a
row and writing it, and nothing locks the row in between; services may stop at
any await; Razorpay and the bus repeat messages and deliver them late or out
of order. So the properties that matter relate two services, or a write to a
read that came several steps earlier:

* payment: a row or an event never claims money that did not move; every
  commit gets announced; captures and refunds reach the row whatever is lost;
* enrollment: each event takes effect once, in one step, whoever else is
  handling it; rows name the payment or refund they really rest on;
* sale: who paid can read the course, and who got the money back cannot;
* labs: no session outlives its resources or the other way round; at most the
  allowed number run; what expired goes down;
* progress and certificates: a finished course is reported once and gives one
  certificate; revoked access stays revoked;
* auth: a session has one live refresh token, and none once it is revoked;
* catalog: a reorder takes effect and positions stay unique; the counters
  follow the lessons.

`PROJECT.json` lists the hazards line by line under `hazards`, with the
properties that cover them and, for those no property covers, why.

## Modules

    EventBus <- EventBusProofs
             <- PaymentService    <- MCPaymentService, PaymentServiceProofs
             <- EnrollmentService <- EnrollmentServiceProofs
                                  <- EnrollmentConsumer <- MCEnrollmentConsumer,
                                       |                   EnrollmentConsumerProofs
                                       +-- refines ExactlyOnce
    PaymentService + EnrollmentService <- PurchaseFlow  <- MCPurchaseFlow, PurchaseFlowProofs
                                            +-- refines Sale
    LabSessions <- MCLabSessions, LabSessionsProofs
    Catalog <- Progress <- Certificates <- LessonGateway <- Learning <- MCLearning,
                                                                        LearningProofs
                                                         +-- refines Diploma
    AuthService <- MCAuthService, AuthServiceProofs
      +-- refines TokenFamily

**EventBus** (`event-bus.ts`, `events.ts`). `publish` mints a fresh id on every
call, so the same fact published twice gives two envelopes no ledger can join.
An envelope stays in `published` for good and may be delivered any number of
times, in any order, or never. The repeats are for the bus of production, SQS.
The one in the code is Redis Pub/Sub (`event-bus.ts:34,50-51`), which hands a
message over once, to whoever is subscribed, and keeps nothing for a process
that starts later (`infra/terraform/modules/events/main.tf:7-9`). The fair
specifications therefore promise delivery only of what was published since the
consumer came up (`upSince`): what a restart of it lost is owed by nobody. A
handler that throws moves its envelope to `dlq`, which nothing reads.

**EnrollmentService** (`enrollments.service.ts`). One row per (user, course).
A handler is two steps: `Deliver` is the look-up in `processed_events`,
`Commit` the transaction, `Reject` its abort, by the primary key of the ledger
or by an error of the database. `Copies` deliveries of one envelope and any
number of events run at once; `Restart` drops the handlers in flight.
`enrollFree`, `grant` and `revoke` are single statements. Prisma runs these
upserts as one `INSERT .. ON CONFLICT`, so they are one step.

**EnrollmentConsumer** closes it with a producer that may publish any event
at any time, more than `payment-service` ever would, and states that it
implements **ExactlyOnce**: post a message, apply a message once in one step
that also opens or closes the access, decide by hand. The mapping: `posted` is
what was published, `recorded` the ledger, `access` is `isEntitled`, and
`effects` a history variable both sides keep.

**PaymentService** (`payments.service.ts`). A request is a record
`[op, order, slot, at]`, `at` being the next thing its handler does. It read
the row when it started, and whatever it does later it does without looking
again: that is the code's shape, and the source of its races.

| action | code |
|---|---|
| `createOrder`, `insertPayment` | 86-157, 159-183: the order at Razorpay, then the row |
| `verifyPayment` | 185-233: signature and early return |
| `completePayment`, `publishPaymentCompleted`, `redeemCoupon` | 235-271, and 388-397 for the webhook |
| `failPayment` | 213-221 and 421-444 |
| `createRefund`, `refundAtGateway`, `markRefunded`, `publishPaymentRefunded` | 274-323, and 463-471 for the webhook |
| `handleWebhook` | 333-370 and the look-ups and early returns of the three handlers |
| `callRejects` | the database, Razorpay or the bus rejects a call and the handler throws while the process lives on |
| `crash` | a stop at any await |

Razorpay is external: it takes the money for an order once, returns it once,
and calls a webhook until a call returns (`acked`), then perhaps once more. An
invalid webhook signature, a missing or foreign payment and the other branches
that refuse without a write are left out, as are amounts. `payment.failed` and
`enrollment.created` are published to nobody and left out.

**PurchaseFlow** composes both services over the bus and states that together
they implement **Sale**, what a buyer is promised whichever services keep it:
money moves one way, a claim about an order is made only once it is true and
under an id of its own, and settling a claim, which happens once, opens or
closes the course in the same step. Beyond that only people decide. The
mapping: `money` is `gateway`, the claims are the envelopes on the bus,
`settled` is `processed_events`, `access` is `isEntitled`, and people may
decide what `ManualOps` allows. How late a claim is settled, and in which
order, `Sale` leaves open, as the bus does: that is where
`PurchaseRefundUndone` comes from.

**LabSessions** (`labs.service.ts`, `lab-terminal.gateway.ts`, both drivers). The
sessions of one user: the row (`status`, `handle`: does it name its namespace or
container, `ticket`), the resource (`exists`), what the clock says (`due`), and
what is in flight: a start per session, stops, upgrades and terminals, the
orphan sweep. `MaxStarts` bounds the starts that overlap: nothing in the code
does, so the limit of line 70 is passed by as many as overlap with the first.

| action | code |
|---|---|
| `start`, `createSession`, `provision`, `provisioned`, `failProvision`, `answerStart` | `start` 50-131 with `provision` of the driver |
| `userStop`, `teardown`, `reapNext` begin a stop; `markStopping`, `destroyLab`, `finishStop`, `failStop` | `stop` 171-195 |
| `redeemTicket`, `useTicket`, `attach`, `loseUpgrade`, `touch` | 137-169, gateway 48-149 |
| `reapExpired`, `reapOrphans`, `listOrphans`, `destroyOrphan` | 228-273 |
| `expire`, `goIdle`, `crash` | time, a replica going down |

A stop carries the handle it read when it began: with none it destroys nothing,
and a start that finishes afterwards writes RUNNING over whatever the stop
wrote. The sweep's answer is destroyed only if its names begin with `lab-` or
`lp-lab-`; the Kubernetes driver answers session ids, so its sweep changes
nothing (`sweepFinds`). Whether Docker prints names when it gets both `-q` and
`--format` depends on its version; `PsPrintsNames` says so. A crash takes the
handlers of any set of sessions: the deployment runs two replicas. Two upgrades
with one ticket can both pass `redeemTicket`, which reads and writes in two
statements: `SpentTicketsOpenNothing` excepts the upgrades that had passed the
checks before the ticket was spent (`entering`) and claims that there is no
further one.

**Catalog** (`courses.service.ts` of `course-service`). One course: which modules
and lessons have a row, which of them were removed (rows stay), their sort orders,
the denormalised `lessonCount`, status and deletion of the course. A reorder is a
transaction of single updates under the unique index, first to negative offsets,
then to the final ones; one that trips aborts as a whole.

**Progress** (`progress.service.ts`). The enrollment row and the records of one
learner in that course. A request keeps what it read (`done`, `size`, `was`)
until it writes. No handler asks whether the lesson it is given belongs to the
course, and the percentage is a quotient of counts: any id counts, a lesson of
the course or one of `Others`. A learner has one record of an id, filed under
the course that was named when it was made: `fileElsewhere` and
`completeElsewhere` are the requests of the same learner that name another
course, after which a record never counts here ("away") or was completed without
a recomputation here (`strayed`).

**Certificates** (`certificates.service.ts`). The one row of learner and course.

**LessonGateway** (`main.ts`, `entitlement.ts` of `api-gateway`). A read of a
lesson: slug to course, entitlement, forward; a call that fails counts as a no.
A read whose path the middleware's pattern does not match is forwarded as it
came, with whatever it says of itself (`matched`).

**Learning** composes the four; a step is one of one service, and a mishap drops
any set of handlers of one of them. Together they implement **Diploma**, what a
learner is promised whichever services keep it: what was done stays done, a
course is finished when as much is done as it has lessons, only then may a
completion be told and a certificate issued, once, and its serial and its
revocation are for good. That it is the number and not the lessons is what the
code gives; see the differences below. The mapping: `done` is the records
(`completed`), `course` the live lessons of the catalog, `finished` the row's `completedAt`, `told` a published
completion, `diploma` the certificate's row. Of edited courses `Diploma` does
not say what finishing them takes, as removed lessons count.

| action | code |
|---|---|
| `addModule`, `addLesson`, `createRow` | `courses.service.ts` 372-378, 411-434, with `nextModuleOrder` and `nextLessonOrder` 504-520 |
| `updateModule`, `updateLesson`, `removeModule`, `removeLesson` | 380-394, 436-449 |
| `countLessons`, `writeCounters` | `refreshCourseCounters` 489-502: an aggregate, then an update |
| `reorder` | 396-409, 451-464 |
| `publish`, `unpublish`, `update`, `remove`, `writeCourse` | 330-370 with `mustExist` 483 |
| `completeLesson`, `recordLesson`, `readRecords`, `readCurriculum`, `readRow`, `writeRow`, `publishCompleted` | `progress.service.ts`: `completeLesson` with `getCourseProgress` and `recalculate` |
| `savePosition`, `upsertPosition` | the heartbeat of the player: the check, then the upsert |
| `fileElsewhere`, `completeElsewhere` | the upserts of both handlers (23-36, 50-60) under another course |
| `openAccess`, `closeAccess` | the writes of `enrollments.service.ts` to the same row |
| `deliverCompleted`, `claim`, `fetchProgress`, `fetchUserAndCourse`, `createCertificate`, `revoke` | `certificates.service.ts`: the subscriber, `issue`, `revoke` |
| `readLesson`, `courseIdForSlug`, `checkEntitled`, `callFails`, `getLesson` | the gateway's middleware and `getLesson` of `course-service` 100-142 |

**AuthService** (`auth.service.ts`, `token.service.ts`, `jwt.strategy.ts`). One
account, its links by mail, sessions and refresh tokens. A worker runs one
handler and goes on with what it looked up. `password` counts the values of
`passwordChangedAt`, and a token's `iat` is the count at which its time of issue
places it: in whole seconds, so that it may be one behind. `changePassword` dates
the change before its statement runs (437), so that of the tokens made while it
ran (`young`) any may be signed after that date and before the commit; such a
token seems as new as the change (`dated`). Three history
variables say what a session knew: the password when it was made (`knew`),
whether a handler wrote to it that had looked before a change or a change had
been dated before it (`behind`), and whether two refreshes of it overlapped
(`parallel`). `TokenFamily` is what
rotation promises: a family begins with one token, every later one is given for a
good token of the same family, which is spent by it, and families end whole and
for good; only in a contested family, or one that ended meanwhile, may a token
be taken once more. `Family` maps sessions to families, used or revoked
tokens to spent ones, and `parallel` to the contested families.

| action | code |
|---|---|
| `register`, `createUser`, `issueEmailVerification`, `resendVerification` | 45-97, 132-142 |
| `beginVerifyEmail`, `verifyEmail` | 99-130: the look-up, then the transaction |
| `login`, `countFailure`, `createSession`, `createToken`, `clearFailures` | 144-228 |
| `refresh` (`verdict`), `rotate` | 235-272, 274-297 |
| `logout`, `logoutAll`, `revokeSession` | 315-352 |
| `forgotPassword`, `beginResetPassword`, `resetPassword` | 356-425 |
| `beginChangePassword`, `changePassword` | 427-442 |
| `suspend`, `lockRunsOut`, `abandon` | support; time; a stop or an error in between |

## Runs

| run | world | shows |
|---|---|---|
| `EnrollmentConsumer` | two users, an order each, 2 events, 2 copies of each, database errors, 1 restart, all manual writes; fair | types, rows rest on events, implements `ExactlyOnce`, every event settles unless a restart lost it |
| `PaymentService` | one order with a coupon, 2 slots per kind of request (symmetric), 2 client calls or late duplicates, 1 stop or call that rejects, signatures that may mismatch | rows, events and handlers follow the money; commits are announced while nothing stopped; the row of an answered webhook names the payment or dates the refund and has the status it told, or FAILED for a reason; redemptions follow announcements |
| `PurchaseFlow` | one user, two orders for one course, 1 client call, 1 stop of payment-service, revocations by support | access is paid for, refund revocations are real, settled purchases are open, implements `Sale` |
| `PurchaseFair` | one order, 1 client call, 1 stop of each service or call that rejects in payment-service; fair | captures and refunds reach the row; a sale opens the course unless a stop, of either service, or a rejected call lost its event |
| `LabSessions` | one session, both drivers, 1 upgrade at a time, 2 requests of the client, 1 failing call, 1 replica down; fair | types; what runs has its namespace where the sweep finds nothing; what expired goes down for good; Docker's containers are reclaimed; a namespace stays only after a crash, a failure or a stop that came before the handle |
| `LabOverlaps` | three sessions in the cluster (symmetric), limit 1, 2 overlapping starts, 2 overlapping upgrades, 4 requests of the client, 1 replica down | overlapping starts pass the limit by one less than their number, and no more; a spent ticket opens nothing but the upgrades that had passed the checks |
| `Learning` | one course of a module and two lessons with room for a third lesson and a second module, an id of something else, one learner; 3 requests of anybody, 1 mishap, 2 deliveries; fair | types and orders that stay offsets; reorders of all rows take effect; certificates are earned by number; completions are announced; percentage and counter follow the lessons; what is shut stays shut for the reads the gateway matches; implements `Diploma`; who finishes is certified |
| `AuthService` | one account, 2 workers, 2 sessions, 4 tokens, 2 links (all symmetric), lock after 2 failures, 6 requests | types; what can be exchanged follows the password; sessions are token families (implements `TokenFamily`); signed-out sessions stay out; locks hold |
| `PaymentWebhookRepeats` (violation) | as `PaymentService` without stops | a repeated `payment.captured` un-refunds a row |
| `PurchaseCrashLosesEvent` (violation) | as `PurchaseFair` | a stop between commit and publish loses the sale |
| `PurchaseRefundUndone` (violation) | one order, no stops | a completion applied after the refund reopens the course |
| `LabNamespaceLeaks` (violation) | one session in the cluster, 1 replica down | a namespace made for a start that was lost is never removed |

**Bounds.** Orders of different users and courses share no row, ledger entry
or request, so one order shows the races of one payment and two orders for one
course the races of an enrollment row. Two slots and two copies give every
overlap of two; a third only repeats the early return or the primary-key abort
of the second. Two calls allow a refund and a verify (or a late webhook) on one
order in either order, one stop falls at every await; a rejected call spends the
same allowance (`MaxCrashes`) where `Rejections` is TRUE. Sessions share nothing
but the user's limit: one session shows the races of one row, three are one more
than two overlapping starts and a limit of one allow, and two upgrades of one
session are the race for its ticket. `Timed` names the sessions that may expire
or go idle: none in `LabOverlaps`, whose properties do not ask who ended a
session. One id in `Others` is enough to stand for a lesson. In `Learning` three requests are two
completions and an edit, a refund or a lesson read, or an edit and two of
another kind; one edit of a row, one completion and one read of a lesson and one
issue of a kind run at a time, so that two overlap and a third would repeat the
second. In `AuthService` two workers give every overlap of two handlers, and six
requests a sign-in, two refreshes, a change of the password and two more. What
these bounds leave open for the core safety properties, the proofs close.

**Deadlock** is checked where a run cannot stop (`EnrollmentConsumer`, whose
manual writes are always possible). In the other runs orders and requests are
finite and everything may be done in the end, so they say `CHECK_DEADLOCK FALSE`.

**Fairness.** Weak fairness of each pending continuation of a request (Node
runs a resolved promise), of Razorpay's retries of a webhook no call of which
has returned, of delivery of an envelope published since the consumer came up
and not dead-lettered (`event-bus.ts:50-51`: the subscriber's callback), and of
the end of a handler. Nothing is assumed of an envelope that was published
before a restart of the consumer. For labs: each pending step of a start, a stop,
an upgrade and the sweep, the deadline of a session, both cron jobs, and the
end of a terminal whose shell is gone. For learning: each completion in flight,
each issue in flight, and the delivery of the completion while nothing stopped. There is none on
clients, learners, staff, support, idleness, `crash`, `Restart` or mishaps.
`AuthService` claims no liveness.

## Proofs

All for arbitrary `Orders`, `Pairs`, `PairOf`, `Slots`, `Copies`, `Sessions`,
`Modules`, `Lessons`, limits and bounds, from the named assumptions of the
modules: the typing of the constants, finite `Sessions`, `Modules` and `Lessons`,
and what a theorem states as its own hypothesis (`Few`, `noGifts`,
`[]quiet`, `[]undisturbed`; the runs reach states that meet each). Every invariant
and every action property of the passing runs is stated by a theorem, and so is
each refinement.

* **EventBusProofs.** What `publish` does to envelopes: types, fresh ids, and how
  the number of envelopes of a name and order grows. The proofs of both services
  cite it.
* **PaymentServiceProofs.** `MoneyInv` = types, `RowsFollowTheMoney`,
  `EventsFollowTheMoney`, `HandlersFollowTheMoney`. The first two alone are not
  inductive: a handler writes what it decided on a read long past. What keeps
  the write true is that money at Razorpay only moves forward (`MoneyIsFinal`)
  and that each place a handler can stand at implies money that moved
  (`justified`). Hence `PaymentTypes`, `RowsAlwaysFollowTheMoney`,
  `EventsAlwaysFollowTheMoney`, `HandlersAlwaysFollowTheMoney`. On top of it
  `CommitsAreAlwaysAnnounced` is inductive as it stands.
  `RedemptionsAlwaysFollowAnnouncements` needs the verify calls that are past
  their event and have not counted yet (`RedeemInv`): redemptions made and still
  to be made are no more than the announcements.
  `AnsweredWebhooksAlwaysReachedTheRow` needs that a COMPLETED or REFUNDED row
  carries the mark of it (`RowsAreMarked`), that a webhook is about an order with
  a row, and one of a refund about a payment the row names (`WebhooksHaveRows`),
  that a webhook's handler past its write has written (`HandlersAreInPlace`),
  that a row is FAILED, and a handler about to make it so, only for a reason
  (`FailuresAreJustified`), and that no row is inserted twice, which would make
  it PENDING again (`RowsAreInsertedOnce`, `AnswersAreMarked`).
* **EnrollmentServiceProofs** holds the step lemmas about `EnrollmentInv`
  (types, ledger = effects, rows rest on applied events, and `KnownEvents`:
  handlers run only for published envelopes with ids below the next), which both
  closures of the service use: what each step does to the access, that a
  commit's id was not recorded, that the ledger only grows, that a row an
  applied sale opened stays open until a refund or support closes it, and why a
  course is open (`OpenSinceAPayment`, preserved by every step: effects are
  only appended, and what opens the course without gifts is a payment applied
  last).
* **EnrollmentConsumerProofs** gives `EnrollmentTypes`,
  `LedgerAlwaysMatchesEffects`, `RowsAlwaysComeFromEvents`, `IdsAreAlwaysFresh`,
  `LedgerAlwaysOnlyGrows` and `ConsumerKeepsPromise`: the service implements `ExactlyOnce`, step by step.
  `CoursesAreOpenSinceAPayment`: where enrollment is neither free nor given by
  support (`noGifts`), an open course has a payment applied after its last
  refund.
* **PurchaseFlowProofs** joins the two invariants (`FlowInv`): a row rests on a
  published event, and a published event on money, so `AccessIsAlwaysPaidFor` and
  `RefundRevocationsAreAlwaysReal`, with stops, rejected transactions, support
  and any number of everything. `AppliedSalesAreOpen` (an applied completion has
  opened its course, unless a refund for the same user and course was applied or
  support closed it) gives `SettledPurchasesAreAlwaysOpen`;
  joined with `CommitsAreAnnounced` and the answered webhooks it gives
  `AnsweredPurchasesAreAlwaysOpen`: nobody whose payment Razorpay was told to be
  done with is left outside once nothing is under way.
  `RefundsAlwaysCloseUnlessOvertaken` is the safety property that disagreement 2
  leaves: with `noGifts`, once everything about a refunded order has settled its
  course is closed, unless a payment for it was applied after a refund. So the
  order of delivery is the only way to keep a refunded course; overlapping
  handlers, stops and aborts are none. `FlowSellsHonestly` is the
  refinement of `Sale`: each step moves money, makes one claim, settles one, is a
  decision, or stutters.
* **LabSessionsProofs.** `LabTypes`. `LiveSessionsAreAlwaysBounded`: live sessions
  alone are not inductive, since a start that has counted is not live yet and
  one that was stopped too early comes back; sessions that are live *or being
  started* are (`EngagedSessionsAreBounded`). `RunningLabsAlwaysExist`: a row
  names its namespace only when its start is over (`NamesComeWithRunning`), and
  a stop that destroys by that name has taken the row out of RUNNING, where
  nothing brings it back (`StopsKnowTheName`). `OrphansAlwaysTakeAnAccident`: a
  resource without an owner takes a replica that went down or a call that
  failed. `UndisturbedLabsLeaveNothing`: while `undisturbed`, a session that is
  over has left nothing, because every stop past `destroyLab` has destroyed
  what the row named (`StopsClean`). `SpentTicketsAlwaysOpenNothing` needs that a
  ticket is told once, when the start of its row is over, that nobody upgrades
  with one that was not told, and that an upgrade past the update has marked it
  (`TicketInv`). `OrphansAlwaysStay`: where
  the sweep finds nothing no step takes a resource nobody names away or adopts
  it, so the leak of disagreement 4 is for good in every execution, not only in
  the one the run shows.
* **LearningProofs.** `LearnInv`: a request of progress holds what was so and does
  not cease to be (`honest`: ids it saw completed are, a course that was not
  edited has the size it read), what it names is `known`, 100 % and every issue
  past the question for it mean a finished course. Rows are never taken back (`CatalogKeeps`), so edits
  are for good. Hence `CompletionsAreAlwaysAnnounced`, `ShutAlwaysStaysShut`,
  `SerialsAreAlwaysStable` and, by counting, `CertificatesAreAlwaysEarned` — for
  courses that begin with fewer than 200 lessons (`Few`), because from there on
  99.5 % rounds to 100 (`WholePercent`). The claim is about the number of
  completed records, whatever ids they are for; that it was every lesson follows
  only where all records are for lessons of the course (`EnoughIsAll`). `DiplomasAreAlwaysHonest` is the refinement
  of `Diploma`, one lemma per service: a step of the catalog edits or stutters, one
  of progress does an id, finishes or tells, one of certificates issues or
  revokes. `CountersAlwaysFollowTheLessons` and
  `PercentIsAlwaysFresh` add that a handler alone in flight is about to write
  the right number (`FreshInv`), the latter as long as nothing was completed
  under another course (`fresh`). `ReordersAlwaysTakeEffect` and the sort orders of
  `LearnTypes` rest on the two phases of a reorder: parking uses only offsets
  below zero, where no row is left, so nothing collides, and after it the final
  offsets are free when every row is named. `PercentIsNeverAhead` is what holds for
  completions that overlap too: records only grow (`PercentGrows`), so a count
  that was read is never more than the count of now. `DeliveredCompletionsAreCertified`
  needs that while `quiet` a finished course stays finished in the records, on the
  row and in the answer to `fetchProgress` (`FinishedInv`, whose `wholeRead` says
  that a handler about to finish the course has read as many as it has).
* **AuthServiceProofs.** `AuthTypes`. `AuthInv`: who makes a session is alone with
  it until its token is written (`CreatorsAreAlone`), and who rotates holds the
  only live token of its session unless another refresh runs beside it
  (`RotatorsAreAlone`); neither `OneTokenASession` nor `TokensFollowThePassword`
  is inductive without them. A change of the password gives a token nothing but
  another date, and marks its session (`ChangeDatesOnly`). Hence `AlwaysOneTokenASession`,
  `TokensAlwaysFollowThePassword`, `SignedOutAlwaysStaysOut`, `LocksAlwaysHold`.
  `SessionsAreAlwaysFamilies` is the refinement of `TokenFamily`. Its invariant
  (`FamilyInv`) adds that who rotates holds a good token, unless its session is
  contested or over by now (`HoldersAreGood`), who revokes knows sessions that
  exist (`RevokersKnow`), and a token nobody was given is good (`BlanksAreGood`).

Only model-checked is liveness, which rests on weak fairness and so on ENABLED,
out of the prover's reach. For some of it the safety half is proved: what holds
at the end, if the end comes.

| liveness, model-checked | its safety half, proved |
|---|---|
| `CapturesReachTheRow`, `RefundsReachTheRow` | `AnsweredWebhooksAlwaysReachedTheRow` |
| `SalesOpenUnlessStopped` | `AnsweredPurchasesAreAlwaysOpen` |
| `LabsAreReclaimedUnlessDisturbed` | `UndisturbedLabsLeaveNothing` |
| `FinishersAreCertified` | `DeliveredCompletionsAreCertified` |
| `EveryEventSettles` | `LedgerAlwaysMatchesEffects`: what was settled took effect |
| `ExpiredSessionsGoDown`, `ContainersAreReclaimed` | none: they claim nothing but an end |

## Disagreements between the code and what is said of it

1. *A stop loses a sale* (`PurchaseCrashLosesEvent`). COMPLETED is committed,
   then the event published. After a stop in between the retried webhook and
   the retried verify call return early on COMPLETED, so nobody is told.
   `infra/terraform/modules/events/main.tf:6-9` rules exactly this out.
2. *A refund undone* (`PurchaseRefundUndone`). `payment.refunded` applied before
   `payment.completed` of the same order finds no row; the completion then opens
   the course. `enrollments.service.ts:208`: "payment.refunded -> pull access back".
   `RefundsAlwaysCloseUnlessOvertaken` proves that it takes this order.
3. *The captured webhook is idempotent only for COMPLETED rows*
   (`PaymentWebhookRepeats`). A repeat after the refund writes COMPLETED again
   and announces it. `README.md:256-258` claims the webhook's idempotency.
4. *The boot sweep removes no namespace* (`LabNamespaceLeaks`). `listOrphans` of
   the Kubernetes driver answers session ids, `reapOrphans` wants names that begin
   with `lab-`. `labs.service.ts:43-44`: "Clean them on boot rather than paying
   for them until someone notices." `OrphansAlwaysStay` proves that nothing else
   removes one either.

Other differences, seen in the models but without a run of their own:

* *The percentage on an enrollment may stay behind* (`enrollments.service.ts:66`
  says it is kept fresh): two completions that overlap write what each read, and
  the later write may be the older count, though it is never ahead of the records
  (`PercentIsNeverAhead`). `PercentIsFresh` claims the rest.
* *A reorder after a removal may be refused*: removed rows keep their order and
  the page does not name them, so the offsets the others need may be taken
  (`courses.service.ts:396-409`). `ReordersTakeEffect` claims reorders of all rows.
* *COMPLETED over REVOKED*: `recalculate` writes the status whatever it is by
  then, so a refund between its read and its write is undone.
* *Removed lessons count*: records of lessons that were removed stay in the
  numerator, so that "finish every lesson" (`certificates.service.ts:58`) may be
  met with one missing. `CertificatesAreEarned` excepts edited courses.
* *Any id counts*: `completeLesson` and `savePosition` take a course and a lesson
  and do not ask whether the one has the other (`progress.service.ts:21-60`,
  `progress.controller.ts:43-51`), and the percentage divides the number of
  completed records by the number of lessons (77-88). "Finish every lesson" and "a
  consequence of finishing the last lesson" (`certificates.service.ts:33,58`) are
  therefore kept by number only: `CertificatesAreEarned` and `Diploma` say so.
* *A record under another course never counts*: there is one record of a learner
  and a lesson (`schema.prisma:80`), and the update branch of the upsert leaves
  its course as it is, so a lesson first named with another course is completed
  there and the percentage of its own never reaches 100.
* *The entitlement pattern minds the case of letters, the routes do not*
  (`main.ts:61-62` of `api-gateway`): a path it does not match is forwarded with
  the parameter as it came, where `main.ts:57-58` says that it is overwritten.
  `ShutStaysShut` claims the reads that match.
* *The limit of live sessions is passed by overlapping starts*
  (`labs.service.ts:63-95` counts, then creates): `LiveSessionsAreBounded` claims
  the limit and one less than the number of starts that overlap.
* *FAILED is written over COMPLETED and REFUNDED*: `verifyPayment` fails the row
  on a signature that does not match before it looks at the status
  (`payments.service.ts:207-221`), and `payment.failed` spares COMPLETED rows only,
  and only those its read saw (413-430). What identifies the payment and dates
  the refund survives (`AnsweredWebhooksReachedTheRow`).
* *A call that rejects between the row and the event loses the event as a stop
  does* (`payments.service.ts:235-245,388-397`; `callRejects`): see 1.
* *A restart of a consumer loses what was published before it*
  (`event-bus.ts:34,50-51`): "at-least-once delivery is assumed (true for SQS, and
  for Redis on reconnect)" (42-43), though Redis Pub/Sub keeps nothing to deliver
  again; `main.tf:7-9` says so. `EveryEventSettles` and `SalesOpenUnlessStopped`
  except such events, and no fairness is assumed of them.
* *A completion may give no certificate*: the subscriber swallows every error of
  `issue`, so that nothing is retried; the learner may claim it.
* *`update` publishes without the check of `publish`* that there is a lesson.
* *A change of password leaves sessions open until they refresh*, and a sign-in in
  the same second as the change looks older than it (`auth.service.ts:269`). The
  change is dated before its statement runs (437): a sign-in with the former
  password in between looks newer than the change and stays.
  `TokensFollowThePassword` excepts it (`behind`).
* *Overlapping refreshes of one token give a session two live tokens*
  (`auth.service.ts:232`); overlapping failures to sign in count once.
* *A link is not asked again in the transaction* whether it was consumed, and
  verifying or resetting makes an account ACTIVE whatever it was by then.
* *PERCENT and FLAT* are what `course-service` stores, `PERCENTAGE` and `FIXED` what
  `payments.service.ts:70-79` compares with.

## Not modelled

* Prices and coupons: `calculateDiscount`, `getPricing`, `validateCoupon` are pure
  arithmetic on one row; that a coupon may be used beyond its limit between its
  check and its count is listed as a hazard.
* Resources, slugs and media keys of courses; the text, the signature and the
  verification log of certificates; positions in a video; audit rows, sign-in
  attempts and mails; the list and search endpoints: plain reads and writes of
  rows nothing else depends on.
* The expiry of tokens and links: an expired one is answered like an unknown one.
* The gateway's rate limiter, a guard of the framework that the code only
  configures.
* Health checks, logging, configuration, Docker, Terraform, Helm and CI.
* Media, quiz and notification services and the web application, which the
  repository does not contain.

## Plan

The arithmetic of a sale (`createOrder` 62-137, `calculateDiscount`,
`validateCoupon`, `getPricing`) as pure operators, with the mismatch of
PERCENT and PERCENTAGE and the use of a coupon beyond its limit.
