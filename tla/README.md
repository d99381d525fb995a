# Verification of activitypub_federation

This directory holds TLA+ models of the library, the TLC runs that check them on
small instances, and theorems about them proved with TLAPS for every value of
the constants. Line references are to `src/` at the commit these models were
written from; `PROJECT.json` maps every definition to its lines.

## The system

The library lets an application federate over ActivityPub. It sends activities
to remote inboxes through an in-memory queue with retries, receives activities
from other servers and verifies their signatures, and fetches remote objects,
which it stores in the application's database. The application supplies the
database and the conversions as implementations of `Object`, `Activity` and
`Actor`.

| Component | State | Operations | Hard parts |
|---|---|---|---|
| Activity queue (`activity_queue.rs`) | two unbounded channels, two join sets, five atomic counters | `queue`, two dispatcher tasks, `worker`, `retry_worker`, `retry`, hourly reset, `shutdown` | everything is concurrent: counters move in several atomic steps, a task passes two workers, the retry channel must outlive every worker, a retry sleeps up to 60 hours on its slot |
| Queue observation (`activity_queue.rs`, `config.rs`) | none of its own | `Stats::snapshot`, `wait_for_activity_queue_idle` | five relaxed loads while workers move |
| One attempt (`activity_sending.rs`) | none | `send_once`, `classify_response`, `into_legacy_result` | borders between status codes, what ends a delivery |
| Preparing activities (`activity_sending.rs`, `activity_queue.rs`) | private key cache | `queue_activity`, `prepare`, `build_tasks`, `get_pkey_cached` | callers share one computation of a key and its failure, early return in the loop, inboxes skipped silently, debug mode |
| URL checks (`config.rs`, `utils.rs`) | none | `is_local_url`, `verify_url_valid` | several checks in an order, local URLs exempt from most |
| Fetching (`fetch/mod.rs`) | `request_counter`, shared by all futures on one `Data` | `fetch_object_http`, `fetch_object_http_conditional` and the functions below them | servers choose every hop: redirects, ids that name another URL, 304, 410; concurrent counting |
| Dereferencing (`fetch/object_id.rs`) | the application's database | `dereference`, `dereference_forced`, `dereference_local` | reads and writes around awaits, recursion through `from_json`, redirects to this instance |
| Webfinger (`fetch/webfinger.rs`) | none | `webfinger_resolve_actor`, `extract_webfinger_name` | order of links, swallowed failures, one limit for all of it |
| Receiving (`axum/inbox.rs`) | the application's database | `verify_activity`, `receive_activity` | a pipeline of checks with awaits between them, actors that change keys meanwhile, requests repeated and altered on the way |
| HTTP signatures (`http_signatures.rs`) | none | `sign_request`, `verify_signature`, `verify_body_hash`, `verify_actor_key_id` | expiry against retries, what is covered by the signature |
| Collections (`fetch/collection_id.rs`) | none | `dereference` | none beyond fetching |
| Configuration and middleware | `FederationConfig`, `Data` | `build`, `to_request_data`, clone into each request | a cloned counter counts on its own |
| Traits, protocol helpers, errors | none | serialisation, comparisons | none |
| The local example (`examples/local_federation`) | users and posts of two instances | `follow`, `post`, receiving Follow, Accept and Create | requests that wait for requests to their own sender; partial failures; an actor stored again at each fetch |
| The live example (`examples/live_federation`) | its own user | replies to every post it receives | the reply is sent before the post is answered, against timeouts and retries of the sender |

`queue_activity` builds tasks and hands them to the queue. The queue makes
attempts, which sign a request and classify its answer. `dereference` reads the
database and calls `fetch_object_http`; `from_json` of the application may
dereference further objects with the same `Data`, so the calls nest. The inbox
and webfinger both dereference. The URL checks guard every fetch and every
inbox.

What makes each component correct:

- Queue: nothing accepted is lost or attempted beyond the documented schedule,
  the counters tell the truth, the limits bound what runs, shutdown ends and
  leaves nothing behind.
- Observation: what an idle snapshot can miss is known, and waiting ends.
- Fetching: the request limit holds under concurrency, no request goes to a URL
  that was not verified, a server cannot pass an object off as another domain's
  or this instance's, and every fetch ends.
- Dereferencing: local objects are never overwritten, recursion is bounded,
  every call returns.
- Webfinger: links are tried in a fixed order and every resolution ends.
- Preparing: each remote, valid inbox gets one task, signed with a key of its
  actor; what was handed to the queue is known however the call ends.
- Receiving: `receive` runs only on a body whose digest, signature, key and
  actor were all verified; a signature is not accepted for long, and nothing
  valid is refused without a cause.
- The examples: what a caller is told agrees with what the other servers did,
  and every chain of requests ends.

## Modules

| Module | What it is |
|---|---|
| `SendOutcome` | classification of the answer to one attempt, as operators |
| `Delivery` | abstract specification: what the queue promises for each task |
| `ActivityQueue` | the queue with its dispatchers, workers, counters and shutdown; implements `Delivery` |
| `QueueDrain` | snapshots and waiting for idle, beside `ActivityQueue` |
| `Urls` | `is_local_url` and `verify_url_valid` as predicates |
| `Fetch` | fetching by concurrent callers over one counter, on top of `Urls` |
| `ObjectStore` | abstract specification: what dereferencing promises of the database |
| `ObjectId` | dereferencing with nested dereferences, on top of `Fetch`; implements `ObjectStore` |
| `Webfinger` | resolving a name: the request, the links and their dereference, on top of `ObjectId` |
| `SendActivity` | preparing and queueing by concurrent callers, on top of `Delivery` and `Urls` |
| `HttpSignatures` | signing and verification, as operators on requests |
| `Inbox` | receiving, with the servers and the network around it, on top of `Urls` and `HttpSignatures` |
| `LocalFederation` | the local example: instances that follow each other and post |
| `LiveFederation` | the live example: a bot that replies to posts |
| `MC...` | values of constants for TLC, symmetry, the terminal state of the queue, a view of the inbox |
| `...Proofs` | the theorems about the module of that name; those about `Fetch` are in `ObjectIdProofs` |

Operators whose comment begins with "Slip" describe a plausible bug of the
operator that follows them. No specification uses them; they are what
`PROJECT.json` names under `mutants`, to show that each property depends on the
code.

### ActivityQueue

A step is one operation another tokio task may see: one atomic counter
operation, one channel operation, or what runs up to the next await. The two
dispatchers are the same loop, so one set of actions is written over the pools
`"send"` (`sender_task` and `worker`) and `"retry"` (`retry_sender_task` and
`retry_worker`). `pc[t]` is where a task is; the comment on it in the module
lists the places. For example `worker` (lines 227-259) is `Unpend` (pending - 1),
`StartWorker` (running + 1, and `retry` entered), `Attempt` and `Wake` (the
loop of `retry`), `Leave` (running - 1), `Settle` (completed + 1, or retries +
1) and `HandOff` (the message sent to the retry channel). `joinset` holds a
future until `join_next` returns it, also when it has finished, because that is
what the dispatcher counts. With a limit of 0 a future is detached and never in
a join set. A worker future holds a clone of the retry sender from the moment
it is built, which `SendersDropped` says.

Time is abstracted: a sleep records how long it is (`nap`) and ends at any
later moment. `last` and `attempts` are history. Answers of an inbox are status
codes or `NoResponse`, which stands for a failed connection, the timeout, and a
failure to sign.

`shutdown(wait)` takes the queue by value, so no call of `queue` is under way;
`Shutdown` has this as its guard. The counters are integers: a negative value
is a `usize` that has wrapped.

### QueueDrain

`wait_for_activity_queue_idle` and its snapshots, with each load a step of its
own and in any order, as relaxed loads of different atomics allow. The queue
moves between the loads. `Poll` is the end of a sleep, which lasts the polling
interval of 25 ms unless the deadline cuts it short. `rested`, `settled`,
`wasIdle` and `streak` are history for the properties. That the deadline takes
priority over idle state, and that the two idle snapshots are an interval apart
(config.rs:276-277), is `IdleIsConfirmed`.

### Urls and Fetch

A URL is a record of scheme, host, port and path; hosts are told apart by the
sets that `verify_url_valid` distinguishes, and `AllowLocalIp` says whether
`DANGER_FEDERATION_ALLOW_LOCAL_IP` is set, in no run. Whether a name resolves is chosen
anew at each check.

Every function of `fetch/mod.rs` calls the next in tail position, so a fetch is
one frame per caller that goes through `verify` (297), `count` (300-305),
`request` (307-333), and for an id that differs from the URL `verifyId` (252)
and then `verify` again with the new URL. `mode` says which function runs:
`fetch_object_http`, the conditional one, its canonical refetch, or the request
of webfinger. What a server answers is chosen freely among what the code
distinguishes: no answer, a redirect, 410, 304, another status, a body that is
too long, unparsable, of a wrong content type or without an id, and a body with
any id. A fetch with the mode `"webfinger"` checks neither content type nor id,
as `webfinger_resolve_actor` calls `fetch_object_http_with_accept` directly.

### ObjectId

`dereference` and its two variants by several callers. `stack[c]` holds the
dereferences a caller is in, innermost first: `Convert` pushes one when
`from_json` refers to another object. `db` is the application's database with
the id an object is stored under; `outdated` the ids whose objects
`should_refetch_object` is true of; `Age` and `ReceiveDelete` are what happens
to them meanwhile. The application's functions do what `traits/mod.rs` asks of
them, and each may fail. Lines 179-185, which read the database if the final URL
is local, have no branch in `Fetched`, because they cannot be reached:
`fetch_object_http` refuses a local final URL before
(`validate_final_remote_url`), as the theorem `VerifiedRemote` shows of `Fetch`.

### Webfinger

`webfinger_resolve_actor` between the two modules it calls: `finger[c]` is where
its own code is, `fetch[c]` its request, `stack[c]` the dereference of a link.
All count against one `request_counter`. A link is whether its type begins with
`application/`, and where it leads; a link without a type or an href is one that
is not used. The vector of links is the set `rest` of their indexes in the
answer, its order is `ComesNext`, and `tried` is history. `BuildLinks` is what this library answers as a server. That the
subject of an answer is the identifier is only asserted in debug builds
(webfinger.rs:76), so `DebugAssertions` is a constant. `ObjectId` takes its own
steps meanwhile, also calls that have nothing to do with webfinger.

### SendActivity

One call of `queue_activity` or `prepare` per caller. `GetKey` and `CreateKey`
are `try_get_with_by_ref` of the moka cache: the first to miss computes, the
others wait and share the result, a failure too, and failures are not cached.
Callers are not cancelled while they compute. `CheckInbox` is the stream of
`build_tasks` (340-361), one inbox at a time, with `unique`, `is_local_url` and
`verify_url_valid` in this order. `HandOver` is one turn of the loop in
`queue_activity`, whose error ends the call; `queue` fails only after the
dispatcher is gone (`Die`), which in this library happens when the runtime ends.
What the queue does with a task is `Delivery`, which `ActivityQueue` implements;
so the two are composed by what `PromiseKept` proves.

### HttpSignatures and Inbox

Cryptography is perfect: a signature is the key and the string that was signed,
a digest the algorithm and the body. A signing string is a function from the
covered header names to their values, so a signature is valid for a request
exactly if the covered fields are the ones that were signed. `Expired` is what
`http_signature_normalization` checks of the times a signature covers; the
library's own code adds that there must be one. `(created)` and `date` are not
compared with the future, as in that library.

A request has any number of `Digest` headers. The signature is verified over the
last one that is ASCII (`MappedDigest`), because `verify_signature` collects the
headers in a map; the body is compared with the first (`FirstDigest`), which
`headers.get` returns. Any other header that is repeated has one reading only,
the last. A target is method and path: the `host` header and the host of the URL
are not compared with anything by this code, and not modelled.

A handler runs `receive_activity` or `verify_activity`, with an await between
any two places. `Arrive` is the extractor, `Parse` `parse_activity_data` with
`verify_url_and_domain`, then the actor comes from a resolver (`Resolve`) or by
dereferencing it: `ReadActor`, `FetchActor`, `DeleteActor`, `StoreActor`. These
are `ObjectId::dereference` reduced to what it answers for an actor; its
redirects are the constant `Resolved`, its other failures one error.
`Check` is the stretch of `verify_post_resolution` without an await, and
`BusinessVerify` the application's `verify`.

Around the handlers, actors take new keys into use and disappear, copies of
them in the database age by the clock, and every request that was signed stays
in `net`: it may arrive at any time, any number of times, and altered in one of
the ways `Faults` names. A fault may replace what is not signed and what is, add
a `Digest` header before or after, or remove it; it cannot make a signature of
another string. A request may be signed with any key the actor has had: this
library's own sender goes on using the one in its cache after a rotation, and
others may have got hold of one (`Send`). Whoever signs writes the time of its
clock, which is everybody's. The actors in `Undated` are those for which the
application keeps no time of the last refresh, so that they are never fetched
again. A `KeyId` that is neither persisted by the application nor the actor's id with a
fragment is one this library does not understand (`Understood`).

### LocalFederation and LiveFederation

The two programs are small, but their requests nest: `receive` of a Follow
sends an Accept to the server that waits for the Follow to be answered, and the
bot's `receive` of a post sends a reply to the server that waits. A thread of
`LocalFederation` is a call or a request on a server, and awaits the next one;
any of these waits may end by a timeout (`GiveUp`), after which the handler on
the other side goes on or is dropped at an await (`Drop`). `FetchUser` pushes
the user that was fetched behind older entries, as the example's `from_json`
does, and `FirstEntry` finds the oldest.

Left out of both: the request limit (20; no chain here comes near it), signed
fetches, and changes of keys, so that each signature that arrives is valid.
In `LiveFederation` the author of a post is its actor, and what `FetchActor`
may fail with includes a signature or an id that does not verify.

## Runs

| Run | Instance | What it shows |
|---|---|---|
| `queue_limited` | 3 tasks, limits 2 and 1, answers 200, 404, 503, one hourly reset | accounting, limits, schedule, verdicts, shutdown; no deadlock except the quiet end |
| `queue_live` | 2 tasks, no limit on workers, limit 1 on retries, under fairness | the default configuration loses nothing although nobody joins its workers; the queue implements `Delivery`; every accepted task is settled, `shutdown` returns |
| `queue_drain` | 2 tasks, limit 1 on workers, under fairness of the waiting task | what a snapshot cannot miss; what Idle takes; waiting ends |
| `drain_idle` | 1 task | a violation, see Findings |
| `fetch_hops` | 1 caller, 11 URLs, limit 4 | where hops can lead one fetch; that it ends |
| `object_shared` | 2 callers, 3 URLs, limit 1 | the limit and the bound of the recursion under interleaving |
| `object_tombstone` | 1 caller, 3 URLs, limit 2 | a violation, see Findings |
| `webfinger` | 1 caller, 3 URLs, limit 3, two answers with two and four links | the order of links, the promise of `ObjectStore`, termination of it all |
| `send` | 2 callers, 1 sender, a list with a duplicate, a local inbox, an address and two valid ones, 1 attempt, with and without debug mode | tasks, handing over, the key cache, settling |
| `inbox` | 2 handlers, an actor and an alias of it, 2 bodies, 2 ways to sign, 1 request, 2 keys, 2 moments, bodies altered and `Digest` headers added | what verification means, how long a signature lives, causes of refusal, why an old key is trusted |
| `local` | 2 servers, 4 calls, 3 entries of users | followers, posts, termination of nested requests |
| `live` | 1 author, 2 activities, 3 deliveries of each | replies, termination |

Why the bounds are enough to meet the interesting cases:

- Three tasks with limits 2 and 1 fill both pools, leave a message in each
  channel and one in the dispatcher's hands, and let a retry block the others.
  Tasks are interchangeable, so symmetry is sound in the run without temporal
  properties.
- `MaxHours` bounds the hourly resets. One reset falls between any two counter
  operations; a second would only lower what the first has lowered.
- `Answers` has one code of each class that leads to a different step; the
  operators of `SendOutcome` are defined on all codes.
- The URLs of `fetch_hops` are an alias and its object on one server, another
  server, this instance, and for each check of `verify_url_valid` one URL that
  only this check refuses. Limit 4 allows a redirect, a canonical refetch and a
  redirect of that.
- With limit 1 in `object_shared` both callers race for the one request. With
  limit 3 in `webfinger` there is the request itself and room for a redirect of
  a link, or for one nested dereference that fetches and one more that is
  refused.
- In `inbox` the clock has two moments, and a copy is outdated and a signature
  expired at the second, so that both can happen before and after a rotation.
  One request is enough because it stays in the network, may be signed with
  either key, and both handlers may be handling it. The run alters bodies and
  adds `Digest` headers; the theorems cover every set of faults, targets and
  requests, and actors without a time of the last refresh. The actor and its
  alias publish one key id, so the run meets no `ActorKeyMismatch`; that check is
  left to the theorems too. `View` leaves out the last answer of a handler, which no step reads, tells
  digests apart by whether there is one, and takes requests for the same that
  are refused whatever key and time they meet; the properties do not tell them
  apart either.
- In `send` both callers can be anywhere relative to each other, one computes
  while the other waits, and the list has each case `build_tasks` tells apart.
- In `local` alpha follows beta twice and is listed twice, beta follows alpha
  at the same time, and posts after. `MaxUsers` bounds how often users age: a
  server can refetch the other one twice. In `live` three deliveries allow a
  late reply of the first to arrive after the answer to the last.
- A caller of `ObjectId` makes one call, and a fetch of `Fetch` alone is made
  once per caller: the `Data` of a request is dropped with it. `sent` is capped
  at one request beyond the limit, so that a broken limit is a finite error.

Deadlock is not checked where callers simply come to their end
(`CHECK_DEADLOCK FALSE`); it is checked in `queue_limited`, whose module
adds the stuttering `Quiet` only in the state in which all work is done and all
tasks have ended.

### Fairness

`ActivityQueue!Fairness`: tokio polls every task that is ready, an attempt ends
with an answer or `request_timeout`, a sleep ends. So each started worker,
dispatcher and awaiting `shutdown` has weak fairness. There is none for callers
of `queue`, for the call of `shutdown`, or for an inbox to accept. Weak fairness of
`Dispatch(p)` as one action is enough, since a dispatcher is one task. In
`QueueDrain` only the waiting task and its deadline are fair: the wait ends
whatever the queue does. In `Fetch`, `ObjectId` and `Webfinger` a future that is awaited is
polled and the application's functions return; servers need never answer, for
then the timeout does. In `SendActivity` each call is polled, and the queue
makes progress while it lives. In the two examples the fairness is weaker still:
as long as any thread can go on, some thread does. No timeout, lost answer or
drop is needed for the calls to return, which is the point of `CallsReturn`.

## Findings

- `drain_idle`: `Idle` is returned although a task was unfinished during the
  whole call, because a task between two counters is in none.
- `object_tombstone`: `dereference_forced` of a deleted object returns
  `ObjectDeleted` without calling `delete`, against the comment on
  `Object::delete`.

### Remarks

Places where the code and a text about it differ, or where a reader would expect
otherwise, without a run of their own:

- A permanent rejection (404, say) is counted as `completed`
  (activity_sending.rs:266), which `QueueSnapshot` documents as "Activities
  completed successfully during the current hour." (activity_queue.rs:47).
- A refused request stays counted, so `request_count()` ("Total number of
  outgoing HTTP requests", config.rs:442) may exceed what was sent.
- An object reached through a redirect or a canonical refetch is stored under
  its own id, so `dereference_local` with the id that was dereferenced does not
  find it, against docs/07_fetching_data.md:25.
- docs/07_fetching_data.md:42 says that webfinger returns the first item; the
  links are tried from the last on (webfinger.rs:89).
- A note is saved under whatever `attributedTo` says, and the live example sends
  its reply there: `CreatePost::verify` and `receive` (create_post.rs:60-73) do
  not compare it with the actor of the activity. The model has notes by their
  actor only.
- The key in `actor_pkey_cache` signs although the actor passed in has another
  one by now; `cache[s]` in `SendActivity` is some key the actor has had, and
  no property says more.
- A receiver accepts such a signature, or one by whoever has the old key, as long
  as its copy of the actor is recent, which may be a day
  (`StaleKeyExplained`); an actor without `last_refreshed_at` is never fetched
  again (object_id.rs:94), and its old key is accepted for good. What is
  bounded in any case is the age of the signature (`AcceptedWhileFresh`).
- If a request has several `Digest` headers, the signature is checked over the
  last (http_signatures.rs:141-146) and the body against the first
  (inbox.rs:238), so then the two checks do not say together that the body was
  signed. `VerifiedWasSigned` says so for one header only, which is what the
  library's own sender writes.
- A signature binds method and path; no check compares the host it was meant for
  with this instance.
- An inbox whose name cannot be resolved at the moment is skipped, and the
  caller is told Ok (activity_sending.rs:347). In the live example an author
  may be told Ok and have no reply for this reason, against examples/README.md
  ("it will automatically send a response"); `RepliesAccounted` names the
  exception.
- docs/02_overview.md:10 says of the live example that it sends a message once
  it is started; the code sends one only in reply.
- The local example's `from_json` pushes a user without looking for an older
  entry (person.rs:223), against traits/mod.rs:166-170, which asks for an upsert.
- `DbUser::post` of the local example ends with an error before anything is
  sent if one follower cannot be dereferenced (person.rs:135).

## Proofs

All proofs hold for every number of tasks or callers, every limit, and every
set of answers, URLs, actors, bodies, servers or faults. They assume only what
the modules name: finite sets of tasks and callers, natural limits, a positive
backoff, that URLs have the four fields, and that the calls of the examples name
servers and actors there are. Every invariant that a passing run checks is a
theorem, and so are the two refinements. The proof modules extend each other as
the models do: `QueueDrainProofs` rests on `ActivityQueueProofs`, and
`WebfingerProofs` on `ObjectIdProofs`.

### ActivityQueue

The invariant is built in layers, each proved from the one below:

1. `TypeOK`.
2. `MessagesInv`: a message is in a channel exactly while its task is queued.
   Needed because receiving one message must not leave a copy.
3. `TasksInv`: for each task the place, `count`, `nap`, `attempts` and `last`
   fit together. Neither the schedule nor the verdicts are inductive alone:
   both depend on how the loop counter of each worker follows the attempts.
4. `LifeInv`: a dispatcher stops receiving only when no task can reach it any
   more: the send side after the handle is given up, the retry side after the
   send side and after the last worker that has a clone of its sender.
5. `SlotsInv`: every running worker of a limited pool is in its join set, and
   the join set is never larger than the limit.

From these follow `TypeCorrect`, `MessagesUnique`, `ScheduleKept`,
`VerdictSound`, `NothingIsLost`, `LimitsHold`, `CountersExact`,
`OutcomesCounted`, `ShutdownLeavesNothing`, and `PromiseKept`: each step of the
queue is a step of `Delivery` or leaves its view unchanged.

### QueueDrain

`WatchingIsSilent` says that a behaviour of `QueueDrain` is one of
`ActivityQueue`, so what is proved of the queue holds while somebody watches it;
of this `CountersExact` is needed, because a counter that reads zero must stand
for no task. `DrainInv` adds what lies between the loads of one snapshot: while
no counter has been found busy, each task that stayed where it was has its
counter among the `unread` ones. It says what `idleObserved` stands for, an
idle snapshot after which there was no busy one (`StreakOK`), and that since then
the loop has slept a whole interval unless the deadline came (`RestOK`): a turn
that finds the deadline ahead therefore knows that the sleep before it was not
cut short. Theorems: `WatchingIsSilent`,
`DrainInvariant`, `SettledWorkSeen`, `IdleTakesTwo`.

### Fetch

`FetchInv` adds to the properties what each frame remembers between steps
(`FrameOK`): its URL stays verified while its request is counted and executed,
and a fetch that has met another id is not conditional any more. The limit
follows from `RequestsAccounted`, which is inductive: requests executed or
under way are as many as were counted, up to the limit. Theorems: `LimitKept`,
`VerifiedRemote`, `DomainKept`, `NotModifiedSound`.

### ObjectId

`Inv` adds to `TypeOK` and `FetchInv`:

- `StackInv`: what a dereference is about to write is remote, and what it holds
  from the database is remote and still there (the database forgets no object,
  so this survives the steps of others);
- `FetchMatches`: a caller that dereferences has a fetch exactly while its
  innermost dereference awaits one (`Resting` adds, for `ObjectId` by itself,
  that other callers have none; with webfinger they may);
- `PaidInv`: the dereferences that await a nested one, and the innermost ones
  that have got an answer, have each used up a request of their own. The second
  part is what makes the bound inductive: a request is sent long before
  `from_json` dereferences again.

Theorems: `ObjectTypesKept`, `DereferencesVerified`, `RecursionBounded`, and `StoreIsKept`, the
refinement of `ObjectStore`.

### Webfinger

`WInv` is the invariant of `ObjectId` together with three parts for each caller:

- `Progress`: the links left and the links tried split the candidates, the ones
  tried are in descending order, and each that is left comes before them all;
- `ResultOK`: `NoValidLink` means that no link is left, and a caller awaits a
  link or has an actor only after it tried one;
- `CallsOK`: webfinger's own code and its dereferences take turns. The fetch of
  a caller is the request of webfinger or that of a dereference and never both,
  and the outermost dereference is of the link tried last, however deep
  `from_json` nests below it.

The lemmas of `ObjectIdProofs` about single steps need `FetchMatches` and not
`Resting`, so they hold of these steps beside webfinger's too; that is how
`StoreKept`, `RequestsAccounted`, `OnlyVerifiedRemote` and `RecursionPaidFor`
carry over. Theorems:
`WebfingerInvariant`, `LinksInOrder`, `WebfingerKeepsStore`, `WebfingerLimit`,
`WebfingerVerified`, `WebfingerRecursion`.

### SendActivity

Two invariants side by side. `TaskInv` says of each call that its tasks are
exactly the inboxes seen so far that are remote and were not refused, without
repetition, and that the queue knows exactly the ones handed over
(`StatusOK`); `HandedOverExactly` speaks of what the call was given, and is not
inductive without the inboxes still to come. `KeyInv` says who computes a key
does so for the sender of its own call; without it the end of one computation
could strand those who wait for another. Theorems: `TypesKept`,
`NobodyWaitsInVain`, `OnlyDeliverable`, `HandsOverExactly`. Assumed: callers,
senders and inboxes are any sets, keys any number.

### Inbox

`InboxInv` says what each part of the state remembers of the past:

- `SignedOK`: a request in the network is as it was signed, with one `Digest`
  header about its body, and its date is the time at which it was;
- `CopyOK`: a copy in the database was fetched while its key was in use
  (`InUseAt`), and not stored before that;
- `HandlerOK`: what a handler holds still carries the signature of some request
  in the network, whatever became of the rest; the actor it has resolved is the
  one the body names or what that redirects to; and what the checks have shown
  remains true at the places after them.

`InUseAt` with a time is what makes this inductive while actors change keys:
`IsRetired` changes under a handler's feet, the time a key retired does not.
What a check has shown is carried on to `verified`: which request the signature
was made for, and that it was fresh then, for any of its keys. `OneDigest` is the
lemma that the two readings of a single `Digest` header agree; it is where
`OnlySignedIsReceived` needs that there is only one. Theorems: `InboxInvariant`,
`TypesKept`, `OnlySignedIsReceived`, `OnlyFreshIsReceived`,
`NotRefusedWithoutCause`, `StaleKeysExplained`.

### LocalFederation

`FollowersAccounted` compares what a call reported with what two databases hold,
with up to three threads on two servers between them. `Inv` ties these together:

- `FollowOK`: the call, its Follow and the Accept of that begin one after the
  other and succeed one inside the other: the call says Ok only if the Follow
  was answered so, and that only if the Accept was;
- `PostOK`: whoever a post looks up, has collected or sends to is a follower,
  the inboxes left differ from each other, and none of them was sent to;
- `PostsOK`: an entry among the posts has a Create that ended well, and no post
  has two entries;
- `CountOK`: a follower is listed exactly once for each Follow whose receive has
  begun. This equality is inductive; the two inequalities of
  `FollowersAccounted` are not.

A step concerns the threads of one call (`CallsApart`), and followers only
become more, so what holds of other calls stays true. `GoesOnKeeps` and
`FailsKeeps` are about any thread that looks on or fails; many actions are one
of these. The sets of servers and of calls may be infinite: only the calls made
so far are finitely many, which is part of `CountOK`. Theorems:
`LocalInvariant`, `FollowersAreAccounted`, `PostsReachOnce`.

### LiveFederation

`Inv` says that the inboxes of authors hold exactly the replies that have
arrived, each one once, that nobody is told Ok before that (`HandlerOK`), and
`EarlierFailed`: when a delivery is repeated, not only the last attempt but all
earlier ones were reported to have failed. `Deliver` looks at the last one only.
Theorems: `LiveInvariant`, `RepliesAreAccounted`.

### Only model-checked

Liveness (`PromiseFulfilled`, `ShutdownReturns`, `WaitReturns`, `FetchReturns`,
`ResolveReturns`, `CallSettles`, `CallsReturn`, `DeliveryAnswered`) and anything
with `ENABLED` is beyond the prover, so these eight are checked on the instances
above and not proved. The two violations under Findings are counterexamples;
there is nothing to prove about them.

## Not modelled

Serialisation, parsing of headers and bodies, the text of errors, logging,
cryptography, and the size of streams. Crashes: nothing is persisted, so a
crash loses what the queue holds, and there is no recovery to model.
`signing_actor` (http_signatures.rs:155-193) is marked `dead_code` and called by
nothing. Collections are fetched like objects and keep no state. The builder,
the middleware and the client shim hold values and pass them on. Time in the
queue, beyond the intervals of its retries. Bodies of responses in `send_once`
(`detail`, `Retry-After`), which the queue drops.

## Plan

Done: every component with state of its own, its composition with the parts it
calls, the two programs that put them together, and a proof of every safety
property that is checked. What would add most next:

1. `Inbox` over the steps of `ObjectId` instead of their summary, as a
   refinement.
2. A timed variant of the retry path: how long a task may wait for a slot while
   retries sleep, against the intervals the docs promise.
3. The retry path of `Delivery` composed with `Inbox` on the receiving side:
   every attempt signs anew, so that a retry days later is still fresh.
