# TLA+ models of iroh-willow's intent machinery

This directory holds TLA+ models of the parts of iroh-willow that decide what a
synchronisation *intent* learns from a session. It also holds the TLC
configurations that check those models. The sources are in `src/src/`.

## The system

An **intent** (`session/intents.rs`) is a caller's request to synchronise a set of
interests with one peer. Its parts are:

- **`Intent` / `IntentHandle`**: `Intent::new` creates two bounded mpsc channels.
  - Events flow to the handle through the event channel (capacity `INTENT_EVENT_CAP` = 64).
  - Updates flow from the handle through the update channel (`INTENT_UPDATE_CAP` = 16).
  - A *detached* intent (`new_detached`) has neither channel.
  - The handle can:
    - read events (`poll_next`);
    - send `AddInterests` or `Close` (`add_interests`, `close`);
    - fold the event stream into a `Completion` (`complete`);
    - drop either half at any time.
- **`IntentDispatcher`**: owned by a session.
  - `run()` is a generator that the session polls.
  - It first submits the initial intents (`pending_intents`).
  - It then loops on a `select!` over two sources:
    - the session's inbox (`Input::SubmitIntent`, `Input::EmitEvent`);
    - a `StreamMap` of the intents' update streams.
  - It yields two outputs to the session:
    - `Output::SubmitInterests`, which asks the session to reconcile the interests;
    - `Output::AllIntentsDropped`, which says no intent is left.
- **`submit_intent`**: resolves the interests with the capability store, which can fail. It then replays every area already in `complete_areas` through `on_reconciled`. If the intent is still incomplete, it registers the intent and its update stream.
- **`emit_event_inner`**:
  - It records a `Reconciled` area in `complete_areas`.
  - It runs every registered intent's `handle_event` concurrently under `join_all`.
  - Each `handle_event` updates that intent's interests and awaits a send into its event channel.
  - Afterwards it cancels the intents that are complete, and those whose receiver is gone and whose update stream is no longer watched.
- **`drain_all`** and **`RemainingIntents`**: when the session ends, the dispatcher:
  - closes and drains its inbox;
  - collects the queued and pending intents and the event senders of the incomplete ones;
  - either aborts all of them (`abort_all`), or aborts the active ones and hands the queued ones back (`abort_active`).
- **rpc client** (`rpc/client.rs`): `SyncHandle` wraps an intent's streams over RPC. `SyncProgress` latches what the stream has shown. `SyncHandleSet` manages one handle per peer.

The hard part is concurrency, in three places:

- The fan-out awaits many bounded sends at once.
- A handle can drop either half of its channels at any moment.
- The session can stop polling `run()` at any await, a fan-out's `join_all` included, and tear the dispatcher down.

## Modules

### `IntentDispatcher.tla`: the dispatcher, its intents' channels and the teardown

**Data abstraction.** An area is a non-empty set of *cells* (`Areas`):

- intersection is `\cap`;
- `includes_area` is `\subseteq`.

An intent's `NamespaceInterests` is a set of `<<namespace, area>>` pairs. An
interest specification that fails `resolve_interests` is the model value
`Unauthorised`. Events are records with a `kind`, a namespace and an area. An
`Abort`'s error is dropped, because nothing compares errors.

**State**:

| variable | code |
|---|---|
| `phase` | where `run()` / the session is: `startup` (initial loop), `loop`, `failed` (`run()` returned `Err`), `done` (inbox ended), then `draining`, `drained`, `aborting`, `finished` |
| `step` | the await `run()` is parked in: `idle`, `replay` (inside `submit_intent`), `fanout` (inside `join_all`) |
| `inbox`, `inboxClosed`, `pending` | the inbox channel, whether its sender side is closed, `pending_intents` |
| `reg`, `interests`, `updRx` | the keys of `intents`, each `IntentInfo.interests`, the keys of `intent_update_rx` |
| `completeAreas` | `complete_areas` |
| `cur`, `replayLeft` | the intent being submitted and the cached areas not replayed yet (the `HashMap` order is unspecified, so the replay picks any) |
| `outq`, `sendErr` | per intent, the events an in-progress `handle_event`/`on_reconciled`/abort still has to send, and the fan-out results that were `Err(ChannelReceiverDropped)` |
| `queued`, `remQueued`, `active`, `handedOver` | `drain_all`'s `queued`, `RemainingIntents.queued`/`active_incomplete`, and the intents `abort_active` returns |
| `evq`, `updq`, `rxDropped`, `txDropped` | the two bounded channels of each handle and whether each half was dropped |
| `handed`, `inputs`, `updatesSent`, `reconcileReq`, `lastOutput` | the environment: intents given to the session, bounds, what `SubmitInterests` asked to reconcile, the last `Output` |
| `told`, `given`, `closedByCaller` | history: events delivered, interests submitted, handles that called `close` |

**Actions.** Every await of the code is a step boundary.

- `SubmitPending` / `TakeSubmit` take an intent from `pending_intents` or from the inbox.
  - `SubmitRejected` is the resolve error, which ends `run()`.
  - `SubmitResolved` starts the replay.
- `ReplayArea` is one `on_reconciled`. `ReplaySendFailed` is its `?`.
- `SubmitComplete` and `SubmitRegister` are the two branches of `if !info.is_complete()`.
- `TakeEmit` / `DrainEmit` run the synchronous part of every `handle_event` (`EmitEventInner`).
  - `DeliverEvent` and `FanoutSendFailed` complete each awaited send.
  - `FinishFanout` is the loop over `send_res` and `emit_event`'s `AllIntentsDropped`.
- The `select!` over the update streams has four actions:
  - `UpdateAddInterests` / `UpdateAddRejected` are `update_intent`'s `AddInterests` branch and its logged error.
  - `UpdateClose` is `Close`, through `cancel_intent`.
  - `UpdateEndedCancel` / `UpdateEndedKeep` are the `None` branch, with `events_closed` and `unwrap_or(true)`.
- `InboxEnded` is the inbox returning `None`.
- Teardown:
  - `BeginDrain`, `DrainSubmit`, `DrainEmit` and `FinishDrain` are `drain_all`. `BeginDrain` may happen between two steps of `run()` or while `run()` is suspended on a send into a full channel (`SendBlocked`), in the replay of `submit_intent` or in a fan-out. Dropping `run()` there drops the sends still in flight, and the intent inside `submit_intent` with them. The interests `handle_event` already removed stay removed.
  - `AbortAll` / `AbortActive` are the two `RemainingIntents` methods.
  - `AbortSendFailed` and `FinishAbort` model their `join_all`.
  - `SendAbort(i)` is `Intent::send_abort`, which the session may call on an intent `abort_active` handed back. It sends an `Abort` unless the intent is detached, ignores a dropped receiver, and drops the `Intent`. The lifecycle's `returned -> closed` edge is this step.
- The environment:
  - `SessionSubmit`, `SessionEmit` and `SessionCloseInbox` are the session.
  - `Receive`, `AddInterests`, `Close`, `DropUpdateSender` and `DropEventReceiver` are the handle.

The session is not part of this repository. Its behaviour is constrained only as
far as the dispatcher relies on it: it reports `Reconciled` and intersection
events only about areas it was asked to reconcile (`Requested`).

**Properties.**

- `TypeOK`: the type invariant. Its mutant is a send that ignores the channel capacity.
- `InterestAccounting`: until `drain_all` is called, every interest submitted to a live handle that the dispatcher no longer tracks has been covered by a `Reconciled` event for an area that includes it. The event is either delivered or still being sent. After a teardown that cut a fan-out this no longer holds; `teardown_lost` shows the consequence. This is the contract that lets a handle's `complete` or stream reader trust the events.
- `NoCompleteLingers`: at every await outside a fan-out or replay, a registered intent is either incomplete, or its receiver is gone while its update stream is still watched. That second case is the one `emit_event_inner` deliberately keeps.
- `DropSignalled`: whenever the registry becomes empty in `startup`/`loop`, the last output the session saw is `AllIntentsDropped`, or nothing was ever submitted.
- `TeardownNotifies` (expected violation, spec section 7): after teardown, every handle that did not drop its receiver, did not close and was not handed over has been told `ReconciledAll` or `Abort`. It fails when `run()` is dropped during a fan-out (`teardown_lost`). It would also fail for an intent whose interests do not resolve: `submit_intent` returns the error (intents.rs:440), which ends `run()`, and drops the intent with no event. `teardown_lost` uses the main instance, where every interest resolves.
- `NoDispatcherFailure`: `run()` never ends with an error. This is checked only as an expected violation.
- `AcceptedInterestsApplied`: while `run()` is serving, an `AddInterests` that the handle's `add_interests` already put into the update channel is never dropped with the channel, unless the caller itself closed the intent or dropped its receiver. This is checked only as an expected violation (`update_lost`).

**Liveness (under `FairSpec`).**

`Next` is split into `DispatcherNext` (the steps of the one task that runs `run()`, `drain_all` and the `join_all` of `abort_*`), `SessionNext` and `HandleNext`. `FairSpec` adds:

- weak fairness on `DispatcherNext`;
- weak fairness on `Receive(i)` for every handle in the constant `Readers`.

The properties are:

- `EventsReachReaders` (spec P6): an inbox event that matches a registered handle in `Readers` is eventually taken, and the handle's sends for it finish. The exceptions are the handle going away, dropping its receiver, or `run()` failing.
- `CloseTakesEffect`: a handle that sent `Close` is eventually unregistered while `run()` is serving.
- `AbortCompletes`: `abort_all` / `abort_active` return.
- `DroppedHandleCancelled`: a registered intent whose handle dropped both halves is eventually cancelled while `run()` is serving. This is checked only as an expected violation.

**Refinement.** `Stage(i)` reads each intent's lifecycle stage off the dispatcher's state:

| stage | where the intent is |
|---|---|
| `caller` | not yet handed to the dispatcher |
| `queued` | in `pending`, the inbox, drain's `queued` or `RemainingIntents.queued`, or inside `submit_intent` |
| `active` | registered, or in `active_incomplete` |
| `aborting` | its `Abort` is being sent |
| `returned` | handed back by `abort_active` |
| `closed` | anything else |

`Live` (`drain_all` not yet called) and `told` complete the mapping. `LifecycleRefinement` checks `LC!Spec`, where `LC == INSTANCE IntentLifecycle WITH ...`.

### `IntentLifecycle.tla`: what the dispatcher promises an intent

This is the abstract specification. Each intent moves along a fixed set of edges:

- `caller → queued → active → closed`;
- `queued → closed`;
- `queued | active → aborting → closed`;
- `queued → returned → closed`.

Some edges depend on `drain_all`:

- An intent is handed to the dispatcher and registered only while the session is live.
- It is aborted or returned only after `drain_all` has been called.
- The step that calls `drain_all` (`EndSession`) may also close a `queued` intent: the one `submit_intent` held when `run()` was dropped.

A handle's `heard` set grows only while its intent is `queued`, `active`, `aborting` or `returned`. One step may move several intents: a fan-out cancels several, and `drain_all` and `abort_*` move them all.

### `MCIntentDispatcher.tla`

This module fixes the model values and the small constant functions the `.cfg` files use.

- Intents `i1`, `i2`, `i3`; one namespace `n1`; two cells `c1`, `c2`.
- The areas are `{c1}`, `{c2}` and `{c1,c2}`, so both *include* and *overlap-only* cases occur.
- `i1` starts with interest `{c1}`. The others start with `{c1,c2}`.

### `IntentCompletion.tla`: `complete()` against the running dispatcher

This module extends `IntentDispatcher` with callers that await `IntentHandle::complete` (intents.rs:231-252). It is the composition of the dispatcher with the handle side of the event channel.

- `calling`, `sawAll`, `sawSome` and `verdict` are the running call and its two local flags (`complete`, `partial`), and what it returned. `attempts` counts the calls (at most `MaxAttempts`). `before` holds the kinds of the events taken out of the channel before the call began: by polling the stream, by an earlier call, or by a call dropped midway (`Taken(i)`).
- `CompleteBegin(i)` starts a call with fresh local flags. While it runs, the caller does nothing else with that handle, because `complete` takes `&mut self`. `CNext` therefore restricts `HandleStep(i)` to the handles not in `calling`.
- `CompleteRecv(i)` is one iteration of the `while let` loop. An `Abort` returns the error at once.
- `CompleteDrop(i)` is the caller dropping the future at its await, e.g. when a timeout around it fires. The events it took go with its locals. The caller may then call again.
- `CompleteEnd(i)` is the loop's exit. `recv()` returns `None` only when the channel is empty and the dispatcher has dropped the intent's event sender. `SenderGone(i)` reads that off the dispatcher as `Stage(i) = "closed"`.
- `CFairSpec` makes the dispatcher task, the running `complete()` and the stream readers of `Readers` (outside `complete()`) weakly fair. Starting and dropping a call are not fair: a caller may never call, and a timeout may or may not fire.

**Properties.**

- `VerdictMatchesEvents`: when a `complete()` returns, the kinds it read, together with the kinds taken before it began (`before`), give the `Completion` that spec section 3 defines over every event the dispatcher ever sent that handle (`told`). So no event is lost on the way, and the stream does not end while the dispatcher may still send. A call on a fresh stream returns exactly that `Completion`. A second call, or a retry after a dropped call, falls short by exactly what the earlier readers took: it returns `Nothing` once the stream has ended, where spec P4 asks for the same verdict again. Its mutant ends the loop on an empty channel.
- `ReconciledAllEndsComplete` (spec 4.1): once `complete()` has read `ReconciledAll`, it eventually returns `Complete`, unless the caller drops it first. This holds for `ReconcileOnce` intents, because the fan-out that sends `ReconciledAll` also cancels the intent. Its mutant keeps complete intents registered. It is checked only for `ReconcileOnce`: a `Continuous` intent is never cancelled, so its `complete()` keeps waiting after `ReconciledAll` (intents.rs:234-242) until the session ends, as the method's doc says, where spec 4.1 calls `ReconciledAll` terminal.

`MCIntentCompletion.tla` extends both `MCIntentDispatcher` and `IntentCompletion`.

### `SyncClient.tla`: completion on the caller's side

This module models what a caller makes of an intent's event stream over rpc. It covers these parts of `rpc/client.rs`:

- the response mapping of `sync_with_peer`, including `Started` becoming `ReconciledAll` and a transport error becoming `Abort`;
- `SyncProgress`;
- `SyncHandle`'s `poll_next`, `complete` and `split`;
- `SyncHandleSet`'s `insert`, `remove`, `poll_next` and `complete_all`.

**Streams.** A handle's stream is chosen when the handle is created. The choices are the streams an intent can produce:

- Reconciled events, with ReconciledAll only after a Reconciled;
- optionally a final Abort;
- over rpc, optionally `Started` first and a final transport error.

Intersection events are left out because no fold reacts to them. The stream ends after its last item.

**State.**

| variable | code |
|---|---|
| `stream` | the remaining items of each stream |
| `peerOf` | the peer of each `sync_with_peer` call |
| `loc` | where each `SyncHandle` is: held by the caller, in the set, or gone |
| `progress` | `SyncHandle.state`, or `HandleState.state` while in the set |
| `rxOf`, `stOf` | the `event_rx` and `intents` maps of the set |
| `panicked` | an `expect("unreachable")` failed |
| `shown`, `genuine`, `results` | history: what each reader has seen, whether a dispatcher-sent ReconciledAll was among it, and one record per finished `complete()` |

**Algorithms.** `SyncHandle::complete`'s loop is the recursive `ReadyLen`, which reads until ready or until the stream ends, followed by a `FoldLeft` of `HandleEvent`.

Each `complete()` call is one step. Nothing else reads the same handle while it runs, and `complete_all`'s futures act on disjoint handles.

**Properties.**

- `NoUnreachablePanic`: the set's `expect("unreachable")` calls never fire. This needs `event_rx` and `intents` to stay keyed alike through every mix of calls.
- `CumulativeVerdict` (expected violation): this is spec 4.1. The verdict covers every event the handle has delivered. The same fresh fold makes a second `complete()` after the stream ended return `Nothing` (spec P4); `IntentHandle::complete` keeps its flags in locals in the same way (intents.rs:232).
- `CompleteMeansReconciled` (expected violation): `Complete` rests on a real ReconciledAll.

`MCSyncClient.tla` provides two interchangeable `SyncHandle`s (symmetry), and two peers. `IntentHandle::complete` is modelled against the dispatcher in `IntentCompletion`. It sets `MaxBody = 2`, the least that lets a Reconciled precede a ReconciledAll or an Abort. It sets `MaxCompletes = 2`, enough for a repeated `complete()`. Deadlock is not checked, because a caller may drop every handle and stop.

## Runs

| run | cfg | expect | what it shows |
|---|---|---|---|
| `dispatcher` | `MCIntentDispatcher.cfg` | pass | Two handles: `i1` is initial; `i2` is live and joins late through the inbox. This exercises the replay of cached areas, `AddInterests`, `Close`, both drops, both teardown paths and every interleaving of them. `TypeOK`, `InterestAccounting`, `NoCompleteLingers` and `DropSignalled` hold. 4.9M distinct states, about 80 s. |
| `teardown_lost` | `MCTeardownLost.cfg` | violation | `TeardownNotifies` fails. A `Reconciled {c1}` empties `i1`'s interests, and `Reconciled` fills `i1`'s one-slot channel. `ReconciledAll` waits for room in `join_all`. The session drops `run()` there and calls `drain_all`. Its `is_complete` filter (intents.rs:379) leaves `i1` out of `active_incomplete`. `abort_all` sends it nothing, and its stream ends without `ReconciledAll` or `Abort`. |
| `dispatcher_failures` | `MCIntentDispatcherFail.cfg` | pass | A detached `i3` (complete at submission once `{c1,c2}` is cached), an `i2` whose interests do not resolve, and rejected `AddInterests`. Complete intents are never registered, and `AllIntentsDropped` still follows the last intent. The dispatcher also refines `IntentLifecycle` (`LifecycleRefinement`), including teardown at a blocked send. 3.0M states, about 100 s. |
| `replay_failure` | `MCReplayFailure.cfg` | violation | `NoDispatcherFailure` fails: `i2` drops its event receiver before its `SubmitIntent` is processed while a `Reconciled` area is cached. The replay's send fails and the `?` (intents.rs:462) ends `run()` for every intent. The same error in a fan-out only cancels that one intent. |
| `dispatcher_live` | `MCIntentDispatcherLive.cfg` | pass | `FairSpec` with `Readers = {i1, i2}`, `MaxInputs = 2` and no `AddInterests`, which keeps the temporal check within minutes. `EventsReachReaders`, `CloseTakesEffect` and `AbortCompletes` hold: while every caller reads, the fan-out, `Close` and the abort sends all finish. 201k states, about 2 min. |
| `backpressure_shared` | `MCBackpressureShared.cfg` | violation | `EventsReachReaders` fails with `Readers = {i2}` (spec P6). A `Reconciled` for `i1`'s whole interest puts `Reconciled` and `ReconciledAll` into `i1`'s one-slot channel, and `i1`'s caller stops reading. `join_all` (intents.rs:491) then never returns. The next event, which matches the promptly reading `i2`, stays in the inbox for ever. |
| `dropped_handle_lingers` | `MCDroppedHandleLingers.cfg` | violation | `DroppedHandleCancelled` fails. `i1`'s caller drops the update sink first: `run()` stops watching the stream and keeps the intent (intents.rs:428). The caller then drops the event stream, and nothing cancels the intent or yields `AllIntentsDropped`. This is possible after `split()`. `SyncHandle::split`'s doc says the intent is dropped once both halves are. |
| `sync_client` | `MCSyncClient.cfg` | pass | Two `SyncHandle`s for either of two peers are polled, completed, split, inserted (also into an occupied entry), removed, and read and completed through the set, in any order. `NoUnreachablePanic` holds. 3.1M states, about 55 s. |
| `verdict_not_cumulative` | `MCVerdictNotCumulative.cfg` | violation | A handle is polled for a Reconciled and its stream ends. `complete()` then returns `Nothing`, because it folds into a fresh `SyncProgress` (client.rs:492). `SyncHandleSet::poll_next` never latches at all. |
| `started_is_complete` | `MCStartedIsComplete.cfg` | violation | `Started` is mapped to `ReconciledAll` (client.rs:163), so `complete()` returns `Complete` after reading only `Started`. |
| `update_lost` | `MCUpdateLost.cfg` | violation | `AcceptedInterestsApplied` fails. `i1` (ReconcileOnce, `{c1}`) sends `AddInterests {c2}` while the `Reconciled {c1}` that completes it is being fanned out. `select!` took the inbox event first. `emit_event_inner` cancels the complete intent (intents.rs:500), dropping its update stream with the update still in it, although `add_interests` returned `Ok`. The new interests are never submitted, and the handle's stream ends as `Complete`. |
| `intent_completion` | `MCIntentCompletion.cfg` | pass | `CFairSpec` with `i1` awaited by `complete()` and `i2` read as a stream, both `ReconcileOnce`, `MaxInputs = 2`. `i1`'s caller may poll, call `complete()` twice (`MaxAttempts = 2`) and drop a call midway. `VerdictMatchesEvents` and `ReconciledAllEndsComplete` hold. 1.6M states, about 2 min. |

**Bounds.**

- `EventCap = UpdateCap = 1` keeps the channels small but still makes a send wait for the reader. The real capacities of 64 and 16 only delay the same situations.
- `MaxInputs = 3` inbox inputs let a submit, a `Reconciled` and a second event interleave.
- `MaxUpdates = 1` per handle is enough for either an `AddInterests` or a `Close`.
- Two cells are the least that separate "intersects" from "includes".
- A third intent is used only in the failure run, to keep the main run within minutes.
- No symmetry is used, because the intents play different roles.

**Fairness.** The safety runs use `Spec`, which has no fairness. Deadlock is checked in them. The only terminal state is `finished`, and `Terminated` is the stutter step that makes it legal. Everything else can always take a step: a handle can read, or the session can tear down.

The liveness runs use `FairSpec`. The code justifies weak fairness on the dispatcher task:

- the session drives `run()` and awaits `drain_all` and `abort_*`;
- `select!` and `StreamMap` poll every ready branch;
- every input is finite.

Fairness on `Receive` is the premise of the properties ("a caller that keeps reading"), not something the code guarantees. That is exactly what `backpressure_shared` takes away from one handle. The session's calls and the other caller actions are not fair, because they may stop. Symmetry is not used with liveness.

## Not modelled, and why

- The capability store (`Auth::resolve_interests`): only its outcome matters, resolved or `Unauthorised`.
- Intent ids and `next_intent_id`: a model value per intent stands for the id. The counter cannot wrap within a session.
- What the rpc server does with an update after it has received one. That server is not in this repository. `IntentDispatcher` covers the in-process channel.
- `SyncHandleSet::add_interests` and `SyncHandle::add_interests`: their only state is the update senders. Whether a peer's intent got an update, and what an `Err` leaves behind (`try_join_all` drops the sends still pending), depends on that server.
- The hand-over of `abort_active`'s returned intents to a successor session. That session is built outside this repository, so composing two dispatchers would model the successor from nothing.
- `Client::import_and_sync`: it fills a `SyncHandleSet` node by node and drops it on the first error. What becomes of the sessions already started is up to the rpc server.
- `serde_encoding`: a field-for-field conversion.
- `rpc/proto.rs`: type declarations.
- The request wrappers of `rpc/client.rs` other than `sync_with_peer`: one request, one response, no state.
- `lib.rs`: module declarations and re-exports.
- The session driver itself. It is not in this repository. It is modelled only as the environment that feeds the inbox and may stop polling `run()` between two steps or at a send that waits for room in a full channel. A send into a channel with room completes without suspending, so the model does not cut `run()` there.

## Plan

1. **`IntentDispatcher`** (done): dispatcher, channels and teardown, with the safety properties above and three divergences from the spec.
2. **`SyncClient`** (done): completion on the rpc caller's side, with two divergences from the spec and one property that holds.
3. **Backpressure and liveness** (done): `FairSpec`, three leads-to properties that hold, and two divergences: P6 and the lingering split handle.
4. **Abstract intent lifecycle** (done): `IntentLifecycle`, refined by `IntentDispatcher` through `Stage`.
5. **`SyncHandleSet`** (done in `SyncClient`, except `add_interests`).
6. **`complete()` against the dispatcher** (done, `IntentCompletion`), and the update lost to a completing fan-out (`update_lost`).
7. **A `complete()` future dropped midway** (done, `CompleteDrop` in `IntentCompletion`).
8. **Hand-over to a successor session**: compose two dispatchers through `abort_active`'s returned intents, with the successor modelled only as far as the repository fixes it.
9. **`Intent::send_abort`** (done, `SendAbort` in `IntentDispatcher`).
