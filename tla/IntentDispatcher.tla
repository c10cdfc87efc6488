-------------------------- MODULE IntentDispatcher --------------------------
(***************************************************************************)
(* The intent dispatcher of one synchronisation session, together with the *)
(* bounded channels that connect it to every intent handle, the session    *)
(* that feeds its inbox and reads its outputs, and the teardown path       *)
(* (drain_all, abort_all, abort_active).                                   *)
(*                                                                         *)
(* Source: src/src/session/intents.rs.  The dispatcher is one cooperative  *)
(* task; its await points are the sends into the bounded per-intent event  *)
(* channels, so a handler that sends is split into the synchronous part    *)
(* (one action) and one action per completed or failed send.               *)
(***************************************************************************)
EXTENDS Naturals, Sequences, FiniteSets, SequencesExt

CONSTANTS
    Intents,        \* intents created by callers (Intent::new / new_detached)
    Detached,       \* the ones created with Intent::new_detached
    Continuous,     \* the ones whose SessionMode is_live()
    InitialQueue,   \* initial_intents given to IntentDispatcher::new
    Namespaces,     \* NamespaceId
    Cells,          \* the points an Area is made of
    InitSpec,       \* [Intents -> Spec]: the interests in each SessionInit
    AddSpecs,       \* specs a handle may send with AddInterests
    Unauthorised,   \* a spec that Auth::resolve_interests rejects
    SessionEvents,  \* the EventKinds the session may emit
    NoNamespace,    \* placeholder namespace of ReconciledAll and Abort
    NoIntent,       \* placeholder for "no intent being submitted"
    EventCap,       \* capacity of an intent's event channel (INTENT_EVENT_CAP)
    UpdateCap,      \* capacity of an intent's update channel (INTENT_UPDATE_CAP)
    MaxInputs,      \* bound on the inputs the session puts into the inbox
    MaxUpdates,     \* bound on the updates one handle sends
    Readers         \* handles whose caller keeps reading their event stream

(* An Area is abstracted to the non-empty set of cells it covers:          *)
(* Area::intersection is set intersection, Area::includes_area is subset.  *)
Areas == SUBSET Cells \ {{}}

(* NamespaceInterests (HashMap<NamespaceId, HashSet<AreaOfInterest>> with  *)
(* no empty entry) is a set of <<namespace, area>> pairs.                  *)
Pair == Namespaces \X Areas
InterestSpec == SUBSET Pair \cup {Unauthorised}

ASSUME
    /\ Detached \subseteq Intents
    /\ Continuous \subseteq Intents
    /\ InitialQueue \in Seq(Intents)
    /\ InitSpec \in [Intents -> InterestSpec]
    /\ AddSpecs \subseteq InterestSpec
    /\ EventCap \in Nat \ {0}
    /\ UpdateCap \in Nat \ {0}
    /\ MaxInputs \in Nat
    /\ MaxUpdates \in Nat
    /\ Readers \subseteq Intents \ Detached

Ev(k, n, a) == [kind |-> k, ns |-> n, area |-> a]
ReconciledAll == Ev("ReconciledAll", NoNamespace, {})
Abort == Ev("Abort", NoNamespace, {})
Event ==
    {Ev(k, p[1], p[2]) : k \in {"CapabilityIntersection",
                                "InterestIntersection", "Reconciled"},
                         p \in Pair}
    \cup {ReconciledAll, Abort}

Update == [kind : {"AddInterests"}, spec : InterestSpec] \cup [kind : {"Close"}, spec : {{}}]

VARIABLES
    phase,          \* where run / drain_all / abort_* is
    step,           \* "idle", or the await inside submit_intent / a fan-out
    inbox,          \* IntentDispatcher.inbox: Input::SubmitIntent / EmitEvent
    inboxClosed,    \* all inbox senders dropped, or inbox.close() called
    pending,        \* IntentDispatcher.pending_intents
    reg,            \* the keys of IntentDispatcher.intents
    interests,      \* IntentInfo.interests, per intent
    updRx,          \* the keys of IntentDispatcher.intent_update_rx
    completeAreas,  \* IntentDispatcher.complete_areas
    cur,            \* the intent inside submit_intent
    replayLeft,     \* cached areas submit_intent has not yet replayed
    outq,           \* per intent, the sends still awaited in this step
    sendErr,        \* intents whose send failed in the current fan-out
    queued,         \* drain_all's list of intents taken from the inbox
    remQueued,      \* RemainingIntents.queued
    active,         \* RemainingIntents.active_incomplete
    handedOver,     \* the intents abort_active returned to the caller
    evq,            \* the contents of each intent's event channel
    updq,           \* the contents of each intent's update channel
    rxDropped,      \* the handle dropped its event receiver
    txDropped,      \* the handle dropped its update sender
    handed,         \* intents the dispatcher has been given
    inputs,         \* number of inputs the session has sent
    updatesSent,    \* number of updates each handle has sent
    reconcileReq,   \* union of all Output::SubmitInterests
    lastOutput,     \* the last Output the session received
    told,           \* history: events ever put into an intent's channel
    given,          \* history: interests ever resolved for an intent
    closedByCaller  \* history: handles that sent IntentUpdate::Close

dispatcherVars == <<phase, step, inbox, pending, reg, interests, updRx,
                    completeAreas, cur, replayLeft, outq, sendErr, queued,
                    remQueued, active, handedOver>>
channelVars == <<evq, updq, rxDropped, txDropped>>
envVars == <<inboxClosed, handed, inputs, updatesSent, reconcileReq, lastOutput>>
historyVars == <<told, given, closedByCaller>>
vars == <<dispatcherVars, channelVars, envVars, historyVars>>

-----------------------------------------------------------------------------
(* IntentInfo helpers                                                      *)

\* IntentInfo::is_complete
IsComplete(i) == interests[i] = {} /\ i \notin Continuous

\* IntentInfo::matches_area
MatchesArea(ints, n, a) == \E x \in ints : x[1] = n /\ x[2] \cap a # {}

\* (mutant) the "proper" subtraction: drop every interest the area overlaps
CompleteAreaIfOverlaps(ints, n, a) ==
    IF MatchesArea(ints, n, a)
    THEN {x \in ints : ~(x[1] = n /\ x[2] \cap a # {})}
    ELSE ints

\* IntentInfo::complete_area_if_matches: drop every interest the area
\* includes; a partial overlap leaves the interest as it is.
CompleteAreaIfMatches(ints, n, a) ==
    IF MatchesArea(ints, n, a)
    THEN {x \in ints : ~(x[1] = n /\ x[2] \subseteq a)}
    ELSE ints

\* The `matches` of IntentInfo::handle_event
EventMatches(ints, e) ==
    CASE e.kind = "CapabilityIntersection" -> \E x \in ints : x[1] = e.ns
      [] e.kind \in {"InterestIntersection", "Reconciled"} ->
             MatchesArea(ints, e.ns, e.area)
      [] e.kind = "Abort" -> TRUE
      [] e.kind = "ReconciledAll" -> FALSE

\* The interests after IntentInfo::handle_event / on_reconciled
AfterEvent(ints, e) ==
    IF e.kind = "Reconciled" THEN CompleteAreaIfMatches(ints, e.ns, e.area)
                             ELSE ints

\* The events IntentInfo::handle_event / on_reconciled sends, in order
EventsFor(ints, e) ==
    IF ~EventMatches(ints, e) THEN <<>>
    ELSE IF e.kind = "Reconciled" /\ AfterEvent(ints, e) = {}
         THEN <<e, ReconciledAll>>
         ELSE <<e>>

\* IntentInfo::send: a detached intent has no event_tx and sends nothing
Sends(i, evs) == IF i \in Detached THEN <<>> ELSE evs

\* Auth::resolve_interests followed by flatten_interests
Resolves(s) == s # Unauthorised

NoSends == [i \in Intents |-> <<>>]

-----------------------------------------------------------------------------
Init ==
    /\ phase = "startup"
    /\ step = "idle"
    /\ inbox = <<>>
    /\ inboxClosed = FALSE
    /\ pending = InitialQueue
    /\ reg = {}
    /\ interests = [i \in Intents |-> {}]
    /\ updRx = {}
    /\ completeAreas = {}
    /\ cur = NoIntent
    /\ replayLeft = {}
    /\ outq = NoSends
    /\ sendErr = {}
    /\ queued = <<>>
    /\ remQueued = <<>>
    /\ active = {}
    /\ handedOver = <<>>
    /\ evq = [i \in Intents |-> <<>>]
    /\ updq = [i \in Intents |-> <<>>]
    /\ rxDropped = [i \in Intents |-> FALSE]
    /\ txDropped = [i \in Intents |-> FALSE]
    /\ handed = ToSet(InitialQueue)
    /\ inputs = 0
    /\ updatesSent = [i \in Intents |-> 0]
    /\ reconcileReq = {}
    /\ lastOutput = "none"
    /\ told = [i \in Intents |-> {}]
    /\ given = [i \in Intents |-> {}]
    /\ closedByCaller = {}


-----------------------------------------------------------------------------
(* submit_intent                                                           *)

\* resolve_interests fails: the error ends run() and the Intent is dropped
SubmitRejected(i) ==
    /\ ~Resolves(InitSpec[i])
    /\ phase' = "failed"
    /\ UNCHANGED <<step, reg, interests, updRx, completeAreas, cur, replayLeft,
                   outq, sendErr, queued, remQueued, active, handedOver>>
    /\ UNCHANGED <<channelVars, envVars, historyVars>>

\* resolve, build the IntentInfo and start replaying complete_areas
SubmitResolved(i) ==
    /\ Resolves(InitSpec[i])
    /\ cur' = i
    /\ interests' = [interests EXCEPT ![i] = InitSpec[i]]
    /\ given' = [given EXCEPT ![i] = InitSpec[i]]
    /\ replayLeft' = completeAreas
    /\ step' = "replay"
    /\ UNCHANGED <<phase, reg, updRx, completeAreas, outq, sendErr, queued,
                   remQueued, active, handedOver>>
    /\ UNCHANGED <<channelVars, envVars, told, closedByCaller>>

Submit(i) == SubmitRejected(i) \/ SubmitResolved(i)

\* run(): submit the initial intents one by one before entering the loop
SubmitPending ==
    /\ phase = "startup" /\ step = "idle"
    /\ pending # <<>>
    /\ pending' = Tail(pending)
    /\ UNCHANGED inbox
    /\ Submit(Head(pending))

StartLoop ==
    /\ phase = "startup" /\ step = "idle"
    /\ pending = <<>>
    /\ phase' = "loop"
    /\ UNCHANGED <<step, inbox, pending, reg, interests, updRx, completeAreas,
                   cur, replayLeft, outq, sendErr, queued, remQueued, active,
                   handedOver>>
    /\ UNCHANGED <<channelVars, envVars, historyVars>>

\* one cached area, in the HashMap's unspecified order, through on_reconciled
ReplayArea ==
    /\ step = "replay"
    /\ outq[cur] = <<>>
    /\ \E p \in replayLeft :
         LET e == Ev("Reconciled", p[1], p[2]) IN
         /\ replayLeft' = replayLeft \ {p}
         /\ interests' = [interests EXCEPT ![cur] = AfterEvent(@, e)]
         /\ outq' = [outq EXCEPT ![cur] = Sends(cur, EventsFor(interests[cur], e))]
    /\ UNCHANGED <<phase, step, inbox, pending, reg, updRx, completeAreas, cur,
                   sendErr, queued, remQueued, active, handedOver>>
    /\ UNCHANGED <<channelVars, envVars, historyVars>>

\* on_reconciled's send fails: `?` makes submit_intent, and run(), fail
ReplaySendFailed ==
    /\ step = "replay"
    /\ outq[cur] # <<>>
    /\ rxDropped[cur]
    /\ phase' = "failed"
    /\ step' = "idle"
    /\ cur' = NoIntent
    /\ replayLeft' = {}
    /\ outq' = NoSends
    /\ interests' = [interests EXCEPT ![cur] = {}]
    /\ UNCHANGED <<inbox, pending, reg, updRx, completeAreas, sendErr, queued,
                   remQueued, active, handedOver>>
    /\ UNCHANGED <<channelVars, envVars, historyVars>>

\* the intent is complete after the replay: it is not registered
SubmitComplete ==
    /\ step = "replay"
    /\ replayLeft = {} /\ outq[cur] = <<>>
    /\ IsComplete(cur)
    /\ step' = "idle"
    /\ cur' = NoIntent
    /\ UNCHANGED <<phase, inbox, pending, reg, interests, updRx, completeAreas,
                   replayLeft, outq, sendErr, queued, remQueued, active,
                   handedOver>>
    /\ UNCHANGED <<channelVars, envVars, historyVars>>

\* (mutant) register without the is_complete check
SubmitRegisterAlways ==
    /\ step = "replay"
    /\ replayLeft = {} /\ outq[cur] = <<>>
    /\ reg' = reg \cup {cur}
    /\ updRx' = IF cur \in Detached THEN updRx ELSE updRx \cup {cur}
    /\ reconcileReq' = reconcileReq \cup InitSpec[cur]
    /\ lastOutput' = "SubmitInterests"
    /\ step' = "idle"
    /\ cur' = NoIntent
    /\ UNCHANGED <<phase, inbox, pending, interests, completeAreas, replayLeft,
                   outq, sendErr, queued, remQueued, active, handedOver>>
    /\ UNCHANGED <<channelVars, inboxClosed, handed, inputs, updatesSent,
                   historyVars>>

\* register the IntentInfo and its update stream, yield SubmitInterests
SubmitRegister ==
    /\ step = "replay"
    /\ replayLeft = {} /\ outq[cur] = <<>>
    /\ ~IsComplete(cur)
    /\ reg' = reg \cup {cur}
    /\ updRx' = IF cur \in Detached THEN updRx ELSE updRx \cup {cur}
    /\ reconcileReq' = reconcileReq \cup InitSpec[cur]
    /\ lastOutput' = "SubmitInterests"
    /\ step' = "idle"
    /\ cur' = NoIntent
    /\ UNCHANGED <<phase, inbox, pending, interests, completeAreas, replayLeft,
                   outq, sendErr, queued, remQueued, active, handedOver>>
    /\ UNCHANGED <<channelVars, inboxClosed, handed, inputs, updatesSent,
                   historyVars>>

-----------------------------------------------------------------------------
(* Event channel sends: the awaits of IntentInfo::send and of abort_*      *)

\* (mutant) a send that does not wait for room in the channel
DeliverEventUnbounded(i) ==
    /\ outq[i] # <<>>
    /\ ~rxDropped[i]
    /\ evq' = [evq EXCEPT ![i] = Append(@, Head(outq[i]))]
    /\ told' = [told EXCEPT ![i] = @ \cup {Head(outq[i])}]
    /\ outq' = [outq EXCEPT ![i] = Tail(@)]
    /\ UNCHANGED <<phase, step, inbox, pending, reg, interests, updRx,
                   completeAreas, cur, replayLeft, sendErr, queued, remQueued,
                   active, handedOver>>
    /\ UNCHANGED <<updq, rxDropped, txDropped, envVars, given, closedByCaller>>

\* (mutant) a send that waits for room for all of handle_event's events
DeliverEventReserveAll(i) ==
    /\ outq[i] # <<>>
    /\ ~rxDropped[i]
    /\ Len(evq[i]) + Len(outq[i]) <= EventCap
    /\ evq' = [evq EXCEPT ![i] = Append(@, Head(outq[i]))]
    /\ told' = [told EXCEPT ![i] = @ \cup {Head(outq[i])}]
    /\ outq' = [outq EXCEPT ![i] = Tail(@)]
    /\ UNCHANGED <<phase, step, inbox, pending, reg, interests, updRx,
                   completeAreas, cur, replayLeft, sendErr, queued, remQueued,
                   active, handedOver>>
    /\ UNCHANGED <<updq, rxDropped, txDropped, envVars, given, closedByCaller>>

\* a send completes: the event enters the bounded channel
DeliverEvent(i) ==
    /\ outq[i] # <<>>
    /\ ~rxDropped[i]
    /\ Len(evq[i]) < EventCap
    /\ evq' = [evq EXCEPT ![i] = Append(@, Head(outq[i]))]
    /\ told' = [told EXCEPT ![i] = @ \cup {Head(outq[i])}]
    /\ outq' = [outq EXCEPT ![i] = Tail(@)]
    /\ UNCHANGED <<phase, step, inbox, pending, reg, interests, updRx,
                   completeAreas, cur, replayLeft, sendErr, queued, remQueued,
                   active, handedOver>>
    /\ UNCHANGED <<updq, rxDropped, txDropped, envVars, given, closedByCaller>>

\* handle_event's send fails: ChannelReceiverDropped, the rest is skipped
FanoutSendFailed(i) ==
    /\ step = "fanout"
    /\ outq[i] # <<>>
    /\ rxDropped[i]
    /\ outq' = [outq EXCEPT ![i] = <<>>]
    /\ sendErr' = sendErr \cup {i}
    /\ UNCHANGED <<phase, step, inbox, pending, reg, interests, updRx,
                   completeAreas, cur, replayLeft, queued, remQueued, active,
                   handedOver>>
    /\ UNCHANGED <<channelVars, envVars, historyVars>>

\* (mutant) a failed Abort send is retried instead of ignored
AbortSendRetry(i) ==
    /\ phase = "aborting"
    /\ outq[i] # <<>>
    /\ rxDropped[i]
    /\ UNCHANGED vars

\* abort_all / abort_active ignore a failed send
AbortSendFailed(i) ==
    /\ phase = "aborting"
    /\ outq[i] # <<>>
    /\ rxDropped[i]
    /\ outq' = [outq EXCEPT ![i] = <<>>]
    /\ UNCHANGED <<phase, step, inbox, pending, reg, interests, updRx,
                   completeAreas, cur, replayLeft, sendErr, queued, remQueued,
                   active, handedOver>>
    /\ UNCHANGED <<channelVars, envVars, historyVars>>


-----------------------------------------------------------------------------
(* emit_event / emit_event_inner                                           *)

\* Record a Reconciled area in complete_areas, then run the synchronous part
\* of every registered intent's handle_event; join_all then awaits the sends.
EmitEventInner(e) ==
    /\ completeAreas' = IF e.kind = "Reconciled"
                        THEN completeAreas \cup {<<e.ns, e.area>>}
                        ELSE completeAreas
    /\ interests' = [i \in Intents |-> IF i \in reg THEN AfterEvent(interests[i], e)
                                                    ELSE interests[i]]
    /\ outq' = [i \in Intents |-> IF i \in reg THEN Sends(i, EventsFor(interests[i], e))
                                               ELSE <<>>]
    /\ step' = "fanout"

TakeEmit ==
    /\ phase = "loop" /\ step = "idle"
    /\ inbox # <<>> /\ Head(inbox) \notin Intents
    /\ inbox' = Tail(inbox)
    /\ EmitEventInner(Head(inbox))
    /\ UNCHANGED <<phase, pending, reg, updRx, cur, replayLeft, sendErr, queued,
                   remQueued, active, handedOver>>
    /\ UNCHANGED <<channelVars, envVars, historyVars>>

\* (mutant) cancel only the intents whose receiver is gone
FinishFanoutKeepComplete ==
    /\ step = "fanout"
    /\ outq = NoSends
    /\ LET cancelled == {i \in sendErr : i \notin updRx}
       IN /\ reg' = reg \ cancelled
          /\ updRx' = updRx \ cancelled
          /\ interests' = [i \in Intents |-> IF i \in cancelled THEN {}
                                                                ELSE interests[i]]
          /\ lastOutput' = IF phase = "loop" /\ reg' = {}
                           THEN "AllIntentsDropped" ELSE lastOutput
    /\ sendErr' = {}
    /\ step' = "idle"
    /\ UNCHANGED <<phase, inbox, pending, completeAreas, cur, replayLeft, outq,
                   queued, remQueued, active, handedOver>>
    /\ UNCHANGED <<channelVars, inboxClosed, handed, inputs, updatesSent,
                   reconcileReq, historyVars>>

\* (mutant) emit_event without the AllIntentsDropped yield
FinishFanoutSilent ==
    /\ step = "fanout"
    /\ outq = NoSends
    /\ LET cancelled == {i \in sendErr : i \notin updRx}
                        \cup {i \in reg \ sendErr : IsComplete(i)}
       IN /\ reg' = reg \ cancelled
          /\ updRx' = updRx \ cancelled
          /\ interests' = [i \in Intents |-> IF i \in cancelled THEN {}
                                                                ELSE interests[i]]
    /\ sendErr' = {}
    /\ step' = "idle"
    /\ UNCHANGED <<phase, inbox, pending, completeAreas, cur, replayLeft, outq,
                   queued, remQueued, active, handedOver, lastOutput>>
    /\ UNCHANGED <<channelVars, inboxClosed, handed, inputs, updatesSent,
                   reconcileReq, historyVars>>

\* all sends done: cancel the intents whose receiver is gone (unless their
\* update stream is still registered) and the complete ones; emit_event
\* then yields AllIntentsDropped if no intent is left
FinishFanout ==
    /\ step = "fanout"
    /\ outq = NoSends
    /\ LET cancelled == {i \in sendErr : i \notin updRx}
                        \cup {i \in reg \ sendErr : IsComplete(i)}
       IN /\ reg' = reg \ cancelled
          /\ updRx' = updRx \ cancelled
          /\ interests' = [i \in Intents |-> IF i \in cancelled THEN {}
                                                                ELSE interests[i]]
          /\ lastOutput' = IF phase = "loop" /\ reg' = {}
                           THEN "AllIntentsDropped" ELSE lastOutput
    /\ sendErr' = {}
    /\ step' = "idle"
    /\ UNCHANGED <<phase, inbox, pending, completeAreas, cur, replayLeft, outq,
                   queued, remQueued, active, handedOver>>
    /\ UNCHANGED <<channelVars, inboxClosed, handed, inputs, updatesSent,
                   reconcileReq, historyVars>>

-----------------------------------------------------------------------------
(* The select loop: inbox input, or the next item of intent_update_rx      *)

TakeSubmit ==
    /\ phase = "loop" /\ step = "idle"
    /\ inbox # <<>> /\ Head(inbox) \in Intents
    /\ inbox' = Tail(inbox)
    /\ UNCHANGED pending
    /\ Submit(Head(inbox))

\* (mutant) cancel_intent_inner alone, without the AllIntentsDropped yield
CancelIntentSilent(i) ==
    /\ reg' = reg \ {i}
    /\ updRx' = updRx \ {i}
    /\ interests' = [interests EXCEPT ![i] = {}]
    /\ UNCHANGED lastOutput

\* cancel_intent: remove the intent and its update stream
CancelIntent(i) ==
    /\ reg' = reg \ {i}
    /\ updRx' = updRx \ {i}
    /\ interests' = [interests EXCEPT ![i] = {}]
    /\ lastOutput' = IF reg' = {} THEN "AllIntentsDropped" ELSE lastOutput

LoopIdle == phase = "loop" /\ step = "idle"

UpdateAddInterests(i) ==
    /\ LoopIdle
    /\ i \in updRx /\ updq[i] # <<>>
    /\ Head(updq[i]).kind = "AddInterests"
    /\ Resolves(Head(updq[i]).spec)
    /\ updq' = [updq EXCEPT ![i] = Tail(@)]
    /\ interests' = [interests EXCEPT ![i] = @ \cup Head(updq[i]).spec]
    /\ given' = [given EXCEPT ![i] = @ \cup Head(updq[i]).spec]
    /\ reconcileReq' = reconcileReq \cup Head(updq[i]).spec
    /\ lastOutput' = "SubmitInterests"
    /\ UNCHANGED <<phase, step, inbox, pending, reg, updRx, completeAreas, cur,
                   replayLeft, outq, sendErr, queued, remQueued, active,
                   handedOver>>
    /\ UNCHANGED <<evq, rxDropped, txDropped, inboxClosed, handed, inputs,
                   updatesSent, told, closedByCaller>>

\* resolve_interests fails for an update: run() logs it and carries on
UpdateAddRejected(i) ==
    /\ LoopIdle
    /\ i \in updRx /\ updq[i] # <<>>
    /\ Head(updq[i]).kind = "AddInterests"
    /\ ~Resolves(Head(updq[i]).spec)
    /\ updq' = [updq EXCEPT ![i] = Tail(@)]
    /\ UNCHANGED <<dispatcherVars, evq, rxDropped, txDropped, envVars,
                   historyVars>>

\* (mutant) the Close update is consumed but the intent is not cancelled
UpdateCloseIgnored(i) ==
    /\ LoopIdle
    /\ i \in updRx /\ updq[i] # <<>>
    /\ Head(updq[i]).kind = "Close"
    /\ updq' = [updq EXCEPT ![i] = Tail(@)]
    /\ UNCHANGED <<dispatcherVars, evq, rxDropped, txDropped, envVars,
                   historyVars>>

UpdateClose(i) ==
    /\ LoopIdle
    /\ i \in updRx /\ updq[i] # <<>>
    /\ Head(updq[i]).kind = "Close"
    /\ updq' = [updq EXCEPT ![i] = Tail(@)]
    /\ CancelIntent(i)
    /\ UNCHANGED <<phase, step, inbox, pending, completeAreas, cur, replayLeft,
                   outq, sendErr, queued, remQueued, active, handedOver>>
    /\ UNCHANGED <<evq, rxDropped, txDropped, inboxClosed, handed, inputs,
                   updatesSent, reconcileReq, historyVars>>

\* IntentInfo::events_closed, with the unwrap_or(true) of a missing intent
EventsClosed(i) == i \notin reg \/ (i \notin Detached /\ rxDropped[i])

\* the update sender is gone: cancel if the event receiver is gone too
UpdateEndedCancel(i) ==
    /\ LoopIdle
    /\ i \in updRx /\ updq[i] = <<>> /\ txDropped[i]
    /\ EventsClosed(i)
    /\ CancelIntent(i)
    /\ UNCHANGED <<phase, step, inbox, pending, completeAreas, cur, replayLeft,
                   outq, sendErr, queued, remQueued, active, handedOver>>
    /\ UNCHANGED <<channelVars, inboxClosed, handed, inputs, updatesSent,
                   reconcileReq, historyVars>>

\* ... otherwise only stop watching the update stream
UpdateEndedKeep(i) ==
    /\ LoopIdle
    /\ i \in updRx /\ updq[i] = <<>> /\ txDropped[i]
    /\ ~EventsClosed(i)
    /\ updRx' = updRx \ {i}
    /\ UNCHANGED <<phase, step, inbox, pending, reg, interests, completeAreas,
                   cur, replayLeft, outq, sendErr, queued, remQueued, active,
                   handedOver>>
    /\ UNCHANGED <<channelVars, envVars, historyVars>>

\* inbox.recv() returns None: run() returns Ok
InboxEnded ==
    /\ LoopIdle
    /\ inbox = <<>> /\ inboxClosed
    /\ phase' = "done"
    /\ UNCHANGED <<step, inbox, pending, reg, interests, updRx, completeAreas,
                   cur, replayLeft, outq, sendErr, queued, remQueued, active,
                   handedOver>>
    /\ UNCHANGED <<channelVars, envVars, historyVars>>


-----------------------------------------------------------------------------
(* drain_all, RemainingIntents::abort_all / abort_active                   *)

\* run() is suspended inside a step: a send of the replay or of the fan-out
\* waits for room in a full event channel
SendBlocked ==
    \E i \in Intents : outq[i] # <<>> /\ ~rxDropped[i] /\ Len(evq[i]) >= EventCap

\* The session stops driving run() and calls drain_all, which first closes
\* the inbox.  run() may have returned, be parked between two steps, or be
\* suspended on a send: its future is dropped, so the sends of a fan-out
\* still in flight are lost (the interests handle_event already updated
\* stay as they are), and an intent inside submit_intent is dropped with
\* its channels.
BeginDrain ==
    /\ phase \in {"startup", "loop", "failed", "done"}
    /\ step = "idle" \/ SendBlocked
    /\ phase' = "draining"
    /\ inboxClosed' = TRUE
    /\ step' = "idle"
    /\ outq' = NoSends
    /\ sendErr' = {}
    /\ cur' = NoIntent
    /\ replayLeft' = {}
    /\ UNCHANGED <<inbox, pending, reg, interests, updRx, completeAreas,
                   queued, remQueued, active, handedOver>>
    /\ UNCHANGED <<channelVars, handed, inputs, updatesSent, reconcileReq,
                   lastOutput, historyVars>>

\* (mutant) drain_all discards the intents it finds in the inbox
DrainSubmitDiscard ==
    /\ phase = "draining" /\ step = "idle"
    /\ inbox # <<>> /\ Head(inbox) \in Intents
    /\ inbox' = Tail(inbox)
    /\ UNCHANGED <<phase, step, pending, reg, interests, updRx, completeAreas,
                   cur, replayLeft, outq, sendErr, queued, remQueued, active,
                   handedOver>>
    /\ UNCHANGED <<channelVars, envVars, historyVars>>

\* (mutant) drain_all submits the intents it finds in the inbox, as run() does
DrainSubmitOnboard ==
    /\ phase = "draining" /\ step = "idle"
    /\ inbox # <<>> /\ Head(inbox) \in Intents
    /\ inbox' = Tail(inbox)
    /\ UNCHANGED pending
    /\ Submit(Head(inbox))

DrainSubmit ==
    /\ phase = "draining" /\ step = "idle"
    /\ inbox # <<>> /\ Head(inbox) \in Intents
    /\ inbox' = Tail(inbox)
    /\ queued' = Append(queued, Head(inbox))
    /\ UNCHANGED <<phase, step, pending, reg, interests, updRx, completeAreas,
                   cur, replayLeft, outq, sendErr, remQueued, active,
                   handedOver>>
    /\ UNCHANGED <<channelVars, envVars, historyVars>>

DrainEmit ==
    /\ phase = "draining" /\ step = "idle"
    /\ inbox # <<>> /\ Head(inbox) \notin Intents
    /\ inbox' = Tail(inbox)
    /\ EmitEventInner(Head(inbox))
    /\ UNCHANGED <<phase, pending, reg, updRx, cur, replayLeft, sendErr, queued,
                   remQueued, active, handedOver>>
    /\ UNCHANGED <<channelVars, envVars, historyVars>>

\* queued ++ pending_intents, and the event_tx of every incomplete intent;
\* the dispatcher, its IntentInfos and update streams are dropped
FinishDrain ==
    /\ phase = "draining" /\ step = "idle"
    /\ inbox = <<>>
    /\ remQueued' = queued \o pending
    /\ active' = {i \in reg : ~IsComplete(i) /\ i \notin Detached}
    /\ queued' = <<>>
    /\ pending' = <<>>
    /\ reg' = {}
    /\ updRx' = {}
    /\ interests' = [i \in Intents |-> {}]
    /\ phase' = "drained"
    /\ UNCHANGED <<step, inbox, completeAreas, cur, replayLeft, outq, sendErr,
                   handedOver>>
    /\ UNCHANGED <<channelVars, envVars, historyVars>>

\* send Abort to every queued (non-detached) and every active intent
AbortAll ==
    /\ phase = "drained"
    /\ outq' = [i \in Intents |->
                  IF i \in (ToSet(remQueued) \ Detached) \cup active
                  THEN <<Abort>> ELSE <<>>]
    /\ remQueued' = <<>>
    /\ active' = {}
    /\ phase' = "aborting"
    /\ UNCHANGED <<step, inbox, pending, reg, interests, updRx, completeAreas,
                   cur, replayLeft, sendErr, queued, handedOver>>
    /\ UNCHANGED <<channelVars, envVars, historyVars>>

\* send Abort to the active intents and hand the queued ones back
AbortActive ==
    /\ phase = "drained"
    /\ outq' = [i \in Intents |-> IF i \in active THEN <<Abort>> ELSE <<>>]
    /\ handedOver' = remQueued
    /\ remQueued' = <<>>
    /\ active' = {}
    /\ phase' = "aborting"
    /\ UNCHANGED <<step, inbox, pending, reg, interests, updRx, completeAreas,
                   cur, replayLeft, sendErr, queued>>
    /\ UNCHANGED <<channelVars, envVars, historyVars>>

FinishAbort ==
    /\ phase = "aborting"
    /\ outq = NoSends
    /\ phase' = "finished"
    /\ UNCHANGED <<step, inbox, pending, reg, interests, updRx, completeAreas,
                   cur, replayLeft, outq, sendErr, queued, remQueued, active,
                   handedOver>>
    /\ UNCHANGED <<channelVars, envVars, historyVars>>

\* the dispatcher is gone; nothing of it changes any more
Terminated ==
    /\ phase = "finished"
    /\ UNCHANGED vars

-----------------------------------------------------------------------------
(* The session: it submits intents, emits the events of reconciliation     *)
(* and closes the inbox.  It only reports events about areas it has been   *)
(* asked to reconcile through SubmitInterests.                             *)

Requested(e) ==
    \/ e.kind = "Abort"
    \/ \E q \in reconcileReq :
         /\ q[1] = e.ns
         /\ e.kind = "CapabilityIntersection" \/ q[2] \cap e.area # {}

SessionSubmit(i) ==
    /\ ~inboxClosed /\ inputs < MaxInputs
    /\ i \notin handed
    /\ inbox' = Append(inbox, i)
    /\ handed' = handed \cup {i}
    /\ inputs' = inputs + 1
    /\ UNCHANGED <<phase, step, pending, reg, interests, updRx, completeAreas,
                   cur, replayLeft, outq, sendErr, queued, remQueued, active,
                   handedOver>>
    /\ UNCHANGED <<channelVars, inboxClosed, updatesSent, reconcileReq,
                   lastOutput, historyVars>>

SessionEmit(e) ==
    /\ ~inboxClosed /\ inputs < MaxInputs
    /\ Requested(e)
    /\ inbox' = Append(inbox, e)
    /\ inputs' = inputs + 1
    /\ UNCHANGED <<phase, step, pending, reg, interests, updRx, completeAreas,
                   cur, replayLeft, outq, sendErr, queued, remQueued, active,
                   handedOver>>
    /\ UNCHANGED <<channelVars, inboxClosed, handed, updatesSent, reconcileReq,
                   lastOutput, historyVars>>

SessionCloseInbox ==
    /\ ~inboxClosed
    /\ inboxClosed' = TRUE
    /\ UNCHANGED <<dispatcherVars, channelVars, handed, inputs, updatesSent,
                   reconcileReq, lastOutput, historyVars>>

\* Intent::send_abort on an intent abort_active handed back, once abort_*
\* has returned: an Abort into the event channel unless the intent is
\* detached, the send's failure on a dropped receiver ignored; the Intent,
\* taken by value, is dropped with its update receiver
SendAbort(i) ==
    /\ phase = "finished"
    /\ i \in ToSet(handedOver)
    /\ handedOver' = SelectSeq(handedOver, LAMBDA x : x # i)
    /\ \/ /\ i \in Detached \/ rxDropped[i]
          /\ UNCHANGED <<evq, told>>
       \/ /\ i \notin Detached /\ ~rxDropped[i]
          /\ Len(evq[i]) < EventCap
          /\ evq' = [evq EXCEPT ![i] = Append(@, Abort)]
          /\ told' = [told EXCEPT ![i] = @ \cup {Abort}]
    /\ UNCHANGED <<phase, step, inbox, pending, reg, interests, updRx,
                   completeAreas, cur, replayLeft, outq, sendErr, queued,
                   remQueued, active>>
    /\ UNCHANGED <<updq, rxDropped, txDropped, envVars, given, closedByCaller>>

-----------------------------------------------------------------------------
(* IntentHandle: receive events, send updates, drop either half            *)

\* The update receiver lives in the Intent value until submit_intent moves
\* it into intent_update_rx; it is dropped with the Intent or the stream.
UpdateRxAlive(i) ==
    \/ i \in updRx
    \/ i \notin handed
    \/ i \in ToSet(pending) \cup ToSet(inbox) \cup ToSet(queued)
             \cup ToSet(remQueued) \cup ToSet(handedOver)
    \/ step = "replay" /\ i = cur

Receive(i) ==
    /\ evq[i] # <<>>
    /\ evq' = [evq EXCEPT ![i] = Tail(@)]
    /\ UNCHANGED <<dispatcherVars, updq, rxDropped, txDropped, envVars,
                   historyVars>>

\* IntentHandle::add_interests / close: an await on the bounded channel
SendUpdate(i, u) ==
    /\ ~txDropped[i]
    /\ updatesSent[i] < MaxUpdates
    /\ Len(updq[i]) < UpdateCap
    /\ UpdateRxAlive(i)
    /\ updq' = [updq EXCEPT ![i] = Append(@, u)]
    /\ updatesSent' = [updatesSent EXCEPT ![i] = @ + 1]

AddInterests(i, s) ==
    /\ SendUpdate(i, [kind |-> "AddInterests", spec |-> s])
    /\ UNCHANGED <<dispatcherVars, evq, rxDropped, txDropped, inboxClosed,
                   handed, inputs, reconcileReq, lastOutput, historyVars>>

Close(i) ==
    /\ SendUpdate(i, [kind |-> "Close", spec |-> {}])
    /\ closedByCaller' = closedByCaller \cup {i}
    /\ UNCHANGED <<dispatcherVars, evq, rxDropped, txDropped, inboxClosed,
                   handed, inputs, reconcileReq, lastOutput, told, given>>

DropUpdateSender(i) ==
    /\ ~txDropped[i]
    /\ txDropped' = [txDropped EXCEPT ![i] = TRUE]
    /\ UNCHANGED <<dispatcherVars, evq, updq, rxDropped, envVars, historyVars>>

\* dropping an mpsc receiver discards what is buffered in it
DropEventReceiver(i) ==
    /\ ~rxDropped[i]
    /\ rxDropped' = [rxDropped EXCEPT ![i] = TRUE]
    /\ evq' = [evq EXCEPT ![i] = <<>>]
    /\ UNCHANGED <<dispatcherVars, updq, txDropped, envVars, historyVars>>

-----------------------------------------------------------------------------
Handles == Intents \ Detached

\* the steps of run(), drain_all and the join_all of abort_*: one task
DispatcherNext ==
    \/ SubmitPending \/ StartLoop \/ ReplayArea \/ ReplaySendFailed
    \/ SubmitComplete \/ SubmitRegister
    \/ \E i \in Handles : DeliverEvent(i) \/ FanoutSendFailed(i)
                          \/ AbortSendFailed(i)
    \/ TakeEmit \/ FinishFanout \/ TakeSubmit
    \/ \E i \in Handles : \/ UpdateAddInterests(i) \/ UpdateAddRejected(i)
                          \/ UpdateClose(i) \/ UpdateEndedCancel(i)
                          \/ UpdateEndedKeep(i)
    \/ InboxEnded
    \/ DrainSubmit \/ DrainEmit \/ FinishDrain \/ FinishAbort

\* the session's calls: inputs, closing the inbox, drain_all, abort_*
SessionNext ==
    \/ \E i \in Intents : SessionSubmit(i)
    \/ \E e \in SessionEvents : SessionEmit(e)
    \/ SessionCloseInbox
    \/ BeginDrain \/ AbortAll \/ AbortActive
    \/ \E i \in Intents : SendAbort(i)

\* the caller holding the handle of i
HandleStep(i) ==
    \/ Receive(i) \/ Close(i) \/ DropUpdateSender(i) \/ DropEventReceiver(i)
    \/ \E s \in AddSpecs : AddInterests(i, s)

HandleNext == \E i \in Handles : HandleStep(i)

Next == DispatcherNext \/ SessionNext \/ HandleNext \/ Terminated

Spec == Init /\ [][Next]_vars

(* Fairness.  The session keeps polling run(), and awaits drain_all and    *)
(* abort_* once it has called them, so a step of the dispatcher task that  *)
(* stays possible is taken; select! and StreamMap poll every ready branch, *)
(* and the inputs are finite, so fairness on the task as a whole suffices. *)
(* The session's own calls and the callers are not fair (they may stop),   *)
(* except that the callers of Readers keep reading their events.           *)
FairSpec ==
    /\ Spec
    /\ WF_vars(DispatcherNext)
    /\ \A i \in Readers : WF_vars(Receive(i))


-----------------------------------------------------------------------------
(* Properties                                                              *)

\* drain_all has not been called
Live == phase \in {"startup", "loop", "failed", "done"}

Tracked(i) == i \in reg \/ (step = "replay" /\ i = cur)

TypeOK ==
    /\ phase \in {"startup", "loop", "failed", "done", "draining", "drained",
                  "aborting", "finished"}
    /\ step \in {"idle", "replay", "fanout"}
    /\ inbox \in Seq(Intents \cup Event)
    /\ inboxClosed \in BOOLEAN
    /\ pending \in Seq(Intents)
    /\ reg \subseteq Intents
    /\ interests \in [Intents -> SUBSET Pair]
    /\ updRx \subseteq reg \ Detached
    /\ completeAreas \subseteq Pair
    /\ cur \in Intents \cup {NoIntent}
    /\ replayLeft \subseteq Pair
    /\ outq \in [Intents -> Seq(Event)]
    /\ sendErr \subseteq reg
    /\ queued \in Seq(Intents) /\ remQueued \in Seq(Intents)
    /\ active \subseteq Handles
    /\ handedOver \in Seq(Intents)
    /\ evq \in [Intents -> Seq(Event)]
    /\ \A i \in Intents : Len(evq[i]) <= EventCap /\ Len(updq[i]) <= UpdateCap
    /\ updq \in [Intents -> Seq(Update)]
    /\ rxDropped \in [Intents -> BOOLEAN] /\ txDropped \in [Intents -> BOOLEAN]
    /\ handed \subseteq Intents
    /\ inputs \in 0..MaxInputs
    /\ updatesSent \in [Intents -> 0..MaxUpdates]
    /\ reconcileReq \subseteq Pair
    /\ lastOutput \in {"none", "SubmitInterests", "AllIntentsDropped"}
    /\ told \in [Intents -> SUBSET Event]
    /\ given \in [Intents -> SUBSET Pair]
    /\ closedByCaller \subseteq Intents

(* Interest accounting (complete_area_if_matches, on_reconciled, the cache *)
(* replay of submit_intent, merge_interests): an interest an intent was    *)
(* given and no longer holds was removed by a Reconciled event that        *)
(* includes it and that has been, or is being, sent to the handle.  So a   *)
(* handle never loses an interest without being told it was reconciled,  *)
(* while drain_all has not been called (dropping run() in a fan-out drops  *)
(* the sends that would tell it; TeardownNotifies is about that case).     *)
InterestAccounting ==
    Live => \A i \in Handles :
        Tracked(i) /\ ~rxDropped[i] =>
            \A p \in given[i] \ interests[i] :
                \E e \in told[i] \cup ToSet(outq[i]) :
                    /\ e.kind = "Reconciled"
                    /\ e.ns = p[1]
                    /\ p[2] \subseteq e.area

(* No complete intent stays registered (submit_intent's is_complete check, *)
(* the cancellation after emit_event's fan-out) unless its event receiver  *)
(* is gone and its update stream is still watched, the one case            *)
(* emit_event_inner deliberately keeps.                                    *)
NoCompleteLingers ==
    phase \in {"startup", "loop", "failed", "done"} /\ step = "idle" =>
        \A i \in reg : IsComplete(i) => rxDropped[i] /\ i \in updRx

(* Whenever the last registered intent goes away (by Close, by its update  *)
(* stream ending, or by completing or losing its receiver in a fan-out),   *)
(* the last Output the session saw is AllIntentsDropped, so the session    *)
(* never keeps running for intents that no longer exist.                   *)
DropSignalled ==
    phase \in {"startup", "loop"} /\ step = "idle" /\ reg = {} =>
        lastOutput \in {"none", "AllIntentsDropped"}

(* After drain_all and abort_all/abort_active, every intent the dispatcher *)
(* was given and whose handle still listens (it neither dropped its event  *)
(* receiver nor sent Close, and it is not still held by the session after  *)
(* abort_active handed it back) has been sent ReconciledAll or Abort, by   *)
(* the dispatcher or by Intent::send_abort: nothing is silently lost       *)
(* (spec section 7).  drain_all filters the registered intents on         *)
(* is_complete, and run() may be dropped at any await before it is called. *)
TeardownNotifies ==
    phase = "finished" =>
        \A i \in handed \cap Handles :
            (~rxDropped[i] /\ i \notin closedByCaller /\ i \notin ToSet(handedOver))
                => told[i] \cap {ReconciledAll, Abort} # {}

(* The dispatcher's run() never fails while every interest resolves: a     *)
(* handle that dropped its receiver is only cancelled, never an error.     *)
NoDispatcherFailure == phase # "failed"

(* An AddInterests update that IntentHandle::add_interests put into the   *)
(* channel (it returned Ok) is not lost while run() is serving: as long   *)
(* as the update is in the channel, its receiver is alive, unless the     *)
(* caller itself closed the intent or dropped its event receiver.  The    *)
(* cancellation of a complete intent after a fan-out drops the receiver   *)
(* with what is buffered in it.                                           *)
AcceptedInterestsApplied ==
    phase \in {"startup", "loop"} =>
        \A i \in Handles :
            (\E u \in ToSet(updq[i]) : u.kind = "AddInterests" /\ Resolves(u.spec))
                => UpdateRxAlive(i) \/ i \in closedByCaller \/ rxDropped[i]

-----------------------------------------------------------------------------
(* Refinement of IntentLifecycle                                           *)

\* intents given to the dispatcher and not yet submitted, or being submitted
Waiting ==
    ToSet(pending) \cup ToSet(inbox) \cup ToSet(queued) \cup ToSet(remQueued)
        \cup (IF step = "replay" THEN {cur} ELSE {})

\* the lifecycle stage an intent is in, read off the dispatcher's state
Stage(i) ==
    CASE i \notin handed                          -> "caller"
      [] i \in ToSet(handedOver)                  -> "returned"
      [] phase = "aborting" /\ outq[i] # <<>>      -> "aborting"
      [] i \in reg \cup active                     -> "active"
      [] i \in Waiting                             -> "queued"
      [] OTHER                                     -> "closed"

LC == INSTANCE IntentLifecycle
        WITH Events <- Event,
             stage <- [i \in Intents |-> Stage(i)],
             heard <- told,
             live <- Live

(* The dispatcher implements the intent lifecycle: intents are registered *)
(* only while the session is live (submit_intent, never drain_all), are   *)
(* aborted or handed back only by abort_*, never return from closed, and  *)
(* a handle is sent events only while its intent is being submitted,     *)
(* registered or aborted.                                                  *)
LifecycleRefinement == LC!Spec

-----------------------------------------------------------------------------
(* Liveness, under FairSpec                                                *)

\* run() is inside its select loop (or about to enter it)
Serving == phase \in {"startup", "loop"}

(* Independent backpressure (spec P6, emit_event_inner's join_all): an    *)
(* event the session puts into the inbox that matches a registered handle *)
(* whose caller keeps reading is eventually taken and delivered to it,    *)
(* unless the handle goes away or run() fails, whatever the other handles *)
(* do with their own event streams.                                       *)
EventsReachReaders ==
    \A h \in Readers, e \in SessionEvents :
        (e \in ToSet(inbox) /\ h \in reg /\ EventMatches(interests[h], e))
            ~> \/ e \notin ToSet(inbox) /\ outq[h] = <<>>
               \/ h \notin reg \/ rxDropped[h] \/ phase = "failed"

(* A handle that sent Close (IntentHandle::close, update_intent's Close   *)
(* branch, cancel_intent) is eventually removed from the registry while   *)
(* run() is still serving: nothing the dispatcher awaits keeps it there.  *)
CloseTakesEffect ==
    \A i \in Handles :
        (i \in closedByCaller /\ i \in reg) ~> (i \notin reg \/ ~Serving)

(* abort_all / abort_active (join_all over the Abort sends into bounded   *)
(* channels) return: session teardown is not stuck on a full channel.     *)
AbortCompletes == phase = "aborting" ~> phase = "finished"

(* A handle whose caller dropped both its update sender and its event     *)
(* receiver (the update stream ending is the run() branch that cancels)   *)
(* is eventually cancelled while run() is serving, so the session can be  *)
(* told AllIntentsDropped.                                                *)
DroppedHandleCancelled ==
    \A i \in Handles :
        (i \in reg /\ rxDropped[i] /\ txDropped[i]) ~> (i \notin reg \/ ~Serving)

=============================================================================
