----------------------------- MODULE SyncClient -----------------------------
(***************************************************************************)
(* The consumer side of an intent over rpc: the rpc client's SyncHandle,   *)
(* SyncProgress, SyncHandleSet and the response mapping of                 *)
(* Client::sync_with_peer in rpc/client.rs.  (IntentHandle::complete, the  *)
(* in-process consumer, is in IntentCompletion.)                           *)
(*                                                                         *)
(* The event stream a handle reads is chosen when the handle is created,   *)
(* from the streams an intent can produce (see IntentDispatcher): any      *)
(* number of intersection events and Reconciled events, ReconciledAll only *)
(* after a Reconciled, and Abort only as the last item.  The stream ends   *)
(* after its last item (the dispatcher dropped the event sender).  Over    *)
(* rpc a stream may start with the Started response and may end with a    *)
(* transport error.  Errors are not compared, so an Abort carries none.    *)
(***************************************************************************)
EXTENDS Naturals, Sequences, SequencesExt

CONSTANTS
    Handles,      \* SyncHandles returned by sync_with_peer
    Peers,
    NoHandle,
    MaxBody,      \* bound on the non-terminal events of one stream
    MaxCompletes  \* bound on the complete() calls made on one handle

ASSUME NoHandle \notin Handles
ASSUME MaxBody \in Nat /\ MaxCompletes \in Nat

\* EventKind / rpc Event, with the two intersection events as "Other"
Event == {"Other", "Rec", "All", "Abort"}
\* items of the rpc response stream: SyncWithPeerResponse and transport errors
Item == Event \cup {"Started", "RpcErr"}

\* CapabilityIntersection and InterestIntersection leave every fold below
\* unchanged, so the streams are built from Reconciled and ReconciledAll
Body == {b \in BoundedSeq({"Rec", "All"}, MaxBody) :
            \A k \in 1..Len(b) : b[k] = "All" => \E j \in 1..(k - 1) : b[j] = "Rec"}
ServerStreams == {s \o b \o t : s \in {<<>>, <<"Started">>}, b \in Body,
                                t \in {<<>>, <<"Abort">>, <<"RpcErr">>}}

\* the map over the bidi response stream in Client::sync_with_peer
ToEvent(x) ==
    CASE x = "Started" -> "All"
      [] x = "RpcErr"  -> "Abort"
      [] OTHER         -> x

ToEvents(s) == [k \in 1..Len(s) |-> ToEvent(s[k])]

\* SyncProgress::default(); failed stands for failed.is_some()
NoProgress == [partial |-> FALSE, complete |-> FALSE, failed |-> FALSE]

HandleEvent(st, e) ==
    CASE e = "All"   -> [st EXCEPT !.complete = TRUE]
      [] e = "Rec"   -> [st EXCEPT !.partial = TRUE]
      [] e = "Abort" -> [st EXCEPT !.failed = TRUE]
      [] OTHER       -> st

IsReady(st) == st.complete \/ st.failed

Verdict == {"Complete", "Partial", "Nothing", "Err"}

IntoCompletion(st) ==
    IF st.failed THEN "Err"
    ELSE IF st.complete THEN "Complete"
    ELSE IF st.partial THEN "Partial"
    ELSE "Nothing"

Fold(evs) == FoldLeft(HandleEvent, NoProgress, evs)

\* how many items SyncHandle::complete takes: until the progress is ready
\* or the stream ends
RECURSIVE ReadyLen(_, _)
ReadyLen(st, s) ==
    IF s = <<>> THEN 0
    ELSE LET next == HandleEvent(st, ToEvent(Head(s)))
         IN IF IsReady(next) THEN 1 ELSE 1 + ReadyLen(next, Tail(s))

VARIABLES
    stream,     \* items not yet read from each handle's event stream
    peerOf,     \* the peer each SyncHandle was opened for
    loc,        \* where each SyncHandle is: none, free (held by the caller),
                \* set (inside the SyncHandleSet), gone (dropped or consumed)
    progress,   \* SyncHandle.state, or HandleState.state while in the set
    rxOf,       \* SyncHandleSet.event_rx: peer -> the handle whose stream it is
    stOf,       \* SyncHandleSet.intents: peer -> the handle whose state it is
    panicked,   \* an expect("unreachable") failed
    shown,      \* history: the fold of every event each handle's reader saw
    genuine,    \* history: a ReconciledAll sent by the dispatcher was read
    results     \* history: one record per finished complete() call

vars == <<stream, peerOf, loc, progress, rxOf, stOf, panicked, shown, genuine, results>>

Init ==
    /\ stream = [h \in Handles |-> <<>>]
    /\ peerOf = [h \in Handles |-> CHOOSE p \in Peers : TRUE]
    /\ loc = [h \in Handles |-> "none"]
    /\ progress = [h \in Handles |-> NoProgress]
    /\ rxOf = [p \in Peers |-> NoHandle]
    /\ stOf = [p \in Peers |-> NoHandle]
    /\ panicked = FALSE
    /\ shown = [x \in Handles |-> NoProgress]
    /\ genuine = [x \in Handles |-> FALSE]
    /\ results = [x \in Handles |-> <<>>]

-----------------------------------------------------------------------------
\* the reader takes the first n items of x's stream and observes evs
Consume(x, n, evs) ==
    /\ stream' = [stream EXCEPT ![x] = SubSeq(@, n + 1, Len(@))]
    /\ shown' = [shown EXCEPT ![x] = FoldLeft(HandleEvent, @, evs)]
    /\ genuine' = [genuine EXCEPT ![x] = @ \/ "All" \in ToSet(SubSeq(stream[x], 1, n))]

\* the record of a complete() call on x that took n items and returned v:
\* cum is the verdict over everything x's reader saw up to the end of the
\* call, genuine that a ReconciledAll
\* the dispatcher sent has been read, ended that the stream is exhausted
Finished(x, n, evs, v) ==
    [r |-> v, cum |-> IntoCompletion(FoldLeft(HandleEvent, shown[x], evs)),
     genuine |-> genuine[x] \/ "All" \in ToSet(SubSeq(stream[x], 1, n)),
     ended |-> n = Len(stream[x])]

(* Client::sync_with_peer: open the bidi stream, wrap it, default progress *)
SyncWithPeer(h) ==
    /\ loc[h] = "none"
    /\ \E s \in ServerStreams : stream' = [stream EXCEPT ![h] = s]
    /\ \E p \in Peers : peerOf' = [peerOf EXCEPT ![h] = p]
    /\ loc' = [loc EXCEPT ![h] = "free"]
    /\ progress' = [progress EXCEPT ![h] = NoProgress]
    /\ UNCHANGED <<rxOf, stOf, panicked, shown, genuine, results>>

(* <SyncHandle as Stream>::poll_next: latch the event into self.state     *)
PollNext(h) ==
    /\ loc[h] = "free"
    /\ stream[h] # <<>>
    /\ LET e == ToEvent(Head(stream[h]))
       IN /\ progress' = [progress EXCEPT ![h] = HandleEvent(@, e)]
          /\ Consume(h, 1, <<e>>)
    /\ UNCHANGED <<peerOf, loc, rxOf, stOf, panicked, results>>

(* SyncHandle::complete: a fresh SyncProgress, read until ready or end    *)
SyncComplete(h) ==
    /\ loc[h] = "free"
    /\ Len(results[h]) < MaxCompletes
    /\ LET n == ReadyLen(NoProgress, stream[h])
           evs == ToEvents(SubSeq(stream[h], 1, n))
       IN /\ results' = [results EXCEPT ![h] =
                           Append(@, Finished(h, n, evs, IntoCompletion(Fold(evs))))]
          /\ Consume(h, n, evs)
    /\ UNCHANGED <<peerOf, loc, progress, rxOf, stOf, panicked>>

(* SyncHandle::split hands both halves out; the handle is gone            *)
Split(h) ==
    /\ loc[h] = "free"
    /\ loc' = [loc EXCEPT ![h] = "gone"]
    /\ UNCHANGED <<peerOf, stream, progress, rxOf, stOf, panicked, shown, genuine, results>>

(* SyncHandleSet::insert into a vacant entry                              *)
SetInsert(h) ==
    /\ loc[h] = "free"
    /\ stOf[peerOf[h]] = NoHandle
    /\ rxOf' = [rxOf EXCEPT ![peerOf[h]] = h]
    /\ stOf' = [stOf EXCEPT ![peerOf[h]] = h]
    /\ loc' = [loc EXCEPT ![h] = "set"]
    /\ UNCHANGED <<peerOf, stream, progress, panicked, shown, genuine, results>>

(* ... into an occupied one: IntentExistsError, the handle is dropped     *)
SetInsertExisting(h) ==
    /\ loc[h] = "free"
    /\ stOf[peerOf[h]] # NoHandle
    /\ loc' = [loc EXCEPT ![h] = "gone"]
    /\ UNCHANGED <<peerOf, stream, progress, rxOf, stOf, panicked, shown, genuine, results>>

(* SyncHandleSet::remove: rebuild the SyncHandle from the stream and the  *)
(* HandleState; without a HandleState the stream is dropped               *)
SetRemove(p) ==
    /\ rxOf[p] # NoHandle
    /\ rxOf' = [rxOf EXCEPT ![p] = NoHandle]
    /\ IF stOf[p] # NoHandle
       THEN /\ stOf' = [stOf EXCEPT ![p] = NoHandle]
            /\ loc' = [loc EXCEPT ![rxOf[p]] = "free"]
            /\ progress' = [progress EXCEPT ![rxOf[p]] = progress[stOf[p]]]
       ELSE /\ loc' = [loc EXCEPT ![rxOf[p]] = "gone"]
            /\ UNCHANGED <<stOf, progress>>
    /\ UNCHANGED <<peerOf, stream, panicked, shown, genuine, results>>

(* <SyncHandleSet as Stream>::poll_next yields (peer, event); the         *)
(* HandleState is not touched                                             *)
SetPollNext(p) ==
    /\ rxOf[p] # NoHandle
    /\ stream[rxOf[p]] # <<>>
    /\ Consume(rxOf[p], 1, <<ToEvent(Head(stream[rxOf[p]]))>>)
    /\ UNCHANGED <<peerOf, loc, progress, rxOf, stOf, panicked, results>>

(* (mutant) the ended stream is removed from event_rx only                *)
SetStreamEndedKeepState(p) ==
    /\ rxOf[p] # NoHandle
    /\ stream[rxOf[p]] = <<>>
    /\ rxOf' = [rxOf EXCEPT ![p] = NoHandle]
    /\ loc' = [loc EXCEPT ![rxOf[p]] = "gone"]
    /\ UNCHANGED <<peerOf, stream, progress, stOf, panicked, shown, genuine, results>>

(* ... StreamNotifyClose yields (peer, None): drop the peer from both maps *)
SetStreamEnded(p) ==
    /\ rxOf[p] # NoHandle
    /\ stream[rxOf[p]] = <<>>
    /\ rxOf' = [rxOf EXCEPT ![p] = NoHandle]
    /\ stOf' = [stOf EXCEPT ![p] = NoHandle]
    /\ loc' = [loc EXCEPT ![rxOf[p]] = "gone"]
    /\ UNCHANGED <<peerOf, stream, progress, panicked, shown, genuine, results>>

(* SyncHandleSet::complete_all: for every HandleState, take its stream    *)
(* out of event_rx (expect "unreachable") and run SyncHandle::complete;    *)
(* the futures are independent, so they are taken one after the other    *)
CompleteAll ==
    /\ \E p \in Peers : stOf[p] # NoHandle
    /\ LET members == {p \in Peers : stOf[p] # NoHandle}
       IN IF \E p \in members : rxOf[p] = NoHandle
          THEN /\ panicked' = TRUE
               /\ UNCHANGED <<peerOf, stream, loc, progress, rxOf, stOf, shown, genuine, results>>
          ELSE LET hs == {rxOf[p] : p \in members}
                   N(h) == ReadyLen(NoProgress, stream[h])
                   Evs(h) == ToEvents(SubSeq(stream[h], 1, N(h)))
               IN /\ results' = [x \in Handles |->
                        IF x \in hs
                        THEN Append(results[x],
                                    Finished(x, N(x), Evs(x), IntoCompletion(Fold(Evs(x)))))
                        ELSE results[x]]
                  /\ stream' = [x \in Handles |->
                        IF x \in hs THEN SubSeq(stream[x], N(x) + 1, Len(stream[x]))
                                    ELSE stream[x]]
                  /\ shown' = [x \in Handles |->
                        IF x \in hs THEN FoldLeft(HandleEvent, shown[x], Evs(x)) ELSE shown[x]]
                  /\ genuine' = [x \in Handles |->
                        IF x \in hs THEN genuine[x] \/ "All" \in ToSet(SubSeq(stream[x], 1, N(x)))
                                    ELSE genuine[x]]
                  /\ rxOf' = [p \in Peers |-> NoHandle]
                  /\ stOf' = [p \in Peers |-> NoHandle]
                  /\ loc' = [h \in Handles |-> IF loc[h] = "set" THEN "gone" ELSE loc[h]]
                  /\ UNCHANGED <<peerOf, progress, panicked>>

Next ==
    \/ \E h \in Handles : \/ SyncWithPeer(h) \/ PollNext(h) \/ SyncComplete(h)
                          \/ Split(h) \/ SetInsert(h) \/ SetInsertExisting(h)
    \/ \E p \in Peers : SetRemove(p) \/ SetPollNext(p) \/ SetStreamEnded(p)
    \/ CompleteAll

Spec == Init /\ [][Next]_vars

-----------------------------------------------------------------------------
(* The expect("unreachable") calls of SyncHandleSet::complete_all and     *)
(* remove never fire: insert, remove, poll_next's handling of an ended    *)
(* stream and complete_all keep event_rx and intents keyed alike, in      *)
(* every order a caller can mix them.                                     *)
NoUnreachablePanic == ~panicked

(* Spec 4.1: the SyncHandle latches what it has been polled for, so a     *)
(* complete() after partial consumption returns the verdict over every    *)
(* event the handle has delivered, not only those the call itself read.   *)
CumulativeVerdict ==
    \A h \in Handles : \A k \in 1..Len(results[h]) :
        results[h][k].r = results[h][k].cum

(* Completion::Complete means all interests were reconciled: a            *)
(* complete() that returns Complete has read a ReconciledAll the          *)
(* dispatcher sent, not some other response mapped to one.                *)
CompleteMeansReconciled ==
    \A x \in Handles : \A k \in 1..Len(results[x]) :
        results[x][k].r = "Complete" => results[x][k].genuine
====
