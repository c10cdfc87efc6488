--------------------------- MODULE IntentCompletion ---------------------------
(***************************************************************************)
(* IntentHandle::complete (src/src/session/intents.rs) composed with the   *)
(* dispatcher that feeds the handle's event channel.  complete() takes     *)
(* &mut self, so while it runs the caller does nothing else with that      *)
(* handle: it pulls events, keeps two local flags, returns the Abort error *)
(* at once, and returns a Completion only when the stream ends, that is    *)
(* when the dispatcher has dropped the intent's event sender.  The caller  *)
(* may also drop the future midway (a timeout around it) and call again:   *)
(* the events the dropped call took go with its locals.                    *)
(***************************************************************************)
EXTENDS IntentDispatcher

CONSTANTS
    Completers,     \* handles whose caller awaits complete()
    MaxAttempts     \* bound on the complete() calls per handle

ASSUME Completers \subseteq Intents \ Detached

VARIABLES
    calling,        \* handles whose complete() is running
    attempts,       \* number of complete() calls made on each handle
    before,         \* kinds of the events taken from the handle before this call
    sawAll,         \* the local flag `complete` of the running complete()
    sawSome,        \* the local flag `partial`
    verdict         \* what complete() returned, or "none"

completionVars == <<calling, attempts, before, sawAll, sawSome, verdict>>
allVars == <<vars, completionVars>>

Verdicts == {"none", "Complete", "Partial", "Nothing", "Err", "Dropped"}

\* the dispatcher holds no event sender for i any more (the IntentInfo was
\* cancelled or dropped, or the dispatcher itself is gone): recv() returns
\* None once the channel is empty
SenderGone(i) == Stage(i) = "closed"

CInit ==
    /\ Init
    /\ calling = {}
    /\ attempts = [i \in Intents |-> 0]
    /\ before = [i \in Intents |-> {}]
    /\ sawAll = [i \in Intents |-> FALSE]
    /\ sawSome = [i \in Intents |-> FALSE]
    /\ verdict = [i \in Intents |-> "none"]

\* kinds of the events already taken out of i's channel
Taken(i) == {e.kind : e \in told[i] \ ToSet(evq[i])}

\* a call starts with fresh local flags
CompleteBegin(i) ==
    /\ i \notin calling /\ attempts[i] < MaxAttempts
    /\ ~rxDropped[i]
    /\ calling' = calling \cup {i}
    /\ attempts' = [attempts EXCEPT ![i] = @ + 1]
    /\ before' = [before EXCEPT ![i] = Taken(i)]
    /\ sawAll' = [sawAll EXCEPT ![i] = FALSE]
    /\ sawSome' = [sawSome EXCEPT ![i] = FALSE]
    /\ verdict' = [verdict EXCEPT ![i] = "none"]
    /\ UNCHANGED vars

\* one iteration of the while-let loop
CompleteRecv(i) ==
    /\ i \in calling
    /\ evq[i] # <<>>
    /\ evq' = [evq EXCEPT ![i] = Tail(@)]
    /\ LET e == Head(evq[i]) IN
         IF e.kind = "Abort"
         THEN /\ verdict' = [verdict EXCEPT ![i] = "Err"]
              /\ calling' = calling \ {i}
              /\ UNCHANGED <<sawAll, sawSome>>
         ELSE /\ sawAll' = [sawAll EXCEPT ![i] = @ \/ e.kind = "ReconciledAll"]
              /\ sawSome' = [sawSome EXCEPT ![i] = @ \/ e.kind = "Reconciled"]
              /\ UNCHANGED <<calling, verdict>>
    /\ UNCHANGED <<attempts, before>>
    /\ UNCHANGED <<dispatcherVars, updq, rxDropped, txDropped, envVars,
                   historyVars>>

\* (mutant) an empty channel is taken for the end of the stream
CompleteEndEarly(i) ==
    /\ i \in calling
    /\ evq[i] = <<>>
    /\ verdict' = [verdict EXCEPT ![i] = CASE sawAll[i]  -> "Complete"
                                           [] sawSome[i] -> "Partial"
                                           [] OTHER      -> "Nothing"]
    /\ calling' = calling \ {i}
    /\ UNCHANGED <<vars, attempts, before, sawAll, sawSome>>

\* the stream ended: the Completion the flags give
CompleteEnd(i) ==
    /\ i \in calling
    /\ evq[i] = <<>> /\ SenderGone(i)
    /\ verdict' = [verdict EXCEPT ![i] = CASE sawAll[i]  -> "Complete"
                                           [] sawSome[i] -> "Partial"
                                           [] OTHER      -> "Nothing"]
    /\ calling' = calling \ {i}
    /\ UNCHANGED <<vars, attempts, before, sawAll, sawSome>>

\* the caller drops the future between two polls (e.g. on a timeout); the
\* events it took are gone with its locals
CompleteDrop(i) ==
    /\ i \in calling
    /\ calling' = calling \ {i}
    /\ verdict' = [verdict EXCEPT ![i] = "Dropped"]
    /\ UNCHANGED <<vars, attempts, before, sawAll, sawSome>>

CompletionNext ==
    \E i \in Completers :
        CompleteBegin(i) \/ CompleteRecv(i) \/ CompleteEnd(i) \/ CompleteDrop(i)

CNext ==
    \/ (DispatcherNext \/ SessionNext) /\ UNCHANGED completionVars
    \/ \E i \in Handles \ calling : HandleStep(i) /\ UNCHANGED completionVars
    \/ CompletionNext
    \/ Terminated /\ UNCHANGED completionVars

CSpec == CInit /\ [][CNext]_allVars

(* The dispatcher task is polled by the session, as in FairSpec; a        *)
(* complete() that has been called is awaited by its caller, and the      *)
(* callers of Readers read their stream while not in complete().  Neither *)
(* the session's calls nor the start or the drop of complete() are fair. *)
CFairSpec ==
    /\ CSpec
    /\ WF_allVars(DispatcherNext /\ UNCHANGED completionVars)
    /\ \A i \in Readers :
         WF_allVars(i \notin calling /\ Receive(i) /\ UNCHANGED completionVars)
    /\ \A i \in Completers : /\ WF_allVars(CompleteRecv(i))
                             /\ WF_allVars(CompleteEnd(i))

-----------------------------------------------------------------------------
\* the Completion of spec section 3 over a set of event kinds
CompletionOf(K) == CASE "Abort" \in K         -> "Err"
                     [] "ReconciledAll" \in K -> "Complete"
                     [] "Reconciled" \in K    -> "Partial"
                     [] OTHER                 -> "Nothing"

\* the kinds a returned call read, as far as its verdict shows them
ReadKinds(i) == (IF sawAll[i] THEN {"ReconciledAll"} ELSE {})
                \cup (IF sawSome[i] THEN {"Reconciled"} ELSE {})
                \cup (IF verdict[i] = "Err" THEN {"Abort"} ELSE {})

(* No event the dispatcher sends the handle is lost or left unread when a *)
(* complete() returns: the kinds it read, with the kinds taken out of the *)
(* channel before it began (by polling the stream, by an earlier call, or *)
(* by a call dropped midway), give the Completion of every event ever     *)
(* sent.  A call that begins on a fresh stream thus returns exactly that  *)
(* Completion; a later call falls short by what the earlier readers took. *)
VerdictMatchesEvents ==
    \A i \in Completers :
        verdict[i] \notin {"none", "Dropped"} =>
            CompletionOf({e.kind : e \in told[i]})
                = CompletionOf(before[i] \cup ReadKinds(i))

(* Spec 4.1: complete() drains the stream until a terminal ReconciledAll  *)
(* is seen, and then returns Complete.  In the code the loop goes on to   *)
(* the end of the stream, which the dispatcher closes by cancelling the   *)
(* intent once it is complete; only the caller dropping the future stops  *)
(* it first.                                                              *)
ReconciledAllEndsComplete ==
    \A i \in Completers :
        (i \in calling /\ sawAll[i]) ~> verdict[i] \in {"Complete", "Dropped"}

=============================================================================
