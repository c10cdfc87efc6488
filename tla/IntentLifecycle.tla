--------------------------- MODULE IntentLifecycle ---------------------------
(***************************************************************************)
(* What the dispatcher promises an intent, without its bookkeeping: the   *)
(* stage each intent is in, the events its handle has been sent, and      *)
(* whether the session is still live (drain_all not yet called).          *)
(*                                                                         *)
(*   caller   -> queued     given to the dispatcher (pending / inbox)      *)
(*   queued   -> active     submit_intent registers it                     *)
(*   queued   -> closed     complete at submission, rejected, or dropped   *)
(*                          with run() when drain_all is called            *)
(*   active   -> closed     cancelled, or complete and left out by drain   *)
(*   queued, active -> aborting -> closed     abort_all / abort_active     *)
(*   queued   -> returned   abort_active hands it back                     *)
(*   returned -> closed     Intent::send_abort, or dropped by the session  *)
(*                                                                         *)
(* Intents are given and registered only while the session is live;       *)
(* they are aborted or handed back only after.  A handle is sent events   *)
(* only while its intent is queued (the replay inside submit_intent),     *)
(* active, aborting or returned (send_abort).  One step of the dispatcher *)
(* may move any number of intents (a fan-out cancels several, drain_all   *)
(* and abort_* all of them).                                              *)
(***************************************************************************)
CONSTANTS Intents, Events

VARIABLES stage, heard, live

vars == <<stage, heard, live>>

Stages == {"caller", "queued", "active", "aborting", "closed", "returned"}

\* the stages in which a handle may be sent events
Hearing == {"queued", "active", "aborting", "returned"}

Edge ==
    { <<"caller", "queued">>, <<"queued", "active">>, <<"queued", "closed">>,
      <<"active", "closed">>, <<"queued", "aborting">>,
      <<"active", "aborting">>, <<"aborting", "closed">>,
      <<"queued", "returned">>, <<"returned", "closed">> }

\* edges taken only while the session is live, and only after
WhileLive == {<<"caller", "queued">>, <<"queued", "active">>}
AfterLive == {<<"queued", "aborting">>, <<"active", "aborting">>,
              <<"queued", "returned">>, <<"returned", "closed">>}

Legal(s, t) ==
    \/ s = t
    \/ /\ <<s, t>> \in Edge
       /\ <<s, t>> \in WhileLive => live
       /\ <<s, t>> \in AfterLive => ~live

Init ==
    /\ stage \in [Intents -> {"caller", "queued"}]
    /\ heard = [i \in Intents |-> {}]
    /\ live = TRUE

\* drain_all is called: the session is never live again; an intent being
\* submitted when run() is dropped is dropped with it
EndSession ==
    /\ live
    /\ live' = FALSE
    /\ stage' \in [Intents -> Stages]
    /\ \A i \in Intents :
         stage'[i] = stage[i] \/ (stage[i] = "queued" /\ stage'[i] = "closed")
    /\ UNCHANGED heard

\* a step of the dispatcher, the session or a handle
Advance ==
    /\ stage' \in [Intents -> Stages]
    /\ heard' \in [Intents -> SUBSET Events]
    /\ \A i \in Intents :
         /\ Legal(stage[i], stage'[i])
         /\ heard[i] \subseteq heard'[i]
         /\ heard'[i] # heard[i] => stage[i] \in Hearing
    /\ UNCHANGED live

Next == EndSession \/ Advance

Spec == Init /\ [][Next]_vars

=============================================================================
