------------------------------ MODULE Notifier ------------------------------
(***************************************************************************)
(* Notifications: the digests and the chain of deliveries                  *)
(* (apps/web/lib/notify.ts), Mattermost (lib/notify-mattermost.ts) and web *)
(* push (lib/notify-push.ts).                                              *)
(*                                                                         *)
(* Events are raised by anybody, each once; the configuration changes at   *)
(* any time, as Settings says; the servers behind the transports fail as   *)
(* they like.                                                              *)
(***************************************************************************)
EXTENDS Integers, FiniteSets, Sequences, SequencesExt

CONSTANTS
    Events,      \* bound: the events
    Levels,      \* bound: their levels, a subset of AllLevels
    Hosts,       \* bound: Mattermost servers that may be configured
    Endpoints,   \* bound: browsers
    MaxChanges,  \* bound: changes of the configuration and of channels
    Nowhere      \* neither a server nor "webhook"

\* "chatter" is an index event of level info.
AllLevels == {"chatter", "routine", "error"}

Channels == [host : Hosts, id : 0..MaxChanges]

ASSUME NotifierAssumption ==
    /\ Levels \subseteq AllLevels /\ MaxChanges \in Nat
    /\ "webhook" \notin Hosts /\ Nowhere \notin Hosts \cup Channels \cup {"webhook"}

VARIABLES
    mattermost,     \* mattermostMode and, for the API, the server
    vapid,          \* the keys for web push are configured
    channels,       \* each server's channel of the configured name (external)
    gone,           \* browsers that have thrown their subscription away (external)
    raised,         \* each event: its level once it was raised, "no" before
    buffer, digest, \* Notifier.buffer, Notifier.timer
    chain,          \* the notifications behind Notifier.inFlight
    delivery,       \* each call of deliver
    channel,        \* channelIdCache: the channel it names
    subscriptions,  \* PushSubscription
    outcome,        \* what became of each event
    refused,        \* posts answered 404, for a channel that is not there
    changes

config == <<mattermost, vapid, channels, changes>>
notifierVars == <<config, gone, raised, buffer, digest, chain, delivery, channel,
          subscriptions, outcome, refused>>

IdleDelivery == [pc |-> "idle", events |-> <<>>, post |-> "off", host |-> Nowhere,
                 channel |-> Nowhere, push |-> "off", verdict |-> "ok",
                 found |-> {}, expired |-> {}]

NotifierTypeOK ==
    /\ mattermost \in Hosts \cup {"webhook", Nowhere} /\ vapid \in BOOLEAN
    /\ channels \in [Hosts -> 0..MaxChanges] /\ gone \subseteq Endpoints
    /\ raised \in [Events -> {"no"} \cup AllLevels]
    /\ buffer \in Seq(Events) /\ digest \in {"none", "set", "fired"}
    /\ chain \in Seq(Seq(Events))
    /\ delivery.pc \in {"idle", "sending"}
    /\ delivery.events \in Seq(Events)
    /\ delivery.post \in {"off", "hook", "lookup", "post", "ok", "failed"}
    /\ delivery.host \in Hosts \cup {Nowhere}
    /\ delivery.channel \in Channels \cup {Nowhere}
    /\ delivery.push \in {"off", "load", "send", "clean", "ok", "failed"}
    /\ delivery.verdict \in {"ok", "failed"}
    /\ delivery.found \subseteq Endpoints /\ delivery.expired \subseteq Endpoints
    /\ channel \in Channels \cup {Nowhere}
    /\ subscriptions \subseteq Endpoints
    /\ outcome \in [Events -> {"none", "dropped", "delivered", "failed"}]
    /\ refused \in Nat /\ changes \in 0..MaxChanges

NotifierInit ==
    /\ mattermost \in Hosts \cup {"webhook", Nowhere} /\ vapid \in BOOLEAN
    /\ channels = [h \in Hosts |-> 0] /\ gone = {}
    /\ raised = [e \in Events |-> "no"]
    /\ buffer = <<>> /\ digest = "none" /\ chain = <<>>
    /\ delivery = IdleDelivery
    /\ channel = Nowhere /\ subscriptions = {}
    /\ outcome = [e \in Events |-> "none"]
    /\ refused = 0 /\ changes = 0

-----------------------------------------------------------------------------
(***************************************************************************)
(* What changes by itself.                                                 *)
(***************************************************************************)
Change == changes < MaxChanges /\ changes' = changes + 1

Configure ==
    /\ Change
    /\ \/ mattermost' \in (Hosts \cup {"webhook", Nowhere}) \ {mattermost} /\ UNCHANGED vapid
       \/ vapid' = ~vapid /\ UNCHANGED mattermost
    /\ UNCHANGED <<channels, gone, raised, buffer, digest, chain, delivery, channel,
                   subscriptions, outcome, refused>>

\* A channel is archived and one of its name created.
ReplaceChannel(h) ==
    /\ Change
    /\ channels' = [channels EXCEPT ![h] = @ + 1]
    /\ UNCHANGED <<mattermost, vapid, gone, raised, buffer, digest, chain, delivery,
                   channel, subscriptions, outcome, refused>>

\* subscribePushAction, for a browser that has just subscribed.
Subscribe(p) ==
    /\ p \notin gone /\ p \notin subscriptions
    /\ subscriptions' = subscriptions \cup {p}
    /\ UNCHANGED <<config, gone, raised, buffer, digest, chain, delivery, channel,
                   outcome, refused>>

\* The browser throws its subscription away; unsubscribePushAction may not come through.
Forget(p) ==
    /\ p \notin gone
    /\ gone' = gone \cup {p}
    /\ subscriptions' \in {subscriptions, subscriptions \ {p}}
    /\ UNCHANGED <<config, raised, buffer, digest, chain, delivery, channel,
                   outcome, refused>>

-----------------------------------------------------------------------------
(***************************************************************************)
(* The notifier.                                                           *)
(***************************************************************************)
Enabled == mattermost # Nowhere \/ vapid

Drop(e) ==
    /\ ~Enabled \/ raised'[e] = "chatter"
    /\ outcome' = [outcome EXCEPT ![e] = "dropped"]
    /\ UNCHANGED <<buffer, digest, chain>>

Interrupt(e) ==
    /\ Enabled /\ raised'[e] = "error"
    /\ chain' = Append(chain, <<e>>)
    /\ UNCHANGED <<buffer, digest, outcome>>

Hold(e) ==
    /\ Enabled /\ raised'[e] = "routine"
    /\ buffer' = Append(buffer, e)
    /\ digest' = IF digest = "none" THEN "set" ELSE digest
    /\ UNCHANGED <<chain, outcome>>

\* logActivity, once the row is written or has failed to be: Notifier.push.
Push(e) ==
    /\ raised[e] = "no"
    /\ \E level \in Levels : raised' = [raised EXCEPT ![e] = level]
    /\ Drop(e) \/ Interrupt(e) \/ Hold(e)
    /\ UNCHANGED <<config, gone, delivery, channel, subscriptions, refused>>

\* flush: the whole buffer becomes a notification.  (Variant: the timer
\* that has fired is not forgotten.)
FlushTimerStays ==
    /\ digest = "set"
    /\ digest' = "fired"
    /\ buffer' = <<>>
    /\ chain' = IF buffer = <<>> THEN chain ELSE Append(chain, buffer)
    /\ UNCHANGED <<config, gone, raised, delivery, channel, subscriptions, outcome,
                   refused>>

Flush ==
    /\ digest = "set"
    /\ digest' = "none"
    /\ buffer' = <<>>
    /\ chain' = IF buffer = <<>> THEN chain ELSE Append(chain, buffer)
    /\ UNCHANGED <<config, gone, raised, delivery, channel, subscriptions, outcome,
                   refused>>

-----------------------------------------------------------------------------
(***************************************************************************)
(* Deliveries.                                                             *)
(***************************************************************************)
\* What sendMattermost begins with: a post, or the question which channel to post to.
FirstPost ==
    IF mattermost \in Hosts THEN (IF channel = Nowhere THEN "lookup" ELSE "post")
    ELSE IF mattermost = "webhook" THEN "hook" ELSE "off"

\* deliver, for the head of the chain, once the one before it has settled.
Deliver ==
    /\ chain # <<>> /\ delivery.pc = "idle"
    /\ delivery' = [IdleDelivery EXCEPT
                      !.pc = "sending", !.events = Head(chain), !.post = FirstPost,
                      !.host = IF mattermost \in Hosts THEN mattermost ELSE Nowhere,
                      !.channel = IF FirstPost = "post" THEN channel ELSE Nowhere,
                      !.push = IF vapid THEN "load" ELSE "off"]
    /\ chain' = Tail(chain)
    /\ UNCHANGED <<config, gone, raised, buffer, digest, channel, subscriptions, outcome,
                   refused>>

Posted(x, result) == [x EXCEPT !.post = result, !.host = Nowhere, !.channel = Nowhere]

\* sendViaWebhook is answered, or times out.
Hook ==
    /\ delivery.post = "hook"
    /\ \E result \in {"ok", "failed"} : delivery' = [delivery EXCEPT !.post = result]
    /\ UNCHANGED <<channel, refused>>

\* resolveChannelId is answered: the id is cached and used, on the server that is
\* configured by now; or it fails, as it does once that is none.
Lookup ==
    /\ delivery.post = "lookup"
    /\ \/ LET found == [host |-> delivery.host, id |-> channels[delivery.host]] IN
          /\ channel' = found
          /\ delivery' = [delivery EXCEPT
               !.post = IF mattermost \in Hosts THEN "post" ELSE "failed",
               !.host = IF mattermost \in Hosts THEN mattermost ELSE Nowhere,
               !.channel = found]
       \/ delivery' = Posted(delivery, "failed") /\ UNCHANGED channel
    /\ UNCHANGED refused

Stale == delivery.channel # [host |-> delivery.host, id |-> channels[delivery.host]]

\* 404: the channel that was posted to is not there, which the server may well say with
\* another answer.
Refuse ==
    /\ Stale
    /\ delivery' = Posted(delivery, "failed")
    /\ refused' = refused + 1

\* 2xx; or any other answer or none (401, 403, 5xx, a time-out), whatever the channel.
Answered ==
    /\ \E result \in {"failed"} \cup (IF Stale THEN {} ELSE {"ok"}) :
         delivery' = Posted(delivery, result)
    /\ UNCHANGED <<channel, refused>>

\* sendViaApi is answered: on 404, and on nothing else, the id is forgotten.  (Variant:
\* it is not.)
PostKeepsChannel ==
    /\ delivery.post = "post"
    /\ (Refuse /\ UNCHANGED channel) \/ Answered

Post ==
    /\ delivery.post = "post"
    /\ (Refuse /\ channel' = Nowhere) \/ Answered

\* sendWebPush, up to its query: it fails, finds none, or finds some.
LoadSubscriptions ==
    /\ delivery.push = "load"
    /\ \E next \in {IF subscriptions = {} THEN "ok" ELSE "send", "failed"} :
         delivery' = [delivery EXCEPT !.push = next, !.found = subscriptions]
    /\ UNCHANGED <<channel, refused, subscriptions>>

\* Which of those that were sent to are taken to be gone.
Expired(found, failing) == found \cap gone

\* All are sent to at once.  One that is gone says so; any other may fail for a while,
\* which is a failure if nothing got through.
SendAll ==
    /\ delivery.push = "send"
    /\ \E failing \in SUBSET (delivery.found \ gone) :
         LET found == delivery.found
             expired == Expired(found, failing)
             verdict == IF failing # {} /\ failing = found \ gone THEN "failed" ELSE "ok"
         IN delivery' = [delivery EXCEPT
               !.push = IF expired # {} THEN "clean" ELSE verdict,
               !.verdict = verdict, !.found = {}, !.expired = expired]
    /\ UNCHANGED <<channel, refused, subscriptions>>

\* The rows of those that are gone are deleted, unless the database fails.
Clean ==
    /\ delivery.push = "clean"
    /\ subscriptions' \in {subscriptions, subscriptions \ delivery.expired}
    /\ delivery' = [delivery EXCEPT !.push = delivery.verdict, !.expired = {}]
    /\ UNCHANGED <<channel, refused>>

\* allSettled: both transports have ended, and neither's failure goes further.
Settled ==
    /\ delivery.pc = "sending"
    /\ delivery.post \in {"off", "ok", "failed"} /\ delivery.push \in {"off", "ok", "failed"}

Settle ==
    /\ Settled
    /\ outcome' = [e \in Events |->
         IF e \notin Range(delivery.events) THEN outcome[e]
         ELSE IF "ok" \in {delivery.post, delivery.push} THEN "delivered" ELSE "failed"]
    /\ delivery' = IdleDelivery
    /\ UNCHANGED <<channel, refused, subscriptions>>

DeliveryStep ==
    /\ \/ (Hook \/ Lookup \/ Post) /\ UNCHANGED <<subscriptions, outcome>>
       \/ (LoadSubscriptions \/ SendAll \/ Clean) /\ UNCHANGED outcome
       \/ Settle
    /\ UNCHANGED <<config, gone, raised, buffer, digest, chain>>

NotifierNext ==
    \/ Configure \/ \E h \in Hosts : ReplaceChannel(h)
    \/ \E p \in Endpoints : Subscribe(p) \/ Forget(p)
    \/ \E e \in Events : Push(e)
    \/ Flush \/ Deliver \/ DeliveryStep

NotifierSpec == NotifierInit /\ [][NotifierNext]_notifierVars

\* The timer fires, and every query and every request is answered or times out.
NotifierFairness ==
    /\ WF_notifierVars(Flush) /\ WF_notifierVars(Deliver) /\ WF_notifierVars(DeliveryStep)
FairNotifierSpec == NotifierSpec /\ NotifierFairness
-----------------------------------------------------------------------------
Places(e) ==
    Cardinality({i \in DOMAIN buffer : buffer[i] = e})
      + Cardinality({i \in DOMAIN chain : e \in Range(chain[i])})
      + Cardinality({i \in DOMAIN delivery.events : delivery.events[i] = e})

\* What a failing service costs.  A channel that is replaced, or a server, is answered 404
\* once: a 404 for the same reason is not met again, though the id is looked up in one step,
\* used in another, and cached under a name that does not tell servers apart, and though
\* other failures come between, which keep the id and cost the notification they meet.
\* And browsers that have not thrown their subscription away stay subscribed.
FailuresContained ==
    /\ [](refused <= changes)
    /\ [][(subscriptions \ subscriptions') \subseteq gone']_notifierVars

\* Until it is told an event that was accepted is in one place, so that none is lost or told
\* twice where buffer, chain and deliveries meet.
Once ==
    \A e \in Events :
        Places(e) = IF raised[e] \in AllLevels /\ outcome[e] = "none" THEN 1 ELSE 0

\* Every event that was accepted is told, or its failure is, whatever changes or fails
\* meanwhile and however many digests there were before.
Told ==
    /\ \A e \in Events : raised[e] \in {"routine", "error"} ~> outcome[e] # "none"
    /\ []Once
=============================================================================
