------------------------------- MODULE MCHome -------------------------------
(* Three small instances: the settings with two forms being saved, the notifier,  *)
(* and the list of missing books that MCMissingList sets up.                      *)
(* While one moves the others stay in their initial states;                       *)
(* Notifier lets the configuration that it takes from Settings change at any time.*)
EXTENDS Settings, Notifier, MCMissingList

CONSTANTS interval, token, v1, v2

VARIABLE part

\* A variable that is malformed, one that is set; a default and none.
MCEnvironment == interval :> Bad @@ token :> v2
MCFallback == interval :> v2 @@ token :> None

Standing == secret = 1
Silent == mattermost = Nowhere /\ ~vapid
Closed == indexed = Ids

MCInit ==
    /\ Init /\ NotifierInit /\ ListInit
    /\ \/ part = "settings" /\ Silent /\ Closed
       \/ part = "notifier" /\ Standing /\ Closed
       \/ part = "compare" /\ Standing /\ Silent

MCNext ==
    /\ \/ part = "settings" /\ Next /\ UNCHANGED <<notifierVars, listVars>>
       \/ part = "notifier" /\ NotifierNext /\ UNCHANGED <<vars, listVars>>
       \/ part = "compare" /\ ListNext /\ UNCHANGED <<vars, notifierVars>>
    /\ UNCHANGED part

\* Fairness as Notifier states it, while it is the notifier's turn.
MCSpec ==
    /\ MCInit /\ [][MCNext]_<<vars, notifierVars, listVars, part>>
    /\ WF_notifierVars(part = "notifier" /\ Flush)
    /\ WF_notifierVars(part = "notifier" /\ Deliver)
    /\ WF_notifierVars(part = "notifier" /\ DeliveryStep)

TypesOK == TypeOK /\ NotifierTypeOK /\ ListTypeOK
=============================================================================
