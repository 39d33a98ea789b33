---- MODULE MCCallState ----
(***************************************************************************)
(* One TLC run for what a call knows and is told: the dispatch of events,  *)
(* the participants, the subscriptions and the published tracks, modelled  *)
(* apart from each other. A behaviour picks one component, runs it, and    *)
(* leaves the others where they start: the states of the run are the sum   *)
(* of the components' states and not their product.                        *)
(***************************************************************************)
EXTENDS Dispatch, Participants, Subscriptions, Publishing

VARIABLE callFocus    \* the component this behaviour runs

CallComponent == {"dispatch", "participants", "subscriptions", "publishing"}

callVars == <<callFocus, dispatchVars, partVars, subVars, publishVars>>

(* A component with several initial states takes one of them when it only waits. *)
CallInit ==
    /\ callFocus \in CallComponent
    /\ DispatchInit
    /\ PartInit /\ (callFocus = "participants" \/ DOMAIN roster = {})
    /\ SubInit /\ PublishInit

CallNext ==
    /\ UNCHANGED callFocus
    /\ \/ /\ callFocus = "dispatch" /\ DispatchNext
          /\ UNCHANGED <<partVars, subVars, publishVars>>
       \/ /\ callFocus = "participants" /\ PartNext
          /\ UNCHANGED <<dispatchVars, subVars, publishVars>>
       \/ /\ callFocus = "subscriptions" /\ SubNext
          /\ UNCHANGED <<dispatchVars, partVars, publishVars>>
       \/ /\ callFocus = "publishing" /\ PublishNext
          /\ UNCHANGED <<dispatchVars, partVars, subVars>>

CallSpec == CallInit /\ [][CallNext]_callVars

====
