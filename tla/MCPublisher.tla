---- MODULE MCPublisher ----
(***************************************************************************)
(* One TLC run for the two things that act on the publisher's peer         *)
(* connection: the negotiation of its offers, and the binding of local     *)
(* tracks to it, which share no state. A behaviour picks one component,    *)
(* runs it, and leaves the others where they start: the states of the run  *)
(* are the sum of the components' states and not their product.            *)
(***************************************************************************)
EXTENDS OfferNegotiation, LocalTrack

VARIABLE publisherFocus    \* the component this behaviour runs

PublisherComponent == {"offers", "tracks"}

publisherVars == <<publisherFocus, offerVars, vars>>

(* A component with several initial states takes one of them when it only waits. *)
PublisherInit ==
    /\ publisherFocus \in PublisherComponent
    /\ OfferInit /\ (publisherFocus = "offers" \/ (localID = 0 /\ connection = "new"))
    /\ Init

PublisherNext ==
    /\ UNCHANGED publisherFocus
    /\ \/ /\ publisherFocus = "offers" /\ OfferNext
          /\ UNCHANGED <<vars>>
       \/ /\ publisherFocus = "tracks" /\ Next
          /\ UNCHANGED <<offerVars>>

PublisherSpec ==
    PublisherInit /\ [][PublisherNext]_publisherVars /\ OfferFairness /\ TrackFairness

====
