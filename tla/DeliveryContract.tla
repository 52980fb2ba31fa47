---------------------------- MODULE DeliveryContract ----------------------------
(***************************************************************************)
(* What a consumer group built on ResilientStreamConsumer promises: an     *)
(* event that was delivered stays with the group until a handler accepted  *)
(* it, the group gave it up, or the log dropped it; and a delivered event  *)
(* does not stay undecided for ever.                                       *)
(***************************************************************************)
CONSTANT Events

VARIABLES
  sent,       \* events added to the log
  gone,       \* events the log no longer holds
  pending,    \* events delivered and not settled
  accepted,   \* events a handler accepted
  rejected    \* events given up after all their attempts

vars == <<sent, gone, pending, accepted, rejected>>

Init ==
  /\ sent = {} /\ gone = {} /\ pending = {} /\ accepted = {} /\ rejected = {}

Send ==
  /\ \E e \in Events \ sent : sent' = sent \cup {e}
  /\ \E lost \in SUBSET Events : gone' = gone \cup (lost \cap sent')
  /\ UNCHANGED <<pending, accepted, rejected>>

\* Every event is delivered to the group at most once.
Deliver ==
  /\ \E new \in SUBSET (sent \ (gone \cup pending \cup accepted \cup rejected)) :
       new # {} /\ pending' = pending \cup new
  /\ UNCHANGED <<sent, gone, accepted, rejected>>

\* A worker may be late: the event can already be settled.
Decide(e) ==
  /\ e \in pending \cup gone \cup accepted \cup rejected
  /\ \/ accepted' = accepted \cup {e} /\ UNCHANGED rejected
     \/ rejected' = rejected \cup {e} /\ UNCHANGED accepted
  /\ UNCHANGED <<sent, gone, pending>>

Settle(e) ==
  /\ e \in pending /\ e \in accepted \cup rejected \cup gone
  /\ pending' = pending \ {e}
  /\ UNCHANGED <<sent, gone, accepted, rejected>>

Next == Send \/ Deliver \/ (\E e \in Events : Decide(e) \/ Settle(e))

Spec == Init /\ [][Next]_vars

FairSpec ==
  Spec /\ \A e \in Events : /\ WF_vars(e \in pending /\ Decide(e))
                            /\ WF_vars(Settle(e))
================================================================================
