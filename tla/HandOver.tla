------------------------------ MODULE HandOver ------------------------------
(* What handing work over promises, with nothing of how it is decided: a       *)
(* ticket has at most one hand-over that can still be decided, its newest; it  *)
(* is accepted or refused once and for good, or withdrawn; one withdrawn can   *)
(* only be put back while nothing newer was handed over.  Submissions is shown *)
(* to implement this specification.                                            *)
EXTENDS Naturals, Sequences

CONSTANTS Tickets

VARIABLE offers  \* the hand-overs, in the order they were made

Fates == {"open", "accepted", "refused", "withdrawn"}

OffersOK == offers \in Seq([ticket : Tickets, fate : Fates])

\* The newest hand-over of its ticket.
Newest(o) == \A p \in DOMAIN offers : offers[p].ticket = offers[o].ticket => p <= o

Becomes(o, fate) == offers' = [offers EXCEPT ![o].fate = fate]

\* A new hand-over takes the place of the one still open.
Offer(t) ==
    offers' = Append([o \in DOMAIN offers |->
                         IF offers[o].ticket = t /\ offers[o].fate = "open"
                         THEN [offers[o] EXCEPT !.fate = "withdrawn"] ELSE offers[o]],
                     [ticket |-> t, fate |-> "open"])

Accept(o) == offers[o].fate = "open" /\ Newest(o) /\ Becomes(o, "accepted")
Refuse(o) == offers[o].fate = "open" /\ Newest(o) /\ Becomes(o, "refused")
Withdraw(o) == offers[o].fate = "open" /\ Becomes(o, "withdrawn")
PutBack(o) == offers[o].fate = "withdrawn" /\ Newest(o) /\ Becomes(o, "open")

Init == offers = <<>>

Next ==
    \/ \E t \in Tickets : Offer(t)
    \/ \E o \in DOMAIN offers : Accept(o) \/ Refuse(o) \/ Withdraw(o) \/ PutBack(o)

Spec == Init /\ [][Next]_offers
=============================================================================
