-------------------------- MODULE MC_Negotiation --------------------------
(* Instances of Negotiation for TLC. *)
EXTENDS Negotiation, TLC
CONSTANTS a, b

Offer(publickey, symmetric, noEncrypt) ==
    [publickey |-> publickey, symmetric |-> symmetric, noEncrypt |-> noEncrypt, resume |-> FALSE]
Either(x, y) == {[p \in Peers |-> IF p = q THEN x ELSE y] : q \in Peers}

\* Equal ends, ends whose cheapest suites differ, ends that share no suite.
Alike == Either(Offer({2}, {2}, FALSE), Offer({2}, {2}, FALSE))
Apart == Either(Offer({1, 2}, {2}, TRUE), Offer({2}, {1, 2}, FALSE))
Foreign == Either(Offer({1}, {1}, TRUE), Offer({2}, {1}, TRUE))
AllOffers == Alike \cup Apart \cup Foreign
SomeOffers == Apart \cup Foreign

Symmetric == Permutations(Peers)
=============================================================================
