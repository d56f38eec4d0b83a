---------------------------- MODULE MC_Bindings ----------------------------
(* Bindings on small instances: classes that meet in a method, three places,  *)
(* and two users of the library.                                              *)
EXTENDS Bindings, TLC

CONSTANTS p1, p2, p3, app, lib

UserOfPlace == [p \in Places |-> app]

Symmetric == Permutations(Places)

\* The classes that meet in a method or a callback.
Meetings == {
    {"EndPoint", "PrivateKey", "PublicKey"}, {"EndPoint", "HostIterator", "Host"},
    {"EndPoint", "ChannelIterator", "Address", "Host"},
    {"EndPoint", "Address", "Abortable"}, {"Host", "Address", "PublicKey", "OutStream"},
    {"Host", "InStream", "InStreamIterator"},
    {"Host", "OutStream", "OutStreamIterator"}, {"Event"}}
=============================================================================
