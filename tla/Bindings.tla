------------------------------ MODULE Bindings ------------------------------
(***************************************************************************)
(* The C++ API, cusp/cbindings/include/cusp.cpp, above the functions that   *)
(* libcusp.sml exports.  An object of the API owns a handle: an index into  *)
(* the IdBucket of its class, under which the SML side keeps the value that *)
(* the object denotes.  A copy has a handle of its own, the destructor      *)
(* frees it, and -1 is the handle of an object that denotes nothing.        *)
(*                                                                          *)
(* The program keeps objects in a few places.  It has several parts that    *)
(* use the library on their own (each calls cuspInit and cuspShutdown), and *)
(* everything runs in one thread: a callback of the library runs on top of  *)
(* whatever called it, with objects of its own that die when it returns.    *)
(*                                                                          *)
(* The tables below name, method by method, the bucket in which the C       *)
(* function behind it looks, and the one in which it leaves a new value.    *)
(* What the values do (streams, hosts, keys) is left to the other modules:  *)
(* a value is a number, and that of an iterator is what it has left.        *)
(***************************************************************************)
EXTENDS IdBucket, Sequences, FiniteSets

CONSTANTS
    Places,         \* where the program keeps its objects
    Users,          \* the parts of the program that use the library
    UserOf,         \* the user each place belongs to
    MaxValue,       \* bound of the model: values are 0..MaxValue
    MaxDepth,       \* bound of the model: callbacks on top of each other
    MaxCalls,       \* bound of the model: calls that construct objects
    Groups,         \* bound of the model: the classes used together
    Avoided         \* the failing uses that the program stays clear of

VARIABLES
    group,          \* the classes this run uses
    users,          \* the users between cuspInit and cuspShutdown
    openCounter,    \* calls of cuspInit without a cuspShutdown
    running,        \* is the SML part set up?  (cusp_open, cusp_close)
    bucket,         \* the bucket of each class
    object,         \* the object at each place, and in each local variable
    calls,          \* how many calls constructed objects so far
    frames,         \* the running callbacks: the places of their objects
    failed          \* did an assertion fail, or an exception reach C++?

vars == <<group, users, openCounter, running, bucket, object, calls, frames, failed>>

Class == {"EndPoint", "Address", "Host", "HostIterator", "ChannelIterator",
          "InStream", "InStreamIterator", "OutStream", "OutStreamIterator",
          "Event", "Abortable", "PublicKey", "PrivateKey"}
Value == 0..MaxValue

\* The local variables of a method.
Locals == {"local1", "local2"}

ASSUME PlacesAssumption ==
    /\ Locals \cap Places = {}
    /\ UserOf \in [Places -> Users]
ASSUME ModelBoundsAssumption ==
    /\ MaxValue \in Nat /\ MaxDepth \in Nat /\ MaxCalls \in Nat
    /\ Groups \subseteq SUBSET Class
\* The uses of the API at which an assertion of cusp.cpp fails or an exception
\* of the SML side reaches C++, whatever becomes of the handles:
Uses == {
    "invalid object",   \* a method called on, or given, an object that denotes nothing
    "no handler",       \* a null pointer for a handler
    "race",             \* read, write or shutdown before the last one is done
    "wrong size",       \* a negative count of bytes (but -1 for read)
    "wrong priority",   \* one that is infinite or not a number
    "wrong service",    \* one that is reserved or taken, or not there to remove
    "wrong suite",      \* one that the library does not have
    "wrong time",       \* one in the past
    "negative sum",     \* asking for a count of bytes that went below zero
    "late arguments",   \* cuspInit with arguments when the library is open
    "early shutdown",   \* cuspShutdown when it is not
    "Host::key",        \* calling Host::key
    "no answer",        \* Host::address of a host without a known address
    "end of channels"}  \* Channel::Iterator::next at the end
ASSUME AvoidedAssumption == Avoided \subseteq Uses

NoObject == [class |-> "none", handle |-> -1, meant |-> 0]
Object(c, h, x) == [class |-> c, handle |-> h, meant |-> x]
Alive(s) == object[s] # NoObject
Valid(s) == object[s].handle >= 0

-----------------------------------------------------------------------------
(***************************************************************************)
(* The classes: which bucket the copy constructor and the destructor of     *)
(* each go to.                                                              *)
(***************************************************************************)
Special(c) == [dup |-> c, free |-> c]

EndPointObject == Special("EndPoint")
AddressObject == Special("Address")
\* Mutant: a destructor copied from another class.
HostObjectFreesAddress == [dup |-> "Host", free |-> "Address"]
HostObject == Special("Host")
HostIteratorObject == Special("HostIterator")
ChannelIteratorObject == Special("ChannelIterator")
InStreamObject == Special("InStream")
InStreamIteratorObject == Special("InStreamIterator")
OutStreamObject == Special("OutStream")
OutStreamIteratorObject == Special("OutStreamIterator")
EventObject == Special("Event")
AbortableObject == Special("Abortable")
PublicKeyObject == Special("PublicKey")
PrivateKeyObject == Special("PrivateKey")

SpecialMembers == [c \in Class |->
    CASE c = "EndPoint" -> EndPointObject
      [] c = "Address" -> AddressObject
      [] c = "Host" -> HostObject
      [] c = "HostIterator" -> HostIteratorObject
      [] c = "ChannelIterator" -> ChannelIteratorObject
      [] c = "InStream" -> InStreamObject
      [] c = "InStreamIterator" -> InStreamIteratorObject
      [] c = "OutStream" -> OutStreamObject
      [] c = "OutStreamIterator" -> OutStreamIteratorObject
      [] c = "Event" -> EventObject
      [] c = "Abortable" -> AbortableObject
      [] c = "PublicKey" -> PublicKeyObject
      [] c = "PrivateKey" -> PrivateKeyObject]

-----------------------------------------------------------------------------
(***************************************************************************)
(* The methods.  A query looks its object up and asserts that it was found, *)
(* or (a silent one) answers an empty string or false when it was not.  A   *)
(* maker leaves a new value in bucket makes, and wraps its handle in an     *)
(* object of class gives; where the SML side may have nothing to answer,    *)
(* none says whether the method then asserts or gives an invalid object.    *)
(***************************************************************************)
Query(c, names) == {[on |-> c, name |-> n, silent |-> FALSE] : n \in names}
SilentQuery(c, names) == {[on |-> c, name |-> n, silent |-> TRUE] : n \in names}
Maker(c, n, x) == [on |-> c, name |-> n, makes |-> x, gives |-> x, none |-> "never"]

\* What a method, or a factory, refuses with an assertion or an exception.
Refusal(u, c, names) == {[use |-> u, on |-> c, name |-> n] : n \in names}
NoHandler ==
    Refusal("no handler", "EndPoint", {"whenSafeToDestroy", "contact", "advertise"})
    \cup Refusal("no handler", "Host", {"listen"})
    \cup Refusal("no handler", "InStream", {"read"})
    \cup Refusal("no handler", "OutStream", {"write", "shutdown"})
    \cup Refusal("no handler", "Event", {"create"})
RaceCondition ==
    Refusal("race", "InStream", {"read"})
    \cup Refusal("race", "OutStream", {"write", "shutdown"})
WrongSize ==
    Refusal("wrong size", "InStream", {"read"})
    \cup Refusal("wrong size", "OutStream", {"write"})
WrongPriority == Refusal("wrong priority", "OutStream", {"setPriority"})
WrongService ==
    Refusal("wrong service", "EndPoint", {"advertise", "unadvertise"})
    \cup Refusal("wrong service", "Host", {"listen", "unlisten"})
WrongSuite ==
    Refusal("wrong suite", "EndPoint", {"publicKeyStr"})
    \cup Refusal("wrong suite", "PrivateKey", {"pubkey"})
PastEventScheduled ==
    Refusal("wrong time", "Event", {"create", "reschedule", "rescheduleIn"})
NegativeSum ==
    Refusal("negative sum", "EndPoint", {"bytesSent", "bytesReceived"})
    \cup Refusal("negative sum", "Host",
                 {"queuedOutOfOrder", "queuedUnread", "queuedInflight",
                  "queuedToRetransmit", "bytesReceived", "bytesSent"})
    \cup Refusal("negative sum", "InStream",
                 {"queuedOutOfOrder", "queuedUnread", "bytesReceived"})
    \cup Refusal("negative sum", "OutStream",
                 {"queuedInflight", "queuedToRetransmit", "bytesSent"})
Refusals == UNION {NoHandler, RaceCondition, WrongSize, WrongPriority, WrongService,
                   WrongSuite, PastEventScheduled, NegativeSum}

\* May the program's call of this method be refused?
Refused(c, n) == \E r \in Refusals : r.on = c /\ r.name = n /\ r.use \notin Avoided

EndPointControl == Query("EndPoint", {"destroy", "setRate"})
EndPointSafe == Maker("EndPoint", "whenSafeToDestroy", "Abortable")
EndPointKey == Maker("EndPoint", "key", "PrivateKey")
EndPointCounts ==
    SilentQuery("EndPoint", {"publicKeyStr"})
    \cup Query("EndPoint", {"bytesSent", "bytesReceived"})
EndPointViews == {Maker("EndPoint", "hosts", "HostIterator"),
                  Maker("EndPoint", "channels", "ChannelIterator")}
EndPointServices == Query("EndPoint", {"advertise", "unadvertise"})

AddressText == SilentQuery("Address", {"toString"})

HostConnect == Maker("Host", "connect", "OutStream")
HostListening == Query("Host", {"listen", "unlisten"})
\* Host::key calls cusp_host_address.
HostKey == [on |-> "Host", name |-> "Host::key", makes |-> "Address",
            gives |-> "PublicKey", none |-> "assert"]
HostAddress == [on |-> "Host", name |-> "Host::address", makes |-> "Address",
                gives |-> "Address", none |-> "assert"]
HostKeyText == SilentQuery("Host", {"keyStr"})
HostText == SilentQuery("Host", {"toString"})
\* Mutant: the functions behind the iterators of the two directions are confused.
HostStreamsCrossed ==
    {[Maker("Host", "inStreams", "InStreamIterator")
        EXCEPT !.makes = "OutStreamIterator"],
     Maker("Host", "outStreams", "OutStreamIterator")}
HostStreams == {Maker("Host", "inStreams", "InStreamIterator"),
                Maker("Host", "outStreams", "OutStreamIterator")}
HostCounts ==
    Query("Host", {"queuedOutOfOrder", "queuedUnread", "queuedInflight",
                   "queuedToRetransmit", "bytesReceived", "bytesSent",
                   "lastReceive", "lastSend"})

InStreamQueries ==
    Query("InStream", {"read", "reset", "queuedOutOfOrder", "queuedUnread",
                       "bytesReceived"})
OutStreamQueries ==
    Query("OutStream", {"getPriority", "setPriority", "write", "shutdown",
                        "reset", "queuedInflight", "queuedToRetransmit",
                        "bytesSent"})
EventQueries ==
    Query("Event", {"reschedule", "rescheduleIn", "cancel", "timeOfExecution",
                    "timeTillExecution"})
    \cup SilentQuery("Event", {"isScheduled"})
AbortableQueries == Query("Abortable", {"abort"})
PublicKeyQueries ==
    SilentQuery("PublicKey", {"toString"}) \cup Query("PublicKey", {"suite"})
PrivateKeySave == SilentQuery("PrivateKey", {"save"})
PrivateKeyPubkey == Maker("PrivateKey", "pubkey", "PublicKey")

\* The iterators: hasNext, and what next gives an object of.
IteratorOf(c, x) == [on |-> c, gives |-> x]
HostIteratorNext == IteratorOf("HostIterator", "Host")
InStreamIteratorNext == IteratorOf("InStreamIterator", "InStream")
OutStreamIteratorNext == IteratorOf("OutStreamIterator", "OutStream")

Queries == UNION {EndPointControl, EndPointCounts, EndPointServices, AddressText,
                  HostListening, HostKeyText, HostText, HostCounts, InStreamQueries,
                  OutStreamQueries, EventQueries, AbortableQueries,
                  PublicKeyQueries, PrivateKeySave}
Makers == {EndPointSafe, EndPointKey, HostConnect, HostKey, HostAddress,
           PrivateKeyPubkey} \cup EndPointViews \cup HostStreams
Iterators == {HostIteratorNext, InStreamIteratorNext, OutStreamIteratorNext}

\* The functions that give an object without one to call them on.
AddressFromString == [on |-> "Address", name |-> "fromString",
    makes |-> "Address", gives |-> "Address", none |-> "invalid"]
EventNew == [on |-> "Event", name |-> "create",
    makes |-> "Event", gives |-> "Event", none |-> "never"]
PrivateKeyNew == [on |-> "PrivateKey", name |-> "create",
    makes |-> "PrivateKey", gives |-> "PrivateKey", none |-> "invalid"]
Factories == {AddressFromString, EventNew, PrivateKeyNew}

\* The callbacks that come with objects: what the SML side allocates.
ContactCallback == <<"Host", "OutStream">>
AdvertiseCallback == <<"Host", "InStream">>
ListenCallback == <<"InStream">>
EventCallback == <<"Event">>
Callbacks == {ContactCallback, AdvertiseCallback, ListenCallback, EventCallback}

-----------------------------------------------------------------------------
(***************************************************************************)
(* What the methods are made of, as operators from a state to a state.      *)
(***************************************************************************)
Now == [bucket |-> bucket, object |-> object, failed |-> failed]
Becomes(st) ==
    /\ bucket' = st.bucket
    /\ object' = st.object
    /\ failed' = st.failed

Fail(st) == [bucket |-> st.bucket, object |-> st.object, failed |-> TRUE]
Put(st, s, o) == [bucket |-> st.bucket, object |-> [st.object EXCEPT ![s] = o],
                  failed |-> st.failed]
SetBucket(st, c, b) == [bucket |-> [st.bucket EXCEPT ![c] = b],
                        object |-> st.object, failed |-> st.failed]

\* A default-constructed object.
Invalid(st, s, c) == Put(st, s, Object(c, -1, 0))

\* The SML side allocates x in bucket b, and the handle is wrapped at s.
New(st, s, c, b, x) ==
    Put(SetBucket(st, b, Alloc(st.bucket[b], x)), s,
        Object(c, AllocId(st.bucket[b]), x))

\* Mutant: the copy shares the handle.
CopyShares(st, s, t) == Put(st, s, st.object[t])

\* The copy constructor: a second handle for what the object at t denotes.
Copy(st, s, t) ==
    LET o == st.object[t]
        b == SpecialMembers[o.class].dup
    IN  IF o.handle < 0 THEN Invalid(st, s, o.class)
        ELSE IF ~Found(st.bucket[b], o.handle) THEN Fail(st)
        ELSE New(st, s, o.class, b, Sub(st.bucket[b], o.handle))

\* The destructor.
Drop(st, s) ==
    LET o == st.object[s]
        b == SpecialMembers[o.class].free
    IN  IF o = NoObject THEN st
        ELSE IF o.handle < 0 THEN Put(st, s, NoObject)
        ELSE IF ~Found(st.bucket[b], o.handle) THEN Fail(st)
        ELSE Put(SetBucket(st, b, Free(st.bucket[b], o.handle)), s, NoObject)

\* swap
Exchange(st, s, t) ==
    [bucket |-> st.bucket,
     object |-> [st.object EXCEPT ![s] = st.object[t], ![t] = st.object[s]],
     failed |-> st.failed]

-----------------------------------------------------------------------------
(***************************************************************************)
(* The program                                                              *)
(***************************************************************************)

\* May the program act?  And with the object at s?
Active == openCounter > 0 /\ ~failed
InFrame(s) == \E i \in DOMAIN frames : \E j \in DOMAIN frames[i] : frames[i][j] = s
Usable(s) == Active /\ UserOf[s] \in users
\* An object the program calls a method of class c on, or gives to one.
Has(s, c) == /\ Usable(s) /\ object[s].class = c
             /\ Valid(s) \/ "invalid object" \notin Avoided
\* (ASSERT_HANDLE; and an index outside the table raises Subscript.)
InTable(s) == object[s].handle \in Cells(bucket[object[s].class])
Empty(s) == Usable(s) /\ ~Alive(s)

Counted == calls < MaxCalls /\ calls' = calls + 1
Same == UNCHANGED <<group, users, openCounter, running>>

\* An assertion of cuspInit or cuspShutdown fails.
CountFails(use) ==
    /\ use \notin Avoided
    /\ failed' = TRUE
    /\ UNCHANGED <<group, users, openCounter, running, bucket, object, calls, frames>>

\* cuspInit of user u: without arguments, or with them, which only the first
\* call may have.
CuspInit(u) ==
    /\ ~failed /\ u \notin users
    /\ \/ /\ users' = users \cup {u}
          /\ openCounter' = openCounter + 1
          /\ IF openCounter = 0
             THEN running' = TRUE /\ bucket' = [c \in Class |-> NewBucket]
             ELSE UNCHANGED <<running, bucket>>
          /\ UNCHANGED <<group, object, calls, frames, failed>>
       \/ openCounter # 0 /\ CountFails("late arguments")

\* Mutant: the last call is not waited for.
CuspShutdownFirst(u) ==
    /\ Active /\ u \in users /\ frames = <<>>
    /\ \A s \in Places : UserOf[s] = u => ~Alive(s)
    /\ users' = users \ {u}
    /\ openCounter' = openCounter - 1
    /\ running' = FALSE
    /\ UNCHANGED <<group, bucket, object, calls, frames, failed>>

\* cuspShutdown of user u, who has freed its objects, as cusp.h demands.
CuspShutdown(u) ==
    /\ ~failed
    /\ \/ /\ openCounter > 0 /\ u \in users /\ frames = <<>>
          /\ \A s \in Places : UserOf[s] = u => ~Alive(s)
          /\ users' = users \ {u}
          /\ openCounter' = openCounter - 1
          /\ running' = (openCounter # 1)
          /\ UNCHANGED <<group, bucket, object, calls, frames, failed>>
       \/ openCounter = 0 /\ CountFails("early shutdown")

Default(s, c) ==
    /\ Empty(s) /\ c \in group \ {"Abortable"}
    /\ Becomes(Invalid(Now, s, c))
    /\ Counted /\ UNCHANGED frames /\ Same

Duplicate(s, t) ==
    /\ Empty(s) /\ Usable(t) /\ Alive(t)
    /\ Becomes(Copy(Now, s, t))
    /\ Counted /\ UNCHANGED frames /\ Same

\* Mutant: the old handle is overwritten.
AssignLeaks(s, t) ==
    /\ Usable(s) /\ Usable(t) /\ Alive(s) /\ object[t].class = object[s].class
    /\ Becomes(Put(Exchange(Copy(Now, "local1", t), s, "local1"), "local1", NoObject))
    /\ Counted /\ UNCHANGED frames /\ Same

\* operator =: copy into a local object, swap, and let the old handle die.
Assign(s, t) ==
    /\ Usable(s) /\ Usable(t) /\ Alive(s) /\ object[t].class = object[s].class
    /\ Becomes(Drop(Exchange(Copy(Now, "local1", t), s, "local1"), "local1"))
    /\ Counted /\ UNCHANGED frames /\ Same

Swap(s, t) ==
    /\ s # t /\ Usable(s) /\ Usable(t) /\ Alive(s)
    /\ object[t].class = object[s].class
    /\ Becomes(Exchange(Now, s, t))
    /\ UNCHANGED <<calls, frames>> /\ Same

\* The program destroys an object of its own, not one a callback was given.
Destroy(s) ==
    /\ Usable(s) /\ Alive(s) /\ ~InFrame(s)
    /\ Becomes(Drop(Now, s))
    /\ UNCHANGED <<calls, frames>> /\ Same

Ask(s, q) ==
    /\ Has(s, q.on)
    /\ \/ Becomes(IF InTable(s) /\ (Found(bucket[q.on], object[s].handle) \/ q.silent)
                  THEN Now ELSE Fail(Now))
       \/ Refused(q.on, q.name) /\ Becomes(Fail(Now))
    /\ UNCHANGED <<calls, frames>> /\ Same

\* What a maker or a factory does with an answer of the SML side, and without.
Answer(s, m, x) == Becomes(New(Now, s, m.gives, m.makes, x))
NoAnswer(s, m) ==
    \/ m.none = "assert" /\ "no answer" \notin Avoided /\ Becomes(Fail(Now))
    \/ m.none = "invalid" /\ Becomes(Invalid(Now, s, m.gives))
    \/ Refused(m.on, m.name) /\ Becomes(Fail(Now))

Make(s, t, m) ==
    /\ Has(t, m.on) /\ Empty(s) /\ m.gives \in group /\ m.name \notin Avoided
    /\ IF Found(bucket[m.on], object[t].handle)
       THEN (\E x \in Value : Answer(s, m, x)) \/ NoAnswer(s, m)
       ELSE Becomes(Fail(Now))
    /\ Counted /\ UNCHANGED frames /\ Same

Create(s, f) ==
    /\ Empty(s) /\ f.gives \in group
    /\ (\E x \in Value : Answer(s, f, x)) \/ NoAnswer(s, f)
    /\ Counted /\ UNCHANGED frames /\ Same

\* The SML iterator under the handle of t moves on.
Advance(st, t) ==
    LET o == st.object[t]
        b == st.bucket[o.class]
        x == Sub(b, o.handle) - 1
    IN  Put(SetBucket(st, o.class, Replace(b, o.handle, x)), t,
            Object(o.class, o.handle, x))

AtEnd(t) == LET b == bucket[object[t].class]
            IN  ~Found(b, object[t].handle) \/ Sub(b, object[t].handle) = 0

\* next of the iterators over hosts and streams.
IteratorNext(s, t, it) ==
    /\ Has(t, it.on) /\ Empty(s) /\ it.gives \in group
    /\ \/ ~InTable(t) /\ Becomes(Fail(Now))
       \/ InTable(t) /\ AtEnd(t) /\ Becomes(Invalid(Now, s, it.gives))
       \/ /\ InTable(t) /\ ~AtEnd(t)
          /\ \E x \in Value :
                Becomes(New(Advance(Now, t), s, it.gives, it.gives, x))
    /\ Counted /\ UNCHANGED frames /\ Same

\* The Channel that next returns: copies of the local objects.
ReturnChannel(st, s1, s2) ==
    Drop(Drop(Copy(Copy(st, s1, "local1"), s2, "local2"), "local2"), "local1")

\* Channel::Iterator::next: an address, and a host unless there is none yet.
\* At the end the handle of the host is an uninitialised variable.
ChannelIteratorNext(s1, s2, t) ==
    /\ Has(t, "ChannelIterator") /\ Empty(s1) /\ Empty(s2) /\ s1 # s2
    /\ {"Address", "Host"} \subseteq group
    /\ \/ ~InTable(t) /\ Becomes(Fail(Now))
       \/ /\ InTable(t) /\ AtEnd(t) /\ "end of channels" \notin Avoided
          /\ \E junk \in -1..FirstCells :
                Becomes(ReturnChannel(
                    Put(Invalid(Now, "local1", "Address"), "local2",
                        Object("Host", junk, 0)), s1, s2))
       \/ /\ InTable(t) /\ ~AtEnd(t)
          /\ \E x, y \in Value, known \in BOOLEAN :
                LET st == Advance(Now, t)
                    hosted == IF known THEN New(st, "local2", "Host", "Host", y)
                              ELSE Invalid(st, "local2", "Host")
                IN  Becomes(ReturnChannel(
                        New(hosted, "local1", "Address", "Address", x), s1, s2))
    /\ Counted /\ UNCHANGED frames /\ Same

\* EndPoint::create: the key is passed by value, and by default a new one.  It
\* is looked up outside the handler that turns an exception into an invalid
\* object, so that an invalid key raises Subscript.
EndPointCreate(s) ==
    /\ Empty(s) /\ "EndPoint" \in group
    /\ \E st \in {Copy(Now, "local1", k) : k \in {p \in Places : Has(p, "PrivateKey")}}
                 \cup {New(Now, "local1", "PrivateKey", "PrivateKey", x) : x \in Value} :
          IF st.object["local1"].handle < 0 THEN Becomes(Fail(st))
          ELSE \/ \E x \in Value :
                     Becomes(Drop(New(st, s, "EndPoint", "EndPoint", x), "local1"))
               \/ Becomes(Drop(Invalid(st, s, "EndPoint"), "local1"))
    /\ Counted /\ UNCHANGED frames /\ Same

\* EndPoint::contact with the address at a.
EndPointContact(s, t, a) ==
    /\ Has(t, "EndPoint") /\ Has(a, "Address") /\ Empty(s) /\ "Abortable" \in group
    /\ IF /\ Found(bucket["EndPoint"], object[t].handle)
          /\ Found(bucket["Address"], object[a].handle)
       THEN \/ \E x \in Value : Becomes(New(Now, s, "Abortable", "Abortable", x))
            \/ Refused("EndPoint", "contact") /\ Becomes(Fail(Now))
       ELSE Becomes(Fail(Now))
    /\ Counted /\ UNCHANGED frames /\ Same

\* A callback of the library, with one object or two, and its return.
Call1(s, c) ==
    /\ Empty(s) /\ Len(frames) < MaxDepth /\ c[1] \in group
    /\ \E x \in Value : Becomes(New(Now, s, c[1], c[1], x))
    /\ frames' = Append(frames, <<s>>)
    /\ Counted /\ Same

Call2(s1, s2, c) ==
    /\ Empty(s1) /\ Empty(s2) /\ s1 # s2
    /\ Len(frames) < MaxDepth /\ {c[1], c[2]} \subseteq group
    /\ \E x, y \in Value :
          Becomes(New(New(Now, s1, c[1], c[1], x), s2, c[2], c[2], y))
    /\ frames' = Append(frames, <<s1, s2>>)
    /\ Counted /\ Same

\* The objects of a callback die in reverse order.
Unwind(st, f) == IF Len(f) = 1 THEN Drop(st, f[1]) ELSE Drop(Drop(st, f[2]), f[1])

Return ==
    /\ Active /\ frames # <<>>
    /\ Becomes(Unwind(Now, frames[Len(frames)]))
    /\ frames' = SubSeq(frames, 1, Len(frames) - 1)
    /\ UNCHANGED calls /\ Same

-----------------------------------------------------------------------------
Init ==
    /\ group \in Groups
    /\ users = {} /\ openCounter = 0 /\ running = FALSE
    /\ bucket = [c \in Class |-> NewBucket]
    /\ object = [s \in Places \cup Locals |-> NoObject]
    /\ calls = 0
    /\ frames = <<>>
    /\ failed = FALSE

Next ==
    \/ \E u \in Users : CuspInit(u) \/ CuspShutdown(u)
    \/ \E s \in Places :
          \/ \E c \in Class : Default(s, c)
          \/ Destroy(s)
          \/ \E q \in Queries : Ask(s, q)
          \/ \E f \in Factories : Create(s, f)
          \/ EndPointCreate(s)
          \/ \E c \in {ListenCallback, EventCallback} : Call1(s, c)
    \/ \E s, t \in Places :
          \/ Duplicate(s, t)
          \/ Assign(s, t)
          \/ Swap(s, t)
          \/ \E m \in Makers : Make(s, t, m)
          \/ \E it \in Iterators : IteratorNext(s, t, it)
          \/ \E c \in {ContactCallback, AdvertiseCallback} : Call2(s, t, c)
    \/ \E s1, s2, t \in Places :
          ChannelIteratorNext(s1, s2, t) \/ EndPointContact(s1, s2, t)
    \/ Return

Spec == Init /\ [][Next]_vars

-----------------------------------------------------------------------------
(***************************************************************************)
(* Properties                                                               *)
(***************************************************************************)

\* Type invariant.  Between two methods there is no local object.
BindingsTypeOK ==
    /\ group \in SUBSET Class
    /\ users \in SUBSET Users
    /\ openCounter \in Nat
    /\ running \in BOOLEAN
    /\ \A c \in Class : BucketType(bucket[c], Value)
    /\ object \in [Places \cup Locals ->
                     [class : Class \cup {"none"}, handle : Int, meant : Value]]
    /\ \A s \in Locals : object[s] = NoObject
    /\ calls \in 0..MaxCalls
    /\ frames \in Seq(Seq(Places))
    /\ failed \in BOOLEAN

\* A program that stays clear of the uses in Avoided meets no failing assertion:
\* none of its methods, copies and destructors comes with a handle that the SML
\* side does not know, and no handle is freed twice.  (What is in Avoided fails
\* by itself, and the property says nothing of it.)
AssertsHold == ~failed

\* The handle of an object stands for the value the object was made for, from
\* its constructor to its destructor, whatever is copied, assigned, swapped,
\* freed or iterated elsewhere.
HandlesDenote ==
    \A s \in Places :
        Alive(s) /\ Valid(s) =>
            LET b == bucket[object[s].class]
            IN  Found(b, object[s].handle) /\ Sub(b, object[s].handle) = object[s].meant

\* No handle has two owners: a destructor never takes it from another object.
OneOwner ==
    \A s, t \in Places :
        (/\ Alive(s) /\ Alive(t) /\ Valid(s)
         /\ object[s].class = object[t].class
         /\ object[s].handle = object[t].handle) => s = t

\* No handle is without an owner: what no object denotes any more is freed on
\* the SML side, and can be collected.
NoLeak ==
    \A c \in Class : \A h \in Cells(bucket[c]) :
        Found(bucket[c], h) =>
            \E s \in Places : object[s].class = c /\ object[s].handle = h

\* No cell of a bucket is on its free list a second time, or while it is in
\* use: a handle is not given out twice.
FreeListsSound == \A c \in Class : FreeListSound(bucket[c])

\* The free lists hold all the free cells: a table grows only when it is full.
FreeListsComplete == \A c \in Class : FreeListComplete(bucket[c])

\* As long as one part of the program has objects, the SML part is set up, no
\* matter how the parts call cuspInit and cuspShutdown.
OpenWhileInUse == (\E s \in Places : Alive(s)) => running
=============================================================================
