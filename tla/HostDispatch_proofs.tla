------------------------- MODULE HostDispatch_proofs -------------------------
(***************************************************************************)
(* The tables of ids of HostDispatch are sound (TablesSound), for any        *)
(* streams of any size, any cooldown, packets of any number of segments, and *)
(* any number of packets, replies and sessions.                              *)
(***************************************************************************)
EXTENDS HostDispatch, FiniteSetTheorems, SequenceTheorems, WellFoundedInduction, TLAPS

USE DEF nill

\* A set of natural numbers has a least element.
LEMMA LeastIndex ==
    ASSUME NEW S, S \subseteq Nat, S # {}
    PROVE  \E x \in S : \A y \in S : x <= y
<1> DEFINE R == OpToRel(<, Nat)
<1>1. IsWellFoundedOn(R, Nat)
  BY NatLessThanWellFounded
<1>2. \A x, y \in Nat : y < x => <<y, x>> \in R
  BY DEF OpToRel
<1> HIDE DEF R
<1>3. PICK x \in S : \A y \in S : ~ (<<y, x>> \in R)
  BY <1>1, WFMin
<1>4. \A y \in S : ~ (y < x)
  BY <1>2, <1>3
<1>5. \A y \in S : x <= y
  BY <1>4
<1> QED BY <1>5
-----------------------------------------------------------------------------
(***************************************************************************)
(* The lists of ids of the writing host: the free list (nill) and one list   *)
(* for each cooldown.  List c holds at[c][1] (its end) to at[c][len[c]] (its *)
(* head), and every id leads to the one below it.                            *)
(***************************************************************************)
Places == {nill} \cup 0..(Window - 1)
HeadOf(w, c) == IF c = nill THEN w.writeFree ELSE w.cooldowns[c]
Ids(w) == DOMAIN w.outStreams

Lens == [Places -> Nat]
Ats == [Places -> [Nat -> Int]]

Linked(w, len, at) ==
    \A c \in Places :
        /\ at[c][0] = nill /\ HeadOf(w, c) = at[c][len[c]]
        /\ \A k \in 1..len[c] :
              at[c][k] \in Ids(w) /\ w.outStreams[at[c][k]] = FREE(at[c][k-1])
Disjoint(len, at) ==
    \A c, d \in Places : \A k \in 1..len[c], j \in 1..len[d] :
        at[c][k] = at[d][j] => c = d /\ k = j
Complete(w, len, at) ==
    \A id \in Ids(w) :
        \/ \E s \in Streams : w.outStreams[id] = ALLOC(s)
        \/ \E c \in Places : \E k \in 1..len[c] : at[c][k] = id
Listed(w, len, at) == Linked(w, len, at) /\ Disjoint(len, at) /\ Complete(w, len, at)

OutFields == {"state", "id", "prefix", "inHeap", "rts", "waiting", "acked", "told", "from"}
WriterFields == {"out", "outStreams", "writeFree", "cooldowns", "cooldownIndex", "seqNums"}
IsWriter(w) ==
    /\ DOMAIN w = WriterFields
    /\ DOMAIN w.out = Streams
    /\ \A s \in Streams : /\ DOMAIN w.out[s] = OutFields
                          /\ w.out[s].id \in Int /\ w.out[s].inHeap \in BOOLEAN
    /\ \E n \in Nat \ {0} : Ids(w) = 0..(n - 1)
    /\ DOMAIN w.cooldowns = 0..(Window - 1)
    /\ w.cooldownIndex \in 0..(Window - 1)

\* The records of the streams agree with the table.
Agrees(w) ==
    /\ \A s \in Streams, id \in Ids(w) : w.out[s].id = id <=> w.outStreams[id] = ALLOC(s)
    /\ \A s \in Streams : w.out[s].id \in Ids(w) \cup {nill}
    /\ \A s \in Streams : w.out[s].id # nill => w.out[s].inHeap

SoundWriter(w) ==
    IsWriter(w) /\ Agrees(w) /\ \E len \in Lens, at \in Ats : Listed(w, len, at)

(***************************************************************************)
(* What does not touch the tables.                                           *)
(***************************************************************************)
SameTables(w, d) ==
    /\ IsWriter(d)
    /\ d.outStreams = w.outStreams /\ d.writeFree = w.writeFree
    /\ d.cooldowns = w.cooldowns /\ d.cooldownIndex = w.cooldownIndex
    /\ \A s \in Streams : d.out[s].id = w.out[s].id /\ d.out[s].inHeap = w.out[s].inHeap

LEMMA SameIsSound ==
    ASSUME NEW w, NEW d, SoundWriter(w), SameTables(w, d)
    PROVE  SoundWriter(d)
<1>1. PICK len \in Lens, at \in Ats : Listed(w, len, at)
  BY DEF SoundWriter
<1>2. Linked(d, len, at)
  BY <1>1 DEF Listed, Linked, SameTables, HeadOf, Ids
<1>3. Complete(d, len, at)
  BY <1>1 DEF Listed, Complete, SameTables, Ids
<1>4. Agrees(d)
  BY DEF Agrees, SoundWriter, SameTables, Ids
<1> QED BY <1>1, <1>2, <1>3, <1>4 DEF SoundWriter, SameTables, Listed

LEMMA ResetSame ==
    ASSUME NEW w, IsWriter(w), NEW s \in Streams
    PROVE  SameTables(w, doReset(w, s))
BY DEF SameTables, IsWriter, doReset, WriterFields, OutFields, Ids

LEMMA RtsSame ==
    ASSUME NEW w, IsWriter(w), NEW s \in Streams, NEW on
    PROVE  SameTables(w, RTS(w, s, on))
BY DEF SameTables, IsWriter, RTS, WriterFields, OutFields, Ids

LEMMA SameTwice ==
    ASSUME NEW v, NEW w, NEW d, SameTables(v, w), SameTables(w, d)
    PROVE  SameTables(v, d)
BY DEF SameTables

(***************************************************************************)
(* An id that its stream is done with goes on top of the newest cooldown.    *)
(***************************************************************************)
LEMMA FreeNotAlloc == \A x, y : FREE(x) # ALLOC(y)
BY DEF FREE, ALLOC

LEMMA AllocInjective == \A x, y : ALLOC(x) = ALLOC(y) => x = y
BY DEF ALLOC

\* An id in use is on no list.
LEMMA UsedUnlisted ==
    ASSUME NEW w, NEW len \in Lens, NEW at \in Ats, Linked(w, len, at),
           NEW id \in Ids(w), NEW s, w.outStreams[id] = ALLOC(s)
    PROVE  \A c \in Places : \A k \in 1..len[c] : at[c][k] # id
BY FreeNotAlloc DEF Linked

LEMMA CooldownPlace == ASSUME NEW w, IsWriter(w)
                       PROVE  w.cooldownIndex \in Places \ {nill}
<1>1. w.cooldownIndex \in 0..(Window - 1) /\ Window \in Nat
  BY HostDispatchAssumption DEF IsWriter
<1>2. w.cooldownIndex # -1
  BY <1>1
<1> QED BY <1>1, <1>2 DEF Places

LEMMA CompleteFields ==
    ASSUME NEW w, IsWriter(w), NEW s \in Streams,
           NEW id, id = w.out[s].id, id # nill,
           NEW d, d = BecameComplete(w, s)
    PROVE  /\ IsWriter(d)
           /\ d.outStreams = [w.outStreams EXCEPT ![id] = FREE(w.cooldowns[w.cooldownIndex])]
           /\ d.writeFree = w.writeFree /\ d.cooldownIndex = w.cooldownIndex
           /\ d.cooldowns = [w.cooldowns EXCEPT ![w.cooldownIndex] = id]
           /\ \A t \in Streams \ {s} : d.out[t] = w.out[t]
           /\ d.out[s].id = nill
<1> DEFINE gone == [w EXCEPT !.out[s] = Gone(@)]
           ticked == [gone EXCEPT !.seqNums[id] = Tick(@)]
           o == [w.out EXCEPT ![s] = Gone(@)]
<1>1. d = pushCooldown(ticked, id)
  BY DEF BecameComplete
<1>2. /\ DOMAIN ticked = WriterFields /\ ticked.out = o
      /\ ticked.outStreams = w.outStreams /\ ticked.writeFree = w.writeFree
      /\ ticked.cooldowns = w.cooldowns /\ ticked.cooldownIndex = w.cooldownIndex
  BY DEF IsWriter, WriterFields
<1> HIDE DEF ticked
<1>3. /\ DOMAIN d = WriterFields /\ d.out = o
      /\ d.outStreams = [w.outStreams EXCEPT ![id] = FREE(w.cooldowns[w.cooldownIndex])]
      /\ d.writeFree = w.writeFree /\ d.cooldownIndex = w.cooldownIndex
      /\ d.cooldowns = [w.cooldowns EXCEPT ![w.cooldownIndex] = id]
  BY <1>1, <1>2 DEF pushCooldown, WriterFields
<1>4. /\ \A t \in Streams \ {s} : d.out[t] = w.out[t]
      /\ DOMAIN d.out = Streams /\ DOMAIN d.out[s] = OutFields
      /\ d.out[s].id = nill /\ d.out[s].inHeap \in BOOLEAN
  BY <1>3 DEF IsWriter, Gone, OutFields
<1>5. Ids(d) = Ids(w) /\ DOMAIN d.cooldowns = DOMAIN w.cooldowns
  BY <1>3 DEF Ids
<1>6. \A t \in Streams : DOMAIN d.out[t] = OutFields /\ d.out[t].id \in Int
                         /\ d.out[t].inHeap \in BOOLEAN
  <2> SUFFICES ASSUME NEW t \in Streams
               PROVE  /\ DOMAIN d.out[t] = OutFields /\ d.out[t].id \in Int
                      /\ d.out[t].inHeap \in BOOLEAN
    OBVIOUS
  <2>1. CASE t = s
    BY <1>4, <2>1
  <2>2. CASE t # s
    BY <1>4, <2>2 DEF IsWriter
  <2> QED BY <2>1, <2>2
<1>7. IsWriter(d)
  BY <1>3, <1>4, <1>5, <1>6 DEF IsWriter
<1> QED BY <1>3, <1>4, <1>7

LEMMA CompleteSound ==
    ASSUME NEW w, SoundWriter(w), NEW s \in Streams, NEW d, d = BecameComplete(w, s)
    PROVE  SoundWriter(d)
<1> DEFINE id == w.out[s].id
           c == w.cooldownIndex
<1>0. IsWriter(w) /\ Agrees(w) /\ id \in Ids(w) \cup {nill}
  BY DEF SoundWriter, Agrees
<1>p. PICK len \in Lens, at \in Ats : Listed(w, len, at)
  BY DEF SoundWriter
<1>1. CASE id = nill
  <2>1. /\ IsWriter(d) /\ d.outStreams = w.outStreams /\ d.writeFree = w.writeFree
        /\ d.cooldowns = w.cooldowns /\ d.cooldownIndex = w.cooldownIndex
        /\ \A t \in Streams \ {s} : d.out[t] = w.out[t]
        /\ d.out[s].id = nill
    BY <1>0, <1>1 DEF IsWriter, BecameComplete, Gone, WriterFields, OutFields, Ids
  <2>2. Agrees(d)
    BY <1>0, <1>1, <2>1 DEF Agrees, Ids
  <2>3. Listed(d, len, at)
    BY <1>p, <2>1 DEF Listed, Linked, Complete, HeadOf, Ids
  <2> QED BY <2>1, <2>2, <2>3 DEF SoundWriter
<1>2. CASE id # nill
  <2>1. id \in Ids(w) /\ w.outStreams[id] = ALLOC(s)
    BY <1>0, <1>2 DEF Agrees
  <2>2. /\ IsWriter(d)
        /\ d.outStreams = [w.outStreams EXCEPT ![id] = FREE(w.cooldowns[c])]
        /\ d.writeFree = w.writeFree
        /\ d.cooldowns = [w.cooldowns EXCEPT ![c] = id]
        /\ \A t \in Streams \ {s} : d.out[t] = w.out[t]
        /\ d.out[s].id = nill
    BY <1>0, <1>2, CompleteFields
  <2>3. c \in Places \ {nill} /\ c \in DOMAIN w.cooldowns
    BY <1>0, CooldownPlace DEF IsWriter
  <2>4. Ids(d) = Ids(w)
    BY <2>2 DEF Ids
  <2>5. Agrees(d)
    <3>1. \A i \in Ids(w) : d.outStreams[i] = IF i = id THEN FREE(w.cooldowns[c])
                                              ELSE w.outStreams[i]
      BY <2>2 DEF Ids
    <3>2. \A t \in Streams, i \in Ids(d) : d.out[t].id = i <=> d.outStreams[i] = ALLOC(t)
      <4> SUFFICES ASSUME NEW t \in Streams, NEW i \in Ids(w)
                   PROVE  d.out[t].id = i <=> d.outStreams[i] = ALLOC(t)
        BY <2>4
      <4>1. i # nill
        BY <1>0 DEF IsWriter
      <4>2. CASE t = s
        <5>1. i # id => w.outStreams[i] # ALLOC(s)
          BY <1>0 DEF Agrees
        <5> QED BY <5>1, <4>1, <4>2, <3>1, <2>2, FreeNotAlloc
      <4>3. CASE t # s
        <5>1. d.out[t] = w.out[t] /\ (w.out[t].id = i <=> w.outStreams[i] = ALLOC(t))
          BY <4>3, <2>2, <1>0 DEF Agrees
        <5>2. w.out[t].id # id
          BY <2>1, <4>3, <1>0, AllocInjective DEF Agrees
        <5> QED BY <5>1, <5>2, <3>1, FreeNotAlloc
      <4> QED BY <4>2, <4>3
    <3> QED BY <3>2, <2>2, <2>4, <1>0 DEF Agrees
  <2> DEFINE len2 == [len EXCEPT ![c] = @ + 1]
             at2 == [at EXCEPT ![c] = [@ EXCEPT ![len[c] + 1] = id]]
  <2>6. id \in Int /\ len[c] \in Nat /\ len2 \in Lens /\ at2 \in Ats
    BY <1>0, <2>1, <2>3 DEF IsWriter, Lens, Ats
  <2>7. /\ \A e \in Places \ {c} : len2[e] = len[e] /\ at2[e] = at[e]
        /\ len2[c] = len[c] + 1 /\ at2[c][len[c] + 1] = id
        /\ \A k \in 0..len[c] : at2[c][k] = at[c][k]
    BY <2>3, <2>6 DEF Lens, Ats
  <2>8. \A e \in Places : \A k \in 1..len[e] : at[e][k] # id
    BY <1>p, <2>1, UsedUnlisted DEF Listed
  <2>9. \A e \in Places : len[e] \in Nat
    BY DEF Lens
  <2> HIDE DEF len2, at2, c, id
  <2>10. Linked(d, len2, at2)
    <3> SUFFICES ASSUME NEW e \in Places
                 PROVE  /\ at2[e][0] = nill /\ HeadOf(d, e) = at2[e][len2[e]]
                        /\ \A k \in 1..len2[e] :
                              at2[e][k] \in Ids(d) /\ d.outStreams[at2[e][k]] = FREE(at2[e][k-1])
      BY DEF Linked
    <3>1. /\ at[e][0] = nill /\ HeadOf(w, e) = at[e][len[e]]
          /\ \A k \in 1..len[e] :
                at[e][k] \in Ids(w) /\ w.outStreams[at[e][k]] = FREE(at[e][k-1])
      BY <1>p DEF Listed, Linked
    <3>2. \A k \in 1..len[e] : d.outStreams[at[e][k]] = FREE(at[e][k-1])
      BY <3>1, <2>8, <2>2 DEF Ids
    <3>3. CASE e # c
      <4>1. HeadOf(d, e) = HeadOf(w, e)
        BY <3>3, <2>2, <2>3, <1>0 DEF HeadOf, IsWriter, Places
      <4> QED BY <4>1, <3>1, <3>2, <3>3, <2>7, <2>4
    <3>4. CASE e = c
      <4>1. HeadOf(d, c) = id /\ HeadOf(w, c) = w.cooldowns[c]
        BY <2>2, <2>3 DEF HeadOf
      <4>2. d.outStreams[id] = FREE(at[c][len[c]])
        BY <4>1, <3>1, <3>4, <2>1, <2>2 DEF Ids
      <4>3. at2[c][0] = nill
        BY <3>1, <3>4, <2>7, <2>9
      <4>4. ASSUME NEW k \in 1..len2[c]
            PROVE  at2[c][k] \in Ids(d) /\ d.outStreams[at2[c][k]] = FREE(at2[c][k-1])
        <5>1. CASE k = len[c] + 1
          <6>1. k - 1 = len[c] /\ at2[c][k-1] = at[c][len[c]]
            BY <5>1, <2>7, <2>6
          <6> QED BY <6>1, <5>1, <4>2, <2>7, <2>1, <2>4
        <5>2. CASE k # len[c] + 1
          <6>1. k \in 1..len[c] /\ k - 1 \in 0..len[c] /\ k \in 0..len[c]
            BY <5>2, <2>7, <2>6
          <6> QED BY <6>1, <2>7, <3>1, <3>2, <3>4, <2>4
        <5> QED BY <5>1, <5>2
      <4> QED BY <4>1, <4>3, <4>4, <2>7, <3>4
    <3> QED BY <3>3, <3>4
  <2>11. Disjoint(len2, at2)
    <3>1. Disjoint(len, at)
      BY <1>p DEF Listed
    <3>2. \A k \in 1..len2[c] : \/ k \in 1..len[c] /\ at2[c][k] = at[c][k]
                                \/ k = len[c] + 1
      BY <2>7, <2>6
    <3>3. ASSUME NEW e \in Places, NEW k \in 1..len2[e]
          PROVE  IF e = c /\ k = len[c] + 1 THEN at2[e][k] = id
                 ELSE k \in 1..len[e] /\ at2[e][k] = at[e][k] /\ at2[e][k] # id
      BY <3>2, <2>7, <2>8
    <3> QED BY <3>1, <3>3 DEF Disjoint
  <2>12. Complete(d, len2, at2)
    <3> SUFFICES ASSUME NEW i \in Ids(w)
                 PROVE  \/ \E t \in Streams : d.outStreams[i] = ALLOC(t)
                        \/ \E e \in Places : \E k \in 1..len2[e] : at2[e][k] = i
      BY <2>4 DEF Complete
    <3>1. CASE i = id
      <4>1. len[c] + 1 \in 1..len2[c]
        BY <2>7, <2>6
      <4> QED BY <4>1, <3>1, <2>7, <2>3
    <3>2. CASE i # id
      <4>1. d.outStreams[i] = w.outStreams[i]
        BY <3>2, <2>2 DEF Ids
      <4>2. \A e \in Places : \A k \in 1..len[e] : k \in 1..len2[e] /\ at2[e][k] = at[e][k]
        BY <2>7, <2>9
      <4> QED BY <4>1, <4>2, <1>p DEF Listed, Complete
    <3> QED BY <3>1, <3>2
  <2> QED BY <2>2, <2>5, <2>6, <2>10, <2>11, <2>12 DEF SoundWriter, Listed
<1> QED BY <1>1, <1>2

(***************************************************************************)
(* A stream that is pulled for the first time takes an id off the free list; *)
(* when that is empty, the table grows and the new ids are the list.         *)
(***************************************************************************)
LEMMA FreeListEmpty ==
    ASSUME NEW w, IsWriter(w), NEW len \in Lens, NEW at \in Ats, Linked(w, len, at)
    PROVE  len[nill] \in Nat /\ (w.writeFree = nill <=> len[nill] = 0)
<1>1. nill \in Places /\ len[nill] \in Nat
  BY DEF Places, Lens
<1>2. w.writeFree = at[nill][len[nill]] /\ at[nill][0] = nill
  BY <1>1 DEF Linked, HeadOf
<1>3. len[nill] # 0 => at[nill][len[nill]] \in Ids(w)
  BY <1>1 DEF Linked
<1>4. nill \notin Ids(w)
  BY DEF IsWriter
<1> QED BY <1>1, <1>2, <1>3, <1>4

LEMMA ExpandFields ==
    ASSUME NEW w, IsWriter(w), NEW n \in Nat \ {0}, Ids(w) = 0..(n - 1),
           NEW d, d = expand(w)
    PROVE  /\ IsWriter(d) /\ d.out = w.out /\ d.writeFree = n
           /\ d.cooldowns = w.cooldowns /\ d.cooldownIndex = w.cooldownIndex
           /\ Ids(d) = 0..(2 * n - 1)
           /\ \A i \in 0..(n - 1) : d.outStreams[i] = w.outStreams[i]
           /\ \A i \in n..(2 * n - 1) : d.outStreams[i] =
                  FREE(IF i = 2 * n - 1 THEN w.writeFree ELSE i + 1)
<1>1. Cardinality(Ids(w)) = n
  BY FS_Interval
<1> DEFINE table == [i \in 0..(2 * n - 1) |->
                        IF i < n THEN w.outStreams[i]
                        ELSE FREE(IF i = 2 * n - 1 THEN w.writeFree ELSE i + 1)]
<1>2. /\ DOMAIN d = WriterFields /\ d.out = w.out /\ d.outStreams = table
      /\ d.writeFree = n /\ d.cooldowns = w.cooldowns /\ d.cooldownIndex = w.cooldownIndex
  BY <1>1 DEF expand, IsWriter, WriterFields, Ids
<1>3. Ids(d) = 0..(2 * n - 1) /\ 2 * n \in Nat \ {0}
  BY <1>2 DEF Ids
<1>4. IsWriter(d)
  BY <1>2, <1>3 DEF IsWriter
<1>5. \A i \in 0..(n - 1) : i \in 0..(2 * n - 1) /\ i < n
  OBVIOUS
<1>6. \A i \in n..(2 * n - 1) : i \in 0..(2 * n - 1) /\ ~(i < n)
  OBVIOUS
<1> QED BY <1>2, <1>3, <1>4, <1>5, <1>6

LEMMA ExpandSound ==
    ASSUME NEW w, SoundWriter(w), w.writeFree = nill, NEW d, d = expand(w)
    PROVE  SoundWriter(d) /\ d.out = w.out /\ d.writeFree # nill
<1>0. IsWriter(w) /\ Agrees(w)
  BY DEF SoundWriter
<1>1. PICK n \in Nat \ {0} : Ids(w) = 0..(n - 1)
  BY <1>0 DEF IsWriter
<1>2. PICK len \in Lens, at \in Ats : Listed(w, len, at)
  BY DEF SoundWriter
<1>3. /\ IsWriter(d) /\ d.out = w.out /\ d.writeFree = n
      /\ d.cooldowns = w.cooldowns /\ Ids(d) = 0..(2 * n - 1)
      /\ \A i \in 0..(n - 1) : d.outStreams[i] = w.outStreams[i]
      /\ \A i \in n..(2 * n - 1) : d.outStreams[i] = FREE(IF i = 2 * n - 1 THEN nill ELSE i + 1)
  BY <1>0, <1>1, ExpandFields
<1>4. Agrees(d)
  <2>1. ASSUME NEW s \in Streams, NEW i \in Ids(d)
        PROVE  d.out[s].id = i <=> d.outStreams[i] = ALLOC(s)
    <3>1. CASE i \in 0..(n - 1)
      BY <3>1, <1>0, <1>1, <1>3 DEF Agrees
    <3>2. CASE i \notin 0..(n - 1)
      <4>1. i \in n..(2 * n - 1)
        BY <3>2, <1>3
      <4>2. d.outStreams[i] # ALLOC(s)
        BY <4>1, <1>3, FreeNotAlloc
      <4>3. d.out[s].id # i
        BY <3>2, <4>1, <1>0, <1>1, <1>3 DEF Agrees
      <4> QED BY <4>2, <4>3
    <3> QED BY <3>1, <3>2
  <2>2. Ids(w) \subseteq Ids(d)
    BY <1>1, <1>3
  <2> QED BY <2>1, <2>2, <1>0, <1>3 DEF Agrees
<1> DEFINE len2 == [len EXCEPT ![nill] = n]
           at2 == [at EXCEPT ![nill] = [k \in Nat |-> IF k = 0 THEN nill ELSE 2 * n - k]]
<1>5. nill \in Places /\ len[nill] = 0
  BY <1>0, <1>2, FreeListEmpty DEF Listed, Places
<1>6. len2 \in Lens /\ at2 \in Ats
  <2>1. [k \in Nat |-> IF k = 0 THEN nill ELSE 2 * n - k] \in [Nat -> Int]
    OBVIOUS
  <2> QED BY <2>1 DEF Lens, Ats
<1>7. /\ len2[nill] = n /\ at2[nill][0] = nill
      /\ \A k \in 1..n : at2[nill][k] = 2 * n - k
      /\ \A c \in Places \ {nill} : len2[c] = len[c] /\ at2[c] = at[c]
  BY <1>5 DEF Lens, Ats
<1> HIDE DEF len2, at2
<1>8. \A c \in Places : \A k \in 1..len[c] :
         at[c][k] \in 0..(n - 1) /\ w.outStreams[at[c][k]] = FREE(at[c][k-1])
  BY <1>1, <1>2 DEF Listed, Linked
<1>9. Linked(d, len2, at2)
  <2> SUFFICES ASSUME NEW c \in Places
               PROVE  /\ at2[c][0] = nill /\ HeadOf(d, c) = at2[c][len2[c]]
                      /\ \A k \in 1..len2[c] :
                            at2[c][k] \in Ids(d) /\ d.outStreams[at2[c][k]] = FREE(at2[c][k-1])
    BY DEF Linked
  <2>1. CASE c = nill
    <3>1. HeadOf(d, nill) = at2[nill][len2[nill]]
      BY <1>3, <1>7 DEF HeadOf
    <3>2. ASSUME NEW k \in 1..n
          PROVE  at2[nill][k] \in Ids(d) /\ d.outStreams[at2[nill][k]] = FREE(at2[nill][k-1])
      <4>1. at2[nill][k] = 2 * n - k /\ 2 * n - k \in n..(2 * n - 1)
        BY <1>7
      <4>2. CASE k = 1
        BY <4>1, <4>2, <1>3, <1>7
      <4>3. CASE k # 1
        <5>1. k - 1 \in 1..n /\ 2 * n - k # 2 * n - 1 /\ 2 * n - (k - 1) = (2 * n - k) + 1
          BY <4>3
        <5> QED BY <5>1, <4>1, <1>3, <1>7
      <4> QED BY <4>2, <4>3
    <3> QED BY <3>1, <3>2, <2>1, <1>7
  <2>2. CASE c # nill
    <3>1. HeadOf(d, c) = HeadOf(w, c)
      BY <2>2, <1>3 DEF HeadOf
    <3>2. \A k \in 1..len[c] : at[c][k] \in Ids(d) /\ d.outStreams[at[c][k]] = FREE(at[c][k-1])
      BY <1>3, <1>8
    <3> QED BY <3>1, <3>2, <2>2, <1>7, <1>2 DEF Listed, Linked
  <2> QED BY <2>1, <2>2
<1>10. Disjoint(len2, at2)
  <2>1. \A c \in Places \ {nill} : \A k \in 1..len2[c] :
           k \in 1..len[c] /\ at2[c][k] = at[c][k] /\ at2[c][k] \in 0..(n - 1)
    BY <1>7, <1>8
  <2>2. \A k \in 1..len2[nill] : k \in 1..n /\ at2[nill][k] = 2 * n - k
                                 /\ at2[nill][k] \notin 0..(n - 1)
    BY <1>7
  <2> QED BY <2>1, <2>2, <1>2 DEF Disjoint, Listed
<1>11. Complete(d, len2, at2)
  <2> SUFFICES ASSUME NEW i \in Ids(d)
               PROVE  \/ \E s \in Streams : d.outStreams[i] = ALLOC(s)
                      \/ \E c \in Places : \E k \in 1..len2[c] : at2[c][k] = i
    BY DEF Complete
  <2>1. CASE i \in 0..(n - 1)
    <3>1. d.outStreams[i] = w.outStreams[i] /\ i \in Ids(w)
      BY <2>1, <1>1, <1>3
    <3>2. \A c \in Places : \A k \in 1..len[c] : c # nill /\ at2[c][k] = at[c][k] /\ k \in 1..len2[c]
      BY <1>5, <1>7
    <3> QED BY <3>1, <3>2, <1>2 DEF Listed, Complete
  <2>2. CASE i \notin 0..(n - 1)
    <3>1. i \in n..(2 * n - 1)
      BY <2>2, <1>3
    <3>2. 2 * n - i \in 1..n /\ 2 * n - (2 * n - i) = i
      BY <3>1
    <3> QED BY <3>2, <1>5, <1>7
  <2> QED BY <2>1, <2>2
<1>12. d.writeFree # nill
  BY <1>3
<1> QED BY <1>3, <1>4, <1>6, <1>9, <1>10, <1>11, <1>12 DEF SoundWriter, Listed

LEMMA TakeIdSound ==
    ASSUME NEW w, SoundWriter(w), w.writeFree # nill, NEW s \in Streams,
           w.out[s].id = nill, w.out[s].inHeap,
           NEW d, d = [w EXCEPT !.writeFree = w.outStreams[w.writeFree][2],
                                !.outStreams[w.writeFree] = ALLOC(s),
                                !.out[s].id = w.writeFree]
    PROVE  SoundWriter(d) /\ d.out[s].id = w.writeFree /\ w.writeFree \in Nat
           /\ d.out[s].inHeap
<1> DEFINE id == w.writeFree
<1>0. IsWriter(w) /\ Agrees(w)
  BY DEF SoundWriter
<1>1. PICK len \in Lens, at \in Ats : Listed(w, len, at)
  BY DEF SoundWriter
<1>2. /\ nill \in Places /\ len[nill] \in Nat \ {0}
      /\ \A c \in Places : len[c] \in Nat
  BY <1>0, <1>1, FreeListEmpty DEF Listed, Places, Lens
<1> DEFINE top == len[nill]
<1>3. id = at[nill][top] /\ id \in Ids(w) /\ w.outStreams[id] = FREE(at[nill][top - 1])
  BY <1>1, <1>2 DEF Listed, Linked, HeadOf
<1>4. w.outStreams[id][2] = at[nill][top - 1]
  BY <1>3 DEF FREE
<1>5. id \in Nat
  BY <1>0, <1>3 DEF IsWriter
<1>6. /\ DOMAIN d = WriterFields
      /\ d.out = [w.out EXCEPT ![s] = [@ EXCEPT !.id = id]]
      /\ d.outStreams = [w.outStreams EXCEPT ![id] = ALLOC(s)]
      /\ d.writeFree = at[nill][top - 1]
      /\ d.cooldowns = w.cooldowns /\ d.cooldownIndex = w.cooldownIndex
  BY <1>0, <1>4 DEF IsWriter, WriterFields
<1>7. /\ \A t \in Streams \ {s} : d.out[t] = w.out[t]
      /\ DOMAIN d.out = Streams /\ DOMAIN d.out[s] = OutFields
      /\ d.out[s].id = id /\ d.out[s].inHeap \in BOOLEAN /\ d.out[s].inHeap
  BY <1>0, <1>6 DEF IsWriter, OutFields
<1>8. Ids(d) = Ids(w) /\ \A i \in Ids(w) : d.outStreams[i] = IF i = id THEN ALLOC(s)
                                                             ELSE w.outStreams[i]
  BY <1>6 DEF Ids
<1> HIDE DEF id, top
<1>9. IsWriter(d)
  <2>1. \A t \in Streams : /\ DOMAIN d.out[t] = OutFields
                           /\ d.out[t].id \in Int /\ d.out[t].inHeap \in BOOLEAN
    BY <1>0, <1>5, <1>7 DEF IsWriter
  <2> QED BY <2>1, <1>0, <1>6, <1>7, <1>8 DEF IsWriter
<1>10. Agrees(d)
  <2>1. ASSUME NEW t \in Streams, NEW i \in Ids(d)
        PROVE  d.out[t].id = i <=> d.outStreams[i] = ALLOC(t)
    <3>0. i \in Ids(w) /\ i # nill /\ (w.out[t].id = i <=> w.outStreams[i] = ALLOC(t))
      BY <1>8, <1>0 DEF Agrees, IsWriter
    <3>1. CASE t = s
      BY <3>0, <3>1, <1>7, <1>8
    <3>2. CASE t # s
      <4>1. w.out[t].id # id
        BY <1>0, <1>3, FreeNotAlloc DEF Agrees
      <4> QED BY <4>1, <3>0, <3>2, <1>7, <1>8, AllocInjective
    <3> QED BY <3>1, <3>2
  <2>2. \A t \in Streams : /\ d.out[t].id \in Ids(d) \cup {nill}
                           /\ d.out[t].id # nill => d.out[t].inHeap
    <3> SUFFICES ASSUME NEW t \in Streams
                 PROVE  /\ d.out[t].id \in Ids(d) \cup {nill}
                        /\ d.out[t].id # nill => d.out[t].inHeap
      OBVIOUS
    <3>1. CASE t = s
      BY <3>1, <1>3, <1>7, <1>8
    <3>2. CASE t # s
      BY <3>2, <1>0, <1>7, <1>8 DEF Agrees
    <3> QED BY <3>1, <3>2
  <2> QED BY <2>1, <2>2 DEF Agrees
<1> DEFINE len2 == [len EXCEPT ![nill] = top - 1]
<1>11. len2 \in Lens /\ len2[nill] = top - 1 /\ \A c \in Places \ {nill} : len2[c] = len[c]
  BY <1>2 DEF Lens, top
<1> HIDE DEF len2
<1>12. \A c \in Places : \A k \in 1..len2[c] : k \in 1..len[c] /\ (c = nill => k # top)
  BY <1>11, <1>2 DEF top
<1>13. \A c \in Places : \A k \in 1..len2[c] : at[c][k] # id
  <2>1. top \in 1..len[nill] /\ at[nill][top] = id
    BY <1>2, <1>3 DEF top
  <2> QED BY <2>1, <1>1, <1>2, <1>12 DEF Listed, Disjoint
<1>14. Linked(d, len2, at)
  <2> SUFFICES ASSUME NEW c \in Places
               PROVE  /\ at[c][0] = nill /\ HeadOf(d, c) = at[c][len2[c]]
                      /\ \A k \in 1..len2[c] :
                            at[c][k] \in Ids(d) /\ d.outStreams[at[c][k]] = FREE(at[c][k-1])
    BY DEF Linked
  <2>1. at[c][0] = nill /\ HeadOf(w, c) = at[c][len[c]]
    BY <1>1 DEF Listed, Linked
  <2>2. HeadOf(d, c) = at[c][len2[c]]
    BY <2>1, <1>6, <1>11 DEF HeadOf
  <2>3. \A k \in 1..len2[c] : at[c][k] \in Ids(d) /\ d.outStreams[at[c][k]] = FREE(at[c][k-1])
    BY <1>1, <1>8, <1>12, <1>13 DEF Listed, Linked
  <2> QED BY <2>1, <2>2, <2>3
<1>15. Disjoint(len2, at)
  BY <1>1, <1>12 DEF Listed, Disjoint
<1>16. Complete(d, len2, at)
  <2> SUFFICES ASSUME NEW i \in Ids(d)
               PROVE  \/ \E t \in Streams : d.outStreams[i] = ALLOC(t)
                      \/ \E c \in Places : \E k \in 1..len2[c] : at[c][k] = i
    BY DEF Complete
  <2>1. CASE i = id
    BY <2>1, <1>8
  <2>2. CASE i # id
    <3>1. i \in Ids(w) /\ d.outStreams[i] = w.outStreams[i]
      BY <2>2, <1>8
    <3>2. \A c \in Places : \A k \in 1..len[c] : at[c][k] = i => k \in 1..len2[c]
      BY <2>2, <1>2, <1>3, <1>11 DEF top
    <3> QED BY <3>1, <3>2, <1>1 DEF Listed, Complete
  <2> QED BY <2>1, <2>2
<1> QED BY <1>5, <1>7, <1>9, <1>10, <1>11, <1>14, <1>15, <1>16
        DEF SoundWriter, Listed, id

(***************************************************************************)
(* The ids that have cooled down go to the free list.                        *)
(***************************************************************************)
Walks(w, id, n, g) ==
    g = [k \in 0..n |-> IF k = 0 THEN id
                        ELSE IF g[k-1] \notin Ids(w) THEN nill
                        ELSE w.outStreams[g[k-1]][2]]

\* A list is not longer than the table.
LEMMA ListFits ==
    ASSUME NEW w, IsWriter(w), NEW len \in Lens, NEW at \in Ats,
           Linked(w, len, at), Disjoint(len, at), NEW c \in Places
    PROVE  len[c] \in Nat /\ Cardinality(Ids(w)) \in Nat /\ len[c] <= Cardinality(Ids(w))
<1>1. PICK n \in Nat \ {0} : Ids(w) = 0..(n - 1)
  BY DEF IsWriter
<1>2. IsFiniteSet(Ids(w)) /\ Cardinality(Ids(w)) = n
  BY <1>1, FS_Interval
<1>3. len[c] \in Nat /\ IsFiniteSet(1..len[c]) /\ Cardinality(1..len[c]) = len[c]
  BY FS_Interval DEF Lens
<1> DEFINE f == [k \in 1..len[c] |-> at[c][k]]
<1>4. f \in [1..len[c] -> Ids(w)] /\ \A k \in 1..len[c] : f[k] = at[c][k]
  BY DEF Linked
<1> HIDE DEF f
<1>5. ASSUME Cardinality(Ids(w)) < len[c] PROVE FALSE
  <2> DEFINE S == 1..len[c]
             T == Ids(w)
  <2>0. /\ IsFiniteSet(S) /\ IsFiniteSet(T) /\ Cardinality(T) < Cardinality(S)
        /\ f \in [S -> T]
    BY <1>2, <1>3, <1>4, <1>5
  <2> HIDE DEF S, T
  <2>1. PICK x, y \in S : x # y /\ f[x] = f[y]
    BY <2>0, FS_PigeonHole
  <2> QED BY <2>1, <1>4 DEF Disjoint, S
<1> QED BY <1>2, <1>3, <1>5

LEMMA WalkIsUnique ==
    ASSUME NEW w, NEW id, NEW n \in Nat, NEW g, Walks(w, id, n, g), NEW h, Walks(w, id, n, h)
    PROVE  \A k \in 0..n : g[k] = h[k]
<1> DEFINE S == {k \in 0..n : g[k] # h[k]}
<1> SUFFICES ASSUME S # {} PROVE FALSE
  OBVIOUS
<1>1. S \subseteq Nat
  OBVIOUS
<1>2. PICK k \in S : \A j \in S : k <= j
  BY <1>1, LeastIndex
<1>3. k \in 0..n /\ g[k] # h[k]
  BY <1>2
<1>4. CASE k = 0
  BY <1>3, <1>4 DEF Walks
<1>5. CASE k # 0
  <2>1. k - 1 \in 0..n /\ k - 1 \notin S
    BY <1>2, <1>3, <1>5
  <2>2. g[k-1] = h[k-1]
    BY <2>1
  <2> QED BY <2>2, <1>3, <1>5 DEF Walks
<1> QED BY <1>4, <1>5

LEMMA ChainIsList ==
    ASSUME NEW w, IsWriter(w), NEW len \in Lens, NEW at \in Ats,
           Linked(w, len, at), Disjoint(len, at), NEW c \in Places
    PROVE  Chain(w, HeadOf(w, c)) = [k \in 1..len[c] |-> at[c][len[c] + 1 - k]]
<1> DEFINE n == Cardinality(Ids(w))
           m == len[c]
           id == HeadOf(w, c)
           g == [k \in 0..n |-> IF k < m THEN at[c][m - k] ELSE nill]
           walk == CHOOSE h : Walks(w, id, n, h)
           used == {j \in 0..n : walk[j] # nill}
<1>1. m \in Nat /\ n \in Nat /\ m <= n
  BY ListFits
<1>2. /\ at[c][0] = nill /\ id = at[c][m]
      /\ \A k \in 1..m : at[c][k] \in Ids(w) /\ at[c][k] # nill
                         /\ w.outStreams[at[c][k]][2] = at[c][k-1]
  <2>1. \A k \in 1..m : at[c][k] \in Ids(w) /\ w.outStreams[at[c][k]] = FREE(at[c][k-1])
    BY DEF Linked
  <2>2. \A x : FREE(x)[2] = x
    BY DEF FREE
  <2>3. nill \notin Ids(w)
    BY DEF IsWriter
  <2> QED BY <2>1, <2>2, <2>3 DEF Linked
<1>3. nill \notin Ids(w)
  BY DEF IsWriter
<1>4. Chain(w, id) = [k \in 1..Cardinality(used) |-> walk[k-1]]
  BY DEF Chain, Walks, Ids
<1> HIDE DEF n, m, id, walk
<1>5. ASSUME NEW k \in 0..n
      PROVE  g[k] = IF k = 0 THEN id
                    ELSE IF g[k-1] \notin Ids(w) THEN nill
                    ELSE w.outStreams[g[k-1]][2]
  <2>1. CASE k = 0
    BY <2>1, <1>1, <1>2
  <2>2. CASE k # 0 /\ k - 1 < m
    <3>1. k - 1 \in 0..n /\ m - (k - 1) \in 1..m /\ (m - (k - 1)) - 1 = m - k
      BY <2>2, <1>1
    <3>2. g[k-1] = at[c][m - (k - 1)]
      BY <2>2, <3>1
    <3>3. g[k-1] \in Ids(w) /\ w.outStreams[g[k-1]][2] = at[c][m - k]
      BY <3>1, <3>2, <1>2
    <3>4. g[k] = at[c][m - k]
      <4>1. CASE k < m
        BY <4>1
      <4>2. CASE ~(k < m)
        <5>1. k = m /\ m - k = 0
          BY <4>2, <2>2, <1>1
        <5> QED BY <5>1, <4>2, <1>2
      <4> QED BY <4>1, <4>2
    <3> QED BY <3>3, <3>4, <2>2
  <2>3. CASE k # 0 /\ ~(k - 1 < m)
    <3>1. k - 1 \in 0..n /\ ~(k < m)
      BY <2>3, <1>1
    <3>2. g[k-1] = nill /\ g[k] = nill
      BY <3>1, <2>3
    <3> QED BY <3>2, <2>3, <1>3
  <2> QED BY <2>1, <2>2, <2>3
<1>6. Walks(w, id, n, g)
  <2> DEFINE step(h, k) == IF k = 0 THEN id
                           ELSE IF h[k-1] \notin Ids(w) THEN nill
                           ELSE w.outStreams[h[k-1]][2]
  <2>1. \A k \in 0..n : g[k] = step(g, k)
    BY <1>5
  <2>2. g = [k \in 0..n |-> g[k]]
    OBVIOUS
  <2> HIDE DEF g
  <2>3. g = [k \in 0..n |-> step(g, k)]
    BY <2>1, <2>2, Zenon
  <2> QED BY <2>3 DEF Walks
<1>7. Walks(w, id, n, walk)
  BY <1>6 DEF walk
<1>8. \A k \in 0..n : walk[k] = IF k < m THEN at[c][m - k] ELSE nill
  <2>1. \A k \in 0..n : walk[k] = g[k]
    BY <1>1, <1>6, <1>7, WalkIsUnique
  <2> QED BY <2>1
<1>9. used = 0..(m - 1)
  <2>1. \A j \in 0..n : j < m => m - j \in 1..m /\ walk[j] # nill
    BY <1>1, <1>2, <1>8
  <2>2. \A j \in 0..n : walk[j] # nill <=> j < m
    BY <2>1, <1>8
  <2> QED BY <2>2, <1>1
<1>10. Cardinality(used) = m
  <2>1. Cardinality(0..(m - 1)) = m
    BY <1>1, FS_Interval
  <2> QED BY <2>1, <1>9
<1>11. \A k \in 1..m : k - 1 \in 0..n /\ k - 1 < m /\ m - (k - 1) = m + 1 - k
  BY <1>1
<1>12. \A k \in 1..m : walk[k-1] = at[c][m + 1 - k]
  BY <1>8, <1>11
<1> QED BY <1>4, <1>10, <1>12 DEF m, id

\* The tables after tickCooldown: list x is put on the free list, head first.
LEMMA TickFields ==
    ASSUME NEW w, IsWriter(w), NEW len \in Lens, NEW at \in Ats,
           Linked(w, len, at), Disjoint(len, at),
           NEW d, d = tickCooldown(w)
    PROVE  \E x \in Places \ {nill} :
              /\ IsWriter(d) /\ d.out = w.out /\ Ids(d) = Ids(w)
              /\ \A c \in Places \ {nill} : HeadOf(d, c) = IF c = x THEN nill ELSE HeadOf(w, c)
              /\ d.writeFree = IF len[x] = 0 THEN w.writeFree ELSE at[x][1]
              /\ \A i \in Ids(w) :
                    (\A k \in 1..len[x] : at[x][k] # i) => d.outStreams[i] = w.outStreams[i]
              /\ \A k \in 1..len[x] :
                    d.outStreams[at[x][k]] =
                       FREE(IF k = len[x] THEN w.writeFree ELSE at[x][k + 1])
<1> DEFINE x == IF w.cooldownIndex = Window - 1 THEN 0 ELSE w.cooldownIndex + 1
           m == len[x]
           cooled == Chain(w, w.cooldowns[x])
           table == [i \in Ids(w) |->
              IF \E k \in DOMAIN cooled : cooled[k] = i
              THEN LET k == CHOOSE k \in DOMAIN cooled : cooled[k] = i
                   IN FREE(IF k = 1 THEN w.writeFree ELSE cooled[k-1])
              ELSE w.outStreams[i]]
<1>1. w.cooldownIndex \in 0..(Window - 1) /\ Window \in Nat \ {0}
  BY HostDispatchAssumption DEF IsWriter
<1>2. x \in 0..(Window - 1) /\ x # nill
  BY <1>1
<1>3. x \in Places \ {nill} /\ m \in Nat
  BY <1>2 DEF Places, Lens
<1>4. HeadOf(w, x) = w.cooldowns[x]
  BY <1>2 DEF HeadOf
<1> HIDE DEF x
<1>5. cooled = [k \in 1..m |-> at[x][m + 1 - k]]
  <2>1. Chain(w, HeadOf(w, x)) = [k \in 1..m |-> at[x][m + 1 - k]]
    BY <1>3, ChainIsList
  <2> QED BY <2>1, <1>4
<1>6. /\ DOMAIN d = WriterFields /\ d.out = w.out /\ d.outStreams = table
      /\ d.writeFree = IF cooled = <<>> THEN w.writeFree ELSE Last(cooled)
      /\ d.cooldowns = [w.cooldowns EXCEPT ![x] = nill]
      /\ d.cooldownIndex = x
  BY DEF tickCooldown, IsWriter, WriterFields, Ids, x
<1> HIDE DEF cooled
<1>7. Ids(d) = Ids(w) /\ DOMAIN d.cooldowns = DOMAIN w.cooldowns
  BY <1>6 DEF Ids
<1>8. IsWriter(d)
  BY <1>2, <1>6, <1>7 DEF IsWriter
<1>9. \A c \in Places \ {nill} : HeadOf(d, c) = IF c = x THEN nill ELSE HeadOf(w, c)
  BY <1>6 DEF HeadOf, Places, IsWriter
<1>10. d.writeFree = IF m = 0 THEN w.writeFree ELSE at[x][1]
  <2>1. CASE m = 0
    <3>1. cooled = <<>>
      BY <1>5, <2>1
    <3> QED BY <3>1, <2>1, <1>6
  <2>2. CASE m # 0
    <3>1. m \in 1..m /\ m + 1 - m = 1
      BY <2>2, <1>3
    <3>2. cooled # <<>> /\ Len(cooled) = m /\ cooled[m] = at[x][1]
      BY <3>1, <1>3, <1>5
    <3> QED BY <3>2, <2>2, <1>6 DEF Last
  <2> QED BY <2>1, <2>2
<1>11. \A k \in 1..m : m + 1 - k \in 1..m /\ m + 1 - (m + 1 - k) = k
  BY <1>3
<1>12. DOMAIN cooled = 1..m /\ \A k \in 1..m : cooled[k] = at[x][m + 1 - k]
  BY <1>5
<1>13. ASSUME NEW i \in Ids(w), \A k \in 1..m : at[x][k] # i
       PROVE  d.outStreams[i] = w.outStreams[i]
  <2>1. ~\E k \in DOMAIN cooled : cooled[k] = i
    BY <1>11, <1>12, <1>13
  <2> QED BY <2>1, <1>6
<1>14. ASSUME NEW k \in 1..m
       PROVE  d.outStreams[at[x][k]] = FREE(IF k = m THEN w.writeFree ELSE at[x][k + 1])
  <2> DEFINE i == at[x][k]
             j == m + 1 - k
             choice == CHOOSE y \in DOMAIN cooled : cooled[y] = i
  <2>1. i \in Ids(w)
    BY <1>3, <1>14 DEF Linked
  <2>2. j \in DOMAIN cooled /\ cooled[j] = i /\ j \in Int /\ k \in Int
    BY <1>11, <1>12
  <2>3. choice \in 1..m /\ cooled[choice] = i
    BY <2>2, <1>12
  <2>4. \A y, z \in 1..m : at[x][y] = at[x][z] => y = z
    BY <1>3 DEF Disjoint
  <2>5. choice = j
    <3>1. m + 1 - choice \in 1..m /\ at[x][m + 1 - choice] = at[x][k]
      BY <2>3, <1>11, <1>12
    <3>2. m + 1 - choice = k
      BY <3>1, <2>4
    <3> QED BY <3>2, <2>3, <1>3
  <2>6. d.outStreams[i] = FREE(IF choice = 1 THEN w.writeFree ELSE cooled[choice - 1])
    BY <2>1, <2>2, <1>6
  <2> HIDE DEF choice, i
  <2>7. CASE k = m
    <3>1. j = 1
      BY <2>7, <1>3
    <3> QED BY <3>1, <2>5, <2>6, <2>7 DEF i
  <2>8. CASE k # m
    <3>1. j # 1 /\ j - 1 \in 1..m /\ m + 1 - (j - 1) = k + 1
      BY <2>8, <1>3
    <3>2. cooled[j - 1] = at[x][k + 1]
      BY <3>1, <1>12
    <3> QED BY <3>1, <3>2, <2>5, <2>6, <2>8 DEF i
  <2> QED BY <2>7, <2>8
<1> HIDE DEF m
<1> QED BY <1>3, <1>6, <1>7, <1>8, <1>9, <1>10, <1>13, <1>14 DEF m

LEMMA TickSound ==
    ASSUME NEW w, SoundWriter(w), NEW d, d = tickCooldown(w)
    PROVE  SoundWriter(d) /\ d.out = w.out
<1>0. IsWriter(w) /\ Agrees(w)
  BY DEF SoundWriter
<1>1. PICK len \in Lens, at \in Ats : Listed(w, len, at)
  BY DEF SoundWriter
<1>2. PICK x \in Places \ {nill} :
              /\ IsWriter(d) /\ d.out = w.out /\ Ids(d) = Ids(w)
              /\ \A c \in Places \ {nill} : HeadOf(d, c) = IF c = x THEN nill ELSE HeadOf(w, c)
              /\ d.writeFree = IF len[x] = 0 THEN w.writeFree ELSE at[x][1]
              /\ \A i \in Ids(w) :
                    (\A k \in 1..len[x] : at[x][k] # i) => d.outStreams[i] = w.outStreams[i]
              /\ \A k \in 1..len[x] :
                    d.outStreams[at[x][k]] =
                       FREE(IF k = len[x] THEN w.writeFree ELSE at[x][k + 1])
  BY <1>0, <1>1, TickFields DEF Listed
<1> DEFINE f == len[nill]
           m == len[x]
           joined == [k \in Nat |-> IF k <= f THEN at[nill][k]
                                    ELSE IF k <= f + m THEN at[x][m + 1 - (k - f)]
                                    ELSE nill]
           len2 == [len EXCEPT ![nill] = f + m, ![x] = 0]
           at2 == [at EXCEPT ![nill] = joined]
<1>3. nill \in Places /\ x \in Places /\ x # nill
  BY DEF Places
<1>4. f \in Nat /\ m \in Nat /\ \A c \in Places : len[c] \in Nat /\ at[c] \in [Nat -> Int]
  BY <1>3 DEF Lens, Ats
<1>5. /\ at[nill][0] = nill /\ at[x][0] = nill /\ w.writeFree = at[nill][f]
      /\ \A c \in Places : \A k \in 1..len[c] :
            at[c][k] \in Ids(w) /\ w.outStreams[at[c][k]] = FREE(at[c][k-1])
  BY <1>1, <1>3 DEF Listed, Linked, HeadOf
<1>6. joined \in [Nat -> Int]
  <2>1. \A k \in Nat : ~(k <= f) /\ k <= f + m => m + 1 - (k - f) \in Nat
    BY <1>4
  <2> QED BY <2>1, <1>3, <1>4
<1>7. /\ \A k \in 0..f : joined[k] = at[nill][k]
      /\ \A j \in 1..m : joined[f + j] = at[x][m + 1 - j]
  <2>1. \A j \in 1..m : /\ f + j \in Nat /\ ~(f + j <= f) /\ f + j <= f + m
                        /\ m + 1 - ((f + j) - f) = m + 1 - j
    BY <1>4
  <2>2. \A k \in 0..f : k \in Nat /\ k <= f
    BY <1>4
  <2> QED BY <2>1, <2>2
<1>8. /\ len2 \in Lens /\ at2 \in Ats /\ len2[nill] = f + m /\ len2[x] = 0
      /\ at2[nill] = joined /\ \A c \in Places \ {nill} : at2[c] = at[c]
      /\ \A c \in Places \ {nill, x} : len2[c] = len[c]
  BY <1>3, <1>4, <1>6 DEF Lens, Ats
<1> HIDE DEF joined, len2, at2, f, m
<1>9. \A c \in Places : \A k \in 1..len[c] : c # x => d.outStreams[at[c][k]] = FREE(at[c][k-1])
  <2> SUFFICES ASSUME NEW c \in Places, NEW k \in 1..len[c], c # x
               PROVE  d.outStreams[at[c][k]] = FREE(at[c][k-1])
    OBVIOUS
  <2>1. \A j \in 1..len[x] : at[x][j] # at[c][k]
    BY <1>1, <1>3 DEF Listed, Disjoint
  <2> QED BY <2>1, <1>2, <1>5
<1>10. \A k \in 1..(f + m) : \/ k \in 1..f
                             \/ \E j \in 1..m : k = f + j
  <2> SUFFICES ASSUME NEW k \in 1..(f + m), k \notin 1..f PROVE \E j \in 1..m : k = f + j
    OBVIOUS
  <2>1. k - f \in 1..m /\ k = f + (k - f)
    BY <1>4
  <2> QED BY <2>1
<1>11. Linked(d, len2, at2)
  <2> SUFFICES ASSUME NEW c \in Places
               PROVE  /\ at2[c][0] = nill /\ HeadOf(d, c) = at2[c][len2[c]]
                      /\ \A k \in 1..len2[c] :
                            at2[c][k] \in Ids(d) /\ d.outStreams[at2[c][k]] = FREE(at2[c][k-1])
    BY DEF Linked
  <2>1. CASE c = nill
    <3>1. joined[0] = nill
      BY <1>4, <1>5, <1>7
    <3>2. d.writeFree = joined[f + m]
      <4>1. CASE m = 0
        BY <4>1, <1>2, <1>4, <1>5, <1>7 DEF m
      <4>2. CASE m # 0
        <5>1. m \in 1..m /\ m + 1 - m = 1
          BY <4>2, <1>4
        <5> QED BY <5>1, <4>2, <1>2, <1>7 DEF m
      <4> QED BY <4>1, <4>2
    <3>3. ASSUME NEW k \in 1..f
          PROVE  joined[k] \in Ids(d) /\ d.outStreams[joined[k]] = FREE(joined[k-1])
      <4>1. k \in 0..f /\ k - 1 \in 0..f /\ k \in 1..len[nill]
        BY <1>4 DEF f
      <4> QED BY <4>1, <1>2, <1>3, <1>5, <1>7, <1>9
    <3>4. ASSUME NEW j \in 1..m
          PROVE  joined[f + j] \in Ids(d) /\ d.outStreams[joined[f + j]] = FREE(joined[(f + j) - 1])
      <4>1. m + 1 - j \in 1..len[x] /\ joined[f + j] = at[x][m + 1 - j]
        BY <1>4, <1>7 DEF m
      <4>2. d.outStreams[joined[f + j]] = FREE(IF m + 1 - j = m THEN w.writeFree
                                               ELSE at[x][(m + 1 - j) + 1])
        BY <4>1, <1>2 DEF m
      <4>3. CASE j = 1
        <5>1. m + 1 - j = m /\ (f + j) - 1 = f /\ f \in 0..f
          BY <4>3, <1>4
        <5> QED BY <5>1, <4>1, <4>2, <1>2, <1>3, <1>5, <1>7
      <4>4. CASE j # 1
        <5>1. /\ m + 1 - j # m /\ j - 1 \in 1..m /\ (f + j) - 1 = f + (j - 1)
              /\ (m + 1 - j) + 1 = m + 1 - (j - 1)
          BY <4>4, <1>4
        <5>2. joined[(f + j) - 1] = at[x][(m + 1 - j) + 1]
          BY <5>1, <1>7
        <5> QED BY <5>1, <5>2, <4>1, <4>2, <1>2, <1>3, <1>5
      <4> QED BY <4>3, <4>4
    <3>5. \A k \in 1..(f + m) :
             joined[k] \in Ids(d) /\ d.outStreams[joined[k]] = FREE(joined[k-1])
      BY <3>3, <3>4, <1>10
    <3> QED BY <3>1, <3>2, <3>5, <2>1, <1>8 DEF HeadOf
  <2>2. CASE c = x
    <3>1. 1..len2[c] = {}
      BY <2>2, <1>8
    <3> QED BY <3>1, <2>2, <1>2, <1>3, <1>5, <1>8
  <2>3. CASE c \in Places \ {nill, x}
    <3>1. at2[c] = at[c] /\ len2[c] = len[c] /\ HeadOf(d, c) = HeadOf(w, c)
      BY <2>3, <1>2, <1>8
    <3> QED BY <3>1, <2>3, <1>1, <1>2, <1>9 DEF Listed, Linked
  <2> QED BY <2>1, <2>2, <2>3
\* Where the ids on the new lists were before.
<1>12. ASSUME NEW c \in Places, NEW k \in 1..len2[c]
       PROVE  \/ k \in 1..len[c] /\ at2[c][k] = at[c][k] /\ c # x /\ (c = nill => k <= f)
              \/ /\ c = nill /\ ~(k <= f) /\ m + 1 - (k - f) \in 1..len[x]
                 /\ at2[c][k] = at[x][m + 1 - (k - f)]
  <2>1. CASE c = nill /\ k \in 1..f
    <3>1. k \in 0..f /\ k <= f
      BY <2>1, <1>4
    <3> QED BY <3>1, <2>1, <1>3, <1>7, <1>8 DEF f
  <2>2. CASE c = nill /\ k \notin 1..f
    <3>1. PICK j \in 1..m : k = f + j
      BY <2>2, <1>8, <1>10
    <3>2. m + 1 - (k - f) = m + 1 - j /\ m + 1 - j \in 1..m /\ ~(k <= f)
      BY <3>1, <1>4
    <3> QED BY <3>1, <3>2, <2>2, <1>7, <1>8 DEF m
  <2>3. CASE c = x
    BY <2>3, <1>8
  <2>4. CASE c \in Places \ {nill, x}
    BY <2>4, <1>8
  <2> QED BY <2>1, <2>2, <2>3, <2>4
<1>13. Disjoint(len2, at2)
  <2> SUFFICES ASSUME NEW c \in Places, NEW e \in Places,
                      NEW k \in 1..len2[c], NEW j \in 1..len2[e], at2[c][k] = at2[e][j]
               PROVE  c = e /\ k = j
    BY DEF Disjoint
  <2>0. /\ \A a, b \in Places : \A y \in 1..len[a], z \in 1..len[b] :
              at[a][y] = at[b][z] => a = b /\ y = z
        /\ k \in Int /\ j \in Int
    BY <1>1 DEF Listed, Disjoint
  <2>1. CASE ~(k <= f) /\ ~(j <= f) /\ c = nill /\ e = nill
    <3>1. m + 1 - (k - f) = m + 1 - (j - f)
      BY <2>0, <2>1, <1>3, <1>12
    <3> QED BY <3>1, <2>0, <2>1, <1>4
  <2>2. CASE ~(~(k <= f) /\ c = nill) /\ ~(~(j <= f) /\ e = nill)
    <3>1. k \in 1..len[c] /\ at2[c][k] = at[c][k] /\ j \in 1..len[e] /\ at2[e][j] = at[e][j]
      BY <2>2, <1>12
    <3>2. at[c][k] = at[e][j]
      BY <3>1
    <3> QED BY <3>1, <3>2, <2>0
  <2>3. CASE (~(k <= f) /\ c = nill) /\ ~(~(j <= f) /\ e = nill)
    <3>1. PICK y \in 1..len[x] : at2[c][k] = at[x][y]
      BY <2>3, <1>12
    <3>2. j \in 1..len[e] /\ at2[e][j] = at[e][j] /\ e # x
      BY <2>3, <1>12
    <3> QED BY <3>1, <3>2, <2>0, <1>3
  <2>4. CASE ~(~(k <= f) /\ c = nill) /\ (~(j <= f) /\ e = nill)
    <3>1. PICK y \in 1..len[x] : at2[e][j] = at[x][y]
      BY <2>4, <1>12
    <3>2. k \in 1..len[c] /\ at2[c][k] = at[c][k] /\ c # x
      BY <2>4, <1>12
    <3> QED BY <3>1, <3>2, <2>0, <1>3
  <2> QED BY <2>1, <2>2, <2>3, <2>4
<1>14. \A c \in Places : \A k \in 1..len[c] :
          \E e \in Places : \E j \in 1..len2[e] : at2[e][j] = at[c][k]
  <2> SUFFICES ASSUME NEW c \in Places, NEW k \in 1..len[c]
               PROVE  \E e \in Places : \E j \in 1..len2[e] : at2[e][j] = at[c][k]
    OBVIOUS
  <2>1. CASE c = nill
    <3>1. k \in 0..f /\ k \in 1..(f + m)
      BY <2>1, <1>4 DEF f
    <3> QED BY <3>1, <2>1, <1>3, <1>7, <1>8
  <2>2. CASE c = x
    <3>1. k \in 1..m /\ m + 1 - k \in 1..m /\ m + 1 - (m + 1 - k) = k
          /\ f + (m + 1 - k) \in 1..(f + m)
      BY <2>2, <1>4 DEF m
    <3>2. joined[f + (m + 1 - k)] = at[x][k]
      BY <3>1, <1>7
    <3> QED BY <3>1, <3>2, <2>2, <1>3, <1>8
  <2>3. CASE c \in Places \ {nill, x}
    BY <2>3, <1>8
  <2> QED BY <2>1, <2>2, <2>3
<1>15. Complete(d, len2, at2)
  <2> SUFFICES ASSUME NEW i \in Ids(w)
               PROVE  \/ \E s \in Streams : d.outStreams[i] = ALLOC(s)
                      \/ \E e \in Places : \E j \in 1..len2[e] : at2[e][j] = i
    BY <1>2 DEF Complete
  <2>1. CASE \E c \in Places : \E k \in 1..len[c] : at[c][k] = i
    BY <2>1, <1>14
  <2>2. CASE ~\E c \in Places : \E k \in 1..len[c] : at[c][k] = i
    <3>1. d.outStreams[i] = w.outStreams[i]
      BY <2>2, <1>2, <1>3
    <3> QED BY <3>1, <2>2, <1>1 DEF Listed, Complete
  <2> QED BY <2>1, <2>2
<1>16. Agrees(d)
  <2>1. ASSUME NEW s \in Streams, NEW i \in Ids(w)
        PROVE  d.outStreams[i] = ALLOC(s) <=> w.outStreams[i] = ALLOC(s)
    <3>1. CASE \E k \in 1..len[x] : at[x][k] = i
      BY <3>1, <1>2, <1>3, <1>5, FreeNotAlloc
    <3>2. CASE ~\E k \in 1..len[x] : at[x][k] = i
      BY <3>2, <1>2
    <3> QED BY <3>1, <3>2
  <2> QED BY <2>1, <1>0, <1>2 DEF Agrees
<1> QED BY <1>2, <1>8, <1>11, <1>13, <1>15, <1>16 DEF SoundWriter, Listed

(***************************************************************************)
(* A new host, and one that wipes its state.                                 *)
(***************************************************************************)
LEMMA NewWriterSound ==
    ASSUME NEW out, DOMAIN out = Streams,
           \A s \in Streams : /\ DOMAIN out[s] = OutFields
                              /\ out[s].id = nill /\ out[s].inHeap \in BOOLEAN
    PROVE  SoundWriter(NewWriter(out))
<1> DEFINE w == NewWriter(out)
           len == [c \in Places |-> IF c = nill THEN 1 ELSE 0]
           at == [c \in Places |-> [k \in Nat |-> IF c = nill /\ k = 1 THEN 0 ELSE nill]]
<1>1. /\ DOMAIN w = WriterFields /\ w.out = out /\ w.outStreams = [i \in {0} |-> FREE(nill)]
      /\ w.writeFree = 0 /\ w.cooldowns = [i \in 0..(Window - 1) |-> nill]
      /\ w.cooldownIndex = 0
  BY DEF NewWriter, WriterFields
<1> HIDE DEF w
<1>2. Ids(w) = {0} /\ Ids(w) = 0..(1 - 1) /\ w.outStreams[0] = FREE(nill)
  BY <1>1 DEF Ids
<1>3. IsWriter(w)
  <2>1. 0 \in 0..(Window - 1) /\ 1 \in Nat \ {0}
    BY HostDispatchAssumption
  <2> QED BY <2>1, <1>1, <1>2 DEF IsWriter
<1>4. Agrees(w)
  BY <1>1, <1>2, FreeNotAlloc DEF Agrees
<1>5. nill \in Places /\ len \in Lens /\ at \in Ats
  BY DEF Places, Lens, Ats
<1>6. /\ len[nill] = 1 /\ at[nill][1] = 0 /\ at[nill][0] = nill
      /\ \A c \in Places \ {nill} : len[c] = 0 /\ at[c][0] = nill
  BY <1>5
<1> HIDE DEF len, at
<1>7. \A c \in Places : \A k \in 1..len[c] : c = nill /\ k = 1
  BY <1>6
<1>8. Linked(w, len, at)
  <2>1. \A c \in Places : at[c][0] = nill /\ HeadOf(w, c) = at[c][len[c]]
    BY <1>1, <1>6 DEF HeadOf, Places
  <2>2. \A c \in Places : \A k \in 1..len[c] :
           at[c][k] \in Ids(w) /\ w.outStreams[at[c][k]] = FREE(at[c][k-1])
    BY <1>2, <1>6, <1>7
  <2> QED BY <2>1, <2>2 DEF Linked
<1>9. Disjoint(len, at)
  BY <1>7 DEF Disjoint
<1>10. Complete(w, len, at)
  BY <1>2, <1>5, <1>6 DEF Complete
<1> QED BY <1>3, <1>4, <1>5, <1>8, <1>9, <1>10 DEF SoundWriter, Listed, w

LEMMA WipeOutSound ==
    ASSUME NEW w, SoundWriter(w) PROVE SoundWriter(WipeOut(w))
<1>0. IsWriter(w) /\ Agrees(w)
  BY DEF SoundWriter
<1> DEFINE out == Survivors(w)
<1>1. DOMAIN out = Streams
  BY DEF Survivors
<1>2. ASSUME NEW s \in Streams
      PROVE  DOMAIN out[s] = OutFields /\ out[s].id = nill /\ out[s].inHeap \in BOOLEAN
  <2> DEFINE o == IF w.out[s].prefix THEN w.out[s] ELSE doReset(w, s).out[s]
  <2>1. DOMAIN o = OutFields /\ o.inHeap \in BOOLEAN
    BY <1>0, ResetSame DEF IsWriter, SameTables
  <2>2. out[s] = IF ~w.out[s].inHeap THEN w.out[s]
                 ELSE IF o.state = "reset" THEN Gone(o)
                 ELSE [o EXCEPT !.id = nill, !.rts = TRUE]
    BY DEF Survivors
  <2> HIDE DEF o, out
  <2>3. CASE ~w.out[s].inHeap
    BY <2>2, <2>3, <1>0 DEF Agrees, IsWriter
  <2>4. CASE w.out[s].inHeap /\ o.state = "reset"
    BY <2>1, <2>2, <2>4 DEF Gone, OutFields
  <2>5. CASE w.out[s].inHeap /\ o.state # "reset"
    BY <2>1, <2>2, <2>5 DEF OutFields
  <2> QED BY <2>3, <2>4, <2>5
<1> QED BY <1>1, <1>2, NewWriterSound DEF WipeOut

(***************************************************************************)
(* What the writing host does with the fate of a segment, with a reply, and   *)
(* when it pulls.                                                            *)
(***************************************************************************)
LEMMA AckSound ==
    ASSUME NEW w, SoundWriter(w), NEW segment, segment.of \in Streams, NEW ok
    PROVE  SoundWriter(Ack(w, segment, ok))
<1> DEFINE s == segment.of
           n == segment.data
           c == IF ok THEN [w EXCEPT !.out[s].prefix = FALSE] ELSE w
<1>1. SoundWriter(c)
  <2>1. IsWriter(w)
    BY DEF SoundWriter
  <2>2. SameTables(w, [w EXCEPT !.out[s].prefix = FALSE])
    BY <2>1 DEF SameTables, IsWriter, WriterFields, OutFields, Ids
  <2>3. SoundWriter([w EXCEPT !.out[s].prefix = FALSE])
    BY <2>2, SameIsSound
  <2> QED BY <2>3
<1>2. Ack(w, segment, ok) = IF n = None THEN AckReset(c, s, ok) ELSE AckData(c, s, n, ok)
  BY DEF Ack
<1> HIDE DEF c
<1>3. s \in Streams /\ IsWriter(c)
  BY <1>1 DEF SoundWriter
<1> HIDE DEF s, n
<1>4. SoundWriter(AckReset(c, s, ok))
  <2>1. SoundWriter(BecameComplete(c, s))
    BY <1>1, <1>3, CompleteSound
  <2>2. SoundWriter(RTS(c, s, TRUE))
    BY <1>1, <1>3, RtsSame, SameIsSound
  <2> QED BY <2>1, <2>2 DEF AckReset
<1>5. SoundWriter(AckData(c, s, n, ok))
  <2> DEFINE back == [c EXCEPT !.out[s].waiting = @ \cup {n}]
             a == [c EXCEPT !.out[s].acked = @ \cup {n}]
             b == BecameComplete(a, s)
             done == [b EXCEPT !.out[s] = [@ EXCEPT !.state = "acked", !.told = "true"]]
  <2>1. AckData(c, s, n, ok) = IF c.out[s].state = "reset" THEN c
                               ELSE IF ~ok THEN RTS(back, s, TRUE)
                               ELSE IF a.out[s].acked # All(s) THEN a ELSE done
    BY DEF AckData
  <2>2. SameTables(c, back) /\ SameTables(c, a)
    BY <1>3 DEF SameTables, IsWriter, WriterFields, OutFields, Ids
  <2>3. SoundWriter(back) /\ SoundWriter(a) /\ IsWriter(back)
    BY <1>1, <2>2, SameIsSound DEF SameTables
  <2> HIDE DEF back, a
  <2>4. SoundWriter(RTS(back, s, TRUE))
    BY <1>3, <2>3, RtsSame, SameIsSound
  <2>5. SoundWriter(b) /\ IsWriter(b)
    BY <1>3, <2>3, CompleteSound DEF SoundWriter
  <2> HIDE DEF b
  <2>6. SameTables(b, done)
    BY <1>3, <2>5 DEF SameTables, IsWriter, WriterFields, OutFields, Ids
  <2>7. SoundWriter(done)
    BY <2>5, <2>6, SameIsSound
  <2> HIDE DEF done
  <2> QED BY <1>1, <2>1, <2>3, <2>4, <2>7
<1> QED BY <1>2, <1>4, <1>5

LEMMA ReplySound ==
    ASSUME NEW w, SoundWriter(w), NEW reply
    PROVE  SoundWriter(RecvReply(w, reply))
<1> DEFINE id == reply.id
           s == w.outStreams[id][2]
           h == [w EXCEPT !.out[s].from = @ \cup {reply.of}]
           r == doReset(h, s)
<1>0. IsWriter(w)
  BY DEF SoundWriter
<1>1. CASE id \notin Ids(w) \/ reply.seq # w.seqNums[id] \/ w.outStreams[id][1] = "FREE"
  <2>1. RecvReply(w, reply) = w
    BY <1>1 DEF RecvReply, Ids
  <2> QED BY <2>1
<1>2. CASE ~(id \notin Ids(w) \/ reply.seq # w.seqNums[id] \/ w.outStreams[id][1] = "FREE")
  <2>1. RecvReply(w, reply) = IF reply.resets THEN BecameComplete(r, s) ELSE h
    BY <1>2 DEF RecvReply, Ids
  <2>2. s \in Streams
    <3>1. PICK len \in Lens, at \in Ats : Listed(w, len, at)
      BY DEF SoundWriter
    <3>2. CASE \E c \in Places : \E k \in 1..len[c] : at[c][k] = id
      BY <3>1, <3>2, <1>2 DEF Listed, Linked, FREE
    <3>3. CASE \E t \in Streams : w.outStreams[id] = ALLOC(t)
      BY <3>3 DEF ALLOC
    <3> QED BY <3>1, <3>2, <3>3, <1>2 DEF Listed, Complete
  <2> HIDE DEF s
  <2>3. SameTables(w, h)
    BY <1>0, <2>2 DEF SameTables, IsWriter, WriterFields, OutFields, Ids
  <2>4. SoundWriter(h) /\ IsWriter(h)
    BY <2>3, SameIsSound DEF SameTables
  <2> HIDE DEF h
  <2>5. SoundWriter(r)
    BY <2>2, <2>4, ResetSame, SameIsSound
  <2> HIDE DEF r
  <2>6. SoundWriter(BecameComplete(r, s))
    BY <2>2, <2>5, CompleteSound
  <2> QED BY <2>1, <2>4, <2>6
<1> QED BY <1>1, <1>2

IsSegment(g) == g.of \in Streams /\ g.id \in Nat

LEMMA PulledSound ==
    ASSUME NEW w, SoundWriter(w), NEW s \in Ready(w), NEW p, p = Pulled(w, s)
    PROVE  SoundWriter(p.writer) /\ IsSegment(p.segment)
<1> DEFINE a == IF w.out[s].id = nill THEN allocId(w, s) ELSE w
           o == a.out[s]
           n == IF o.state = "reset" THEN None ELSE Min(o.waiting)
           b == [a EXCEPT !.out[s].waiting = @ \ {n}]
           on == (o.waiting \ {n} # {})
<1>0. s \in Streams /\ w.out[s].inHeap /\ IsWriter(w) /\ Agrees(w)
  BY DEF Ready, SoundWriter
<1>1. SoundWriter(a) /\ a.out[s].id \in Nat
  <2>1. CASE w.out[s].id # nill
    BY <2>1, <1>0 DEF Agrees, IsWriter
  <2>2. CASE w.out[s].id = nill
    <3> DEFINE e == IF w.writeFree = nill THEN expand(w) ELSE w
    <3>1. SoundWriter(e) /\ e.out = w.out /\ e.writeFree # nill
      BY ExpandSound
    <3>2. allocId(w, s) = [e EXCEPT !.writeFree = e.outStreams[e.writeFree][2],
                                    !.outStreams[e.writeFree] = ALLOC(s),
                                    !.out[s].id = e.writeFree]
      BY DEF allocId
    <3> HIDE DEF e
    <3>3. SoundWriter(allocId(w, s)) /\ allocId(w, s).out[s].id \in Nat
      BY <2>2, <3>1, <3>2, <1>0, TakeIdSound
    <3> QED BY <3>3, <2>2
  <2> QED BY <2>1, <2>2
<1>2. p.writer = RTS(b, s, on) /\ p.segment.of = s /\ p.segment.id = o.id
  BY DEF Pulled
<1> HIDE DEF a, n, on
<1>3. IsWriter(a)
  BY <1>1 DEF SoundWriter
<1>4. SameTables(a, b)
  BY <1>0, <1>3 DEF SameTables, IsWriter, WriterFields, OutFields, Ids
<1>5. SoundWriter(b) /\ IsWriter(b)
  BY <1>1, <1>4, SameIsSound DEF SameTables
<1> HIDE DEF b
<1>6. SoundWriter(RTS(b, s, on))
  BY <1>0, <1>5, RtsSame, SameIsSound
<1> QED BY <1>0, <1>1, <1>2, <1>6 DEF IsSegment

-----------------------------------------------------------------------------
(***************************************************************************)
(* Sequences of any values, and folds over them.                             *)
(***************************************************************************)
IsSeq(s) == \E n \in Nat : s = [k \in 1..n |-> s[k]]

LEMMA SeqLength ==
    ASSUME NEW s, IsSeq(s)
    PROVE  Len(s) \in Nat /\ DOMAIN s = 1..Len(s)
<1>1. PICK n \in Nat : s = [k \in 1..n |-> s[k]]
  BY DEF IsSeq
<1>2. s \in Seq({s[k] : k \in 1..n})
  BY <1>1
<1> QED BY <1>2

Appended(s, x, t) ==
    /\ IsSeq(t) /\ DOMAIN t = 1..(Len(s) + 1)
    /\ \A k \in DOMAIN s : k \in DOMAIN t /\ t[k] = s[k]
    /\ t[Len(s) + 1] = x
    /\ \A k \in DOMAIN t : k \in DOMAIN s \/ k = Len(s) + 1

LEMMA SeqAppend ==
    ASSUME NEW s, IsSeq(s), NEW x, NEW t, t = Append(s, x)
    PROVE  Appended(s, x, t)
<1>1. PICK n \in Nat : s = [k \in 1..n |-> s[k]]
  BY DEF IsSeq
<1> DEFINE S == {s[k] : k \in 1..n} \cup {x}
<1>2. s \in Seq(S) /\ x \in S /\ Len(s) = n
  BY <1>1
<1> HIDE DEF S
<1>3. /\ t \in Seq(S) /\ Len(t) = n + 1
      /\ \A k \in 1..n : t[k] = s[k]
      /\ t[n + 1] = x
  BY <1>2
<1>4. DOMAIN t = 1..(n + 1) /\ DOMAIN s = 1..n
  BY <1>2, <1>3
<1>5. n + 1 \in Nat /\ t \in [1..(n + 1) -> S]
  BY <1>3, LenProperties
<1>6. t = [k \in 1..(n + 1) |-> t[k]]
  BY <1>5
<1>7. IsSeq(t)
  BY <1>5, <1>6 DEF IsSeq
<1> QED BY <1>2, <1>3, <1>4, <1>7 DEF Appended

\* A sequence whose elements are replaced.
LEMMA SeqMap ==
    ASSUME NEW s, IsSeq(s), NEW t, DOMAIN t = DOMAIN s, t = [k \in DOMAIN s |-> t[k]]
    PROVE  IsSeq(t)
BY DEF IsSeq

\* The greatest of some indexes, as a fold takes them.
LEMMA MaxIndex ==
    ASSUME NEW k \in Nat, NEW s \in SUBSET (1..k), s # {}
    PROVE  Max(s) \in s /\ \A y \in s : y <= Max(s)
<1> DEFINE D == {d \in Nat : k - d \in s}
<1>1. \A y \in s : y \in Int /\ k - y \in D
  OBVIOUS
<1>2. D \subseteq Nat /\ D # {}
  BY <1>1
<1>3. PICK d \in D : \A e \in D : d <= e
  BY <1>2, LeastIndex
<1>4. k - d \in s /\ d \in Nat
  BY <1>3
<1>5. \A y \in s : k - d >= y
  <2> SUFFICES ASSUME NEW y \in s PROVE k - d >= y
    OBVIOUS
  <2>1. y \in Int /\ d <= k - y
    BY <1>1, <1>3
  <2> QED BY <2>1, <1>4
<1> HIDE DEF D
<1> DEFINE top == Max(s)
<1>6. top \in s /\ \A y \in s : top >= y
  BY <1>4, <1>5 DEF Max
<1>7. \A y \in s : y <= top
  BY <1>6, <1>1
<1> QED BY <1>6, <1>7

\* What HostDispatch folds over: the fates of segments, segments that arrive,
\* and the packets and replies of a channel that ends.
Step(x, e) ==
    CASE e[1] = "ack"   -> Ack(x, e[2], e[3])
      [] e[1] = "recv"  -> recvSegment(x, e[2], e[3], e[4])
      [] e[1] = "lost"  -> (IF e[2].open THEN AckAll(x, e[2].load, FALSE) ELSE x)
      [] e[1] = "reply" -> (IF e[2].open THEN AckReply(x, e[2].load[1], FALSE) ELSE x)

Folds(begun, order, g, k) ==
    g = [s \in SUBSET (1..k) |->
            IF s = {} THEN begun ELSE Step(g[s \ {Max(s)}], order[Max(s)])]

LEMMA FoldExists ==
    ASSUME NEW begun, NEW order, NEW m \in Nat
    PROVE  \E g : Folds(begun, order, g, m)
<1> DEFINE S == {k \in Nat : ~\E g : Folds(begun, order, g, k)}
<1> SUFFICES ASSUME S # {} PROVE FALSE
  OBVIOUS
<1>1. PICK k \in S : \A j \in S : k <= j
  BY LeastIndex
<1>2. CASE k = 0
  <2> DEFINE g == [s \in SUBSET (1..0) |-> begun]
  <2>1. SUBSET (1..0) = {{}}
    OBVIOUS
  <2>2. Folds(begun, order, g, 0)
    BY <2>1 DEF Folds
  <2> QED BY <1>1, <1>2, <2>2
<1>3. CASE k # 0
  <2>1. k \in Nat /\ k - 1 \in Nat /\ k - 1 \notin S
    BY <1>1, <1>3
  <2>2. PICK g : Folds(begun, order, g, k - 1)
    BY <2>1
  <2> DEFINE step(h, s) == IF s = {} THEN begun ELSE Step(h[s \ {Max(s)}], order[Max(s)])
             h == [s \in SUBSET (1..k) |->
                     IF s = {} THEN begun
                     ELSE IF k \in s THEN Step(g[s \ {k}], order[k]) ELSE g[s]]
  <2>3. \A s \in SUBSET (1..(k - 1)) : g[s] = step(g, s)
    BY <2>2 DEF Folds
  <2>4. \A s \in SUBSET (1..k) : k \notin s => s \in SUBSET (1..(k - 1))
    BY <2>1
  <2>5. \A s \in SUBSET (1..(k - 1)) : h[s] = g[s]
    <3> SUFFICES ASSUME NEW s \in SUBSET (1..(k - 1)) PROVE h[s] = g[s]
      OBVIOUS
    <3>1. s \in SUBSET (1..k) /\ k \notin s
      BY <2>1
    <3>2. CASE s = {}
      BY <3>1, <3>2, <2>3
    <3>3. CASE s # {}
      BY <3>1, <3>3
    <3> QED BY <3>2, <3>3
  <2>6. ASSUME NEW s \in SUBSET (1..k), s # {} PROVE h[s] = step(h, s)
    <3>1. Max(s) \in s /\ \A y \in s : y <= Max(s)
      BY <2>1, <2>6, MaxIndex
    <3>2. CASE k \in s
      <4>1. Max(s) = k
        <5>1. Max(s) \in 1..k /\ k <= Max(s)
          BY <3>1, <3>2
        <5> QED BY <5>1, <2>1
      <4>2. s \ {k} \in SUBSET (1..(k - 1))
        BY <2>1
      <4>3. h[s] = Step(g[s \ {k}], order[k])
        BY <2>6, <3>2
      <4>4. h[s \ {k}] = g[s \ {k}]
        BY <4>2, <2>5
      <4> QED BY <4>1, <4>3, <4>4, <2>6
    <3>3. CASE k \notin s
      <4>1. s \in SUBSET (1..(k - 1)) /\ s \ {Max(s)} \in SUBSET (1..(k - 1))
        BY <2>4, <3>3
      <4>2. h[s] = g[s] /\ h[s \ {Max(s)}] = g[s \ {Max(s)}]
        BY <4>1, <2>5
      <4> QED BY <4>1, <4>2, <2>3, <2>6
    <3> QED BY <3>2, <3>3
  <2>7. h[{}] = begun
    OBVIOUS
  <2>8. \A s \in SUBSET (1..k) : h[s] = step(h, s)
    BY <2>6, <2>7
  <2>9. Folds(begun, order, h, k)
    <3>1. h = [s \in SUBSET (1..k) |-> h[s]]
      OBVIOUS
    <3>2. h = [s \in SUBSET (1..k) |-> step(h, s)]
      BY <2>8, <3>1, Zenon
    <3> QED BY <3>2 DEF Folds
  <2> QED BY <1>1, <2>9
<1> QED BY <1>2, <1>3

\* One step after the other, from begun to done.
Steps(begun, order, m, done) ==
    \E at : /\ at[0] = begun /\ at[m] = done
           /\ \A k \in 1..m : at[k] = Step(at[k-1], order[k])

LEMMA FoldSteps ==
    ASSUME NEW begun, NEW order, NEW m \in Nat, NEW g, Folds(begun, order, g, m)
    PROVE  Steps(begun, order, m, g[1..m])
<1> DEFINE at == [k \in 0..m |-> g[1..k]]
<1>1. \A s \in SUBSET (1..m) :
        g[s] = IF s = {} THEN begun ELSE Step(g[s \ {Max(s)}], order[Max(s)])
  BY DEF Folds
<1>2. at[0] = begun
  <2>1. 1..0 = {}
    OBVIOUS
  <2>2. g[{}] = begun
    BY <1>1
  <2> QED BY <2>1, <2>2
<1>3. ASSUME NEW k \in 1..m PROVE at[k] = Step(at[k-1], order[k])
  <2>1. k \in Nat /\ k - 1 \in 0..m /\ k \in 0..m
    OBVIOUS
  <2>2. (1..k) \in SUBSET (1..m) /\ k \in 1..k
    BY <2>1
  <2>3. Max(1..k) \in 1..k /\ \A y \in 1..k : y <= Max(1..k)
    BY <2>1, <2>2, MaxIndex
  <2>4. Max(1..k) = k
    BY <2>1, <2>2, <2>3
  <2>5. (1..k) \ {k} = 1..(k - 1)
    BY <2>1
  <2>6. g[1..k] = Step(g[1..(k - 1)], order[k])
    BY <1>1, <2>2, <2>4, <2>5
  <2> QED BY <2>6, <2>1
<1>4. at[m] = g[1..m]
  OBVIOUS
<1> QED BY <1>2, <1>3, <1>4 DEF Steps

\* A writer that is sound after each step is sound after all.
LEMMA WriterSteps ==
    ASSUME NEW w, SoundWriter(w), NEW order, NEW m \in Nat, NEW d, Steps(w, order, m, d),
           \A k \in 1..m : \A x : SoundWriter(x) => SoundWriter(Step(x, order[k]))
    PROVE  SoundWriter(d)
<1>1. PICK at : /\ at[0] = w /\ at[m] = d
                /\ \A k \in 1..m : at[k] = Step(at[k-1], order[k])
  BY DEF Steps
<1> DEFINE S == {k \in 0..m : ~SoundWriter(at[k])}
<1> SUFFICES ASSUME S # {} PROVE FALSE
  <2>1. m \in 0..m
    OBVIOUS
  <2> QED BY <2>1, <1>1
<1>2. S \subseteq Nat
  OBVIOUS
<1>3. PICK k \in S : \A j \in S : k <= j
  BY <1>2, LeastIndex
<1>4. k \in 1..m
  BY <1>1, <1>3
<1>5. k - 1 \in 0..m /\ k - 1 \notin S
  BY <1>3, <1>4
<1>6. SoundWriter(at[k-1])
  BY <1>5
<1>7. SoundWriter(Step(at[k-1], order[k]))
  BY <1>4, <1>6
<1> QED BY <1>1, <1>3, <1>4, <1>7

\* AckAll, one segment after the other.
AckOrder(load, ok) == [k \in DOMAIN load |-> <<"ack", load[k], ok>>]

LEMMA AckAllSteps ==
    ASSUME NEW w, NEW load, NEW m \in Nat, DOMAIN load = 1..m, NEW ok
    PROVE  Steps(w, AckOrder(load, ok), m, AckAll(w, load, ok))
<1> DEFINE order == AckOrder(load, ok)
           Body(g, s) == IF s = {} THEN w ELSE Ack(g[s \ {Max(s)}], load[Max(s)], ok)
           Fold(g) == g = [s \in SUBSET (1..m) |-> Body(g, s)]
           fold == CHOOSE g : Fold(g)
<1>1. AckAll(w, load, ok) = fold[1..m]
  BY DEF AckAll, FoldLeft, MapThenFoldSet
<1>2. \A x : \A k \in 1..m : Step(x, order[k]) = Ack(x, load[k], ok)
  BY DEF Step, AckOrder
<1> HIDE DEF order
<1>3. ASSUME NEW g
      PROVE  Fold(g) <=> Folds(w, order, g, m)
  <2> DEFINE step(s) == IF s = {} THEN w ELSE Step(g[s \ {Max(s)}], order[Max(s)])
  <2>1. ASSUME NEW s \in SUBSET (1..m) PROVE Body(g, s) = step(s)
    <3>1. s # {} => Max(s) \in 1..m
      BY MaxIndex
    <3> QED BY <3>1, <1>2
  <2> HIDE DEF Body, step
  <2>2. [s \in SUBSET (1..m) |-> Body(g, s)] = [s \in SUBSET (1..m) |-> step(s)]
    BY <2>1
  <2>3. Folds(w, order, g, m) <=> g = [s \in SUBSET (1..m) |-> step(s)]
    BY DEF Folds, step
  <2> QED BY <2>2, <2>3
<1> HIDE DEF Body
<1>4. Fold(fold)
  <2>1. PICK g : Folds(w, order, g, m)
    BY FoldExists
  <2>2. Fold(g)
    BY <1>3, <2>1
  <2> QED BY <2>2
<1> HIDE DEF Fold, fold
<1>5. Folds(w, order, fold, m)
  BY <1>3, <1>4
<1>6. Steps(w, order, m, AckAll(w, load, ok))
  BY <1>1, <1>5, FoldSteps
<1> QED BY <1>6 DEF order

IsLoad(load) == IsSeq(load) /\ \A k \in DOMAIN load : IsSegment(load[k])

LEMMA EmptyLoad == IsLoad(<<>>)
<1>1. IsSeq(<<>>)
  <2>1. <<>> = [k \in 1..0 |-> <<>>[k]] /\ 0 \in Nat
    OBVIOUS
  <2> QED BY <2>1 DEF IsSeq
<1>2. DOMAIN <<>> = {}
  OBVIOUS
<1> QED BY <1>1, <1>2 DEF IsLoad

LEMMA AckAllSound ==
    ASSUME NEW w, SoundWriter(w), NEW load, IsLoad(load), NEW ok
    PROVE  SoundWriter(AckAll(w, load, ok))
<1> DEFINE m == Len(load)
           order == AckOrder(load, ok)
<1>1. m \in Nat /\ DOMAIN load = 1..m
  BY SeqLength DEF IsLoad
<1> HIDE DEF m
<1>2. Steps(w, order, m, AckAll(w, load, ok))
  BY <1>1, AckAllSteps
<1>3. ASSUME NEW k \in 1..m, NEW x, SoundWriter(x) PROVE SoundWriter(Step(x, order[k]))
  <2>1. Step(x, order[k]) = Ack(x, load[k], ok)
    BY <1>1 DEF Step, AckOrder
  <2>2. load[k].of \in Streams
    BY <1>1 DEF IsLoad, IsSegment
  <2> QED BY <2>1, <2>2, <1>3, AckSound
<1> HIDE DEF order
<1> QED BY <1>1, <1>2, <1>3, WriterSteps

(***************************************************************************)
(* What w sent, and the end of its channel.                                  *)
(***************************************************************************)
PacketFields == {"session", "load", "taken", "open"}
IsPackets(sent) ==
    IsSeq(sent) /\ \A k \in DOMAIN sent : DOMAIN sent[k] = PacketFields /\ IsLoad(sent[k].load)

LostOrder(sent) == [k \in DOMAIN sent |-> <<"lost", sent[k]>>]

LEMMA CutWriterSteps ==
    ASSUME NEW w, NEW m \in Nat, DOMAIN packets = 1..m
    PROVE  Steps(w, LostOrder(packets), m, CutWriter(w))
<1> DEFINE order == LostOrder(packets)
           lost(x, p) == IF p.open THEN AckAll(x, p.load, FALSE) ELSE x
           Body(g, s) == IF s = {} THEN w ELSE lost(g[s \ {Max(s)}], packets[Max(s)])
           Fold(g) == g = [s \in SUBSET (1..m) |-> Body(g, s)]
           fold == CHOOSE g : Fold(g)
<1>1. CutWriter(w) = fold[1..m]
  BY DEF CutWriter, FoldLeft, MapThenFoldSet
<1>2. \A x : \A k \in 1..m : Step(x, order[k]) = lost(x, packets[k])
  BY DEF Step, LostOrder
<1> HIDE DEF order, lost
<1>3. ASSUME NEW g
      PROVE  Fold(g) <=> Folds(w, order, g, m)
  <2> DEFINE step(s) == IF s = {} THEN w ELSE Step(g[s \ {Max(s)}], order[Max(s)])
  <2>1. ASSUME NEW s \in SUBSET (1..m) PROVE Body(g, s) = step(s)
    <3>1. s # {} => Max(s) \in 1..m
      BY MaxIndex
    <3> QED BY <3>1, <1>2
  <2> HIDE DEF Body, step
  <2>2. [s \in SUBSET (1..m) |-> Body(g, s)] = [s \in SUBSET (1..m) |-> step(s)]
    BY <2>1
  <2>3. Folds(w, order, g, m) <=> g = [s \in SUBSET (1..m) |-> step(s)]
    BY DEF Folds, step
  <2> QED BY <2>2, <2>3
<1> HIDE DEF Body
<1>4. Fold(fold)
  <2>1. PICK g : Folds(w, order, g, m)
    BY FoldExists
  <2>2. Fold(g)
    BY <1>3, <2>1
  <2> QED BY <2>2
<1> HIDE DEF Fold, fold
<1>5. Folds(w, order, fold, m)
  BY <1>3, <1>4
<1>6. Steps(w, order, m, CutWriter(w))
  BY <1>1, <1>5, FoldSteps
<1> QED BY <1>6 DEF order

LEMMA CutWriterSound ==
    ASSUME NEW w, SoundWriter(w), IsPackets(packets)
    PROVE  SoundWriter(CutWriter(w))
<1> DEFINE m == Len(packets)
           order == LostOrder(packets)
<1>1. m \in Nat /\ DOMAIN packets = 1..m
  BY SeqLength DEF IsPackets
<1> HIDE DEF m
<1>2. Steps(w, order, m, CutWriter(w))
  BY <1>1, CutWriterSteps
<1>3. ASSUME NEW k \in 1..m, NEW x, SoundWriter(x) PROVE SoundWriter(Step(x, order[k]))
  <2>1. Step(x, order[k]) = IF packets[k].open THEN AckAll(x, packets[k].load, FALSE) ELSE x
    BY <1>1 DEF Step, LostOrder
  <2>2. IsLoad(packets[k].load)
    BY <1>1 DEF IsPackets
  <2>3. SoundWriter(AckAll(x, packets[k].load, FALSE))
    BY <2>2, <1>3, AckAllSound
  <2> QED BY <2>1, <2>3, <1>3
<1> HIDE DEF order
<1> QED BY <1>1, <1>2, <1>3, WriterSteps
(***************************************************************************)
(* A pull: the packets w can fill.                                           *)
(***************************************************************************)
Grown(F) ==
    UNION {{[writer   |-> Pulled(f.writer, s).writer,
             segments |-> Append(f.segments, Pulled(f.writer, s).segment)] :
                s \in Ready(f.writer)} : f \in F}
Filling(w, n, g) ==
    g = [k \in 0..n |-> IF k = 0 THEN {[writer |-> w, segments |-> <<>>]} ELSE Grown(g[k-1])]

LEMMA FillingExists ==
    ASSUME NEW w, NEW n \in Nat
    PROVE  \E g : Filling(w, n, g)
<1> DEFINE S == {k \in Nat : ~\E g : Filling(w, k, g)}
           first == {[writer |-> w, segments |-> <<>>]}
<1> HIDE DEF first
<1>0. \A k, g : Filling(w, k, g) <=> g = [j \in 0..k |-> IF j = 0 THEN first ELSE Grown(g[j-1])]
  BY DEF Filling, first
<1> SUFFICES ASSUME S # {} PROVE FALSE
  OBVIOUS
<1>1. PICK k \in S : \A j \in S : k <= j
  BY LeastIndex
<1>2. CASE k = 0
  <2> DEFINE g == [j \in 0..0 |-> first]
  <2>1. g = [j \in 0..0 |-> IF j = 0 THEN first ELSE Grown(g[j-1])]
    OBVIOUS
  <2> QED BY <1>0, <1>1, <1>2, <2>1
<1>3. CASE k # 0
  <2>1. k \in Nat /\ k - 1 \in Nat /\ k - 1 \notin S
    BY <1>1, <1>3
  <2>2. PICK g : Filling(w, k - 1, g)
    BY <2>1
  <2> DEFINE step(h, j) == IF j = 0 THEN first ELSE Grown(h[j-1])
             h == [j \in 0..k |-> IF j = k THEN Grown(g[k-1]) ELSE g[j]]
  <2>3. \A j \in 0..(k - 1) : g[j] = step(g, j)
    BY <2>2, <1>0
  <2>4. \A j \in 0..(k - 1) : h[j] = g[j]
    BY <2>1
  <2>5. ASSUME NEW j \in 0..k PROVE h[j] = step(h, j)
    <3>1. CASE j = k
      <4>1. k - 1 \in 0..(k - 1) /\ k \in 0..k
        BY <2>1
      <4>2. h[k] = Grown(g[k-1]) /\ h[k-1] = g[k-1]
        BY <4>1, <2>4
      <4> QED BY <4>2, <3>1, <1>3
    <3>2. CASE j # k
      <4>1. j \in 0..(k - 1) /\ (j # 0 => j - 1 \in 0..(k - 1))
        BY <2>1, <3>2
      <4>2. h[j] = g[j] /\ (j # 0 => h[j-1] = g[j-1])
        BY <4>1, <2>4
      <4> QED BY <4>1, <4>2, <2>3
    <3> QED BY <3>1, <3>2
  <2>6. h = [j \in 0..k |-> h[j]]
    OBVIOUS
  <2> HIDE DEF h
  <2>7. h = [j \in 0..k |-> step(h, j)]
    BY <2>5, <2>6, Zenon
  <2> QED BY <1>0, <1>1, <2>7
<1> QED BY <1>2, <1>3

LEMMA FillsSound ==
    ASSUME NEW w, SoundWriter(w), NEW f \in Fills(w)
    PROVE  SoundWriter(f.writer) /\ IsLoad(f.segments)
<1> DEFINE fill == CHOOSE g : Filling(w, MaxSegments, g)
           Good(F) == \A e \in F : SoundWriter(e.writer) /\ IsLoad(e.segments)
           S == {k \in 0..MaxSegments : ~Good(fill[k])}
<1>1. MaxSegments \in Nat
  BY HostDispatchAssumption
<1>2. Fills(w) = UNION {fill[n] : n \in 0..MaxSegments}
  BY DEF Fills, Filling, Grown
<1>3. Filling(w, MaxSegments, fill)
  BY <1>1, FillingExists
<1> HIDE DEF fill
<1>4. \A k \in 0..MaxSegments :
         fill[k] = IF k = 0 THEN {[writer |-> w, segments |-> <<>>]} ELSE Grown(fill[k-1])
  BY <1>3 DEF Filling
<1>6. Good({[writer |-> w, segments |-> <<>>]})
  BY EmptyLoad
<1>7. ASSUME NEW F, Good(F) PROVE Good(Grown(F))
  <2> SUFFICES ASSUME NEW e \in Grown(F)
               PROVE  SoundWriter(e.writer) /\ IsLoad(e.segments)
    OBVIOUS
  <2>1. PICK x \in F : \E s \in Ready(x.writer) :
           e = [writer   |-> Pulled(x.writer, s).writer,
                segments |-> Append(x.segments, Pulled(x.writer, s).segment)]
    BY DEF Grown
  <2>2. PICK s \in Ready(x.writer) :
           e = [writer   |-> Pulled(x.writer, s).writer,
                segments |-> Append(x.segments, Pulled(x.writer, s).segment)]
    BY <2>1
  <2>3. SoundWriter(x.writer) /\ IsSeq(x.segments) /\ \A k \in DOMAIN x.segments : IsSegment(x.segments[k])
    BY <1>7 DEF IsLoad
  <2> DEFINE p == Pulled(x.writer, s)
  <2>4. SoundWriter(p.writer) /\ IsSegment(p.segment)
    BY <2>3, PulledSound
  <2>5. e.writer = p.writer /\ e.segments = Append(x.segments, p.segment)
    BY <2>2
  <2> HIDE DEF p
  <2>6. /\ IsSeq(e.segments)
        /\ \A k \in DOMAIN x.segments : e.segments[k] = x.segments[k]
        /\ e.segments[Len(x.segments) + 1] = p.segment
        /\ \A k \in DOMAIN e.segments : k \in DOMAIN x.segments \/ k = Len(x.segments) + 1
    <3> DEFINE old == x.segments
               new == e.segments
               last == p.segment
    <3>1. IsSeq(old) /\ new = Append(old, last)
      BY <2>3, <2>5
    <3> HIDE DEF old, new, last
    <3>2. Appended(old, last, new)
      BY <3>1, SeqAppend
    <3> QED BY <3>2 DEF old, new, last, Appended
  <2> QED BY <2>3, <2>4, <2>5, <2>6 DEF IsLoad
<1> HIDE DEF Good
<1>8. S = {}
  <2> SUFFICES ASSUME S # {} PROVE FALSE
    OBVIOUS
  <2>1. S \subseteq Nat
    BY <1>1
  <2>2. PICK k \in S : \A j \in S : k <= j
    BY <2>1, LeastIndex
  <2>3. CASE k = 0
    BY <2>2, <2>3, <1>4, <1>6
  <2>4. CASE k # 0
    <3>1. k \in 0..MaxSegments /\ k - 1 \in 0..MaxSegments /\ k - 1 \notin S
      BY <2>2, <2>4, <1>1
    <3> QED BY <3>1, <2>2, <2>4, <1>4, <1>7
  <2> QED BY <2>3, <2>4
<1>9. PICK n \in 0..MaxSegments : f \in fill[n]
  BY <1>2
<1> QED BY <1>8, <1>9 DEF Good
-----------------------------------------------------------------------------
(***************************************************************************)
(* The reading host: a reader has an id as long as the heap has it, and the  *)
(* table leads from that id to the reader.                                   *)
(***************************************************************************)
InFields == {"of", "epoch", "id", "state", "next", "queue", "inHeap", "rts", "from", "told"}
ReaderFields == {"in", "inStreams", "seqNums"}
SubIds(r) == DOMAIN r.inStreams

IsReader(r) ==
    /\ DOMAIN r = ReaderFields /\ IsSeq(r.in)
    /\ \A i \in DOMAIN r.in : DOMAIN r.in[i] = InFields /\ r.in[i].inHeap \in BOOLEAN
    /\ \E n \in Nat : SubIds(r) = 0..n
ReaderAgrees(r) ==
    /\ \A i \in DOMAIN r.in, id \in SubIds(r) : r.in[i].id = id <=> r.inStreams[id] = i
    /\ \A i \in DOMAIN r.in : r.in[i].id \in SubIds(r) \cup {nill}
    /\ \A i \in DOMAIN r.in : r.in[i].inHeap <=> r.in[i].id # nill
    /\ \A id \in SubIds(r) : r.inStreams[id] \in DOMAIN r.in \cup {None}
SoundReader(r) == IsReader(r) /\ ReaderAgrees(r)

SameReader(r, d) ==
    /\ IsReader(d)
    /\ d.inStreams = r.inStreams /\ DOMAIN d.in = DOMAIN r.in
    /\ \A i \in DOMAIN r.in : d.in[i].id = r.in[i].id /\ d.in[i].inHeap = r.in[i].inHeap

LEMMA SameReaderIsSound ==
    ASSUME NEW r, NEW d, SoundReader(r), SameReader(r, d)
    PROVE  SoundReader(d)
BY DEF SoundReader, ReaderAgrees, SameReader, SubIds

LEMMA SameReaderTwice ==
    ASSUME NEW r, NEW a, NEW d, SameReader(r, a), SameReader(a, d)
    PROVE  SameReader(r, d)
BY DEF SameReader

\* A reader that changes, but not in its id or the heap.
LEMMA ReplaceSame ==
    ASSUME NEW r, IsReader(r), NEW i \in DOMAIN r.in,
           NEW o, DOMAIN o = InFields, o.id = r.in[i].id, o.inHeap = r.in[i].inHeap,
           NEW d, d = [r EXCEPT !.in[i] = o]
    PROVE  SameReader(r, d)
<1>1. /\ DOMAIN d = ReaderFields /\ d.inStreams = r.inStreams
      /\ d.in = [r.in EXCEPT ![i] = o]
  BY DEF IsReader, ReaderFields
<1>2. DOMAIN d.in = DOMAIN r.in /\ d.in = [k \in DOMAIN r.in |-> d.in[k]]
  BY <1>1
<1>3. IsSeq(d.in)
  BY <1>2, SeqMap DEF IsReader
<1>4. \A k \in DOMAIN r.in : d.in[k] = IF k = i THEN o ELSE r.in[k]
  BY <1>1
<1>5. IsReader(d)
  BY <1>1, <1>2, <1>3, <1>4 DEF IsReader, SubIds
<1> QED BY <1>1, <1>2, <1>4, <1>5 DEF SameReader

LEMMA ReadSame ==
    ASSUME NEW r, IsReader(r), NEW i \in DOMAIN r.in, NEW x
    PROVE  /\ SameReader(r, InRTS(r, i, x))
           /\ SameReader(r, Tell(r, i, x))
           /\ SameReader(r, [r EXCEPT !.in[i].state = x])
           /\ SameReader(r, [r EXCEPT !.in[i].from = x])
           /\ \A y : SameReader(r, [r EXCEPT !.in[i].next = x, !.in[i].queue = y])
<1> DEFINE o == r.in[i]
<1>0. DOMAIN o = InFields
  BY DEF IsReader
<1>1. SameReader(r, r)
  BY DEF SameReader
<1>2. SameReader(r, [r EXCEPT !.in[i].rts = x])
  <2> DEFINE p == [o EXCEPT !.rts = x]
  <2>1. DOMAIN p = InFields /\ p.id = o.id /\ p.inHeap = o.inHeap
    BY <1>0 DEF InFields
  <2>2. [r EXCEPT !.in[i].rts = x] = [r EXCEPT !.in[i] = p]
    OBVIOUS
  <2> HIDE DEF p
  <2> QED BY <2>1, <2>2, ReplaceSame
<1>3. SameReader(r, Tell(r, i, x))
  <2> DEFINE p == [o EXCEPT !.told = IF @ = "none" THEN x ELSE @]
  <2>1. DOMAIN p = InFields /\ p.id = o.id /\ p.inHeap = o.inHeap
    BY <1>0 DEF InFields
  <2>2. Tell(r, i, x) = [r EXCEPT !.in[i] = p]
    BY DEF Tell
  <2> HIDE DEF p
  <2> QED BY <2>1, <2>2, ReplaceSame
<1>4. SameReader(r, [r EXCEPT !.in[i].state = x])
  <2> DEFINE p == [o EXCEPT !.state = x]
  <2>1. DOMAIN p = InFields /\ p.id = o.id /\ p.inHeap = o.inHeap
    BY <1>0 DEF InFields
  <2>2. [r EXCEPT !.in[i].state = x] = [r EXCEPT !.in[i] = p]
    OBVIOUS
  <2> HIDE DEF p
  <2> QED BY <2>1, <2>2, ReplaceSame
<1>5. SameReader(r, [r EXCEPT !.in[i].from = x])
  <2> DEFINE p == [o EXCEPT !.from = x]
  <2>1. DOMAIN p = InFields /\ p.id = o.id /\ p.inHeap = o.inHeap
    BY <1>0 DEF InFields
  <2>2. [r EXCEPT !.in[i].from = x] = [r EXCEPT !.in[i] = p]
    OBVIOUS
  <2> HIDE DEF p
  <2> QED BY <2>1, <2>2, ReplaceSame
<1>6. ASSUME NEW y
      PROVE  SameReader(r, [r EXCEPT !.in[i].next = x, !.in[i].queue = y])
  <2> DEFINE p == [o EXCEPT !.next = x, !.queue = y]
  <2>1. DOMAIN p = InFields /\ p.id = o.id /\ p.inHeap = o.inHeap
    BY <1>0 DEF InFields
  <2>2. [r EXCEPT !.in[i].next = x, !.in[i].queue = y] = [r EXCEPT !.in[i] = p]
    BY DEF IsReader, ReaderFields
  <2> HIDE DEF p
  <2> QED BY <2>1, <2>2, ReplaceSame
<1> QED BY <1>1, <1>2, <1>3, <1>4, <1>5, <1>6 DEF InRTS

(***************************************************************************)
(* A reader that is done with its id.                                        *)
(***************************************************************************)
Completed(r, i, d) ==
    /\ IsReader(d) /\ DOMAIN d.in = DOMAIN r.in
    /\ \A k \in DOMAIN r.in \ {i} : d.in[k] = r.in[k]
    /\ d.in[i].id = nill /\ d.in[i].inHeap \in BOOLEAN /\ ~d.in[i].inHeap
    /\ d.inStreams = IF r.in[i].id = nill THEN r.inStreams
                     ELSE [r.inStreams EXCEPT ![r.in[i].id] = None]

LEMMA InCompleteFields ==
    ASSUME NEW r, IsReader(r), NEW i \in DOMAIN r.in, NEW d, d = InComplete(r, i)
    PROVE  Completed(r, i, d)
<1> DEFINE id == r.in[i].id
           o == InGone(r.in[i])
           gone == [r EXCEPT !.in[i] = o]
<1>1. DOMAIN o = InFields /\ o.id = nill /\ o.inHeap \in BOOLEAN /\ o.inHeap = FALSE
  BY DEF IsReader, InGone, InFields
<1>2. d = IF id = nill THEN gone
          ELSE [gone EXCEPT !.seqNums[id] = Tick(@), !.inStreams[id] = None]
  BY DEF InComplete
<1> HIDE DEF o
<1>3. /\ DOMAIN gone = ReaderFields /\ gone.in = [r.in EXCEPT ![i] = o]
      /\ gone.inStreams = r.inStreams
  BY DEF IsReader, ReaderFields
<1> HIDE DEF gone, id
<1>4. /\ DOMAIN d = ReaderFields /\ d.in = gone.in
      /\ d.inStreams = IF id = nill THEN r.inStreams ELSE [r.inStreams EXCEPT ![id] = None]
  BY <1>2, <1>3 DEF ReaderFields
<1>5. DOMAIN d.in = DOMAIN r.in /\ d.in = [k \in DOMAIN r.in |-> d.in[k]]
  BY <1>3, <1>4
<1>6. IsSeq(d.in)
  BY <1>5, SeqMap DEF IsReader
<1>7. \A k \in DOMAIN r.in : d.in[k] = IF k = i THEN o ELSE r.in[k]
  BY <1>3, <1>4
<1>8. SubIds(d) = SubIds(r)
  BY <1>4 DEF SubIds
<1>9. IsReader(d)
  BY <1>1, <1>4, <1>5, <1>6, <1>7, <1>8 DEF IsReader
<1> QED BY <1>1, <1>4, <1>5, <1>7, <1>9 DEF id, Completed

LEMMA InCompleteSound ==
    ASSUME NEW r, SoundReader(r), NEW i \in DOMAIN r.in, NEW d, d = InComplete(r, i)
    PROVE  SoundReader(d) /\ DOMAIN d.in = DOMAIN r.in
<1> DEFINE id == r.in[i].id
<1>0. IsReader(r) /\ ReaderAgrees(r)
  BY DEF SoundReader
<1>1. /\ IsReader(d) /\ DOMAIN d.in = DOMAIN r.in
      /\ \A k \in DOMAIN r.in \ {i} : d.in[k] = r.in[k]
      /\ d.in[i].id = nill /\ d.in[i].inHeap \in BOOLEAN /\ ~d.in[i].inHeap
      /\ d.inStreams = IF id = nill THEN r.inStreams ELSE [r.inStreams EXCEPT ![id] = None]
  <2>1. Completed(r, i, d)
    BY <1>0, InCompleteFields
  <2> QED BY <2>1 DEF Completed
<1>2. SubIds(d) = SubIds(r) /\ nill \notin SubIds(r) /\ None \notin DOMAIN r.in
  <2>1. None \notin DOMAIN r.in
    BY <1>0, SeqLength DEF IsReader, None
  <2> QED BY <2>1, <1>0, <1>1 DEF SubIds, IsReader
<1>3. \A e \in SubIds(r) : d.inStreams[e] = IF e = id THEN None ELSE r.inStreams[e]
  BY <1>1, <1>2 DEF SubIds
<1>4. ASSUME NEW k \in DOMAIN r.in, NEW e \in SubIds(r)
      PROVE  d.in[k].id = e <=> d.inStreams[e] = k
  <2>0. r.in[k].id = e <=> r.inStreams[e] = k
    BY <1>0 DEF ReaderAgrees
  <2>1. CASE k = i
    BY <2>0, <2>1, <1>1, <1>2, <1>3
  <2>2. CASE k # i
    <3>1. d.in[k] = r.in[k]
      BY <2>2, <1>1
    <3>2. CASE e = id
      <4>1. r.inStreams[e] = i
        BY <3>2, <1>0 DEF ReaderAgrees
      <4> QED BY <4>1, <3>1, <3>2, <2>0, <2>2, <1>2, <1>3
    <3>3. CASE e # id
      BY <3>1, <3>3, <2>0, <1>3
    <3> QED BY <3>2, <3>3
  <2> QED BY <2>1, <2>2
<1>5. \A k \in DOMAIN r.in : d.in[k].id \in SubIds(d) \cup {nill}
                             /\ (d.in[k].inHeap <=> d.in[k].id # nill)
  BY <1>0, <1>1, <1>2 DEF ReaderAgrees
<1>6. \A e \in SubIds(r) : d.inStreams[e] \in DOMAIN r.in \cup {None}
  BY <1>0, <1>3 DEF ReaderAgrees
<1> QED BY <1>1, <1>2, <1>4, <1>5, <1>6 DEF SoundReader, ReaderAgrees
(***************************************************************************)
(* What a reader hears may end it.                                           *)
(***************************************************************************)
MayEnd(r, i, d) == \E b : SameReader(r, b) /\ (d = b \/ d = InComplete(b, i))

LEMMA MayEndSound ==
    ASSUME NEW r, SoundReader(r), NEW i \in DOMAIN r.in, NEW d, MayEnd(r, i, d)
    PROVE  SoundReader(d) /\ DOMAIN d.in = DOMAIN r.in
<1>1. PICK b : SameReader(r, b) /\ (d = b \/ d = InComplete(b, i))
  BY DEF MayEnd
<1>2. SoundReader(b) /\ DOMAIN b.in = DOMAIN r.in
  BY <1>1, SameReaderIsSound DEF SameReader
<1> QED BY <1>1, <1>2, InCompleteSound

LEMMA MayEndAfter ==
    ASSUME NEW r, NEW a, SameReader(r, a), NEW i, NEW d, MayEnd(a, i, d)
    PROVE  MayEnd(r, i, d)
BY SameReaderTwice DEF MayEnd

LEMMA FireMayEnd ==
    ASSUME NEW r, IsReader(r), NEW i \in DOMAIN r.in
    PROVE  MayEnd(r, i, fireEvent(r, i))
<1> DEFINE b == Tell(r, i, "shutdown")
           d == fireEvent(r, i)
<1>1. SameReader(r, r)
  BY DEF SameReader
<1>2. SameReader(r, b)
  BY ReadSame
<1>3. d = r \/ d = InComplete(r, i) \/ d = InComplete(b, i)
  BY DEF fireEvent
<1> HIDE DEF b, d
<1>4. MayEnd(r, i, d)
  BY <1>1, <1>2, <1>3 DEF MayEnd
<1> QED BY <1>4 DEF d

LEMMA ResetMayEnd ==
    ASSUME NEW r, IsReader(r), NEW i \in DOMAIN r.in
    PROVE  MayEnd(r, i, InReset(r, i))
<1> DEFINE next == [connected |-> "reset", shutdown |-> "reset down"]
           state == IF r.in[i].state \in DOMAIN next THEN next[r.in[i].state]
                    ELSE r.in[i].state
           a == [r EXCEPT !.in[i].state = state]
           b == InRTS(a, i, TRUE)
           c == Tell(b, i, "reset")
<1>1. InReset(r, i) = fireEvent(c, i)
  BY DEF InReset
<1> HIDE DEF state
<1>2. SameReader(r, a)
  BY ReadSame
<1>3. IsReader(a) /\ i \in DOMAIN a.in
  BY <1>2 DEF SameReader
<1> HIDE DEF a
<1>4. SameReader(a, b)
  BY <1>3, ReadSame
<1>5. IsReader(b) /\ i \in DOMAIN b.in
  BY <1>3, <1>4 DEF SameReader
<1> HIDE DEF b
<1>6. SameReader(b, c)
  BY <1>5, ReadSame
<1>7. IsReader(c) /\ i \in DOMAIN c.in
  BY <1>5, <1>6 DEF SameReader
<1> HIDE DEF c
<1>8. MayEnd(c, i, fireEvent(c, i)) /\ SameReader(r, c)
  BY <1>2, <1>4, <1>6, <1>7, FireMayEnd, SameReaderTwice
<1> QED BY <1>1, <1>8, MayEndAfter

LEMMA DataMayEnd ==
    ASSUME NEW r, IsReader(r), NEW i \in DOMAIN r.in, NEW n
    PROVE  MayEnd(r, i, recvData(r, i, n))
<1> DEFINE o == r.in[i]
           have == o.queue \cup {n}
           next == IF n # o.next + 1 THEN o.next
                   ELSE Max({m \in have : (o.next + 1)..m \subseteq have})
           rest == {m \in have : m > next}
           a == [r EXCEPT !.in[i].next = next, !.in[i].queue = rest]
           end == [connected |-> "shutdown", reset |-> "reset down"]
           state == end[o.state]
           ended == [a EXCEPT !.in[i].state = state]
           b == IF n = Size[o.of] /\ o.state \in DOMAIN end THEN ended ELSE a
           c == IF b.in[i].state = "shutdown" THEN InRTS(b, i, FALSE) ELSE b
<1>1. recvData(r, i, n) = fireEvent(c, i)
  BY DEF recvData
<1> HIDE DEF rest, next, state
<1>2. SameReader(r, a)
  BY ReadSame
<1>3. IsReader(a) /\ i \in DOMAIN a.in
  BY <1>2 DEF SameReader
<1> HIDE DEF a
<1>s. \A x : IsReader(x) => SameReader(x, x)
  BY DEF SameReader
<1>4. SameReader(a, a) /\ SameReader(a, ended)
  BY <1>3, <1>s, ReadSame
<1>5. SameReader(a, b) /\ IsReader(b) /\ i \in DOMAIN b.in
  BY <1>3, <1>4 DEF SameReader
<1> HIDE DEF b
<1>6. SameReader(b, InRTS(b, i, FALSE)) /\ SameReader(b, b)
  BY <1>5, <1>s, ReadSame
<1>7. SameReader(b, c) /\ IsReader(c) /\ i \in DOMAIN c.in
  BY <1>5, <1>6 DEF SameReader
<1> HIDE DEF c
<1>8. MayEnd(c, i, fireEvent(c, i)) /\ SameReader(r, c)
  BY <1>2, <1>5, <1>7, FireMayEnd, SameReaderTwice
<1> QED BY <1>1, <1>8, MayEndAfter

(***************************************************************************)
(* Segments that arrive.                                                     *)
(***************************************************************************)
LEMMA ToReaderSound ==
    ASSUME NEW r, SoundReader(r), NEW segment, NEW d, d = ToReader(r, segment)
    PROVE  SoundReader(d) /\ DOMAIN d.in = DOMAIN r.in
<1> DEFINE i == Sub(r.inStreams, segment.id)
           from == r.in[i].from \cup {segment.of}
           h == [r EXCEPT !.in[i].from = from]
           down == [h EXCEPT !.in[i].state = "shutdown"]
<1>1. d = IF i = None THEN r
          ELSE IF segment.data = None THEN InReset(down, i)
          ELSE recvData(h, i, segment.data)
  BY DEF ToReader
<1>2. i = None \/ i \in DOMAIN r.in
  BY DEF Sub, SoundReader, ReaderAgrees, SubIds, None
<1>3. CASE i = None
  BY <1>1, <1>3
<1>4. CASE i # None
  <2>1. i \in DOMAIN r.in /\ IsReader(r)
    BY <1>2, <1>4 DEF SoundReader
  <2> HIDE DEF i, from
  <2>2. SameReader(r, h)
    BY <2>1, ReadSame
  <2>3. IsReader(h) /\ i \in DOMAIN h.in
    BY <2>1, <2>2 DEF SameReader
  <2> HIDE DEF h
  <2>4. SameReader(h, down)
    BY <2>3, ReadSame
  <2>5. IsReader(down) /\ i \in DOMAIN down.in
    BY <2>3, <2>4 DEF SameReader
  <2> HIDE DEF down
  <2>6. MayEnd(r, i, recvData(h, i, segment.data))
    BY <2>2, <2>3, DataMayEnd, MayEndAfter
  <2>7. MayEnd(r, i, InReset(down, i))
    BY <2>2, <2>4, <2>5, ResetMayEnd, MayEndAfter, SameReaderTwice
  <2>8. MayEnd(r, i, d)
    BY <1>1, <1>4, <2>6, <2>7
  <2> QED BY <2>1, <2>8, MayEndSound
<1> QED BY <1>3, <1>4

LEMMA ConnectionSound ==
    ASSUME NEW r, SoundReader(r), NEW segment, segment.id \in SubIds(r),
           r.inStreams[segment.id] = None, NEW epoch, NEW refused,
           NEW d, d = gotConnection(r, segment, epoch, refused)
    PROVE  SoundReader(d) /\ DOMAIN r.in \subseteq DOMAIN d.in
<1> DEFINE i == Len(r.in) + 1
           id == segment.id
           new == NewIn(segment.of, id, epoch)
           a == [r EXCEPT !.in = Append(@, new), !.inStreams[id] = i]
<1>0. IsReader(r) /\ ReaderAgrees(r)
  BY DEF SoundReader
<1>1. DOMAIN new = InFields /\ new.id = id /\ new.inHeap = TRUE
  BY DEF NewIn, InFields
<1>2. d = IF segment.of \in refused THEN InReset(a, i) ELSE a
  BY DEF gotConnection
<1> HIDE DEF new
<1>3. /\ DOMAIN a = ReaderFields /\ a.in = Append(r.in, new)
      /\ a.inStreams = [r.inStreams EXCEPT ![id] = i]
  BY <1>0 DEF IsReader, ReaderFields
<1>4. Len(r.in) \in Nat /\ DOMAIN r.in = 1..Len(r.in)
  BY <1>0, SeqLength DEF IsReader
<1> HIDE DEF a
<1>5. /\ IsSeq(a.in) /\ DOMAIN a.in = 1..i
      /\ \A k \in DOMAIN r.in : k \in DOMAIN a.in /\ a.in[k] = r.in[k]
      /\ a.in[i] = new
      /\ \A k \in DOMAIN a.in : k \in DOMAIN r.in \/ k = i
  <2>1. Appended(r.in, new, a.in)
    BY <1>0, <1>3, SeqAppend DEF IsReader
  <2> QED BY <2>1 DEF Appended
<1>6. i \in DOMAIN a.in /\ i \notin DOMAIN r.in /\ i # None /\ None \notin DOMAIN r.in
  BY <1>4, <1>5 DEF None
<1> HIDE DEF i, id
<1>7. id \in SubIds(r) /\ r.inStreams[id] = None /\ id # nill
  BY <1>0 DEF id, IsReader
<1>8. SubIds(a) = SubIds(r)
  BY <1>3 DEF SubIds
<1>9. \A e \in SubIds(r) : a.inStreams[e] = IF e = id THEN i ELSE r.inStreams[e]
  BY <1>3 DEF SubIds
<1>10. IsReader(a)
  <2>1. ASSUME NEW k \in DOMAIN a.in
        PROVE  DOMAIN a.in[k] = InFields /\ a.in[k].inHeap \in BOOLEAN
    <3>1. CASE k = i
      BY <3>1, <1>1, <1>5
    <3>2. CASE k # i
      BY <3>2, <1>0, <1>5 DEF IsReader
    <3> QED BY <3>1, <3>2
  <2> QED BY <2>1, <1>0, <1>3, <1>5, <1>8 DEF IsReader
<1>11. ASSUME NEW k \in DOMAIN a.in, NEW e \in SubIds(r)
       PROVE  a.in[k].id = e <=> a.inStreams[e] = k
  <2>1. CASE k = i
    <3>1. a.in[k].id = id
      BY <2>1, <1>1, <1>5
    <3>2. r.inStreams[e] # i
      BY <1>0, <1>6 DEF ReaderAgrees
    <3> QED BY <3>1, <3>2, <2>1, <1>9
  <2>2. CASE k # i
    <3>1. k \in DOMAIN r.in /\ a.in[k] = r.in[k] /\ k # None
      BY <2>2, <1>5, <1>6
    <3>2. r.in[k].id = e <=> r.inStreams[e] = k
      BY <3>1, <1>0 DEF ReaderAgrees
    <3> QED BY <3>1, <3>2, <2>2, <1>7, <1>9
  <2> QED BY <2>1, <2>2
<1>12. ASSUME NEW k \in DOMAIN a.in
       PROVE  a.in[k].id \in SubIds(a) \cup {nill} /\ (a.in[k].inHeap <=> a.in[k].id # nill)
  <2>1. CASE k = i
    BY <2>1, <1>1, <1>5, <1>7, <1>8
  <2>2. CASE k # i
    BY <2>2, <1>0, <1>5, <1>8 DEF ReaderAgrees
  <2> QED BY <2>1, <2>2
<1>13. \A e \in SubIds(r) : a.inStreams[e] \in DOMAIN a.in \cup {None}
  BY <1>0, <1>5, <1>6, <1>9 DEF ReaderAgrees
<1>14. SoundReader(a) /\ DOMAIN r.in \subseteq DOMAIN a.in
  BY <1>5, <1>8, <1>10, <1>11, <1>12, <1>13 DEF SoundReader, ReaderAgrees
<1>15. SoundReader(InReset(a, i)) /\ DOMAIN InReset(a, i).in = DOMAIN a.in
  BY <1>6, <1>10, <1>14, ResetMayEnd, MayEndSound
<1> QED BY <1>2, <1>14, <1>15
(***************************************************************************)
(* The table of readers grows to a power of two: there is one above id.      *)
(***************************************************************************)
Powers(n, g) == g = [k \in 0..n |-> IF k = 0 THEN 1 ELSE 2 * g[k-1]]

LEMMA PowersExist == ASSUME NEW n \in Nat PROVE \E g : Powers(n, g)
<1> DEFINE S == {k \in Nat : ~\E g : Powers(k, g)}
<1> SUFFICES ASSUME S # {} PROVE FALSE
  OBVIOUS
<1>1. PICK k \in S : \A j \in S : k <= j
  BY LeastIndex
<1>2. CASE k = 0
  <2> DEFINE g == [j \in 0..0 |-> 1]
  <2>1. g = [j \in 0..0 |-> IF j = 0 THEN 1 ELSE 2 * g[j-1]]
    OBVIOUS
  <2> QED BY <1>1, <1>2, <2>1 DEF Powers
<1>3. CASE k # 0
  <2>1. k \in Nat /\ k - 1 \in Nat /\ k - 1 \notin S
    BY <1>1, <1>3
  <2>2. PICK g : Powers(k - 1, g)
    BY <2>1
  <2> DEFINE step(h, j) == IF j = 0 THEN 1 ELSE 2 * h[j-1]
             h == [j \in 0..k |-> IF j = k THEN 2 * g[k-1] ELSE g[j]]
  <2>3. \A j \in 0..(k - 1) : g[j] = step(g, j)
    BY <2>2 DEF Powers
  <2>4. \A j \in 0..(k - 1) : h[j] = g[j]
    BY <2>1
  <2>5. ASSUME NEW j \in 0..k PROVE h[j] = step(h, j)
    <3>1. CASE j = k
      <4>1. k - 1 \in 0..(k - 1) /\ k \in 0..k
        BY <2>1
      <4>2. h[k] = 2 * g[k-1] /\ h[k-1] = g[k-1]
        BY <4>1, <2>4
      <4> QED BY <4>2, <3>1, <1>3
    <3>2. CASE j # k
      <4>1. j \in 0..(k - 1) /\ (j # 0 => j - 1 \in 0..(k - 1))
        BY <2>1, <3>2
      <4>2. h[j] = g[j] /\ (j # 0 => h[j-1] = g[j-1])
        BY <4>1, <2>4
      <4> QED BY <4>1, <4>2, <2>3
    <3> QED BY <3>1, <3>2
  <2>6. h = [j \in 0..k |-> h[j]]
    OBVIOUS
  <2> HIDE DEF h
  <2>7. h = [j \in 0..k |-> step(h, j)]
    BY <2>5, <2>6, Zenon
  <2>8. Powers(k, h)
    BY <2>7 DEF Powers
  <2> QED BY <1>1, <2>8
<1> QED BY <1>2, <1>3

LEMMA PowerAbove ==
    ASSUME NEW n \in Nat, NEW g, Powers(n, g)
    PROVE  \E k \in 0..n : g[k] \in (n + 1)..(2 * n + 1)
<1> DEFINE Above(j) == \E k \in 0..j : g[k] \in (j + 1)..(2 * j + 1)
           S == {j \in 0..n : ~Above(j)}
<1>1. \A k \in 0..n : g[k] = IF k = 0 THEN 1 ELSE 2 * g[k-1]
  BY DEF Powers
<1> SUFFICES ASSUME S # {} PROVE FALSE
  <2>1. n \in 0..n
    OBVIOUS
  <2> QED BY <2>1
<1>2. S \subseteq Nat
  OBVIOUS
<1>3. PICK j \in S : \A i \in S : j <= i
  BY <1>2, LeastIndex
<1>4. j \in 0..n /\ ~Above(j)
  BY <1>3
<1>5. CASE j = 0
  <2>1. 0 \in 0..n /\ 0 \in 0..0
    OBVIOUS
  <2>2. g[0] = 1
    BY <1>1, <2>1
  <2>3. Above(0)
    BY <2>1, <2>2
  <2> QED BY <2>3, <1>4, <1>5
<1>6. CASE j # 0
  <2>1. j - 1 \in 0..n /\ j - 1 \notin S /\ j \in Nat
    BY <1>3, <1>4, <1>6
  <2>2. Above(j - 1)
    BY <2>1
  <2>3. PICK k \in 0..(j - 1) : g[k] \in ((j - 1) + 1)..(2 * (j - 1) + 1)
    BY <2>2
  <2>4. g[k] \in Nat /\ j <= g[k] /\ g[k] <= 2 * j - 1
    BY <2>1, <2>3
  <2>5. CASE g[k] # j
    <3>1. k \in 0..j /\ g[k] \in (j + 1)..(2 * j + 1)
      BY <2>1, <2>4, <2>5
    <3> QED BY <3>1, <1>4
  <2>6. CASE g[k] = j
    <3>1. k + 1 \in 0..n /\ k + 1 \in 0..j /\ k + 1 # 0 /\ (k + 1) - 1 = k
      BY <1>4, <2>1
    <3>2. g[k + 1] = 2 * g[k]
      BY <3>1, <1>1
    <3>3. g[k + 1] \in (j + 1)..(2 * j + 1)
      BY <3>2, <2>1, <2>6, <1>6
    <3> QED BY <3>1, <3>3, <1>4
  <2> QED BY <2>5, <2>6
<1> QED BY <1>5, <1>6

LEMMA ExpandReaderSound ==
    ASSUME NEW r, SoundReader(r), NEW id \in Nat, NEW d, d = expandSubReader(r, id)
    PROVE  SoundReader(d) /\ d.in = r.in /\ id \in SubIds(d)
<1>0. IsReader(r) /\ ReaderAgrees(r)
  BY DEF SoundReader
<1>1. CASE id \in SubIds(r)
  BY <1>1 DEF expandSubReader, SubIds
<1>2. CASE id \notin SubIds(r)
  <2> DEFINE power == CHOOSE g : Powers(id, g)
             size == CHOOSE n \in (id + 1)..(2 * id + 1) : \E k \in 0..id : n = power[k]
  <2>1. d = [r EXCEPT !.inStreams = [i \in 0..(size - 1) |-> Sub(@, i)],
                      !.seqNums = [i \in 0..(size - 1) |-> Sub(@, i)]]
    BY <1>2 DEF expandSubReader, Powers, SubIds
  <2>2. \E k \in 0..id : power[k] \in (id + 1)..(2 * id + 1)
    BY PowersExist, PowerAbove
  <2> HIDE DEF power
  <2>3. size \in (id + 1)..(2 * id + 1)
    <3>1. \E n \in (id + 1)..(2 * id + 1) : \E k \in 0..id : n = power[k]
      BY <2>2
    <3> QED BY <3>1
  <2> HIDE DEF size
  <2>4. PICK n \in Nat : SubIds(r) = 0..n
    BY <1>0 DEF IsReader
  <2>5. size - 1 \in Nat /\ id \in 0..(size - 1) /\ SubIds(r) \subseteq 0..(size - 1)
    BY <1>2, <2>3, <2>4
  <2>6. /\ DOMAIN d = ReaderFields /\ d.in = r.in
        /\ d.inStreams = [i \in 0..(size - 1) |-> Sub(r.inStreams, i)]
    BY <2>1, <1>0 DEF IsReader, ReaderFields
  <2>7. SubIds(d) = 0..(size - 1)
    BY <2>6 DEF SubIds
  <2>8. \A e \in SubIds(d) :
           d.inStreams[e] = IF e \in SubIds(r) THEN r.inStreams[e] ELSE None
    BY <2>6, <2>7 DEF Sub, SubIds, None
  <2>9. IsReader(d)
    BY <2>5, <2>6, <2>7, <1>0 DEF IsReader
  <2>10. ASSUME NEW k \in DOMAIN d.in, NEW e \in SubIds(d)
         PROVE  d.in[k].id = e <=> d.inStreams[e] = k
    <3>1. CASE e \in SubIds(r)
      BY <3>1, <2>6, <2>8, <1>0 DEF ReaderAgrees
    <3>2. CASE e \notin SubIds(r)
      <4>1. k # None
        BY <2>9, SeqLength DEF IsReader, None
      <4>2. e # nill
        BY <2>5, <2>7
      <4> QED BY <4>1, <4>2, <3>2, <2>6, <2>8, <1>0 DEF ReaderAgrees
    <3> QED BY <3>1, <3>2
  <2>11. ReaderAgrees(d)
    BY <2>5, <2>6, <2>7, <2>8, <2>10, <1>0 DEF ReaderAgrees
  <2> QED BY <2>5, <2>6, <2>7, <2>9, <2>11 DEF SoundReader
<1> QED BY <1>1, <1>2

LEMMA SegmentSound ==
    ASSUME NEW r, SoundReader(r), NEW segment, IsSegment(segment), NEW epoch, NEW refused,
           NEW d, d = recvSegment(r, segment, epoch, refused)
    PROVE  SoundReader(d) /\ DOMAIN r.in \subseteq DOMAIN d.in
<1> DEFINE e == expandSubReader(r, segment.id)
           f == IF e.inStreams[segment.id] # None THEN e
                ELSE gotConnection(e, segment, epoch, refused)
<1>1. d = IF ~segment.create THEN ToReader(r, segment)
          ELSE IF segment.seq # Sub(r.seqNums, segment.id) THEN r
          ELSE ToReader(f, segment)
  BY DEF recvSegment
<1>2. SoundReader(e) /\ e.in = r.in /\ segment.id \in SubIds(e)
  BY ExpandReaderSound DEF IsSegment
<1> HIDE DEF e
<1>3. SoundReader(f) /\ DOMAIN r.in \subseteq DOMAIN f.in
  BY <1>2, ConnectionSound
<1> HIDE DEF f
<1>4. SoundReader(ToReader(r, segment)) /\ DOMAIN ToReader(r, segment).in = DOMAIN r.in
  BY ToReaderSound
<1>5. SoundReader(ToReader(f, segment)) /\ DOMAIN ToReader(f, segment).in = DOMAIN f.in
  BY <1>3, ToReaderSound
<1> QED BY <1>1, <1>3, <1>4, <1>5
\* A reading host that is sound after each step is sound after all, and keeps
\* the readers it has.
ReaderStep(r, d) == SoundReader(d) /\ DOMAIN r.in \subseteq DOMAIN d.in

LEMMA ReaderSteps ==
    ASSUME NEW r, SoundReader(r), NEW order, NEW m \in Nat, NEW d, Steps(r, order, m, d),
           \A k \in 1..m : \A x : ReaderStep(r, x) => ReaderStep(r, Step(x, order[k]))
    PROVE  ReaderStep(r, d)
<1>1. PICK at : /\ at[0] = r /\ at[m] = d
                /\ \A k \in 1..m : at[k] = Step(at[k-1], order[k])
  BY DEF Steps
<1>0. ReaderStep(r, r)
  BY DEF ReaderStep
<1> DEFINE S == {k \in 0..m : ~ReaderStep(r, at[k])}
<1> SUFFICES ASSUME S # {} PROVE FALSE
  <2>1. m \in 0..m
    OBVIOUS
  <2> QED BY <2>1, <1>1
<1>2. S \subseteq Nat
  OBVIOUS
<1>3. PICK k \in S : \A j \in S : k <= j
  BY <1>2, LeastIndex
<1>4. k \in 1..m
  BY <1>0, <1>1, <1>3
<1>5. k - 1 \in 0..m /\ k - 1 \notin S
  BY <1>3, <1>4
<1>6. ReaderStep(r, at[k-1])
  BY <1>5
<1>7. ReaderStep(r, Step(at[k-1], order[k]))
  BY <1>4, <1>6
<1> QED BY <1>1, <1>3, <1>4, <1>7

RecvOrder(load, epoch, refused) ==
    [k \in DOMAIN load |-> <<"recv", load[k], epoch, refused>>]

LEMMA RecvAllSteps ==
    ASSUME NEW r, NEW load, NEW m \in Nat, DOMAIN load = 1..m, NEW epoch, NEW refused
    PROVE  Steps(r, RecvOrder(load, epoch, refused), m, RecvAll(r, load, epoch, refused))
<1> DEFINE order == RecvOrder(load, epoch, refused)
           next(x, e) == recvSegment(x, e, epoch, refused)
           Body(g, s) == IF s = {} THEN r ELSE next(g[s \ {Max(s)}], load[Max(s)])
           Fold(g) == g = [s \in SUBSET (1..m) |-> Body(g, s)]
           fold == CHOOSE g : Fold(g)
<1>1. RecvAll(r, load, epoch, refused) = fold[1..m]
  BY DEF RecvAll, FoldLeft, MapThenFoldSet
<1>2. \A x : \A k \in 1..m : Step(x, order[k]) = next(x, load[k])
  BY DEF Step, RecvOrder
<1> HIDE DEF order, next
<1>3. ASSUME NEW g
      PROVE  Fold(g) <=> Folds(r, order, g, m)
  <2> DEFINE step(s) == IF s = {} THEN r ELSE Step(g[s \ {Max(s)}], order[Max(s)])
  <2>1. ASSUME NEW s \in SUBSET (1..m) PROVE Body(g, s) = step(s)
    <3>1. s # {} => Max(s) \in 1..m
      BY MaxIndex
    <3> QED BY <3>1, <1>2
  <2> HIDE DEF Body, step
  <2>2. [s \in SUBSET (1..m) |-> Body(g, s)] = [s \in SUBSET (1..m) |-> step(s)]
    BY <2>1
  <2>3. Folds(r, order, g, m) <=> g = [s \in SUBSET (1..m) |-> step(s)]
    BY DEF Folds, step
  <2> QED BY <2>2, <2>3
<1> HIDE DEF Body
<1>4. Fold(fold)
  <2>1. PICK g : Folds(r, order, g, m)
    BY FoldExists
  <2>2. Fold(g)
    BY <1>3, <2>1
  <2> QED BY <2>2
<1> HIDE DEF Fold, fold
<1>5. Folds(r, order, fold, m)
  BY <1>3, <1>4
<1>6. Steps(r, order, m, RecvAll(r, load, epoch, refused))
  BY <1>1, <1>5, FoldSteps
<1> QED BY <1>6 DEF order

LEMMA RecvAllSound ==
    ASSUME NEW r, SoundReader(r), NEW load, IsLoad(load), NEW epoch, NEW refused
    PROVE  ReaderStep(r, RecvAll(r, load, epoch, refused))
<1> DEFINE m == Len(load)
           order == RecvOrder(load, epoch, refused)
<1>1. m \in Nat /\ DOMAIN load = 1..m
  BY SeqLength DEF IsLoad
<1> HIDE DEF m
<1>2. Steps(r, order, m, RecvAll(r, load, epoch, refused))
  BY <1>1, RecvAllSteps
<1>3. ASSUME NEW k \in 1..m, NEW x, ReaderStep(r, x) PROVE ReaderStep(r, Step(x, order[k]))
  <2>1. Step(x, order[k]) = recvSegment(x, load[k], epoch, refused)
    BY <1>1 DEF Step, RecvOrder
  <2>2. IsSegment(load[k]) /\ SoundReader(x) /\ DOMAIN r.in \subseteq DOMAIN x.in
    BY <1>1, <1>3 DEF IsLoad, ReaderStep
  <2> DEFINE d == recvSegment(x, load[k], epoch, refused)
  <2>3. SoundReader(d) /\ DOMAIN x.in \subseteq DOMAIN d.in
    BY <2>2, SegmentSound
  <2> QED BY <2>1, <2>2, <2>3 DEF ReaderStep
<1> HIDE DEF order
<1> QED BY <1>1, <1>2, <1>3, ReaderSteps

(***************************************************************************)
(* What r sent, and the end of its channel.                                  *)
(***************************************************************************)
IsReplies(sent, in) ==
    IsSeq(sent) /\ \A k \in DOMAIN sent :
        /\ DOMAIN sent[k] = PacketFields
        /\ sent[k].open => sent[k].load[1].reader \in DOMAIN in

LEMMA AckReplySound ==
    ASSUME NEW r, SoundReader(r), NEW reply, reply.reader \in DOMAIN r.in, NEW ok
    PROVE  ReaderStep(r, AckReply(r, reply, ok))
<1>1. SoundReader(InComplete(r, reply.reader)) /\ DOMAIN InComplete(r, reply.reader).in = DOMAIN r.in
  BY InCompleteSound
<1>2. SameReader(r, InRTS(r, reply.reader, TRUE))
  BY ReadSame DEF SoundReader
<1>3. SoundReader(InRTS(r, reply.reader, TRUE)) /\ DOMAIN InRTS(r, reply.reader, TRUE).in = DOMAIN r.in
  BY <1>2, SameReaderIsSound DEF SameReader
<1> QED BY <1>1, <1>3 DEF AckReply, ReaderStep

ReplyOrder(sent) == [k \in DOMAIN sent |-> <<"reply", sent[k]>>]

LEMMA CutReaderSteps ==
    ASSUME NEW r, NEW m \in Nat, DOMAIN replies = 1..m
    PROVE  Steps(r, ReplyOrder(replies), m, CutReader(r))
<1> DEFINE order == ReplyOrder(replies)
           next(x, e) == IF e.open THEN AckReply(x, e.load[1], FALSE) ELSE x
           Body(g, s) == IF s = {} THEN r ELSE next(g[s \ {Max(s)}], replies[Max(s)])
           Fold(g) == g = [s \in SUBSET (1..m) |-> Body(g, s)]
           fold == CHOOSE g : Fold(g)
<1>1. CutReader(r) = fold[1..m]
  BY DEF CutReader, FoldLeft, MapThenFoldSet
<1>2. \A x : \A k \in 1..m : Step(x, order[k]) = next(x, replies[k])
  BY DEF Step, ReplyOrder
<1> HIDE DEF order, next
<1>3. ASSUME NEW g
      PROVE  Fold(g) <=> Folds(r, order, g, m)
  <2> DEFINE step(s) == IF s = {} THEN r ELSE Step(g[s \ {Max(s)}], order[Max(s)])
  <2>1. ASSUME NEW s \in SUBSET (1..m) PROVE Body(g, s) = step(s)
    <3>1. s # {} => Max(s) \in 1..m
      BY MaxIndex
    <3> QED BY <3>1, <1>2
  <2> HIDE DEF Body, step
  <2>2. [s \in SUBSET (1..m) |-> Body(g, s)] = [s \in SUBSET (1..m) |-> step(s)]
    BY <2>1
  <2>3. Folds(r, order, g, m) <=> g = [s \in SUBSET (1..m) |-> step(s)]
    BY DEF Folds, step
  <2> QED BY <2>2, <2>3
<1> HIDE DEF Body
<1>4. Fold(fold)
  <2>1. PICK g : Folds(r, order, g, m)
    BY FoldExists
  <2>2. Fold(g)
    BY <1>3, <2>1
  <2> QED BY <2>2
<1> HIDE DEF Fold, fold
<1>5. Folds(r, order, fold, m)
  BY <1>3, <1>4
<1>6. Steps(r, order, m, CutReader(r))
  BY <1>1, <1>5, FoldSteps
<1> QED BY <1>6 DEF order

LEMMA CutReaderSound ==
    ASSUME NEW r, SoundReader(r), IsReplies(replies, r.in)
    PROVE  ReaderStep(r, CutReader(r))
<1> DEFINE m == Len(replies)
           order == ReplyOrder(replies)
<1>1. m \in Nat /\ DOMAIN replies = 1..m
  BY SeqLength DEF IsReplies
<1> HIDE DEF m
<1>2. Steps(r, order, m, CutReader(r))
  BY <1>1, CutReaderSteps
<1>3. ASSUME NEW k \in 1..m, NEW x, ReaderStep(r, x) PROVE ReaderStep(r, Step(x, order[k]))
  <2>1. Step(x, order[k]) = IF replies[k].open THEN AckReply(x, replies[k].load[1], FALSE) ELSE x
    BY <1>1 DEF Step, ReplyOrder
  <2>2. SoundReader(x) /\ DOMAIN r.in \subseteq DOMAIN x.in
    BY <1>3 DEF ReaderStep
  <2>3. CASE replies[k].open
    <3>1. replies[k].load[1].reader \in DOMAIN x.in
      BY <1>1, <2>2, <2>3 DEF IsReplies
    <3>2. ReaderStep(x, AckReply(x, replies[k].load[1], FALSE))
      BY <3>1, <2>2, AckReplySound
    <3> QED BY <3>2, <2>1, <2>2, <2>3 DEF ReaderStep
  <2>4. CASE ~replies[k].open
    BY <2>1, <2>4, <1>3
  <2> QED BY <2>3, <2>4
<1> HIDE DEF order
<1> QED BY <1>1, <1>2, <1>3, ReaderSteps

(***************************************************************************)
(* A new host, and one that wipes its state: no reader has an id.            *)
(***************************************************************************)
LEMMA NewReaderSound ==
    ASSUME NEW in, IsSeq(in),
           \A i \in DOMAIN in : DOMAIN in[i] = InFields /\ in[i].id = nill
                                /\ in[i].inHeap \in BOOLEAN /\ in[i].inHeap = FALSE
    PROVE  SoundReader(NewReader(in))
<1> DEFINE r == NewReader(in)
<1>1. DOMAIN r = ReaderFields /\ r.in = in /\ r.inStreams = [i \in {0} |-> None]
  BY DEF NewReader, ReaderFields
<1> HIDE DEF r
<1>2. SubIds(r) = {0} /\ SubIds(r) = 0..0 /\ 0 \in Nat /\ r.inStreams[0] = None
  BY <1>1 DEF SubIds
<1>3. None \notin DOMAIN in
  BY SeqLength DEF None
<1>4. IsReader(r)
  BY <1>1, <1>2 DEF IsReader
<1>5. ReaderAgrees(r)
  BY <1>1, <1>2, <1>3 DEF ReaderAgrees
<1> QED BY <1>4, <1>5 DEF SoundReader, r

LEMMA WipeInSound ==
    ASSUME NEW r, SoundReader(r)
    PROVE  ReaderStep(r, WipeIn(r))
<1> DEFINE gone(i) == [r EXCEPT !.in[i] = InGone(@)]
           in == [i \in DOMAIN r.in |-> IF r.in[i].inHeap THEN InReset(gone(i), i).in[i]
                                        ELSE r.in[i]]
<1>0. IsReader(r) /\ ReaderAgrees(r)
  BY DEF SoundReader
<1>1. DOMAIN in = DOMAIN r.in /\ in = [i \in DOMAIN r.in |-> in[i]]
  OBVIOUS
<1>2. IsSeq(in)
  BY <1>0, <1>1, SeqMap DEF IsReader
<1>3. ASSUME NEW i \in DOMAIN r.in
      PROVE  DOMAIN in[i] = InFields /\ in[i].id = nill
             /\ in[i].inHeap \in BOOLEAN /\ in[i].inHeap = FALSE
  <2>1. CASE ~r.in[i].inHeap
    BY <2>1, <1>0 DEF IsReader, ReaderAgrees
  <2>2. CASE r.in[i].inHeap
    <3> DEFINE a == gone(i)
               d == InReset(a, i)
    <3>1. in[i] = d.in[i]
      BY <2>2
    <3> DEFINE o == InGone(r.in[i])
    <3>2. DOMAIN o = InFields /\ o.id = nill /\ o.inHeap \in BOOLEAN /\ o.inHeap = FALSE
      BY <1>0 DEF IsReader, InGone, InFields
    <3>3. /\ DOMAIN a = ReaderFields /\ a.in = [r.in EXCEPT ![i] = o]
          /\ a.inStreams = r.inStreams
      BY <1>0 DEF IsReader, ReaderFields
    <3> HIDE DEF o, a
    <3>4. DOMAIN a.in = DOMAIN r.in /\ a.in = [k \in DOMAIN r.in |-> a.in[k]]
          /\ \A k \in DOMAIN r.in : a.in[k] = IF k = i THEN o ELSE r.in[k]
      BY <3>3
    <3>5. IsSeq(a.in)
      BY <1>0, <3>4, SeqMap DEF IsReader
    <3>6. IsReader(a) /\ i \in DOMAIN a.in
      BY <1>0, <3>2, <3>3, <3>4, <3>5 DEF IsReader, SubIds
    <3>7. PICK b : SameReader(a, b) /\ (d = b \/ d = InComplete(b, i))
      BY <3>6, ResetMayEnd DEF MayEnd
    <3> HIDE DEF d, in
    <3>8. IsReader(b) /\ i \in DOMAIN b.in /\ b.in[i].id = nill /\ b.in[i].inHeap = FALSE
      BY <3>2, <3>4, <3>6, <3>7 DEF SameReader
    <3>9. IsReader(d) /\ i \in DOMAIN d.in /\ d.in[i].id = nill /\ ~d.in[i].inHeap
      <4>1. CASE d = b
        BY <4>1, <3>8
      <4>2. CASE d = InComplete(b, i)
        <5>1. Completed(b, i, d)
          BY <4>2, <3>8, InCompleteFields
        <5> QED BY <5>1, <3>8 DEF Completed
      <4> QED BY <4>1, <4>2, <3>7
    <3> QED BY <3>1, <3>9 DEF IsReader
  <2> QED BY <2>1, <2>2
<1>4. WipeIn(r) = NewReader(in)
  BY DEF WipeIn
<1> HIDE DEF in
<1>5. SoundReader(NewReader(in)) /\ NewReader(in).in = in
  BY <1>1, <1>2, <1>3, NewReaderSound DEF NewReader
<1> QED BY <1>1, <1>4, <1>5 DEF ReaderStep
(***************************************************************************)
(* Packets that are sent, taken, and whose fate is told.                     *)
(***************************************************************************)
LEMMA ForgetFields ==
    ASSUME NEW sent, IsSeq(sent), \A k \in DOMAIN sent : DOMAIN sent[k] = PacketFields,
           NEW d, d = Forget(sent)
    PROVE  /\ IsSeq(d) /\ DOMAIN d = DOMAIN sent
           /\ \A k \in DOMAIN d : /\ DOMAIN d[k] = PacketFields
                                  /\ d[k].load = sent[k].load \/ d[k].load = <<>>
                                  /\ d[k].open = sent[k].open
                                  /\ d[k].open => d[k].load = sent[k].load
<1>1. d = [k \in DOMAIN sent |->
             IF sent[k].taken /\ ~sent[k].open THEN [sent[k] EXCEPT !.load = <<>>] ELSE sent[k]]
  BY DEF Forget
<1>2. DOMAIN d = DOMAIN sent /\ d = [k \in DOMAIN sent |-> d[k]]
  BY <1>1
<1>3. IsSeq(d)
  BY <1>2, SeqMap
<1>4. \A k \in DOMAIN d : /\ DOMAIN d[k] = PacketFields
                          /\ d[k].load = sent[k].load \/ d[k].load = <<>>
                          /\ d[k].open = sent[k].open
                          /\ d[k].open => d[k].load = sent[k].load
  BY <1>1 DEF PacketFields
<1> QED BY <1>2, <1>3, <1>4

LEMMA TakeFields ==
    ASSUME NEW sent, IsSeq(sent), \A k \in DOMAIN sent : DOMAIN sent[k] = PacketFields,
           NEW n \in DOMAIN sent, NEW d, d = TakePacket(sent, n)
    PROVE  /\ IsSeq(d) /\ DOMAIN d = DOMAIN sent
           /\ \A k \in DOMAIN d : /\ DOMAIN d[k] = PacketFields
                                  /\ d[k].load = sent[k].load \/ d[k].load = <<>>
                                  /\ d[k].open => sent[k].open /\ d[k].load = sent[k].load
<1> DEFINE a == [sent EXCEPT ![n].taken = TRUE]
<1>1. d = Forget(a)
  BY DEF TakePacket
<1>2. DOMAIN a = DOMAIN sent /\ a = [k \in DOMAIN sent |-> a[k]]
  OBVIOUS
<1>3. \A k \in DOMAIN sent : /\ DOMAIN a[k] = PacketFields /\ a[k].load = sent[k].load
                             /\ a[k].open = sent[k].open
  BY DEF PacketFields
<1> HIDE DEF a
<1>4. IsSeq(a)
  BY <1>2, SeqMap
<1>5. /\ IsSeq(d) /\ DOMAIN d = DOMAIN a
      /\ \A k \in DOMAIN d : /\ DOMAIN d[k] = PacketFields
                             /\ d[k].load = a[k].load \/ d[k].load = <<>>
                             /\ d[k].open = a[k].open
                             /\ d[k].open => d[k].load = a[k].load
  BY <1>1, <1>2, <1>3, <1>4, ForgetFields
<1> QED BY <1>2, <1>3, <1>5

LEMMA CloseFields ==
    ASSUME NEW sent, IsSeq(sent), \A k \in DOMAIN sent : DOMAIN sent[k] = PacketFields,
           NEW S, NEW d, d = CloseAll(sent, S)
    PROVE  /\ IsSeq(d) /\ DOMAIN d = DOMAIN sent
           /\ \A k \in DOMAIN d : /\ DOMAIN d[k] = PacketFields
                                  /\ d[k].load = sent[k].load \/ d[k].load = <<>>
                                  /\ d[k].open => sent[k].open /\ d[k].load = sent[k].load
<1> DEFINE a == [k \in DOMAIN sent |-> IF k \in S THEN [sent[k] EXCEPT !.open = FALSE]
                                       ELSE sent[k]]
<1>1. d = Forget(a)
  BY DEF CloseAll
<1>2. DOMAIN a = DOMAIN sent /\ a = [k \in DOMAIN sent |-> a[k]]
  OBVIOUS
<1>3. \A k \in DOMAIN sent : /\ DOMAIN a[k] = PacketFields /\ a[k].load = sent[k].load
                             /\ a[k].open => sent[k].open
  BY DEF PacketFields
<1> HIDE DEF a
<1>4. IsSeq(a)
  BY <1>2, SeqMap
<1>5. /\ IsSeq(d) /\ DOMAIN d = DOMAIN a
      /\ \A k \in DOMAIN d : /\ DOMAIN d[k] = PacketFields
                             /\ d[k].load = a[k].load \/ d[k].load = <<>>
                             /\ d[k].open = a[k].open
                             /\ d[k].open => d[k].load = a[k].load
  BY <1>1, <1>2, <1>3, <1>4, ForgetFields
<1> QED BY <1>2, <1>3, <1>5

LEMMA PacketsStay ==
    ASSUME NEW sent, IsPackets(sent)
    PROVE  /\ \A k \in DOMAIN sent : IsPackets(TakePacket(sent, k))
           /\ \A S : IsPackets(CloseAll(sent, S))
<1>0. IsSeq(sent) /\ \A k \in DOMAIN sent : DOMAIN sent[k] = PacketFields /\ IsLoad(sent[k].load)
  BY DEF IsPackets
<1>1. ASSUME NEW k \in DOMAIN sent PROVE IsPackets(TakePacket(sent, k))
  <2> DEFINE d == TakePacket(sent, k)
  <2>1. /\ IsSeq(d) /\ DOMAIN d = DOMAIN sent
        /\ \A j \in DOMAIN d : /\ DOMAIN d[j] = PacketFields
                               /\ d[j].load = sent[j].load \/ d[j].load = <<>>
    BY <1>0, TakeFields
  <2> HIDE DEF d
  <2>2. IsPackets(d)
    BY <1>0, <2>1, EmptyLoad DEF IsPackets
  <2> QED BY <2>2 DEF d
<1>2. ASSUME NEW S PROVE IsPackets(CloseAll(sent, S))
  <2> DEFINE d == CloseAll(sent, S)
  <2>1. /\ IsSeq(d) /\ DOMAIN d = DOMAIN sent
        /\ \A j \in DOMAIN d : /\ DOMAIN d[j] = PacketFields
                               /\ d[j].load = sent[j].load \/ d[j].load = <<>>
    BY <1>0, CloseFields
  <2> HIDE DEF d
  <2>2. IsPackets(d)
    BY <1>0, <2>1, EmptyLoad DEF IsPackets
  <2> QED BY <2>2 DEF d
<1> QED BY <1>1, <1>2

LEMMA RepliesStay ==
    ASSUME NEW sent, NEW in, NEW more, IsReplies(sent, in), DOMAIN in \subseteq DOMAIN more
    PROVE  /\ IsReplies(sent, more)
           /\ \A k \in DOMAIN sent : IsReplies(TakePacket(sent, k), more)
           /\ \A S : IsReplies(CloseAll(sent, S), more)
<1>0. /\ IsSeq(sent) /\ \A k \in DOMAIN sent : DOMAIN sent[k] = PacketFields
      /\ \A k \in DOMAIN sent : sent[k].open => sent[k].load[1].reader \in DOMAIN more
  BY DEF IsReplies
<1>1. ASSUME NEW k \in DOMAIN sent PROVE IsReplies(TakePacket(sent, k), more)
  <2> DEFINE d == TakePacket(sent, k)
  <2>1. /\ IsSeq(d) /\ DOMAIN d = DOMAIN sent
        /\ \A j \in DOMAIN d : /\ DOMAIN d[j] = PacketFields
                               /\ d[j].open => sent[j].open /\ d[j].load = sent[j].load
    BY <1>0, TakeFields
  <2> HIDE DEF d
  <2>2. IsReplies(d, more)
    BY <1>0, <2>1 DEF IsReplies
  <2> QED BY <2>2 DEF d
<1>2. ASSUME NEW S PROVE IsReplies(CloseAll(sent, S), more)
  <2> DEFINE d == CloseAll(sent, S)
  <2>1. /\ IsSeq(d) /\ DOMAIN d = DOMAIN sent
        /\ \A j \in DOMAIN d : /\ DOMAIN d[j] = PacketFields
                               /\ d[j].open => sent[j].open /\ d[j].load = sent[j].load
    BY <1>0, CloseFields
  <2> HIDE DEF d
  <2>2. IsReplies(d, more)
    BY <1>0, <2>1 DEF IsReplies
  <2> QED BY <2>2 DEF d
<1> QED BY <1>0, <1>1, <1>2 DEF IsReplies

LEMMA PacketSent ==
    ASSUME NEW sent, IsPackets(sent), NEW load, IsLoad(load), NEW h
    PROVE  IsPackets(Append(sent, NewPacket(h, load)))
<1> DEFINE p == NewPacket(h, load)
           d == Append(sent, p)
<1>1. DOMAIN p = PacketFields /\ p.load = load
  BY DEF NewPacket, PacketFields
<1> HIDE DEF p
<1>a. IsSeq(sent) /\ d = Append(sent, p)
  BY DEF IsPackets
<1> HIDE DEF d
<1>b. Appended(sent, p, d)
  BY <1>a, SeqAppend
<1>2. /\ IsSeq(d)
      /\ \A k \in DOMAIN sent : d[k] = sent[k]
      /\ d[Len(sent) + 1] = p
      /\ \A k \in DOMAIN d : k \in DOMAIN sent \/ k = Len(sent) + 1
  BY <1>b DEF Appended
<1>3. ASSUME NEW k \in DOMAIN d PROVE DOMAIN d[k] = PacketFields /\ IsLoad(d[k].load)
  <2>1. CASE k \in DOMAIN sent
    BY <2>1, <1>2 DEF IsPackets
  <2>2. CASE k = Len(sent) + 1
    BY <2>2, <1>1, <1>2
  <2> QED BY <2>1, <2>2, <1>2
<1>4. IsPackets(d)
  BY <1>2, <1>3 DEF IsPackets
<1> QED BY <1>4 DEF d, p

LEMMA ReplySent ==
    ASSUME NEW sent, NEW in, IsReplies(sent, in), NEW reply, reply.reader \in DOMAIN in, NEW h
    PROVE  IsReplies(Append(sent, NewPacket(h, <<reply>>)), in)
<1> DEFINE p == NewPacket(h, <<reply>>)
           d == Append(sent, p)
<1>1. DOMAIN p = PacketFields /\ p.load[1] = reply
  BY DEF NewPacket, PacketFields
<1> HIDE DEF p
<1>a. IsSeq(sent) /\ d = Append(sent, p)
  BY DEF IsReplies
<1> HIDE DEF d
<1>b. Appended(sent, p, d)
  BY <1>a, SeqAppend
<1>2. /\ IsSeq(d)
      /\ \A k \in DOMAIN sent : d[k] = sent[k]
      /\ d[Len(sent) + 1] = p
      /\ \A k \in DOMAIN d : k \in DOMAIN sent \/ k = Len(sent) + 1
  BY <1>b DEF Appended
<1>3. ASSUME NEW k \in DOMAIN d
      PROVE  DOMAIN d[k] = PacketFields /\ (d[k].open => d[k].load[1].reader \in DOMAIN in)
  <2>1. CASE k \in DOMAIN sent
    BY <2>1, <1>2 DEF IsReplies
  <2>2. CASE k = Len(sent) + 1
    BY <2>2, <1>1, <1>2
  <2> QED BY <2>1, <2>2, <1>2
<1>4. IsReplies(d, in)
  BY <1>2, <1>3 DEF IsReplies
<1> QED BY <1>4 DEF d, p
-----------------------------------------------------------------------------
(***************************************************************************)
(* The invariant.                                                            *)
(***************************************************************************)
TablesInv ==
    /\ SoundWriter(writer)
    /\ SoundReader(reader)
    /\ IsPackets(packets)
    /\ IsReplies(replies, reader.in)

LEMMA InitTables == Init => TablesInv
<1> SUFFICES ASSUME Init PROVE TablesInv
  OBVIOUS
<1>1. SoundWriter(writer)
  <2> DEFINE out == [s \in Streams |-> NewOut]
  <2>1. DOMAIN out = Streams
    OBVIOUS
  <2>2. \A s \in Streams : /\ DOMAIN out[s] = OutFields
                           /\ out[s].id = nill /\ out[s].inHeap \in BOOLEAN
    BY DEF NewOut, OutFields
  <2>3. writer = NewWriter(out)
    BY DEF Init
  <2> HIDE DEF out
  <2> QED BY <2>1, <2>2, <2>3, NewWriterSound
<1>2. IsSeq(<<>>) /\ DOMAIN <<>> = {}
  BY EmptyLoad DEF IsLoad
<1>3. SoundReader(reader)
  BY <1>2, NewReaderSound DEF Init
<1>4. IsPackets(packets) /\ IsReplies(replies, reader.in)
  BY <1>2 DEF Init, IsPackets, IsReplies
<1> QED BY <1>1, <1>3, <1>4 DEF TablesInv

LEMMA NextTables == TablesInv /\ [Next]_vars => TablesInv'
<1> SUFFICES ASSUME TablesInv, [Next]_vars PROVE TablesInv'
  OBVIOUS
<1>0. /\ SoundWriter(writer) /\ SoundReader(reader)
      /\ IsPackets(packets) /\ IsReplies(replies, reader.in)
      /\ IsWriter(writer) /\ IsReader(reader)
  BY DEF TablesInv, SoundWriter, SoundReader
<1>1. ASSUME NEW s \in Streams, Connect(s) PROVE TablesInv'
  <2> DEFINE o == [writer.out[s] EXCEPT !.state = "open", !.prefix = TRUE, !.inHeap = TRUE,
                                        !.rts = TRUE, !.waiting = All(s)]
  <2>1. writer' = [writer EXCEPT !.out[s] = o]
    BY <1>1 DEF Connect
  <2>2. DOMAIN o = OutFields /\ o.id = writer.out[s].id /\ o.inHeap = TRUE
    BY <1>0 DEF IsWriter, OutFields
  <2> HIDE DEF o
  <2>3. /\ DOMAIN writer' = WriterFields /\ writer'.out = [writer.out EXCEPT ![s] = o]
        /\ writer'.outStreams = writer.outStreams /\ writer'.writeFree = writer.writeFree
        /\ writer'.cooldowns = writer.cooldowns
        /\ writer'.cooldownIndex = writer.cooldownIndex
    BY <2>1, <1>0 DEF IsWriter, WriterFields
  <2>4. \A t \in Streams : /\ DOMAIN writer'.out[t] = OutFields
                           /\ writer'.out[t].id = writer.out[t].id
                           /\ writer'.out[t].inHeap \in BOOLEAN
                           /\ writer.out[t].inHeap => writer'.out[t].inHeap
    BY <2>2, <2>3, <1>0 DEF IsWriter
  <2>5. IsWriter(writer')
    BY <2>3, <2>4, <1>0 DEF IsWriter, Ids
  <2>6. Agrees(writer')
    BY <2>3, <2>4, <1>0 DEF SoundWriter, Agrees, Ids
  <2>7. PICK len \in Lens, at \in Ats : Listed(writer, len, at)
    BY <1>0 DEF SoundWriter
  <2>8. Listed(writer', len, at)
    BY <2>3, <2>7 DEF Listed, Linked, Complete, HeadOf, Ids
  <2>9. SoundWriter(writer')
    BY <2>5, <2>6, <2>8 DEF SoundWriter
  <2> QED BY <2>9, <1>0, <1>1 DEF Connect, TablesInv
<1>2. ASSUME NEW s \in Streams, Reset(s) PROVE TablesInv'
  <2> DEFINE a == doReset(writer, s)
             d == RTS(a, s, TRUE)
  <2>1. SameTables(writer, a)
    BY <1>0, ResetSame
  <2>2. SoundWriter(a) /\ IsWriter(a)
    BY <1>0, <2>1, SameIsSound DEF SameTables
  <2> HIDE DEF a
  <2>3. SoundWriter(d)
    BY <2>2, RtsSame, SameIsSound
  <2>4. writer' = d
    BY <1>2 DEF Reset, a
  <2> HIDE DEF d
  <2> QED BY <2>3, <2>4, <1>0, <1>2 DEF Reset, TablesInv
<1>3. ASSUME Pull PROVE TablesInv'
  <2>1. PICK f \in Fills(tickCooldown(writer)) :
           /\ writer' = f.writer
           /\ packets' = Append(packets, NewPacket("w", f.segments))
    BY <1>3 DEF Pull
  <2>2. SoundWriter(tickCooldown(writer))
    BY <1>0, TickSound
  <2>3. SoundWriter(f.writer) /\ IsLoad(f.segments)
    BY <2>2, FillsSound
  <2>4. IsPackets(packets')
    BY <2>1, <2>3, <1>0, PacketSent
  <2> QED BY <2>1, <2>3, <2>4, <1>0, <1>3 DEF Pull, TablesInv
<1>4. ASSUME NEW k \in DOMAIN packets, NEW ok \in BOOLEAN, Fate(k, ok) PROVE TablesInv'
  <2>1. IsLoad(packets[k].load)
    BY <1>0 DEF IsPackets
  <2>2. SoundWriter(AckAll(writer, packets[k].load, ok))
    BY <2>1, <1>0, AckAllSound
  <2>3. IsPackets(CloseAll(packets, {k}))
    BY <1>0, PacketsStay
  <2> QED BY <2>2, <2>3, <1>0, <1>4 DEF Fate, TablesInv
<1>5. ASSUME NEW k \in DOMAIN packets, NEW refused, Arrive(k, refused) PROVE TablesInv'
  <2>1. IsLoad(packets[k].load)
    BY <1>0 DEF IsPackets
  <2>2. ReaderStep(reader, reader')
    BY <2>1, <1>0, <1>5, RecvAllSound DEF Arrive
  <2>3. IsPackets(packets')
    BY <1>0, <1>5, PacketsStay DEF Arrive
  <2>4. IsReplies(replies, reader'.in)
    BY <2>2, <1>0, RepliesStay DEF ReaderStep
  <2> QED BY <2>2, <2>3, <2>4, <1>0, <1>5 DEF Arrive, TablesInv, ReaderStep
<1>6. ASSUME NEW k \in DOMAIN replies, ReplyArrives(k) PROVE TablesInv'
  <2>1. SoundWriter(RecvReply(writer, replies[k].load[1]))
    BY <1>0, ReplySound
  <2>2. IsReplies(TakePacket(replies, k), reader.in)
    BY <1>0, RepliesStay
  <2> QED BY <2>1, <2>2, <1>0, <1>6 DEF ReplyArrives, TablesInv
<1>7. ASSUME NEW k \in DOMAIN replies, NEW ok \in BOOLEAN, ReplyFate(k, ok) PROVE TablesInv'
  <2>1. replies[k].load[1].reader \in DOMAIN reader.in
    BY <1>0, <1>7 DEF ReplyFate, IsReplies
  <2>2. ReaderStep(reader, reader')
    BY <2>1, <1>0, <1>7, AckReplySound DEF ReplyFate
  <2>3. IsReplies(CloseAll(replies, {k}), reader'.in)
    BY <2>2, <1>0, RepliesStay DEF ReaderStep
  <2> QED BY <2>2, <2>3, <1>0, <1>7 DEF ReplyFate, TablesInv, ReaderStep
<1>8. ASSUME NEW i \in DOMAIN reader.in, ResetReader(i) PROVE TablesInv'
  <2>1. SoundReader(InReset(reader, i)) /\ DOMAIN InReset(reader, i).in = DOMAIN reader.in
    BY <1>0, ResetMayEnd, MayEndSound
  <2>2. IsReplies(replies, reader'.in)
    BY <2>1, <1>0, <1>8, RepliesStay DEF ResetReader
  <2> QED BY <2>1, <2>2, <1>0, <1>8 DEF ResetReader, TablesInv
<1>9. ASSUME NEW i \in DOMAIN reader.in, PullReply(i) PROVE TablesInv'
  <2> DEFINE o == reader.in[i]
             resets == o.state \in {"reset", "reset down"}
             reply == [of |-> o.of, reader |-> i, id |-> o.id, resets |-> resets,
                       seq |-> Sub(reader.seqNums, o.id)]
  <2>1. /\ reader' = InRTS(reader, i, FALSE)
        /\ replies' = Append(replies, NewPacket("r", <<reply>>))
    BY <1>9 DEF PullReply
  <2>2. reply.reader = i
    OBVIOUS
  <2> HIDE DEF reply
  <2>3. SameReader(reader, reader')
    BY <2>1, <1>0, ReadSame
  <2>4. SoundReader(reader') /\ DOMAIN reader'.in = DOMAIN reader.in
    BY <2>3, <1>0, SameReaderIsSound DEF SameReader
  <2>5. IsReplies(replies, reader'.in)
    BY <2>4, <1>0, RepliesStay
  <2>6. IsReplies(replies', reader'.in)
    BY <2>1, <2>2, <2>4, <2>5, ReplySent
  <2> QED BY <2>4, <2>6, <1>0, <1>9 DEF PullReply, TablesInv
<1>10. ASSUME NEW h \in Hosts, Lose(h) PROVE TablesInv'
  <2>1. CASE h = "w"
    <3>1. /\ writer' = CutWriter(writer) /\ packets' = CloseAll(packets, DOMAIN packets)
          /\ UNCHANGED <<reader, replies>>
      BY <2>1, <1>10 DEF Lose
    <3>2. SoundWriter(CutWriter(writer)) /\ IsPackets(CloseAll(packets, DOMAIN packets))
      BY <1>0, CutWriterSound, PacketsStay
    <3> QED BY <3>1, <3>2, <1>0 DEF TablesInv
  <2>2. CASE h # "w"
    <3>1. /\ reader' = CutReader(reader) /\ replies' = CloseAll(replies, DOMAIN replies)
          /\ UNCHANGED <<writer, packets>>
      BY <2>2, <1>10 DEF Lose
    <3>2. ReaderStep(reader, CutReader(reader))
      BY <1>0, CutReaderSound
    <3>3. IsReplies(CloseAll(replies, DOMAIN replies), reader'.in)
      BY <3>1, <3>2, <1>0, RepliesStay DEF ReaderStep
    <3> QED BY <3>1, <3>2, <3>3, <1>0 DEF TablesInv, ReaderStep
  <2> QED BY <2>1, <2>2
<1>11. ASSUME NEW h \in Hosts, NEW agreed, Bind(h, agreed) PROVE TablesInv'
  <2> DEFINE wipes == agreed[Len(agreed)]
             w == IF wipes THEN WipeOut(writer) ELSE writer
             r == IF wipes THEN WipeIn(reader) ELSE reader
  <2>1. CASE h = "w"
    <3>1. /\ writer' = CutWriter(w) /\ packets' = CloseAll(packets, DOMAIN packets)
          /\ UNCHANGED <<reader, replies>>
      BY <2>1, <1>11 DEF Bind
    <3>2. SoundWriter(w)
      BY <1>0, WipeOutSound
    <3> HIDE DEF w
    <3>3. SoundWriter(CutWriter(w)) /\ IsPackets(CloseAll(packets, DOMAIN packets))
      BY <3>2, <1>0, CutWriterSound, PacketsStay
    <3> QED BY <3>1, <3>3, <1>0 DEF TablesInv
  <2>2. CASE h # "w"
    <3>1. /\ reader' = CutReader(r) /\ replies' = CloseAll(replies, DOMAIN replies)
          /\ UNCHANGED <<writer, packets>>
      BY <2>2, <1>11 DEF Bind
    <3>2. ReaderStep(reader, r)
      BY <1>0, WipeInSound DEF ReaderStep
    <3> HIDE DEF r
    <3>3. IsReplies(replies, r.in)
      BY <3>2, <1>0, RepliesStay DEF ReaderStep
    <3>4. ReaderStep(r, CutReader(r))
      BY <3>2, <3>3, CutReaderSound DEF ReaderStep
    <3>5. IsReplies(CloseAll(replies, DOMAIN replies), reader'.in)
      BY <3>1, <3>3, <3>4, RepliesStay DEF ReaderStep
    <3> QED BY <3>1, <3>4, <3>5, <1>0 DEF TablesInv, ReaderStep
  <2> QED BY <2>1, <2>2
<1>12. CASE UNCHANGED vars
  BY <1>12, <1>0 DEF vars, TablesInv
<1> QED BY <1>1, <1>2, <1>3, <1>4, <1>5, <1>6, <1>7, <1>8, <1>9, <1>10, <1>11, <1>12
        DEF Next, BindFirst

(***************************************************************************)
(* The lists that follow the tables are the lists of the invariant.          *)
(***************************************************************************)
LEMMA TablesInvSound == TablesInv => TablesSound
<1> SUFFICES ASSUME TablesInv PROVE TablesSound
  OBVIOUS
<1>0. IsWriter(writer) /\ Agrees(writer) /\ IsReader(reader) /\ ReaderAgrees(reader)
  BY DEF TablesInv, SoundWriter, SoundReader
<1>1. PICK len \in Lens, at \in Ats : Listed(writer, len, at)
  BY DEF TablesInv, SoundWriter
<1>2. DOMAIN Lists = Places
  BY <1>0 DEF Lists, Places, IsWriter
<1>3. ASSUME NEW c \in Places PROVE Lists[c] = [k \in 1..len[c] |-> at[c][len[c] + 1 - k]]
  <2>1. Lists[c] = Chain(writer, HeadOf(writer, c))
    BY <1>0 DEF Lists, Places, IsWriter, HeadOf
  <2> QED BY <2>1, <1>0, <1>1, ChainIsList DEF Listed
<1>4. ASSUME NEW id \in Ids(writer), writer.outStreams[id][1] = "FREE"
      PROVE  Cardinality(UNION {{c} \X On(c, id) : c \in DOMAIN Lists}) = 1
  <2> DEFINE places == UNION {{c} \X On(c, id) : c \in DOMAIN Lists}
  <2>0. PICK c \in Places : \E k \in 1..len[c] : at[c][k] = id
    <3>1. \A s \in Streams : writer.outStreams[id] # ALLOC(s)
      BY <1>4 DEF ALLOC
    <3> QED BY <3>1, <1>1 DEF Listed, Complete
  <2>1. PICK k \in 1..len[c] : at[c][k] = id
    BY <2>0
  <2>2. len[c] \in Nat
    BY DEF Lens
  <2> DEFINE j == len[c] + 1 - k
  <2>3. j \in 1..len[c] /\ len[c] + 1 - j = k
    BY <2>2
  <2> HIDE DEF j
  <2>4. \A e \in Places : On(e, id) = {i \in 1..len[e] : at[e][len[e] + 1 - i] = id}
    BY <1>3 DEF On
  <2>5. j \in On(c, id)
    BY <2>1, <2>3, <2>4
  <2>6. ASSUME NEW e \in Places, NEW i \in On(e, id) PROVE e = c /\ i = j
    <3>1. len[e] \in Nat /\ i \in 1..len[e] /\ at[e][len[e] + 1 - i] = id
      BY <2>4, <2>6 DEF Lens
    <3>2. len[e] + 1 - i \in 1..len[e]
      BY <3>1
    <3>3. e = c /\ len[e] + 1 - i = k
      BY <3>1, <3>2, <2>1, <1>1 DEF Listed, Disjoint
    <3> QED BY <3>1, <3>3, <2>2 DEF j
  <2>7. places = {<<c, j>>}
    <3>1. <<c, j>> \in places
      BY <2>5, <1>2
    <3>2. ASSUME NEW x \in places PROVE x = <<c, j>>
      <4>1. PICK e \in Places : x \in {e} \X On(e, id)
        BY <1>2
      <4>2. PICK i \in On(e, id) : x = <<e, i>>
        BY <4>1
      <4> QED BY <4>2, <2>6
    <3> QED BY <3>1, <3>2
  <2> HIDE DEF places
  <2>8. Cardinality(places) = 1
    BY <2>7, FS_Singleton
  <2> QED BY <2>8 DEF places
<1> QED BY <1>0, <1>4 DEF TablesSound, Agrees, ReaderAgrees, Ids, SubIds

-----------------------------------------------------------------------------
\* The tables of ids and the records of streams agree on both hosts, and every
\* id of w without a stream is in exactly one place of one list, the free list or
\* a cooldown: whatever the order in which pulls, fates of packets, replies,
\* resets, wipes and the ends of channels reach the tables, no id is lost or given
\* to two streams (tickCooldown, pushCooldown, expandSubWriter, becameComplete,
\* recvSegment, wipeState).
THEOREM SpecTablesSound == Spec => []TablesSound
<1>1. Init => TablesInv
  BY InitTables
<1>2. TablesInv /\ [Next]_vars => TablesInv'
  BY NextTables
<1>3. TablesInv => TablesSound
  BY TablesInvSound
<1> QED BY <1>1, <1>2, <1>3, PTL DEF Spec
=============================================================================
