--------------------------- MODULE Bindings_proofs ---------------------------
(***************************************************************************)
(* Proofs about Bindings, for every number of places, users, values and     *)
(* cells.                                                                   *)
(***************************************************************************)
EXTENDS Bindings, FiniteSetTheorems, TLAPS

(***************************************************************************)
(* IdBucket.  A bucket is sound when it has the right type and a sound free *)
(* list; each function keeps it sound, and changes what is found under one  *)
(* index only.                                                              *)
(***************************************************************************)
Sound(b, V) == BucketType(b, V) /\ FreeListSound(b)

\* What is found in b and c is the same, except under index i.
SameBut(b, c, i) ==
    \A j \in Int : j # i => /\ Found(c, j) <=> Found(b, j)
                            /\ Found(b, j) => Sub(c, j) = Sub(b, j)

LEMMA NewBucketSound == ASSUME NEW V
                        PROVE  /\ Sound(NewBucket, V)
                               /\ \A i \in Int : ~Found(NewBucket, i)
<1> DEFINE b == NewBucket
<1>1. /\ FirstCells \in Nat \ {0} /\ b.free = FirstCells - 1 /\ b.size = FirstCells
      /\ b.table = [i \in 0..(FirstCells - 1) |-> <<"FREE", i - 1>>]
  BY FirstCellsAssumption DEF NewBucket, FREE
<1>2. \A i \in 0..(FirstCells - 1) : b.table[i] = <<"FREE", i - 1>>
  BY <1>1
<1>3. FreeCells(b) = 0..(FirstCells - 1)
  <2>1. Cells(b) = 0..(FirstCells - 1)
    BY <1>1 DEF Cells
  <2>2. \A i \in Cells(b) : IsFree(b, i)
    BY <1>2, <2>1 DEF IsFree
  <2> QED BY <2>1, <2>2 DEF FreeCells
<1>4. \A i \in FreeCells(b) : NextFree(b, i) = i - 1
  BY <1>2, <1>3 DEF NextFree
<1>5. BucketType(b, V)
  BY <1>1 DEF BucketType, Cells
<1>6. FreeListSound(b)
  BY <1>1, <1>3, <1>4 DEF FreeListSound
<1>7. \A i \in Int : ~Found(b, i)
  BY <1>1, <1>2 DEF Found, Cells, IsFree
<1> QED BY <1>5, <1>6, <1>7 DEF Sound

\* A bucket that grows keeps its cells, and gets a free one.
LEMMA GrowSound ==
    ASSUME NEW V, NEW b, Sound(b, V), b.free = -1
    PROVE  /\ Sound(Grow(b), V)
           /\ Grow(b).free \in FreeCells(Grow(b))
           /\ \A i \in Int : /\ Found(Grow(b), i) <=> Found(b, i)
                             /\ Found(b, i) => Sub(Grow(b), i) = Sub(b, i)
<1> DEFINE g == Grow(b)
<1>1. /\ b.size \in Nat \ {0}
      /\ b.table \in [0..(b.size - 1) -> ({"FREE"} \X Int) \cup ({"FULL"} \X V)]
  BY DEF Sound, BucketType, Cells
<1>2. /\ g.free = 2 * b.size - 1
      /\ g.size = 2 * b.size
      /\ g.table = [i \in 0..(2 * b.size - 1) |->
                       IF i < b.size THEN b.table[i]
                       ELSE IF i = b.size THEN <<"FREE", -1>> ELSE <<"FREE", i - 1>>]
  BY DEF Grow, FREE
<1>3. BucketType(g, V)
  BY <1>1, <1>2 DEF BucketType, Cells
<1>4. /\ \A i \in 0..(b.size - 1) : g.table[i] = b.table[i]
      /\ \A i \in b.size..(2 * b.size - 1) :
            g.table[i] = <<"FREE", IF i = b.size THEN -1 ELSE i - 1>>
  BY <1>1, <1>2
<1>5. FreeCells(g) = FreeCells(b) \cup (b.size..(2 * b.size - 1))
  BY <1>1, <1>2, <1>4 DEF FreeCells, Cells, IsFree
<1>6. g.free \in FreeCells(g)
  BY <1>1, <1>2, <1>5
<1>7. ASSUME NEW i \in FreeCells(g)
      PROVE  NextFree(g, i) \in {-1} \cup (FreeCells(g) \ {g.free})
  <2>1. CASE i \in FreeCells(b)
    <3>1. i \in 0..(b.size - 1) /\ g.table[i] = b.table[i]
      BY <2>1, <1>4 DEF FreeCells, Cells
    <3>2. NextFree(g, i) = NextFree(b, i)
      BY <3>1 DEF NextFree
    <3>3. NextFree(b, i) = -1 \/ NextFree(b, i) \in FreeCells(b)
      BY <2>1 DEF Sound, FreeListSound
    <3>4. \A k \in FreeCells(b) : k \in FreeCells(g) /\ k # g.free
      <4>1. \A k \in FreeCells(b) : k \in 0..(b.size - 1)
        BY DEF FreeCells, Cells
      <4> QED BY <4>1, <1>1, <1>2, <1>5
    <3> QED BY <3>2, <3>3, <3>4
  <2>2. CASE i \in b.size..(2 * b.size - 1)
    <3>1. NextFree(g, i) = IF i = b.size THEN -1 ELSE i - 1
      BY <2>2, <1>4 DEF NextFree
    <3> QED BY <3>1, <2>2, <1>1, <1>2, <1>5
  <2> QED BY <2>1, <2>2, <1>5
<1>8. ASSUME NEW i \in FreeCells(g), NEW j \in FreeCells(g),
             NextFree(g, i) = NextFree(g, j), NextFree(g, i) # -1
      PROVE  i = j
  <2>1. \A k \in FreeCells(b) : NextFree(g, k) = NextFree(b, k) /\ NextFree(g, k) < b.size
    <3> SUFFICES ASSUME NEW k \in FreeCells(b)
                 PROVE  NextFree(g, k) = NextFree(b, k) /\ NextFree(g, k) < b.size
      OBVIOUS
    <3>1. k \in 0..(b.size - 1) /\ g.table[k] = b.table[k]
      BY <1>4 DEF FreeCells, Cells
    <3>2. NextFree(g, k) = NextFree(b, k)
      BY <3>1 DEF NextFree
    <3>3. NextFree(b, k) = -1 \/ NextFree(b, k) \in FreeCells(b)
      BY DEF Sound, FreeListSound
    <3>4. NextFree(b, k) = -1 \/ NextFree(b, k) \in 0..(b.size - 1)
      BY <3>3 DEF FreeCells, Cells
    <3> QED BY <1>1, <3>2, <3>4
  <2>2. \A k \in b.size..(2 * b.size - 1) :
           NextFree(g, k) = IF k = b.size THEN -1 ELSE k - 1
    BY <1>4 DEF NextFree
  <2>3. CASE i \in FreeCells(b) /\ j \in FreeCells(b)
    BY <2>3, <2>1, <1>8 DEF Sound, FreeListSound
  <2>4. CASE i \in FreeCells(b) /\ j \in b.size..(2 * b.size - 1)
    <3>1. NextFree(g, i) < b.size
      BY <2>4, <2>1
    <3>2. NextFree(g, j) = -1 \/ NextFree(g, j) >= b.size
      BY <2>4, <2>2, <1>1
    <3>3. NextFree(g, j) \in Int
      BY <2>4, <2>2, <1>1
    <3> QED BY <3>1, <3>2, <3>3, <1>1, <1>8
  <2>5. CASE j \in FreeCells(b) /\ i \in b.size..(2 * b.size - 1)
    BY <2>5, <2>1, <2>2, <1>1, <1>8
  <2>6. CASE i \in b.size..(2 * b.size - 1) /\ j \in b.size..(2 * b.size - 1)
    BY <2>6, <2>2, <1>1, <1>8
  <2> QED BY <2>3, <2>4, <2>5, <2>6, <1>5
<1>9. \A i \in Int : /\ Found(g, i) <=> Found(b, i)
                     /\ Found(b, i) => Sub(g, i) = Sub(b, i)
  BY <1>1, <1>2, <1>4 DEF Found, Cells, IsFree, Sub
<1> QED BY <1>3, <1>6, <1>7, <1>8, <1>9 DEF Sound, FreeListSound

\* alloc gives an index that was not in use, and leaves x under it.
LEMMA AllocSound ==
    ASSUME NEW V, NEW b, Sound(b, V), NEW x \in V
    PROVE  /\ Sound(Alloc(b, x), V)
           /\ AllocId(b) \in Nat
           /\ ~Found(b, AllocId(b))
           /\ Found(Alloc(b, x), AllocId(b))
           /\ Sub(Alloc(b, x), AllocId(b)) = x
           /\ SameBut(b, Alloc(b, x), AllocId(b))
<1> DEFINE r == Roomy(b)
           a == Alloc(b, x)
<1>1. /\ Sound(r, V)
      /\ r.free \in FreeCells(r)
      /\ \A i \in Int : /\ Found(r, i) <=> Found(b, i)
                        /\ Found(b, i) => Sub(r, i) = Sub(b, i)
  <2>1. CASE b.free = -1
    BY <2>1, GrowSound DEF Roomy
  <2>2. CASE b.free # -1
    BY <2>2 DEF Roomy, Sound, FreeListSound
  <2> QED BY <2>1, <2>2
<1> HIDE DEF r
<1>2. /\ r.size \in Nat \ {0}
      /\ r.table \in [0..(r.size - 1) -> ({"FREE"} \X Int) \cup ({"FULL"} \X V)]
      /\ r.free \in 0..(r.size - 1)
      /\ r.table[r.free][1] = "FREE"
  BY <1>1 DEF Sound, BucketType, Cells, FreeCells, IsFree
<1>3. /\ a.free = NextFree(r, r.free)
      /\ a.size = r.size
      /\ a.table = [r.table EXCEPT ![r.free] = <<"FULL", x>>]
  BY DEF r, Alloc, FULL
<1>4. /\ a.table[r.free] = <<"FULL", x>>
      /\ \A i \in 0..(r.size - 1) : i # r.free => a.table[i] = r.table[i]
  BY <1>2, <1>3
<1>5. FreeCells(a) = FreeCells(r) \ {r.free}
  BY <1>2, <1>3, <1>4 DEF FreeCells, Cells, IsFree
<1>6. NextFree(r, r.free) \in {-1} \cup (FreeCells(r) \ {r.free})
  BY <1>1 DEF Sound, FreeListSound
<1>7. BucketType(a, V)
  <2>1. NextFree(r, r.free) \in Int
    BY <1>2, <1>6 DEF FreeCells, Cells
  <2> QED BY <1>2, <1>3, <2>1 DEF BucketType, Cells
<1>8. FreeListSound(a)
  <2>1. \A i \in FreeCells(a) : NextFree(a, i) = NextFree(r, i)
    BY <1>4, <1>5 DEF NextFree, FreeCells, Cells
  <2>2. \A i \in FreeCells(a) :
           NextFree(a, i) \in {-1} \cup (FreeCells(a) \ {a.free})
    BY <2>1, <1>1, <1>3, <1>5 DEF Sound, FreeListSound
  <2>3. \A i, j \in FreeCells(a) :
           NextFree(a, i) = NextFree(a, j) /\ NextFree(a, i) # -1 => i = j
    BY <2>1, <1>1, <1>5 DEF Sound, FreeListSound
  <2> QED BY <2>2, <2>3, <1>3, <1>5, <1>6 DEF FreeListSound
<1>9. AllocId(b) = r.free
  BY DEF r, AllocId
<1>10. /\ ~Found(b, r.free)
       /\ Found(a, r.free)
       /\ Sub(a, r.free) = x
  BY <1>1, <1>2, <1>3, <1>4 DEF Found, Cells, IsFree, Sub
<1>11. \A j \in Int : j # r.free => /\ Found(a, j) <=> Found(r, j)
                                    /\ Found(r, j) => Sub(a, j) = Sub(r, j)
  BY <1>2, <1>3, <1>4 DEF Found, Cells, IsFree, Sub
<1> QED BY <1>1, <1>2, <1>7, <1>8, <1>9, <1>10, <1>11 DEF Sound, SameBut

\* free gives up one index that is in use.
LEMMA FreeSound ==
    ASSUME NEW V, NEW b, Sound(b, V), NEW i \in Int, Found(b, i)
    PROVE  /\ Sound(Free(b, i), V)
           /\ ~Found(Free(b, i), i)
           /\ SameBut(b, Free(b, i), i)
<1> DEFINE a == Free(b, i)
<1>1. /\ b.size \in Nat \ {0} /\ b.free \in Int
      /\ b.table \in [0..(b.size - 1) -> ({"FREE"} \X Int) \cup ({"FULL"} \X V)]
      /\ i \in 0..(b.size - 1) /\ i \notin FreeCells(b)
  BY DEF Sound, BucketType, Cells, Found, FreeCells
<1>2. /\ a.free = i /\ a.size = b.size
      /\ a.table = [b.table EXCEPT ![i] = <<"FREE", b.free>>]
  BY DEF Free, FREE
<1>3. /\ a.table[i] = <<"FREE", b.free>>
      /\ \A j \in 0..(b.size - 1) : j # i => a.table[j] = b.table[j]
  BY <1>1, <1>2
<1>4. FreeCells(a) = FreeCells(b) \cup {i}
  BY <1>1, <1>2, <1>3 DEF FreeCells, Cells, IsFree
<1>5. BucketType(a, V)
  BY <1>1, <1>2 DEF BucketType, Cells
<1>6. FreeListSound(a)
  <2>1. /\ \A j \in FreeCells(b) : NextFree(a, j) = NextFree(b, j)
        /\ NextFree(a, i) = b.free
    BY <1>1, <1>3 DEF NextFree, FreeCells, Cells
  <2>2. /\ b.free \in {-1} \cup FreeCells(b)
        /\ \A j \in FreeCells(b) : NextFree(b, j) \in {-1} \cup (FreeCells(b) \ {b.free})
        /\ \A j, k \in FreeCells(b) :
              NextFree(b, j) = NextFree(b, k) /\ NextFree(b, j) # -1 => j = k
    BY DEF Sound, FreeListSound
  <2>3. \A j \in FreeCells(a) : NextFree(a, j) \in {-1} \cup (FreeCells(a) \ {a.free})
    BY <2>1, <2>2, <1>1, <1>2, <1>4
  <2>4. \A j, k \in FreeCells(a) :
           NextFree(a, j) = NextFree(a, k) /\ NextFree(a, j) # -1 => j = k
    BY <2>1, <2>2, <1>1, <1>4
  <2> QED BY <2>3, <2>4, <1>2, <1>4 DEF FreeListSound
<1>7. ~Found(a, i)
  BY <1>3 DEF Found, IsFree
<1>8. SameBut(b, a, i)
  BY <1>1, <1>2, <1>3 DEF SameBut, Found, Cells, IsFree, Sub
<1> QED BY <1>5, <1>6, <1>7, <1>8 DEF Sound

\* replace changes the value under one index.
LEMMA ReplaceSound ==
    ASSUME NEW V, NEW b, Sound(b, V), NEW i \in Int, Found(b, i), NEW x \in V
    PROVE  /\ Sound(Replace(b, i, x), V)
           /\ Found(Replace(b, i, x), i)
           /\ Sub(Replace(b, i, x), i) = x
           /\ SameBut(b, Replace(b, i, x), i)
<1> DEFINE a == Replace(b, i, x)
<1>1. /\ b.size \in Nat \ {0} /\ b.free \in Int
      /\ b.table \in [0..(b.size - 1) -> ({"FREE"} \X Int) \cup ({"FULL"} \X V)]
      /\ i \in 0..(b.size - 1) /\ i \notin FreeCells(b)
  BY DEF Sound, BucketType, Cells, Found, FreeCells
<1>2. /\ a.free = b.free /\ a.size = b.size
      /\ a.table = [b.table EXCEPT ![i] = <<"FULL", x>>]
  BY DEF Replace, FULL
<1>3. /\ a.table[i] = <<"FULL", x>>
      /\ \A j \in 0..(b.size - 1) : j # i => a.table[j] = b.table[j]
  BY <1>1, <1>2
<1>4. FreeCells(a) = FreeCells(b)
  BY <1>1, <1>2, <1>3 DEF FreeCells, Cells, IsFree
<1>5. BucketType(a, V)
  BY <1>1, <1>2 DEF BucketType, Cells
<1>6. \A j \in FreeCells(b) : NextFree(a, j) = NextFree(b, j)
  BY <1>1, <1>3 DEF NextFree, FreeCells, Cells
<1>7. FreeListSound(a)
  BY <1>2, <1>4, <1>6 DEF Sound, FreeListSound
<1>8. Found(a, i) /\ Sub(a, i) = x /\ SameBut(b, a, i)
  BY <1>1, <1>2, <1>3 DEF SameBut, Found, Cells, IsFree, Sub
<1> QED BY <1>5, <1>7, <1>8 DEF Sound

-----------------------------------------------------------------------------
(***************************************************************************)
(* The inductive invariant, of a state record: the objects of the program   *)
(* and the local ones together own the handles of the buckets, one each.    *)
(***************************************************************************)
Spots == Places \cup Locals
ObjectType == [class : Class \cup {"none"}, handle : Int, meant : Value]

Typed(st) ==
    /\ st.failed = FALSE
    /\ DOMAIN st.bucket = Class
    /\ \A c \in Class : Sound(st.bucket[c], Value)
    /\ st.object \in [Spots -> ObjectType]
    /\ \A s \in Spots : st.object[s].class = "none" => st.object[s] = NoObject

Denotes(st) ==
    \A s \in Spots : st.object[s].handle >= 0 =>
        /\ Found(st.bucket[st.object[s].class], st.object[s].handle)
        /\ Sub(st.bucket[st.object[s].class], st.object[s].handle) = st.object[s].meant

Owns(st, s, c, h) == st.object[s].class = c /\ st.object[s].handle = h

Exclusive(st) ==
    \A s, t \in Spots : \A c \in Class : \A h \in Nat :
        Owns(st, s, c, h) /\ Owns(st, t, c, h) => s = t

Complete(st) ==
    \A c \in Class : \A h \in Int :
        Found(st.bucket[c], h) => \E s \in Spots : Owns(st, s, c, h)

Good(st) == Typed(st) /\ Denotes(st) /\ Exclusive(st) /\ Complete(st)

\* The objects are the same, except at s.
KeepsBut(st, n, s) == \A t \in Spots : t # s => n.object[t] = st.object[t]

\* Two facts about objects, from which the solvers go on.
LEMMA FoundIsNat == ASSUME NEW V, NEW b, Sound(b, V), NEW h \in Int, Found(b, h)
                    PROVE  h \in Nat /\ Sub(b, h) \in V
<1>1. /\ b.size \in Nat /\ h \in 0..(b.size - 1)
      /\ b.table \in [0..(b.size - 1) -> ({"FREE"} \X Int) \cup ({"FULL"} \X V)]
      /\ b.table[h][1] # "FREE"
  BY DEF Sound, BucketType, Found, Cells, IsFree
<1>2. b.table[h] \in {"FULL"} \X V
  BY <1>1
<1> QED BY <1>1, <1>2 DEF Sub

LEMMA NoObjectIsNone == /\ NoObject.class = "none" /\ NoObject.handle = -1
                        /\ NoObject.meant = 0 /\ "none" \notin Class
                        /\ NoObject \in ObjectType
BY ModelBoundsAssumption DEF NoObject, Class, ObjectType, Value

\* Every class is copied and freed in its own bucket.
LEMMA SpecialOwn ==
    ASSUME NEW c \in Class
    PROVE  SpecialMembers[c].dup = c /\ SpecialMembers[c].free = c
BY DEF SpecialMembers, Class, Special, EndPointObject, AddressObject, HostObject,
    HostIteratorObject, ChannelIteratorObject, InStreamObject, InStreamIteratorObject,
    OutStreamObject, OutStreamIteratorObject, EventObject, AbortableObject,
    PublicKeyObject, PrivateKeyObject

\* A default-constructed object owns nothing.
LEMMA InvalidGood ==
    ASSUME NEW st, Good(st), NEW s \in Spots, st.object[s] = NoObject, NEW c \in Class
    PROVE  /\ Good(Invalid(st, s, c))
           /\ KeepsBut(st, Invalid(st, s, c), s)
           /\ Invalid(st, s, c).object[s].class = c
<1> DEFINE n == Invalid(st, s, c)
<1>1. /\ n.bucket = st.bucket /\ n.failed = st.failed
      /\ n.object = [st.object EXCEPT ![s] = [class |-> c, handle |-> -1, meant |-> 0]]
  BY DEF Invalid, Put, Object
<1>2. st.object \in [Spots -> ObjectType]
  BY DEF Good, Typed
<1>3. n.object[s] = [class |-> c, handle |-> -1, meant |-> 0]
  BY <1>1, <1>2
<1>4. KeepsBut(st, n, s)
  BY <1>1, <1>2 DEF KeepsBut
<1>5. [class |-> c, handle |-> -1, meant |-> 0] \in ObjectType
  BY ModelBoundsAssumption DEF ObjectType, Value
<1>6. Typed(n)
  <2>1. n.object \in [Spots -> ObjectType]
    BY <1>1, <1>2, <1>5
  <2> QED BY <2>1, <1>1, <1>3, <1>4, NoObjectIsNone DEF Good, Typed, KeepsBut
<1>7. Denotes(n)
  BY <1>1, <1>3, <1>4 DEF Good, Denotes, KeepsBut
<1>8. Exclusive(n)
  BY <1>3, <1>4 DEF Good, Exclusive, Owns, KeepsBut
<1>9. Complete(n)
  <2> SUFFICES ASSUME NEW d \in Class, NEW h \in Int, Found(n.bucket[d], h)
               PROVE  \E t \in Spots : Owns(n, t, d, h)
    BY DEF Complete
  <2>1. PICK t \in Spots : Owns(st, t, d, h)
    BY <1>1 DEF Good, Complete
  <2>2. t # s
    BY <2>1, NoObjectIsNone DEF Owns
  <2> QED BY <2>1, <2>2, <1>4 DEF Owns, KeepsBut
<1> QED BY <1>3, <1>4, <1>6, <1>7, <1>8, <1>9 DEF Good

\* A new value gets a handle of its own.
LEMMA NewGood ==
    ASSUME NEW st, Good(st), NEW s \in Spots, st.object[s] = NoObject,
           NEW c \in Class, NEW x \in Value
    PROVE  /\ Good(New(st, s, c, c, x))
           /\ KeepsBut(st, New(st, s, c, c, x), s)
           /\ New(st, s, c, c, x).object[s].class = c
           /\ New(st, s, c, c, x).object[s].handle \in Nat
<1> DEFINE n == New(st, s, c, c, x)
           h == AllocId(st.bucket[c])
           b == Alloc(st.bucket[c], x)
<1>0. Typed(st) /\ Denotes(st) /\ Exclusive(st) /\ Complete(st)
  BY DEF Good
<1>1. /\ n.bucket = [st.bucket EXCEPT ![c] = b] /\ n.failed = st.failed
      /\ n.object = [st.object EXCEPT ![s] = [class |-> c, handle |-> h, meant |-> x]]
  BY DEF New, Put, SetBucket, Object
<1>2. /\ st.object \in [Spots -> ObjectType] /\ DOMAIN st.bucket = Class
      /\ Sound(st.bucket[c], Value)
  BY <1>0 DEF Typed
<1>3. /\ Sound(b, Value) /\ h \in Nat /\ ~Found(st.bucket[c], h)
      /\ Found(b, h) /\ Sub(b, h) = x /\ SameBut(st.bucket[c], b, h)
  BY <1>2, AllocSound
<1> HIDE DEF h, b
<1>4. /\ n.object[s] = [class |-> c, handle |-> h, meant |-> x]
      /\ n.object[s].class = c /\ n.object[s].handle = h /\ n.object[s].meant = x
  BY <1>1, <1>2
<1>5. KeepsBut(st, n, s)
  BY <1>1, <1>2 DEF KeepsBut
<1>6. /\ n.bucket[c] = b /\ DOMAIN n.bucket = Class
      /\ \A d \in Class : d # c => n.bucket[d] = st.bucket[d]
  BY <1>1, <1>2
<1> HIDE DEF n
<1>7. Typed(n)
  <2>1. [class |-> c, handle |-> h, meant |-> x] \in ObjectType
    BY <1>3 DEF ObjectType
  <2>2. n.object \in [Spots -> ObjectType]
    BY <2>1, <1>1, <1>2
  <2>3. \A t \in Spots : n.object[t].class = "none" => n.object[t] = NoObject
    BY <1>0, <1>4, <1>5, NoObjectIsNone DEF Typed, KeepsBut
  <2>4. \A d \in Class : Sound(n.bucket[d], Value)
    BY <1>0, <1>3, <1>6 DEF Typed
  <2> QED BY <2>2, <2>3, <2>4, <1>0, <1>1, <1>6 DEF Typed
<1>8. ASSUME NEW t \in Spots, t # s, n.object[t].handle >= 0
      PROVE  /\ Found(n.bucket[n.object[t].class], n.object[t].handle)
             /\ Sub(n.bucket[n.object[t].class], n.object[t].handle) = n.object[t].meant
             /\ ~(n.object[t].class = c /\ n.object[t].handle = h)
  <2> DEFINE o == n.object[t]
  <2>1. o = st.object[t] /\ o \in ObjectType
    BY <1>2, <1>5, <1>8 DEF KeepsBut
  <2>2. o.class \in Class /\ o.handle \in Int
    BY <2>1, <1>0, <1>8, NoObjectIsNone DEF Typed, ObjectType
  <2>3. Found(st.bucket[o.class], o.handle) /\ Sub(st.bucket[o.class], o.handle) = o.meant
    BY <2>1, <1>0, <1>8 DEF Denotes
  <2>4. CASE o.class = c
    BY <2>2, <2>3, <2>4, <1>3, <1>6 DEF SameBut
  <2>5. CASE o.class # c
    BY <2>2, <2>3, <2>5, <1>6
  <2> QED BY <2>4, <2>5
<1>9. Denotes(n)
  BY <1>3, <1>4, <1>6, <1>8 DEF Denotes
<1>10. Exclusive(n)
  <2> SUFFICES ASSUME NEW t \in Spots, NEW u \in Spots, NEW d \in Class, NEW k \in Nat,
                      Owns(n, t, d, k), Owns(n, u, d, k)
               PROVE  t = u
    BY DEF Exclusive
  <2>1. CASE t # s /\ u # s
    BY <2>1, <1>0, <1>5 DEF Exclusive, Owns, KeepsBut
  <2>2. CASE t = s \/ u = s
    BY <2>2, <1>4, <1>8 DEF Owns
  <2> QED BY <2>1, <2>2
<1>11. Complete(n)
  <2> SUFFICES ASSUME NEW d \in Class, NEW k \in Int, Found(n.bucket[d], k)
               PROVE  \E t \in Spots : Owns(n, t, d, k)
    BY DEF Complete
  <2>1. CASE d = c /\ k = h
    BY <2>1, <1>4 DEF Owns
  <2>2. CASE ~(d = c /\ k = h)
    <3>1. Found(st.bucket[d], k)
      BY <2>2, <1>3, <1>6 DEF SameBut
    <3>2. PICK t \in Spots : Owns(st, t, d, k)
      BY <3>1, <1>0 DEF Complete
    <3>3. t # s
      BY <3>2, NoObjectIsNone DEF Owns
    <3> QED BY <3>2, <3>3, <1>5 DEF Owns, KeepsBut
  <2> QED BY <2>1, <2>2
<1>12. Good(n) /\ n.object[s].handle \in Nat
  BY <1>3, <1>4, <1>7, <1>9, <1>10, <1>11 DEF Good
<1> QED BY <1>4, <1>5, <1>12 DEF n

\* A copy has a handle of its own, for the same value.
LEMMA CopyGood ==
    ASSUME NEW st, Good(st), NEW s \in Spots, st.object[s] = NoObject,
           NEW t \in Spots, st.object[t] # NoObject
    PROVE  /\ Good(Copy(st, s, t))
           /\ KeepsBut(st, Copy(st, s, t), s)
           /\ Copy(st, s, t).object[s].class = st.object[t].class
           /\ st.object[t].handle >= 0 => Copy(st, s, t).object[s].handle \in Nat
<1> DEFINE o == st.object[t]
<1>1. o \in ObjectType /\ o.class \in Class /\ o.handle \in Int
  BY NoObjectIsNone DEF Good, Typed, ObjectType
<1>2. SpecialMembers[o.class].dup = o.class
  BY <1>1, SpecialOwn
<1>3. CASE o.handle < 0
  <2>1. Copy(st, s, t) = Invalid(st, s, o.class)
    BY <1>3 DEF Copy
  <2>2. ~(o.handle >= 0)
    BY <1>1, <1>3
  <2> QED BY <2>1, <2>2, <1>1, InvalidGood
<1>4. CASE o.handle >= 0
  <2> DEFINE b == st.bucket[o.class]
  <2>1. Found(b, o.handle)
    BY <1>4 DEF Good, Denotes
  <2>2. Sub(b, o.handle) \in Value
    BY <2>1, <1>1, FoundIsNat DEF Good, Typed
  <2>3. ~(o.handle < 0)
    BY <1>1, <1>4
  <2>4. Copy(st, s, t) = New(st, s, o.class, o.class, Sub(b, o.handle))
    BY <2>1, <2>3, <1>2 DEF Copy
  <2> QED BY <2>2, <2>4, <1>1, NewGood
<1> QED BY <1>1, <1>3, <1>4

\* A destructor frees the handle of its object, and that one only.
LEMMA DropGood ==
    ASSUME NEW st, Good(st), NEW s \in Spots
    PROVE  /\ Good(Drop(st, s))
           /\ KeepsBut(st, Drop(st, s), s)
           /\ Drop(st, s).object[s] = NoObject
<1> DEFINE n == Drop(st, s)
           o == st.object[s]
           b == Free(st.bucket[o.class], o.handle)
<1>0. Typed(st) /\ Denotes(st) /\ Exclusive(st) /\ Complete(st)
  BY DEF Good
<1>1. /\ st.object \in [Spots -> ObjectType] /\ DOMAIN st.bucket = Class
      /\ o \in ObjectType
  BY <1>0 DEF Typed
<1>2. CASE o = NoObject
  BY <1>2 DEF Drop, KeepsBut
<1>3. CASE o # NoObject
  <2>1. o.class \in Class /\ o.handle \in Int
    BY <1>0, <1>1, <1>3, NoObjectIsNone DEF Typed, ObjectType
  <2>2. SpecialMembers[o.class].free = o.class
    BY <2>1, SpecialOwn
  <2>3. /\ n.object = [st.object EXCEPT ![s] = NoObject] /\ n.failed = st.failed
        /\ DOMAIN n.bucket = Class
        /\ \A d \in Class : d # o.class \/ o.handle < 0 => n.bucket[d] = st.bucket[d]
        /\ o.handle >= 0 => /\ Found(st.bucket[o.class], o.handle)
                            /\ n.bucket[o.class] = b
    <3>1. CASE o.handle < 0
      <4>1. n = Put(st, s, NoObject)
        BY <3>1, <1>3 DEF Drop
      <4> QED BY <4>1, <3>1, <2>1, <1>1 DEF Put
    <3>2. CASE o.handle >= 0
      <4>1. Found(st.bucket[o.class], o.handle)
        BY <3>2, <1>0 DEF Denotes
      <4>2. ~(o.handle < 0)
        BY <3>2, <2>1
      <4>3. n = Put(SetBucket(st, o.class, b), s, NoObject)
        BY <4>1, <4>2, <2>2, <1>3 DEF Drop
      <4>4. n.bucket = [st.bucket EXCEPT ![o.class] = b]
        BY <4>3 DEF Put, SetBucket
      <4>5. /\ n.object = [st.object EXCEPT ![s] = NoObject]
            /\ n.failed = st.failed
        BY <4>3 DEF Put, SetBucket
      <4> QED BY <4>1, <4>2, <4>4, <4>5, <2>1, <1>1
    <3> QED BY <3>1, <3>2, <2>1
  <2>4. n.object[s] = NoObject /\ KeepsBut(st, n, s)
    BY <2>3, <1>1 DEF KeepsBut
  <2>5. o.handle >= 0 => /\ Sound(b, Value) /\ ~Found(b, o.handle)
                         /\ SameBut(st.bucket[o.class], b, o.handle)
    BY <2>1, <2>3, <1>0, FreeSound DEF Typed
  <2> HIDE DEF n, b
  <2>6. \A d \in Class : Sound(n.bucket[d], Value)
    BY <2>1, <2>3, <2>5, <1>0 DEF Typed
  <2>7. Typed(n)
    <3>1. n.object \in [Spots -> ObjectType]
      BY <2>3, <1>1, NoObjectIsNone
    <3>2. \A t \in Spots : n.object[t].class = "none" => n.object[t] = NoObject
      BY <1>0, <2>4 DEF Typed, KeepsBut
    <3> QED BY <3>1, <3>2, <2>3, <2>6, <1>0 DEF Typed
  <2>8. \A d \in Class, h \in Int :
           Found(st.bucket[d], h) /\ ~(d = o.class /\ h = o.handle) =>
               Found(n.bucket[d], h) /\ Sub(n.bucket[d], h) = Sub(st.bucket[d], h)
    BY <2>1, <2>3, <2>5 DEF SameBut
  <2>9. \A d \in Class, h \in Int :
           Found(n.bucket[d], h) =>
               Found(st.bucket[d], h) /\ ~(d = o.class /\ h = o.handle)
    <3>1. \A h \in Int : h < 0 => \A d \in Class : ~Found(st.bucket[d], h)
      BY FoundIsNat, <1>0 DEF Typed
    <3> QED BY <3>1, <2>1, <2>3, <2>5 DEF SameBut
  <2>10. Denotes(n)
    <3> SUFFICES ASSUME NEW t \in Spots, n.object[t].handle >= 0
                 PROVE  /\ Found(n.bucket[n.object[t].class], n.object[t].handle)
                        /\ Sub(n.bucket[n.object[t].class], n.object[t].handle)
                              = n.object[t].meant
      BY DEF Denotes
    <3> DEFINE p == n.object[t]
    <3>1. t # s /\ p = st.object[t]
      BY <2>4, NoObjectIsNone DEF KeepsBut
    <3>2. p.class \in Class /\ p.handle \in Nat
      BY <3>1, <1>0, NoObjectIsNone DEF Typed, ObjectType
    <3>3. Found(st.bucket[p.class], p.handle) /\ Sub(st.bucket[p.class], p.handle) = p.meant
      BY <3>1, <1>0 DEF Denotes
    <3>4. ~(p.class = o.class /\ p.handle = o.handle)
      BY <3>1, <3>2, <1>0 DEF Exclusive, Owns
    <3> QED BY <3>2, <3>3, <3>4, <2>8
  <2>11. Exclusive(n)
    BY <1>0, <2>4, NoObjectIsNone DEF Exclusive, Owns, KeepsBut
  <2>12. Complete(n)
    <3> SUFFICES ASSUME NEW d \in Class, NEW h \in Int, Found(n.bucket[d], h)
                 PROVE  \E t \in Spots : Owns(n, t, d, h)
      BY DEF Complete
    <3>1. Found(st.bucket[d], h) /\ ~(d = o.class /\ h = o.handle)
      BY <2>9
    <3>2. PICK t \in Spots : Owns(st, t, d, h)
      BY <3>1, <1>0 DEF Complete
    <3>3. t # s
      BY <3>1, <3>2 DEF Owns
    <3> QED BY <3>2, <3>3, <2>4 DEF Owns, KeepsBut
  <2> QED BY <2>4, <2>7, <2>10, <2>11, <2>12 DEF Good, n
<1> QED BY <1>2, <1>3

\* swap only changes who owns a handle.
LEMMA ExchangeGood ==
    ASSUME NEW st, Good(st), NEW s \in Spots, NEW t \in Spots
    PROVE  LET n == Exchange(st, s, t)
           IN  /\ Good(n)
               /\ n.object[s] = st.object[t] /\ n.object[t] = st.object[s]
               /\ \A u \in Spots : u # s /\ u # t => n.object[u] = st.object[u]
<1> DEFINE n == Exchange(st, s, t)
           to(u) == IF u = s THEN t ELSE IF u = t THEN s ELSE u
<1>1. n.bucket = st.bucket /\ n.failed = st.failed
      /\ n.object = [st.object EXCEPT ![s] = st.object[t], ![t] = st.object[s]]
  BY DEF Exchange
<1>2. st.object \in [Spots -> ObjectType]
  BY DEF Good, Typed
<1>3. \A u \in Spots : to(u) \in Spots /\ to(to(u)) = u /\ n.object[u] = st.object[to(u)]
  BY <1>1, <1>2
<1>4. n.object \in [Spots -> ObjectType]
  BY <1>1, <1>2
<1> HIDE DEF n, to
<1>5. Typed(n)
  BY <1>1, <1>3, <1>4 DEF Good, Typed
<1>6. Denotes(n)
  BY <1>1, <1>3 DEF Good, Denotes
<1>7. Exclusive(n)
  <2> SUFFICES ASSUME NEW u \in Spots, NEW v \in Spots, NEW c \in Class, NEW h \in Nat,
                      Owns(n, u, c, h), Owns(n, v, c, h)
               PROVE  u = v
    BY DEF Exclusive
  <2>1. to(u) = to(v)
    BY <1>3 DEF Good, Exclusive, Owns
  <2> QED BY <2>1, <1>3
<1>8. Complete(n)
  <2> SUFFICES ASSUME NEW c \in Class, NEW h \in Int, Found(n.bucket[c], h)
               PROVE  \E u \in Spots : Owns(n, u, c, h)
    BY DEF Complete
  <2>1. PICK u \in Spots : Owns(st, u, c, h)
    BY <1>1 DEF Good, Complete
  <2>2. Owns(n, to(u), c, h)
    BY <2>1, <1>3 DEF Owns
  <2> QED BY <2>2, <1>3
<1> QED BY <1>3, <1>5, <1>6, <1>7, <1>8 DEF Good, n, to

\* An iterator that moves on changes the value under its own handle.
LEMMA AdvanceGood ==
    ASSUME NEW st, Good(st), NEW t \in Spots, st.object[t].handle >= 0,
           Sub(st.bucket[st.object[t].class], st.object[t].handle) # 0
    PROVE  /\ Good(Advance(st, t))
           /\ KeepsBut(st, Advance(st, t), t)
           /\ Advance(st, t).object[t].class = st.object[t].class
<1> DEFINE n == Advance(st, t)
           o == st.object[t]
           x == Sub(st.bucket[o.class], o.handle) - 1
           b == Replace(st.bucket[o.class], o.handle, x)
           p == [class |-> o.class, handle |-> o.handle, meant |-> x]
<1>0. Typed(st) /\ Denotes(st) /\ Exclusive(st) /\ Complete(st)
  BY DEF Good
<1>1. /\ st.object \in [Spots -> ObjectType] /\ DOMAIN st.bucket = Class
      /\ o.class \in Class /\ o.handle \in Int /\ o # NoObject
  BY <1>0, NoObjectIsNone DEF Typed, ObjectType
<1>2. Found(st.bucket[o.class], o.handle) /\ Sound(st.bucket[o.class], Value)
  BY <1>0, <1>1 DEF Typed, Denotes
<1>3. x \in Value
  BY <1>1, <1>2, FoundIsNat, ModelBoundsAssumption DEF Value
<1>4. /\ n.bucket = [st.bucket EXCEPT ![o.class] = b] /\ n.failed = st.failed
      /\ n.object = [st.object EXCEPT ![t] = p]
  BY DEF Advance, Put, SetBucket, Object
<1>5. /\ Sound(b, Value) /\ Found(b, o.handle) /\ Sub(b, o.handle) = x
      /\ SameBut(st.bucket[o.class], b, o.handle)
  BY <1>1, <1>2, <1>3, ReplaceSound
<1>6. p \in ObjectType
  BY <1>1, <1>3 DEF ObjectType
<1> HIDE DEF x, b
<1>7. /\ n.object[t] = p /\ KeepsBut(st, n, t)
      /\ n.object \in [Spots -> ObjectType]
  BY <1>1, <1>4, <1>6 DEF KeepsBut
<1>8. /\ n.bucket[o.class] = b /\ DOMAIN n.bucket = Class
      /\ \A d \in Class : d # o.class => n.bucket[d] = st.bucket[d]
  BY <1>1, <1>4
<1>9. \A u \in Spots : \A c, h : Owns(n, u, c, h) <=> Owns(st, u, c, h)
  BY <1>7 DEF Owns, KeepsBut
<1>10. \A d \in Class, h \in Int :
          /\ Found(n.bucket[d], h) <=> Found(st.bucket[d], h)
          /\ Found(n.bucket[d], h) /\ ~(d = o.class /\ h = o.handle) =>
                Sub(n.bucket[d], h) = Sub(st.bucket[d], h)
  BY <1>1, <1>2, <1>5, <1>8 DEF SameBut
<1>11. n.object[t].class = o.class
  BY <1>7
<1>12. Typed(n)
  <2>1. \A u \in Spots : n.object[u].class = "none" => n.object[u] = NoObject
    BY <1>0, <1>1, <1>7, <1>11, NoObjectIsNone DEF Typed, KeepsBut
  <2>2. \A d \in Class : Sound(n.bucket[d], Value)
    BY <1>0, <1>5, <1>8 DEF Typed
  <2> QED BY <2>1, <2>2, <1>0, <1>4, <1>7, <1>8 DEF Typed
<1>13. Denotes(n)
  <2> SUFFICES ASSUME NEW u \in Spots, n.object[u].handle >= 0
               PROVE  /\ Found(n.bucket[n.object[u].class], n.object[u].handle)
                      /\ Sub(n.bucket[n.object[u].class], n.object[u].handle)
                            = n.object[u].meant
    BY DEF Denotes
  <2>1. CASE u = t
    BY <2>1, <1>5, <1>7, <1>8
  <2>2. CASE u # t
    <3> DEFINE q == n.object[u]
    <3>1. q = st.object[u]
      BY <2>2, <1>7 DEF KeepsBut
    <3>2. q.class \in Class /\ q.handle \in Nat
      BY <3>1, <1>0, NoObjectIsNone DEF Typed, ObjectType
    <3>3. ~(q.class = o.class /\ q.handle = o.handle)
      BY <3>1, <3>2, <2>2, <1>0 DEF Exclusive, Owns
    <3>4. Found(st.bucket[q.class], q.handle) /\ Sub(st.bucket[q.class], q.handle) = q.meant
      BY <3>1, <1>0 DEF Denotes
    <3> QED BY <3>2, <3>3, <3>4, <1>10
  <2> QED BY <2>1, <2>2
<1>14. Exclusive(n)
  BY <1>0, <1>9 DEF Exclusive
<1>15. Complete(n)
  BY <1>0, <1>9, <1>10 DEF Complete
<1> QED BY <1>7, <1>11, <1>12, <1>13, <1>14, <1>15 DEF Good

-----------------------------------------------------------------------------
(***************************************************************************)
(* The methods that are made of several of these, between which the local   *)
(* objects are in use.                                                      *)
(***************************************************************************)
Between(st) == Good(st) /\ \A l \in Locals : st.object[l] = NoObject

\* Objects come to exist at places of S only.
AddsIn(st, n, S) ==
    \A t \in Places : n.object[t] # NoObject => st.object[t] # NoObject \/ t \in S

LEMMA Spot == /\ \A s \in Places : s \in Spots /\ s \notin Locals
              /\ "local1" \in Spots /\ "local2" \in Spots
              /\ "local1" \in Locals /\ "local2" \in Locals /\ "local1" # "local2"
              /\ \A l \in Locals : l = "local1" \/ l = "local2"
BY PlacesAssumption DEF Spots, Locals

LEMMA AssignGood ==
    ASSUME NEW st, Between(st), NEW s \in Places, NEW t \in Places,
           st.object[t] # NoObject
    PROVE  LET n == Drop(Exchange(Copy(st, "local1", t), s, "local1"), "local1")
           IN  Between(n) /\ AddsIn(st, n, {s})
<1> DEFINE a == Copy(st, "local1", t)
           b == Exchange(a, s, "local1")
           n == Drop(b, "local1")
<1>1. Good(a) /\ KeepsBut(st, a, "local1")
  BY Spot, CopyGood DEF Between
<1> HIDE DEF a
<1>2. /\ Good(b) /\ b.object[s] = a.object["local1"] /\ b.object["local1"] = a.object[s]
      /\ \A u \in Spots : u # s /\ u # "local1" => b.object[u] = a.object[u]
  BY <1>1, Spot, ExchangeGood
<1> HIDE DEF b
<1>3. Good(n) /\ KeepsBut(b, n, "local1") /\ n.object["local1"] = NoObject
  BY <1>2, Spot, DropGood
<1> HIDE DEF n
<1>4. \A u \in Spots : u # s /\ u # "local1" => n.object[u] = st.object[u]
  BY <1>1, <1>2, <1>3 DEF KeepsBut
<1>5. Between(n)
  BY <1>3, <1>4, Spot DEF Between
<1>6. AddsIn(st, n, {s})
  BY <1>4, Spot DEF AddsIn
<1> QED BY <1>5, <1>6 DEF n, b, a

LEMMA ReturnChannelGood ==
    ASSUME NEW st, Good(st), NEW s1 \in Places, NEW s2 \in Places, s1 # s2,
           st.object[s1] = NoObject, st.object[s2] = NoObject,
           st.object["local1"] # NoObject, st.object["local2"] # NoObject
    PROVE  LET n == ReturnChannel(st, s1, s2)
           IN  Between(n) /\ AddsIn(st, n, {s1, s2})
<1> DEFINE a == Copy(st, s1, "local1")
           b == Copy(a, s2, "local2")
           c == Drop(b, "local2")
           n == Drop(c, "local1")
<1>1. Good(a) /\ KeepsBut(st, a, s1)
  BY Spot, CopyGood
<1>2. a.object[s2] = NoObject /\ a.object["local2"] # NoObject
  BY <1>1, Spot DEF KeepsBut
<1> HIDE DEF a
<1>3. Good(b) /\ KeepsBut(a, b, s2)
  BY <1>1, <1>2, Spot, CopyGood
<1> HIDE DEF b
<1>4. Good(c) /\ KeepsBut(b, c, "local2") /\ c.object["local2"] = NoObject
  BY <1>3, Spot, DropGood
<1> HIDE DEF c
<1>5. Good(n) /\ KeepsBut(c, n, "local1") /\ n.object["local1"] = NoObject
  BY <1>4, Spot, DropGood
<1> HIDE DEF n
<1>6. Between(n)
  BY <1>4, <1>5, Spot DEF Between, KeepsBut
<1>7. AddsIn(st, n, {s1, s2})
  BY <1>1, <1>3, <1>4, <1>5, Spot DEF AddsIn, KeepsBut
<1> QED BY <1>6, <1>7 DEF n, c, b, a, ReturnChannel

\* The end of a method that had a local object and made one for the caller.
LEMMA LocalDies ==
    ASSUME NEW st, Good(st), st.object["local2"] = NoObject
    PROVE  Between(Drop(st, "local1")) /\ AddsIn(st, Drop(st, "local1"), {})
<1> DEFINE n == Drop(st, "local1")
<1>1. Good(n) /\ KeepsBut(st, n, "local1") /\ n.object["local1"] = NoObject
  BY Spot, DropGood
<1> HIDE DEF n
<1>2. Between(n)
  BY <1>1, Spot DEF Between, KeepsBut
<1>3. AddsIn(st, n, {})
  BY <1>1, Spot DEF AddsIn, KeepsBut
<1> QED BY <1>2, <1>3 DEF n

LEMMA DropBetween ==
    ASSUME NEW st, Between(st), NEW s \in Places
    PROVE  Between(Drop(st, s)) /\ AddsIn(st, Drop(st, s), {})
<1> DEFINE n == Drop(st, s)
<1>1. Good(n) /\ KeepsBut(st, n, s) /\ n.object[s] = NoObject
  BY Spot, DropGood DEF Between
<1> HIDE DEF n
<1>2. Between(n) /\ AddsIn(st, n, {})
  BY <1>1, Spot DEF Between, KeepsBut, AddsIn
<1> QED BY <1>2 DEF n

LEMMA UnwindGood ==
    ASSUME NEW st, Between(st), NEW f \in Seq(Places), Len(f) \in {1, 2}
    PROVE  Between(Unwind(st, f)) /\ AddsIn(st, Unwind(st, f), {})
<1>1. CASE Len(f) = 1
  BY <1>1, DropBetween DEF Unwind
<1>2. CASE Len(f) = 2
  <2> DEFINE a == Drop(st, f[2])
             n == Drop(a, f[1])
  <2>1. f[1] \in Places /\ f[2] \in Places
    BY <1>2
  <2>2. Between(a) /\ AddsIn(st, a, {})
    BY <2>1, DropBetween
  <2> HIDE DEF a
  <2>3. Between(n) /\ AddsIn(a, n, {})
    BY <2>1, <2>2, DropBetween
  <2>4. Unwind(st, f) = n
    BY <1>2 DEF Unwind, a
  <2> HIDE DEF n
  <2> QED BY <2>2, <2>3, <2>4 DEF AddsIn
<1> QED BY <1>1, <1>2

-----------------------------------------------------------------------------
(***************************************************************************)
(* The specification                                                        *)
(***************************************************************************)

\* The program stays clear of the uses of the API that fail by themselves.
Careful == Avoided = Uses

LEMMA NotRefused == ASSUME Careful, NEW c, NEW n PROVE ~Refused(c, n)
<1>1. ASSUME NEW u \in Uses, NEW d, NEW names, NEW r \in Refusal(u, d, names)
      PROVE  r.use \in Uses
  BY <1>1 DEF Refusal
<1>2. /\ "no handler" \in Uses /\ "race" \in Uses /\ "wrong size" \in Uses
      /\ "wrong priority" \in Uses /\ "wrong service" \in Uses
      /\ "wrong suite" \in Uses /\ "wrong time" \in Uses /\ "negative sum" \in Uses
  BY DEF Uses
<1>3. \A r \in NoHandler \cup RaceCondition \cup WrongSize \cup WrongPriority :
        r.use \in Uses
  BY <1>1, <1>2 DEF NoHandler, RaceCondition, WrongSize, WrongPriority
<1>4. \A r \in WrongService \cup WrongSuite \cup PastEventScheduled \cup NegativeSum :
        r.use \in Uses
  BY <1>1, <1>2 DEF WrongService, WrongSuite, PastEventScheduled, NegativeSum
<1> QED BY <1>3, <1>4 DEF Refused, Refusals, Careful

FramesOK == frames \in Seq(Seq(Places)) /\ \A i \in 1..Len(frames) : Len(frames[i]) \in {1, 2}

\* cuspInit and cuspShutdown are counted right, and who has objects is between
\* the two.
UsersOK ==
    /\ users \in SUBSET Users /\ IsFiniteSet(users)
    /\ openCounter = Cardinality(users)
    /\ running = (users # {})
    /\ \A s \in Places : object[s] # NoObject => UserOf[s] \in users

Inv == /\ Between(Now)
       /\ group \in SUBSET Class
       /\ calls \in 0..MaxCalls
       /\ FramesOK
       /\ UsersOK

LEMMA BecomesBetween ==
    ASSUME NEW n, Between(n), Becomes(n)
    PROVE  Between(Now)' /\ object' = n.object
BY DEF Becomes, Between, Good, Typed, Denotes, Exclusive, Complete, Owns, Now

\* A step that becomes n, and adds objects at usable places, keeps Inv.
LEMMA StepKeeps ==
    ASSUME Inv, NEW n, Between(n), Becomes(n),
           NEW S \in SUBSET Places, AddsIn(Now, n, S), \A s \in S : UserOf[s] \in users,
           Same, calls' \in 0..MaxCalls, FramesOK'
    PROVE  Inv'
<1>1. Between(Now)' /\ object' = n.object
  BY BecomesBetween
<1>2. \A s \in Places : object'[s] # NoObject => UserOf[s] \in users
  BY <1>1 DEF AddsIn, Inv, UsersOK, Now
<1> QED BY <1>1, <1>2 DEF Inv, UsersOK, Same

\* What the makers of the API make.
LEMMA MakersOwn ==
    ASSUME NEW m \in Makers \cup Factories
    PROVE  /\ m.gives \in Class /\ m.makes \in Class
           /\ m.makes = m.gives \/ (m \in Makers /\ m.name = "Host::key")
           /\ m.none = "assert" => m \in Makers
BY DEF Makers, Factories, Class, Maker, EndPointSafe, EndPointKey, EndPointViews,
    HostConnect, HostKey, HostAddress, HostStreams, PrivateKeyPubkey,
    AddressFromString, EventNew, PrivateKeyNew

LEMMA InitInv == Init => Inv
<1> SUFFICES ASSUME Init PROVE Inv
  OBVIOUS
<1> USE DEF Init
<1>1. NoObject.handle = -1 /\ NoObject.class = "none" /\ NoObject \in ObjectType
  BY NoObjectIsNone
<1>2. Typed(Now)
  <2>1. \A c \in Class : Sound(bucket[c], Value)
    BY NewBucketSound
  <2> QED BY <2>1, <1>1 DEF Typed, Now, Spots
<1>3. Denotes(Now)
  BY <1>1 DEF Denotes, Now, Spots
<1>4. Exclusive(Now)
  BY <1>1 DEF Exclusive, Owns, Now, Spots
<1>5. Complete(Now)
  BY NewBucketSound DEF Complete, Now
<1>6. Between(Now)
  BY <1>2, <1>3, <1>4, <1>5 DEF Between, Good, Now
<1>7. FramesOK
  BY DEF FramesOK
<1>8. UsersOK
  BY FS_EmptySet DEF UsersOK
<1> QED BY <1>6, <1>7, <1>8, ModelBoundsAssumption DEF Inv

LEMMA CuspInitInv == ASSUME Inv, Careful, NEW u \in Users, CuspInit(u) PROVE Inv'
<1> USE DEF Inv
<1>0. /\ users' = users \cup {u} /\ u \notin users
      /\ openCounter' = openCounter + 1
      /\ IF openCounter = 0
         THEN running' = TRUE /\ bucket' = [c \in Class |-> NewBucket]
         ELSE UNCHANGED <<running, bucket>>
      /\ UNCHANGED <<group, object, calls, frames, failed>>
  BY DEF CuspInit, CountFails, Careful, Uses
<1>1. /\ users' \in SUBSET Users /\ IsFiniteSet(users')
      /\ openCounter' = Cardinality(users') /\ users' # {}
  BY <1>0, FS_AddElement DEF UsersOK
<1>2. openCounter = 0 <=> users = {}
  BY FS_EmptySet DEF UsersOK
<1>3. CASE openCounter # 0
  <2>1. Between(Now)' /\ UNCHANGED running
    BY <1>0, <1>3 DEF Between, Good, Typed, Denotes, Exclusive, Complete, Owns, Now
  <2>2. UsersOK'
    BY <1>0, <1>1, <1>2, <1>3, <2>1 DEF UsersOK
  <2> QED BY <1>0, <2>1, <2>2 DEF FramesOK
<1>4. CASE openCounter = 0
  <2>1. bucket' = [c \in Class |-> NewBucket] /\ running' = TRUE
    BY <1>0, <1>4
  <2>2. \A s \in Spots : object[s] = NoObject
    BY <1>2, <1>4, Spot DEF Spots, UsersOK, Between, Now
  <2>3. Typed(Now)'
    BY <1>0, <2>1, NewBucketSound DEF Between, Good, Typed, Now
  <2>4. Denotes(Now)'
    BY <1>0, <2>2, NoObjectIsNone DEF Denotes, Now
  <2>5. Exclusive(Now)'
    BY <1>0, <2>2, NoObjectIsNone DEF Exclusive, Owns, Now
  <2>6. Complete(Now)'
    BY <2>1, NewBucketSound DEF Complete, Now
  <2>7. Between(Now)'
    BY <1>0, <2>3, <2>4, <2>5, <2>6 DEF Between, Good, Now
  <2>8. UsersOK'
    BY <1>0, <1>1, <2>1 DEF UsersOK
  <2> QED BY <1>0, <2>7, <2>8 DEF FramesOK
<1> QED BY <1>3, <1>4

LEMMA CuspShutdownInv == ASSUME Inv, Careful, NEW u \in Users, CuspShutdown(u) PROVE Inv'
<1> USE DEF Inv
<1>0. /\ u \in users /\ users' = users \ {u}
      /\ \A s \in Places : UserOf[s] = u => ~Alive(s)
      /\ openCounter' = openCounter - 1
      /\ running' = (openCounter # 1)
      /\ UNCHANGED <<group, bucket, object, calls, frames, failed>>
  BY DEF CuspShutdown, CountFails, Careful, Uses
<1>1. /\ users' \in SUBSET Users /\ IsFiniteSet(users')
      /\ openCounter' = Cardinality(users') /\ openCounter \in Nat
  BY <1>0, FS_RemoveElement, FS_CardinalityType DEF UsersOK
<1>2. running' = (users' # {})
  <2>1. openCounter' = 0 <=> users' = {}
    BY <1>1, FS_EmptySet
  <2> QED BY <1>0, <1>1, <2>1
<1>3. UsersOK'
  BY <1>0, <1>1, <1>2, PlacesAssumption DEF UsersOK, Alive
<1>4. Between(Now)'
  BY <1>0 DEF Between, Good, Typed, Denotes, Exclusive, Complete, Owns, Now
<1> QED BY <1>0, <1>3, <1>4 DEF FramesOK

LEMMA CountedCalls == ASSUME Inv, Counted PROVE calls' \in 0..MaxCalls
BY ModelBoundsAssumption DEF Inv, Counted

LEMMA DefaultInv ==
    ASSUME Inv, NEW s \in Places, NEW c \in Class, Default(s, c) PROVE Inv'
<1>1. PICK n : n = Now
  OBVIOUS
<1>2. Between(n) /\ n.object[s] = NoObject /\ Becomes(Invalid(n, s, c))
  BY <1>1 DEF Inv, Default, Empty, Alive, Now
<1>3. Between(Invalid(n, s, c)) /\ AddsIn(n, Invalid(n, s, c), {s})
  BY <1>2, InvalidGood, Spot DEF Between, KeepsBut, AddsIn
<1>4. Same /\ calls' \in 0..MaxCalls /\ FramesOK' /\ UserOf[s] \in users
  BY CountedCalls DEF Default, Empty, Usable, Inv, FramesOK
<1> QED BY <1>1, <1>2, <1>3, <1>4, StepKeeps

LEMMA DuplicateInv ==
    ASSUME Inv, NEW s \in Places, NEW t \in Places, Duplicate(s, t) PROVE Inv'
<1>1. PICK n : n = Now
  OBVIOUS
<1>2. /\ Between(n) /\ n.object[s] = NoObject /\ n.object[t] # NoObject
      /\ Becomes(Copy(n, s, t))
  BY <1>1 DEF Inv, Duplicate, Empty, Alive, Now
<1>3. Between(Copy(n, s, t)) /\ AddsIn(n, Copy(n, s, t), {s})
  BY <1>2, CopyGood, Spot DEF Between, KeepsBut, AddsIn
<1>4. Same /\ calls' \in 0..MaxCalls /\ FramesOK' /\ UserOf[s] \in users
  BY CountedCalls DEF Duplicate, Empty, Usable, Inv, FramesOK
<1> QED BY <1>1, <1>2, <1>3, <1>4, StepKeeps

LEMMA AssignInv ==
    ASSUME Inv, NEW s \in Places, NEW t \in Places, Assign(s, t) PROVE Inv'
<1>1. PICK n : n = Now
  OBVIOUS
<1> DEFINE m == Drop(Exchange(Copy(n, "local1", t), s, "local1"), "local1")
<1>2. Between(n) /\ n.object[t] # NoObject /\ Becomes(m)
  <2>1. object[t] # NoObject
    BY DEF Assign, Alive, Inv, Between, Good, Typed, Now, NoObject, Spots
  <2> QED BY <1>1, <2>1 DEF Inv, Assign, Now
<1>3. Between(m) /\ AddsIn(n, m, {s})
  BY <1>2, AssignGood
<1>4. Same /\ calls' \in 0..MaxCalls /\ FramesOK' /\ UserOf[s] \in users
  BY CountedCalls DEF Assign, Usable, Inv, FramesOK
<1> HIDE DEF m
<1> QED BY <1>1, <1>2, <1>3, <1>4, StepKeeps

LEMMA SwapInv ==
    ASSUME Inv, NEW s \in Places, NEW t \in Places, Swap(s, t) PROVE Inv'
<1>1. PICK n : n = Now
  OBVIOUS
<1> DEFINE m == Exchange(n, s, t)
<1>2. Between(n) /\ Becomes(m)
  BY <1>1 DEF Inv, Swap
<1>3. /\ Good(m) /\ m.object[s] = n.object[t] /\ m.object[t] = n.object[s]
      /\ \A u \in Spots : u # s /\ u # t => m.object[u] = n.object[u]
  BY <1>2, ExchangeGood, Spot DEF Between
<1>4. Same /\ calls' \in 0..MaxCalls /\ FramesOK' /\ UserOf[s] \in users /\ UserOf[t] \in users
  BY DEF Swap, Usable, Inv, FramesOK
<1> HIDE DEF m
<1>5. Between(m) /\ AddsIn(n, m, {s, t})
  BY <1>2, <1>3, Spot DEF Between, AddsIn
<1> QED BY <1>1, <1>2, <1>4, <1>5, StepKeeps

LEMMA DestroyInv == ASSUME Inv, NEW s \in Places, Destroy(s) PROVE Inv'
<1>1. PICK n : n = Now
  OBVIOUS
<1>2. Between(n) /\ Becomes(Drop(n, s))
  BY <1>1 DEF Inv, Destroy
<1>3. Between(Drop(n, s)) /\ AddsIn(n, Drop(n, s), {})
  BY <1>2, DropBetween
<1>4. Same /\ calls' \in 0..MaxCalls /\ FramesOK'
  BY DEF Destroy, Inv, FramesOK
<1> QED BY <1>1, <1>2, <1>3, <1>4, StepKeeps

\* A valid object is found: the methods that look it up do not fail.
LEMMA HasIsFound ==
    ASSUME Inv, Careful, NEW s \in Places, NEW c \in Class, Has(s, c)
    PROVE  /\ Found(bucket[c], object[s].handle) /\ InTable(s)
           /\ object[s].class = c /\ object[s].handle >= 0 /\ object[s] # NoObject
<1>1. object[s].class = c /\ object[s].handle >= 0
  BY DEF Has, Valid, Careful, Uses
<1> QED BY <1>1, Spot, NoObjectIsNone DEF InTable, Found, Inv, Between, Good, Denotes, Now

LEMMA AskInv ==
    ASSUME Inv, Careful, NEW s \in Places, NEW q \in Queries, Ask(s, q) PROVE Inv'
<1>1. q.on \in Class
  BY DEF Queries, Class, Query, SilentQuery, EndPointControl, EndPointCounts,
    EndPointServices, AddressText, HostListening, HostKeyText, HostText, HostCounts,
    InStreamQueries, OutStreamQueries, EventQueries, AbortableQueries,
    PublicKeyQueries, PrivateKeySave
<1>2. PICK n : n = Now
  OBVIOUS
<1>3. Between(n) /\ Becomes(n)
  BY <1>1, <1>2, HasIsFound, NotRefused DEF Inv, Ask
<1>4. Same /\ calls' \in 0..MaxCalls /\ FramesOK'
  BY DEF Ask, Inv, FramesOK
<1>5. AddsIn(n, n, {})
  BY DEF AddsIn
<1> QED BY <1>2, <1>3, <1>4, <1>5, StepKeeps

\* What a maker or a factory does keeps Inv, if it is not one to avoid.
LEMMA AnswerInv ==
    ASSUME Inv, Careful, NEW s \in Places, Empty(s), NEW m \in Makers \cup Factories,
           m.makes = m.gives, (\E x \in Value : Answer(s, m, x)) \/ NoAnswer(s, m),
           Same, calls' \in 0..MaxCalls, FramesOK'
    PROVE  Inv'
<1>1. PICK n : n = Now
  OBVIOUS
<1>2. Between(n) /\ n.object[s] = NoObject /\ UserOf[s] \in users /\ m.gives \in Class
  BY <1>1, MakersOwn DEF Inv, Empty, Alive, Usable, Now
<1>3. ASSUME NEW x \in Value, Answer(s, m, x) PROVE Inv'
  <2> DEFINE k == New(n, s, m.gives, m.gives, x)
  <2>1. Becomes(k)
    BY <1>1, <1>3 DEF Answer
  <2>2. Between(k) /\ AddsIn(n, k, {s})
    BY <1>2, NewGood, Spot DEF Between, KeepsBut, AddsIn
  <2> HIDE DEF k
  <2> QED BY <1>1, <1>2, <2>1, <2>2, StepKeeps
<1>4. CASE NoAnswer(s, m)
  <2> DEFINE k == Invalid(n, s, m.gives)
  <2>1. Becomes(k)
    BY <1>1, <1>4, NotRefused DEF NoAnswer, Careful, Uses
  <2>2. Between(k) /\ AddsIn(n, k, {s})
    BY <1>2, InvalidGood, Spot DEF Between, KeepsBut, AddsIn
  <2> HIDE DEF k
  <2> QED BY <1>1, <1>2, <2>1, <2>2, StepKeeps
<1> QED BY <1>3, <1>4

LEMMA MakeInv ==
    ASSUME Inv, Careful, NEW s \in Places, NEW t \in Places, NEW m \in Makers, Make(s, t, m)
    PROVE  Inv'
<1>1. m.on \in Class /\ m.makes = m.gives
  <2>1. m.name # "Host::key"
    BY DEF Make, Careful, Uses
  <2>2. m.on \in Class
    BY DEF Makers, Class, Maker, EndPointSafe, EndPointKey, EndPointViews,
      HostConnect, HostKey, HostAddress, HostStreams, PrivateKeyPubkey
  <2> QED BY <2>1, <2>2, MakersOwn
<1>2. Found(bucket[m.on], object[t].handle)
  BY <1>1, HasIsFound DEF Make
<1>3. (\E x \in Value : Answer(s, m, x)) \/ NoAnswer(s, m)
  BY <1>2 DEF Make
<1>4. Same /\ calls' \in 0..MaxCalls /\ FramesOK' /\ Empty(s)
  BY CountedCalls DEF Make, Inv, FramesOK
<1> QED BY <1>1, <1>3, <1>4, AnswerInv

LEMMA CreateInv ==
    ASSUME Inv, Careful, NEW s \in Places, NEW f \in Factories, Create(s, f) PROVE Inv'
<1>1. f.makes = f.gives
  BY DEF Factories, AddressFromString, EventNew, PrivateKeyNew
<1>2. Same /\ calls' \in 0..MaxCalls /\ FramesOK' /\ Empty(s)
  BY CountedCalls DEF Create, Inv, FramesOK
<1> QED BY <1>1, <1>2, AnswerInv DEF Create

LEMMA IteratorNextInv ==
    ASSUME Inv, Careful, NEW s \in Places, NEW t \in Places, NEW it \in Iterators,
           IteratorNext(s, t, it)
    PROVE  Inv'
<1>1. it.on \in Class /\ it.gives \in Class
  BY DEF Iterators, Class, IteratorOf, HostIteratorNext, InStreamIteratorNext,
    OutStreamIteratorNext
<1>2. InTable(t) /\ object[t].handle >= 0 /\ object[t] # NoObject
  BY <1>1, HasIsFound DEF IteratorNext
<1>3. PICK n : n = Now
  OBVIOUS
<1>4. Between(n) /\ n.object[s] = NoObject /\ UserOf[s] \in users
  BY <1>3 DEF Inv, IteratorNext, Empty, Alive, Usable, Now
<1>5. Same /\ calls' \in 0..MaxCalls /\ FramesOK'
  BY CountedCalls DEF IteratorNext, Inv, FramesOK
<1>6. CASE AtEnd(t)
  <2> DEFINE k == Invalid(n, s, it.gives)
  <2>1. Becomes(k)
    BY <1>3, <1>6, <1>2 DEF IteratorNext
  <2>2. Between(k) /\ AddsIn(n, k, {s})
    BY <1>1, <1>4, InvalidGood, Spot DEF Between, KeepsBut, AddsIn
  <2> HIDE DEF k
  <2> QED BY <1>3, <1>4, <1>5, <2>1, <2>2, StepKeeps
<1>7. CASE ~AtEnd(t)
  <2> DEFINE a == Advance(n, t)
  <2>1. /\ n.object[t].handle >= 0 /\ n.object[t] # NoObject
        /\ Sub(n.bucket[n.object[t].class], n.object[t].handle) # 0
    BY <1>3, <1>7, <1>2 DEF AtEnd, Now
  <2>2. Good(a) /\ KeepsBut(n, a, t)
    BY <1>4, <2>1, AdvanceGood, Spot DEF Between
  <2>3. PICK x \in Value : Becomes(New(a, s, it.gives, it.gives, x))
    BY <1>3, <1>7, <1>2 DEF IteratorNext
  <2> HIDE DEF a
  <2> DEFINE k == New(a, s, it.gives, it.gives, x)
  <2>4. a.object[s] = NoObject
    BY <1>4, <2>1, <2>2, Spot DEF KeepsBut
  <2>5. Good(k) /\ KeepsBut(a, k, s)
    BY <1>1, <2>2, <2>4, NewGood, Spot
  <2>6. Becomes(k)
    BY <2>3
  <2> HIDE DEF k
  <2>7. Between(k)
    BY <1>4, <2>2, <2>5, Spot DEF Between, KeepsBut
  <2>8. AddsIn(n, k, {s})
    BY <2>1, <2>2, <2>5, Spot DEF AddsIn, KeepsBut
  <2> QED BY <1>3, <1>4, <1>5, <2>6, <2>7, <2>8, StepKeeps
<1> QED BY <1>6, <1>7

LEMMA ChannelIteratorNextInv ==
    ASSUME Inv, Careful, NEW s1 \in Places, NEW s2 \in Places, NEW t \in Places,
           ChannelIteratorNext(s1, s2, t)
    PROVE  Inv'
<1>1. PICK n : n = Now
  OBVIOUS
<1>2. /\ Between(n) /\ n.object[s1] = NoObject /\ n.object[s2] = NoObject /\ s1 # s2
      /\ UserOf[s1] \in users /\ UserOf[s2] \in users
  BY <1>1 DEF Inv, ChannelIteratorNext, Empty, Alive, Usable, Now
<1>3. Same /\ calls' \in 0..MaxCalls /\ FramesOK'
  BY CountedCalls DEF ChannelIteratorNext, Inv, FramesOK
<1>4. "Host" \in Class /\ "Address" \in Class /\ "ChannelIterator" \in Class
  BY DEF Class
<1>5. InTable(t) /\ ~AtEnd(t)
  BY <1>4, HasIsFound DEF ChannelIteratorNext, Careful, Uses
<1> DEFINE a == Advance(n, t)
           b(known, y) == IF known THEN New(a, "local2", "Host", "Host", y)
                          ELSE Invalid(a, "local2", "Host")
<1>6. PICK x \in Value, y \in Value, known \in BOOLEAN :
        Becomes(ReturnChannel(New(b(known, y), "local1", "Address", "Address", x), s1, s2))
  BY <1>1, <1>5 DEF ChannelIteratorNext
<1>7. /\ n.object[t].handle >= 0 /\ n.object[t] # NoObject
      /\ Sub(n.bucket[n.object[t].class], n.object[t].handle) # 0
  BY <1>1, <1>5, <1>4, HasIsFound DEF ChannelIteratorNext, AtEnd, Now
<1>8. Good(a) /\ KeepsBut(n, a, t)
  BY <1>2, <1>7, AdvanceGood, Spot DEF Between
<1>9. a.object["local2"] = NoObject
  BY <1>2, <1>8, Spot DEF Between, KeepsBut
<1> HIDE DEF a
<1> DEFINE c == b(known, y)
           d == New(c, "local1", "Address", "Address", x)
           k == ReturnChannel(d, s1, s2)
<1>10. /\ Good(c) /\ KeepsBut(a, c, "local2") /\ c.object["local2"].class = "Host"
  <2>1. CASE known
    BY <2>1, <1>4, <1>8, <1>9, NewGood, Spot
  <2>2. CASE ~known
    BY <2>2, <1>4, <1>8, <1>9, InvalidGood, Spot
  <2> QED BY <2>1, <2>2
<1>11. Becomes(k)
  BY <1>6
<1> HIDE DEF b, c
<1>12. c.object["local1"] = NoObject
  BY <1>2, <1>8, <1>10, Spot DEF Between, KeepsBut
<1>13. /\ Good(d) /\ KeepsBut(c, d, "local1") /\ d.object["local1"].class = "Address"
  BY <1>4, <1>10, <1>12, NewGood, Spot
<1> HIDE DEF d
<1>14. \A u \in Places : u # t => d.object[u] = n.object[u]
  BY <1>8, <1>10, <1>13, Spot DEF KeepsBut
<1>15. d.object["local1"] # NoObject /\ d.object["local2"] # NoObject
  BY <1>10, <1>13, Spot, NoObjectIsNone, <1>4 DEF KeepsBut
<1>16. d.object[s1] = NoObject /\ d.object[s2] = NoObject
  BY <1>2, <1>7, <1>14
<1>17. Between(k) /\ AddsIn(d, k, {s1, s2})
  BY <1>2, <1>13, <1>15, <1>16, ReturnChannelGood
<1> HIDE DEF k
<1>18. AddsIn(n, k, {s1, s2})
  BY <1>7, <1>14, <1>17 DEF AddsIn
<1> QED BY <1>1, <1>2, <1>3, <1>11, <1>17, <1>18, StepKeeps

LEMMA EndPointCreateInv ==
    ASSUME Inv, Careful, NEW s \in Places, EndPointCreate(s) PROVE Inv'
<1>1. PICK n : n = Now
  OBVIOUS
<1>2. Between(n) /\ n.object[s] = NoObject /\ UserOf[s] \in users
  BY <1>1 DEF Inv, EndPointCreate, Empty, Alive, Usable, Now
<1>3. Same /\ calls' \in 0..MaxCalls /\ FramesOK'
  BY CountedCalls DEF EndPointCreate, Inv, FramesOK
<1>4. "EndPoint" \in Class /\ "PrivateKey" \in Class
  BY DEF Class
<1>5. \A k \in Places : Has(k, "PrivateKey") =>
          n.object[k] # NoObject /\ n.object[k].handle >= 0
  BY <1>1, <1>4, HasIsFound DEF Now
<1>6. PICK st \in {Copy(n, "local1", k) : k \in {p \in Places : Has(p, "PrivateKey")}}
                  \cup {New(n, "local1", "PrivateKey", "PrivateKey", x) : x \in Value} :
          IF st.object["local1"].handle < 0 THEN Becomes(Fail(st))
          ELSE \/ \E x \in Value :
                     Becomes(Drop(New(st, s, "EndPoint", "EndPoint", x), "local1"))
               \/ Becomes(Drop(Invalid(st, s, "EndPoint"), "local1"))
  BY <1>1 DEF EndPointCreate
<1>7. /\ Good(st) /\ KeepsBut(n, st, "local1")
      /\ st.object["local1"].handle \in Nat
  <2>1. CASE \E k \in Places : Has(k, "PrivateKey") /\ st = Copy(n, "local1", k)
    BY <2>1, <1>2, <1>5, CopyGood, Spot DEF Between
  <2>2. CASE \E x \in Value : st = New(n, "local1", "PrivateKey", "PrivateKey", x)
    BY <2>2, <1>2, <1>4, NewGood, Spot DEF Between
  <2> QED BY <1>6, <2>1, <2>2
<1>8. st.object[s] = NoObject /\ st.object["local2"] = NoObject
  BY <1>2, <1>7, Spot DEF KeepsBut, Between
<1>9. ASSUME NEW m, Good(m), KeepsBut(st, m, s), Becomes(Drop(m, "local1"))
      PROVE  Inv'
  <2> DEFINE k == Drop(m, "local1")
  <2>1. m.object["local2"] = NoObject
    BY <1>8, <1>9, Spot DEF KeepsBut
  <2>2. Between(k) /\ AddsIn(m, k, {})
    BY <2>1, <1>9, LocalDies
  <2>3. Becomes(k)
    BY <1>9
  <2> HIDE DEF k
  <2>4. AddsIn(n, k, {s})
    BY <1>7, <1>9, <2>2, Spot DEF KeepsBut, AddsIn
  <2> QED BY <1>1, <1>2, <1>3, <2>2, <2>3, <2>4, StepKeeps
<1>10. \A x \in Value : LET m == New(st, s, "EndPoint", "EndPoint", x)
                         IN  Good(m) /\ KeepsBut(st, m, s)
  BY <1>4, <1>7, <1>8, NewGood, Spot
<1>11. LET m == Invalid(st, s, "EndPoint") IN Good(m) /\ KeepsBut(st, m, s)
  BY <1>4, <1>7, <1>8, InvalidGood, Spot
<1>12. \/ \E x \in Value : Becomes(Drop(New(st, s, "EndPoint", "EndPoint", x), "local1"))
       \/ Becomes(Drop(Invalid(st, s, "EndPoint"), "local1"))
  <2>1. ~(st.object["local1"].handle < 0)
    BY <1>7
  <2> QED BY <1>6, <2>1
<1> QED BY <1>9, <1>10, <1>11, <1>12

LEMMA EndPointContactInv ==
    ASSUME Inv, Careful, NEW s \in Places, NEW t \in Places, NEW a \in Places,
           EndPointContact(s, t, a)
    PROVE  Inv'
<1>1. PICK n : n = Now
  OBVIOUS
<1>2. Between(n) /\ n.object[s] = NoObject /\ UserOf[s] \in users
  BY <1>1 DEF Inv, EndPointContact, Empty, Alive, Usable, Now
<1>3. Same /\ calls' \in 0..MaxCalls /\ FramesOK'
  BY CountedCalls DEF EndPointContact, Inv, FramesOK
<1>4. "EndPoint" \in Class /\ "Address" \in Class /\ "Abortable" \in Class
  BY DEF Class
<1>5. PICK x \in Value : Becomes(New(n, s, "Abortable", "Abortable", x))
  BY <1>1, <1>4, HasIsFound, NotRefused DEF EndPointContact
<1> DEFINE k == New(n, s, "Abortable", "Abortable", x)
<1>6. Between(k) /\ AddsIn(n, k, {s})
  BY <1>2, <1>4, NewGood, Spot DEF Between, KeepsBut, AddsIn
<1>7. Becomes(k)
  BY <1>5
<1> HIDE DEF k
<1> QED BY <1>1, <1>2, <1>3, <1>6, <1>7, StepKeeps

LEMMA CallbackClasses ==
    /\ \A c \in {ListenCallback, EventCallback} : c[1] \in Class
    /\ \A c \in {ContactCallback, AdvertiseCallback} : c[1] \in Class /\ c[2] \in Class
BY DEF Class, ListenCallback, EventCallback, ContactCallback, AdvertiseCallback

\* A frame is pushed.
LEMMA PushFrame ==
    ASSUME FramesOK, NEW f \in Seq(Places), Len(f) \in {1, 2}, frames' = Append(frames, f)
    PROVE  FramesOK'
<1>1. /\ frames \in Seq(Seq(Places)) /\ frames' \in Seq(Seq(Places))
      /\ Len(frames') = Len(frames) + 1
      /\ \A i \in 1..Len(frames) : frames'[i] = frames[i]
      /\ frames'[Len(frames) + 1] = f
  BY DEF FramesOK
<1> QED BY <1>1 DEF FramesOK

LEMMA Call1Inv ==
    ASSUME Inv, NEW s \in Places, NEW c \in {ListenCallback, EventCallback}, Call1(s, c)
    PROVE  Inv'
<1>1. PICK n : n = Now
  OBVIOUS
<1>2. Between(n) /\ n.object[s] = NoObject /\ UserOf[s] \in users
  BY <1>1 DEF Inv, Call1, Empty, Alive, Usable, Now
<1>3. Same /\ calls' \in 0..MaxCalls
  BY CountedCalls DEF Call1
<1>4. FramesOK'
  <2>1. <<s>> \in Seq(Places) /\ Len(<<s>>) \in {1, 2}
    OBVIOUS
  <2> QED BY <2>1, PushFrame DEF Call1, Inv
<1>5. PICK x \in Value : Becomes(New(n, s, c[1], c[1], x))
  BY <1>1 DEF Call1
<1> DEFINE k == New(n, s, c[1], c[1], x)
<1>6. Between(k) /\ AddsIn(n, k, {s})
  BY <1>2, CallbackClasses, NewGood, Spot DEF Between, KeepsBut, AddsIn
<1>7. Becomes(k)
  BY <1>5
<1> HIDE DEF k
<1> QED BY <1>1, <1>2, <1>3, <1>4, <1>6, <1>7, StepKeeps

LEMMA Call2Inv ==
    ASSUME Inv, NEW s1 \in Places, NEW s2 \in Places,
           NEW c \in {ContactCallback, AdvertiseCallback}, Call2(s1, s2, c)
    PROVE  Inv'
<1>1. PICK n : n = Now
  OBVIOUS
<1>2. /\ Between(n) /\ n.object[s1] = NoObject /\ n.object[s2] = NoObject /\ s1 # s2
      /\ UserOf[s1] \in users /\ UserOf[s2] \in users
  BY <1>1 DEF Inv, Call2, Empty, Alive, Usable, Now
<1>3. Same /\ calls' \in 0..MaxCalls
  BY CountedCalls DEF Call2
<1>4. FramesOK'
  <2>1. <<s1, s2>> \in Seq(Places) /\ Len(<<s1, s2>>) \in {1, 2}
    OBVIOUS
  <2> QED BY <2>1, PushFrame DEF Call2, Inv
<1>5. PICK x \in Value, y \in Value :
        Becomes(New(New(n, s1, c[1], c[1], x), s2, c[2], c[2], y))
  BY <1>1 DEF Call2
<1> DEFINE m == New(n, s1, c[1], c[1], x)
           k == New(m, s2, c[2], c[2], y)
<1>6. Good(m) /\ KeepsBut(n, m, s1)
  BY <1>2, CallbackClasses, NewGood, Spot DEF Between
<1>7. Becomes(k)
  BY <1>5
<1> HIDE DEF m
<1>8. m.object[s2] = NoObject
  BY <1>2, <1>6, Spot DEF KeepsBut
<1>9. Good(k) /\ KeepsBut(m, k, s2)
  BY <1>6, <1>8, CallbackClasses, NewGood, Spot
<1> HIDE DEF k
<1>10. Between(k) /\ AddsIn(n, k, {s1, s2})
  BY <1>2, <1>6, <1>9, Spot DEF Between, KeepsBut, AddsIn
<1> QED BY <1>1, <1>2, <1>3, <1>4, <1>7, <1>10, StepKeeps

LEMMA ReturnInv == ASSUME Inv, Return PROVE Inv'
<1>1. PICK n : n = Now
  OBVIOUS
<1>2. PICK f : f = frames[Len(frames)]
  OBVIOUS
<1>3. frames \in Seq(Seq(Places)) /\ Len(frames) \in Nat /\ Len(frames) > 0
  BY DEF Inv, FramesOK, Return
<1>4. f \in Seq(Places) /\ Len(f) \in {1, 2}
  BY <1>2, <1>3 DEF Inv, FramesOK
<1> DEFINE k == Unwind(n, f)
<1>5. Between(n) /\ Becomes(k)
  BY <1>1, <1>2 DEF Inv, Return
<1>6. Between(k) /\ AddsIn(n, k, {})
  BY <1>4, <1>5, UnwindGood
<1> HIDE DEF k
<1>7. FramesOK'
  <2>1. PICK last : last = Len(frames)
    OBVIOUS
  <2>2. PICK g : g = frames
    OBVIOUS
  <2>3. g \in Seq(Seq(Places)) /\ last = Len(g) /\ last \in Nat /\ last > 0
    BY <2>1, <2>2, <1>3
  <2>4. frames' = SubSeq(g, 1, last - 1)
    BY <2>1, <2>2 DEF Return
  <2>5. \A i \in 1..(last - 1) : g[i] \in Seq(Places) /\ Len(g[i]) \in {1, 2}
    BY <2>1, <2>2, <2>3 DEF Inv, FramesOK
  <2>6. SubSeq(g, 1, last - 1) \in Seq(Seq(Places))
    BY <2>3
  <2>7. Len(SubSeq(g, 1, last - 1)) = last - 1
    BY <2>3
  <2>8. \A i \in 1..(last - 1) : SubSeq(g, 1, last - 1)[i] = g[i]
    BY <2>3
  <2> QED BY <2>4, <2>5, <2>6, <2>7, <2>8 DEF FramesOK
<1>8. Same /\ calls' \in 0..MaxCalls
  BY DEF Return, Inv
<1> QED BY <1>1, <1>5, <1>6, <1>7, <1>8, StepKeeps

LEMMA NextInv == ASSUME Inv, Careful, [Next]_vars PROVE Inv'
<1>1. CASE UNCHANGED vars
  <2>1. Between(Now)'
    BY <1>1 DEF vars, Inv, Between, Good, Typed, Denotes, Exclusive, Complete, Owns, Now
  <2> QED BY <1>1, <2>1 DEF vars, Inv, FramesOK, UsersOK
<1>2. ASSUME NEW u \in Users, CuspInit(u) \/ CuspShutdown(u) PROVE Inv'
  BY <1>2, CuspInitInv, CuspShutdownInv
<1>3. ASSUME NEW s \in Places,
             \/ \E c \in Class : Default(s, c)
             \/ Destroy(s)
             \/ \E q \in Queries : Ask(s, q)
             \/ \E f \in Factories : Create(s, f)
             \/ EndPointCreate(s)
             \/ \E c \in {ListenCallback, EventCallback} : Call1(s, c)
      PROVE  Inv'
  BY <1>3, DefaultInv, DestroyInv, AskInv, CreateInv, EndPointCreateInv, Call1Inv
<1>4. ASSUME NEW s \in Places, NEW t \in Places,
             \/ Duplicate(s, t)
             \/ Assign(s, t)
             \/ Swap(s, t)
             \/ \E m \in Makers : Make(s, t, m)
             \/ \E it \in Iterators : IteratorNext(s, t, it)
             \/ \E c \in {ContactCallback, AdvertiseCallback} : Call2(s, t, c)
      PROVE  Inv'
  BY <1>4, DuplicateInv, AssignInv, SwapInv, MakeInv, IteratorNextInv, Call2Inv
<1>5. ASSUME NEW s1 \in Places, NEW s2 \in Places, NEW t \in Places,
             ChannelIteratorNext(s1, s2, t) \/ EndPointContact(s1, s2, t)
      PROVE  Inv'
  BY <1>5, ChannelIteratorNextInv, EndPointContactInv
<1>6. CASE Return
  BY <1>6, ReturnInv
<1> QED BY <1>1, <1>2, <1>3, <1>4, <1>5, <1>6 DEF Next

LEMMA Invariance == ASSUME Careful PROVE Spec => []Inv
<1>1. Init => Inv
  BY InitInv
<1>2. Inv /\ [Next]_vars => Inv'
  BY NextInv
<1> QED BY <1>1, <1>2, PTL DEF Spec

-----------------------------------------------------------------------------
(***************************************************************************)
(* The theorems                                                             *)
(***************************************************************************)

\* The type of the API's state: the buckets, the objects and the frames of the
\* callbacks, and that no local object outlives its method.
THEOREM TypeCorrect == ASSUME Careful PROVE Spec => []BindingsTypeOK
<1>1. Inv => BindingsTypeOK
  <2> SUFFICES ASSUME Inv PROVE BindingsTypeOK
    OBVIOUS
  <2>1. Typed(Now) /\ \A s \in Locals : object[s] = NoObject
    BY DEF Inv, Between, Good, Now
  <2>2. \A c \in Class : BucketType(bucket[c], Value)
    BY <2>1 DEF Typed, Sound, Now
  <2>3. openCounter \in Nat /\ running \in BOOLEAN
    BY FS_CardinalityType DEF Inv, UsersOK
  <2> QED BY <2>1, <2>2, <2>3 DEF BindingsTypeOK, Inv, Typed, Now, ObjectType,
             Spots, FramesOK, UsersOK
<1> QED BY <1>1, Invariance, PTL

\* In a program that stays clear of the uses that fail by themselves, no
\* assertion of cusp.cpp fails on account of a handle: a method, a copy or a
\* destructor never comes with one that the SML side does not know, and none
\* is freed twice, whatever is copied, assigned, swapped and called back.
THEOREM NoAssertionFails == ASSUME Careful PROVE Spec => []AssertsHold
<1>1. Inv => AssertsHold
  BY DEF Inv, Between, Good, Typed, Now, AssertsHold
<1> QED BY <1>1, Invariance, PTL

\* A handle stands for the value its object was made for.
THEOREM HandlesStayTrue == ASSUME Careful PROVE Spec => []HandlesDenote
<1>1. Inv => HandlesDenote
  BY Spot DEF Inv, Between, Good, Denotes, Now, HandlesDenote, Valid
<1> QED BY <1>1, Invariance, PTL

\* Two objects never own the same handle.
THEOREM HandlesAreOwnedOnce == ASSUME Careful PROVE Spec => []OneOwner
<1>1. Inv => OneOwner
  <2> SUFFICES ASSUME Inv, NEW s \in Places, NEW t \in Places,
                      Alive(s), Valid(s), object[s].class = object[t].class,
                      object[s].handle = object[t].handle
               PROVE  s = t
    BY DEF OneOwner
  <2>1. object[s].class \in Class /\ object[s].handle \in Nat
    BY Spot, NoObjectIsNone DEF Inv, Between, Good, Typed, Now, ObjectType, Valid
  <2> QED BY <2>1, Spot DEF Inv, Between, Good, Exclusive, Owns, Now
<1> QED BY <1>1, Invariance, PTL

\* Every handle that is in use on the SML side belongs to an object.
THEOREM NothingLeaks == ASSUME Careful PROVE Spec => []NoLeak
<1>1. Inv => NoLeak
  <2> SUFFICES ASSUME Inv, NEW c \in Class, NEW h \in Cells(bucket[c]), Found(bucket[c], h)
               PROVE  \E s \in Places : object[s].class = c /\ object[s].handle = h
    BY DEF NoLeak
  <2>1. h \in Int
    BY DEF Inv, Between, Good, Typed, Sound, BucketType, Cells, Now
  <2>2. PICK s \in Spots : object[s].class = c /\ object[s].handle = h
    BY <2>1 DEF Inv, Between, Good, Complete, Owns, Now
  <2>3. s \notin Locals
    BY <2>2, NoObjectIsNone DEF Inv, Between, Now
  <2> QED BY <2>2, <2>3 DEF Spots
<1> QED BY <1>1, Invariance, PTL

\* No bucket gives an index out while it is in use.
THEOREM FreeListsStaySound == ASSUME Careful PROVE Spec => []FreeListsSound
<1>1. Inv => FreeListsSound
  BY DEF Inv, Between, Good, Typed, Sound, Now, FreeListsSound
<1> QED BY <1>1, Invariance, PTL

\* The SML part is up as long as any object exists.
THEOREM OpenForAll == ASSUME Careful PROVE Spec => []OpenWhileInUse
<1>1. Inv => OpenWhileInUse
  BY DEF Inv, UsersOK, OpenWhileInUse, Alive
<1> QED BY <1>1, Invariance, PTL
=============================================================================
