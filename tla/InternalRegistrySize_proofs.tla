--------------------- MODULE InternalRegistrySize_proofs ---------------------
(***************************************************************************)
(* Proofs about m_flash_buffer_size: it goes with the objects, and it      *)
(* outgrows the flash by a name at most.                                   *)
(*                                                                         *)
(* BytesOf is defined by recursion over the objects.  The theorems below   *)
(* need no induction principle with a predicate for it: what holds of all  *)
(* prefixes holds because there is no least prefix that it fails for.      *)
(***************************************************************************)
EXTENDS InternalRegistry_proofs, FiniteSetTheorems, WellFoundedInduction

USE DEF Running

------------------------------------------------------------------------------
(* The bytes of a sequence of objects. *)

\* A set of natural numbers with an element has a least one.
LEMMA Least ==
  ASSUME NEW S \in SUBSET Nat, S # {}
  PROVE  \E m \in S : \A n \in S : m <= n
<1> DEFINE R == OpToRel(<, Nat)
<1>1. IsWellFoundedOn(R, Nat)
  BY NatLessThanWellFounded
<1>2. \A x, y \in Nat : x < y => <<x, y>> \in R
  BY DEF OpToRel
<1> HIDE DEF R
<1>3. PICK m \in S : \A y \in S : <<y, m>> \notin R
  BY <1>1, WFMin
<1>4. ASSUME NEW n \in S PROVE m <= n
  <2>1. m \in Nat /\ n \in Nat
    OBVIOUS
  <2>2. ~(n < m)
    BY <2>1, <1>2, <1>3
  <2> QED
    BY <2>1, <2>2
<1> QED
  BY <1>4

Bytes(o) == ObjectSize(o.key, o.size)

\* Where each of the first n objects ends.
Ends(end, objects, n) ==
  /\ end \in [0..n -> Nat]
  /\ end[0] = 0
  /\ \A i \in 1..n : end[i] = end[i - 1] + Bytes(objects[i])

LEMMA BytesType ==
  ASSUME NEW o \in Objects
  PROVE  Bytes(o) \in Nat
<1>1. o.key \in Keys /\ o.size \in Nat
  BY DEF Objects
<1>2. NameSize[o.key] \in Nat
  BY <1>1, RegistryAssumption
<1> QED
  BY <1>1, <1>2 DEF Bytes, ObjectSize

\* The objects do end somewhere ...
LEMMA EndsExist ==
  ASSUME NEW objects \in Seq(Objects)
  PROVE  \E end : Ends(end, objects, Len(objects))
<1> DEFINE N == Len(objects)
           Bad == {n \in 0..N : ~\E end : Ends(end, objects, n)}
<1>0. N \in Nat /\ \A i \in 1..N : Bytes(objects[i]) \in Nat
  BY ElementOfSeq, BytesType
<1> HIDE DEF N
<1>1. ASSUME Bad # {} PROVE FALSE
  <2>1. Bad \in SUBSET Nat
    BY <1>0
  <2>2. PICK n \in Bad : \A m \in Bad : n <= m
    <3> HIDE DEF Bad
    <3> QED
      BY <1>1, <2>1, Least
  <2>3. Ends([i \in 0..0 |-> 0], objects, 0)
    BY DEF Ends
  <2>4. n # 0 /\ n \in 1..N
    BY <1>0, <2>2, <2>3
  <2>5. PICK end : Ends(end, objects, n - 1)
    BY <1>0, <2>2, <2>4
  <2> DEFINE f == [i \in 0..n |-> IF i = n THEN end[n - 1] + Bytes(objects[n]) ELSE end[i]]
  <2>6. Ends(f, objects, n)
    <3>1. end \in [0..n - 1 -> Nat] /\ n \in Nat /\ Bytes(objects[n]) \in Nat
      BY <1>0, <2>4, <2>5 DEF Ends
    <3>2. f \in [0..n -> Nat]
      BY <1>0, <2>4, <3>1
    <3>3. f[0] = 0
      BY <2>4, <2>5 DEF Ends
    <3>4. ASSUME NEW i \in 1..n PROVE f[i] = f[i - 1] + Bytes(objects[i])
      <4>1. CASE i = n
        BY <2>4, <3>1, <4>1
      <4>2. CASE i # n
        <5>1. i \in 1..n - 1 /\ f[i] = end[i] /\ f[i - 1] = end[i - 1]
          BY <2>4, <3>1, <4>2
        <5> QED
          BY <2>5, <5>1 DEF Ends
      <4> QED
        BY <4>1, <4>2
    <3> QED
      BY <3>2, <3>3, <3>4 DEF Ends
  <2> QED
    BY <2>2, <2>6
<1>2. N \in 0..N
  BY <1>0
<1> QED
  BY <1>1, <1>2 DEF N

\* ... and the last of them where BytesOf says.
LEMMA BytesOfEnds ==
  ASSUME NEW objects \in Seq(Objects), NEW end, Ends(end, objects, Len(objects))
  PROVE  BytesOf(objects) = end[Len(objects)]
<1> DEFINE N == Len(objects)
           IsIt(e) == e = [i \in 0..N |-> IF i = 0 THEN 0
                                          ELSE e[i - 1] + ObjectSize(objects[i].key, objects[i].size)]
           e == CHOOSE f : IsIt(f)
           Bad == {i \in 0..N : e[i] # end[i]}
<1>0. N \in Nat
  OBVIOUS
<1>1. IsIt(end)
  BY DEF Ends, Bytes
<1>2. IsIt(e)
  BY <1>1
<1>3. BytesOf(objects) = e[N]
  BY DEF BytesOf
<1> HIDE DEF e
<1>4. ASSUME Bad # {} PROVE FALSE
  <2>1. Bad \in SUBSET Nat
    BY <1>0
  <2>2. PICK n \in Bad : \A m \in Bad : n <= m
    <3> HIDE DEF Bad
    <3> QED
      BY <1>4, <2>1, Least
  <2>3. e[0] = 0 /\ \A i \in 1..N : e[i] = e[i - 1] + ObjectSize(objects[i].key, objects[i].size)
    BY <1>0, <1>2
  <2>4. n \in 1..N /\ n - 1 \in 0..N
    BY <1>0, <2>2, <2>3 DEF Ends
  <2>5. e[n - 1] = end[n - 1]
    BY <2>2, <2>4
  <2> QED
    BY <2>2, <2>3, <2>4, <2>5 DEF Ends, Bytes
<1>5. N \in 0..N
  BY <1>0
<1> QED
  BY <1>3, <1>4, <1>5

LEMMA BytesOfType ==
  ASSUME NEW objects \in Seq(Objects)
  PROVE  BytesOf(objects) \in Nat
<1>1. PICK end : Ends(end, objects, Len(objects))
  BY EndsExist
<1>2. BytesOf(objects) = end[Len(objects)]
  BY <1>1, BytesOfEnds
<1>3. Len(objects) \in 0..Len(objects)
  OBVIOUS
<1> QED
  BY <1>1, <1>2, <1>3 DEF Ends

LEMMA BytesOfEmpty == BytesOf(<<>>) = 0
<1>1. <<>> \in Seq(Objects) /\ Len(<<>>) = 0
  BY EmptySeq
<1>2. Ends([i \in 0..0 |-> 0], <<>>, 0)
  BY DEF Ends
<1> QED
  BY <1>1, <1>2, BytesOfEnds

\* Objects of the same sizes take the same bytes, whatever their values.
LEMMA BytesOfSame ==
  ASSUME NEW s \in Seq(Objects), NEW t \in Seq(Objects), Len(s) = Len(t),
         \A i \in 1..Len(s) : s[i].key = t[i].key /\ s[i].size = t[i].size
  PROVE  BytesOf(s) = BytesOf(t)
<1>1. PICK end : Ends(end, s, Len(s))
  BY EndsExist
<1>2. Ends(end, t, Len(t))
  BY <1>1 DEF Ends, Bytes
<1> QED
  BY <1>1, <1>2, BytesOfEnds

LEMMA BytesOfAppend ==
  ASSUME NEW s \in Seq(Objects), NEW o \in Objects
  PROVE  BytesOf(Append(s, o)) = BytesOf(s) + Bytes(o)
<1> DEFINE N == Len(s)
           t == Append(s, o)
<1>0. N \in Nat /\ Bytes(o) \in Nat
  BY BytesType
<1>1. t \in Seq(Objects) /\ Len(t) = N + 1 /\ t[N + 1] = o /\ \A i \in 1..N : t[i] = s[i]
  BY AppendProperties
<1>2. PICK end : Ends(end, s, N)
  BY EndsExist
<1>3. BytesOf(s) = end[N]
  BY <1>2, BytesOfEnds
<1> HIDE DEF N, t
<1> DEFINE f == [i \in 0..N + 1 |-> IF i = N + 1 THEN end[N] + Bytes(o) ELSE end[i]]
<1>4. Ends(f, t, N + 1)
  BY <1>0, <1>1, <1>2 DEF Ends
<1>5. f[N + 1] = end[N] + Bytes(o)
  BY <1>0
<1> HIDE DEF f
<1>6. BytesOf(t) = f[N + 1]
  BY <1>1, <1>4, BytesOfEnds
<1> QED
  BY <1>3, <1>5, <1>6 DEF t

\* To write a value changes no size.
LEMMA BytesOfExcept ==
  ASSUME NEW s \in Seq(Objects), NEW i \in 1..Len(s), NEW v \in Values \cup {Partial}
  PROVE  BytesOf([s EXCEPT ![i].value = v]) = BytesOf(s)
<1> DEFINE t == [s EXCEPT ![i].value = v]
<1>1. /\ t \in Seq(Objects) /\ Len(t) = Len(s)
      /\ \A j \in 1..Len(s) : t[j].key = s[j].key
      /\ \A j \in 1..Len(s) : j # i => t[j] = s[j]
      /\ t[i] = [s[i] EXCEPT !.value = v]
  BY ExceptObject
<1>2. \A j \in 1..Len(s) : s[j] \in Objects
  BY ElementOfSeq
<1>3. [s[i] EXCEPT !.value = v].size = s[i].size
  BY <1>2 DEF Objects
<1> HIDE DEF t
<1>4. \A j \in 1..Len(s) : t[j].size = s[j].size
  BY <1>1, <1>3
<1>5. BytesOf(t) = BytesOf(s)
  BY <1>1, <1>4, BytesOfSame
<1> QED
  BY <1>5 DEF t

\* The objects without the one in place h.
Without(s, h) == [i \in 1..Len(s) - 1 |-> IF i < h THEN s[i] ELSE s[i + 1]]

LEMMA WithoutType ==
  ASSUME NEW s \in Seq(Objects), NEW h \in 1..Len(s)
  PROVE  Without(s, h) \in Seq(Objects) /\ Len(Without(s, h)) = Len(s) - 1
<1>1. Len(s) - 1 \in Nat /\ \A i \in 1..Len(s) : s[i] \in Objects
  BY ElementOfSeq
<1>2. Without(s, h) \in [1..Len(s) - 1 -> Objects]
  BY <1>1 DEF Without
<1>3. Without(s, h) \in Seq(Objects)
  BY <1>1, <1>2, IsASeq
<1> QED
  BY <1>1, <1>2, <1>3

LEMMA BytesOfWithout ==
  ASSUME NEW s \in Seq(Objects), NEW h \in 1..Len(s)
  PROVE  BytesOf(s) = BytesOf(Without(s, h)) + Bytes(s[h])
<1> DEFINE N == Len(s)
           t == Without(s, h)
<1>0. N \in Nat /\ h \in 1..N /\ \A i \in 1..N : s[i] \in Objects /\ Bytes(s[i]) \in Nat
  BY ElementOfSeq, BytesType
<1>1. t \in Seq(Objects) /\ Len(t) = N - 1 /\ \A i \in 1..N - 1 : t[i] = IF i < h THEN s[i] ELSE s[i + 1]
  BY WithoutType DEF Without
<1>2. PICK end : Ends(end, s, N)
  BY EndsExist
<1>3. BytesOf(s) = end[N]
  BY <1>2, BytesOfEnds
<1> HIDE DEF N, t
<1> DEFINE f == [i \in 0..N - 1 |-> IF i < h THEN end[i] ELSE end[i + 1] - Bytes(s[h])]
<1>4. \A i \in h..N : end[i] >= Bytes(s[h])
  <2> DEFINE Bad == {i \in h..N : ~(end[i] >= Bytes(s[h]))}
  <2>1. Bad \in SUBSET Nat
    BY <1>0
  <2>2. ASSUME Bad # {} PROVE FALSE
    <3>1. PICK n \in Bad : \A m \in Bad : n <= m
      <4> HIDE DEF Bad
      <4> QED
        BY <2>1, <2>2, Least
    <3>2. n \in 1..N /\ n - 1 \in 0..N /\ end[n] = end[n - 1] + Bytes(s[n])
      BY <1>0, <1>2 DEF Ends
    <3>3. end[n - 1] \in Nat /\ Bytes(s[n]) \in Nat /\ Bytes(s[h]) \in Nat
      BY <1>0, <1>2, <3>2 DEF Ends
    <3>4. CASE n = h
      BY <3>2, <3>3, <3>4
    <3>5. CASE n # h
      <4>1. n - 1 \in h..N /\ n - 1 \notin Bad
        BY <1>0, <3>1, <3>5
      <4> QED
        BY <3>2, <3>3, <4>1
    <3> QED
      BY <3>4, <3>5
  <2> QED
    BY <2>2
<1>5. Ends(f, t, N - 1)
  <2>1. f \in [0..N - 1 -> Nat]
    <3>1. ASSUME NEW i \in 0..N - 1 PROVE f[i] \in Nat
      <4>1. i \in 0..N /\ i + 1 \in 0..N /\ end[i] \in Nat /\ end[i + 1] \in Nat /\ Bytes(s[h]) \in Nat
        BY <1>0, <1>2 DEF Ends
      <4>2. ~(i < h) => end[i + 1] >= Bytes(s[h])
        BY <1>0, <1>4
      <4> QED
        BY <4>1, <4>2
    <3> QED
      BY <3>1
  <2>2. f[0] = 0
    BY <1>0, <1>2 DEF Ends
  <2>3. ASSUME NEW i \in 1..N - 1 PROVE f[i] = f[i - 1] + Bytes(t[i])
    <3>1. i \in 1..N /\ i + 1 \in 1..N /\ i - 1 \in 0..N - 1 /\ i \in 0..N - 1 /\ i \in Int /\ h \in Int
      BY <1>0
    <3>2. /\ end[i] = end[i - 1] + Bytes(s[i])
          /\ end[i + 1] = end[i] + Bytes(s[i + 1])
      <4>1. end[i + 1] = end[(i + 1) - 1] + Bytes(s[i + 1]) /\ (i + 1) - 1 = i
        BY <1>2, <3>1 DEF Ends
      <4> QED
        BY <1>2, <3>1, <4>1 DEF Ends
    <3>3. end[i - 1] \in Nat /\ Bytes(s[i]) \in Nat /\ Bytes(s[i + 1]) \in Nat /\ Bytes(s[h]) \in Nat
      <4>1. i - 1 \in 0..N /\ end \in [0..N -> Nat]
        BY <1>0, <1>2, <3>1 DEF Ends
      <4> QED
        BY <1>0, <3>1, <4>1
    <3>4. /\ f[i] = IF i < h THEN end[i] ELSE end[i + 1] - Bytes(s[h])
          /\ f[i - 1] = IF i - 1 < h THEN end[i - 1] ELSE end[i] - Bytes(s[h])
          /\ t[i] = IF i < h THEN s[i] ELSE s[i + 1]
      <4>1. (i - 1) + 1 = i
        BY <3>1
      <4> QED
        BY <1>1, <3>1, <4>1
    <3> HIDE DEF f
    <3>5. CASE i < h
      BY <3>1, <3>2, <3>4, <3>5
    <3>6. CASE i = h
      BY <3>1, <3>2, <3>3, <3>4, <3>6
    <3>7. CASE i > h
      BY <3>1, <3>2, <3>3, <3>4, <3>7
    <3> QED
      BY <3>1, <3>5, <3>6, <3>7
  <2> HIDE DEF f
  <2> QED
    BY <2>1, <2>2, <2>3 DEF Ends
<1>6. f[N - 1] = end[N] - Bytes(s[h])
  BY <1>0, <1>2 DEF Ends
<1> HIDE DEF f
<1>7. BytesOf(t) = f[N - 1]
  BY <1>1, <1>5, BytesOfEnds
<1>8. end[N] \in Nat /\ Bytes(s[h]) \in Nat
  BY <1>0, <1>2 DEF Ends
<1> QED
  BY <1>3, <1>6, <1>7, <1>8 DEF t

------------------------------------------------------------------------------
(* The inductive invariant. *)

\* The size in RAM, by where the clients are.  A client that appends has yet to count
\* the value; one that deletes has yet to take the object off, of which the hole is
\* all that is left, so that what is behind the hole counts.
BufferSize ==
  /\ (\A c \in Clients : pc[c] \notin {"append", "shift"}) /\ Running =>
       m_flash_buffer_size = BytesOf(m_flash_buffer)
  /\ \A c \in Clients : pc[c] = "append" =>
       m_flash_buffer_size + object[c].size = BytesOf(m_flash_buffer)
  /\ \A c \in Clients : pc[c] = "shift" =>
       m_flash_buffer_size = BytesOf(Without(m_flash_buffer, object[c].index))
                             + ObjectSize(call[c].key, object[c].size)

\* The size of what goes to the flash, and of what is there.
PayloadSizes == \A p \in {stored, submitted} \ {NoPayload, Damaged} : p.size = BytesOf(p.objects)

Sizes == BufferSize /\ PayloadSizes

LEMMA BufferSizeKept ==
  ASSUME BufferSize, UNCHANGED <<m_flash_buffer, m_flash_buffer_size>>, Running' => Running,
         \A d \in Clients :
           \/ pc'[d] = pc[d] /\ call'[d] = call[d] /\ object'[d] = object[d]
           \/ pc[d] \notin {"append", "shift"} /\ pc'[d] \notin {"append", "shift"}
  PROVE  BufferSize'
<1>1. /\ m_flash_buffer' = m_flash_buffer /\ m_flash_buffer_size' = m_flash_buffer_size
      /\ \A d \in Clients : pc'[d] \in {"append", "shift"} => pc'[d] = pc[d] /\ call'[d] = call[d] /\ object'[d] = object[d]
      /\ (\A d \in Clients : pc'[d] \notin {"append", "shift"}) => (\A d \in Clients : pc[d] \notin {"append", "shift"})
  OBVIOUS
<1> QED
  BY <1>1 DEF BufferSize

\* A client that changes the buffer does so alone.
LEMMA AloneInBuffer ==
  ASSUME TypeOK, Invariant, NEW c \in Clients, ClientStep(c), Working(c)
  PROVE  /\ \A d \in Clients \ {c} : pc[d] \notin {"append", "shift"} /\ pc'[d] \notin {"append", "shift"}
         /\ Running
         /\ m_flash_buffer \in Seq(Objects) /\ m_flash_buffer_size \in Int
<1>1. \A d \in Clients \ {c} : ~Working(d) /\ pc'[d] = pc[d]
  BY Alone, OthersStay DEF Invariant
<1>2. Running
  BY OthersStay DEF Invariant, Places
<1> QED
  BY <1>1, <1>2 DEF Working, TypeOK

LEMMA WriteExistingSize ==
  ASSUME TypeOK, Invariant, BufferSize, NEW c \in Clients, WriteExisting(c)
  PROVE  BufferSize'
<1> DEFINE b == m_flash_buffer
           i == Found(c)
<1>1. ClientStep(c) /\ Working(c) /\ pc[c] = "Write" /\ pc'[c] = "copy"
  BY DEF WriteExisting, ClientStep, Working, TypeOK
<1>2. \A d \in Clients : pc[d] \notin {"append", "shift"} /\ pc'[d] \notin {"append", "shift"}
  BY <1>1, AloneInBuffer
<1>3. b \in Seq(Objects) /\ UniqueKeys(b)
  BY InOrder DEF Invariant, WriteExisting, Operations, TypeOK
<1>4. i \in 1..Len(b)
  BY <1>3, FindUnique DEF WriteExisting, Found
<1>5. b' = [b EXCEPT ![i].value = Partial] /\ m_flash_buffer_size' = m_flash_buffer_size
  BY DEF WriteExisting
<1> HIDE DEF i
<1>6. Partial \in Values \cup {Partial}
  OBVIOUS
<1>7. BytesOf(b') = BytesOf(b)
  BY <1>3, <1>4, <1>5, <1>6, BytesOfExcept
<1>8. m_flash_buffer_size = BytesOf(b)
  BY <1>1, <1>2, AloneInBuffer DEF BufferSize
<1> QED
  BY <1>2, <1>5, <1>7, <1>8 DEF BufferSize

LEMMA WriteNewSize ==
  ASSUME TypeOK, Invariant, BufferSize, NEW c \in Clients, WriteNew(c)
  PROVE  BufferSize'
<1> DEFINE b == m_flash_buffer
           n == [key |-> call[c].key, size |-> ValueSize[call[c].value], value |-> Partial]
<1>1. ClientStep(c) /\ Working(c) /\ pc[c] = "Write" /\ pc'[c] = "append"
  BY DEF WriteNew, ClientStep, Working, TypeOK
<1>2. /\ \A d \in Clients : pc[d] \notin {"append", "shift"}
      /\ \A d \in Clients \ {c} : pc'[d] \notin {"append", "shift"}
  BY <1>1, AloneInBuffer
<1>3. b \in Seq(Objects) /\ m_flash_buffer_size \in Int
  BY DEF TypeOK
<1>4. call[c].key \in Keys /\ call[c].value \in Values
  BY DEF WriteNew, Invariant, Calls, Operations
<1>5. NameSize[call[c].key] \in Nat /\ ValueSize[call[c].value] \in Nat
  BY <1>4, NumberTypes
<1>6. n \in Objects /\ Bytes(n) = 1 + NameSize[call[c].key] + 1 + ValueSize[call[c].value]
  BY <1>4, <1>5 DEF Objects, Bytes, ObjectSize
<1>7. b' = Append(b, n) /\ m_flash_buffer_size' = m_flash_buffer_size + 1 + NameSize[call[c].key] + 1
  BY DEF WriteNew
<1>8. object'[c].size = ValueSize[call[c].value]
  BY DEF WriteNew, TypeOK
<1> HIDE DEF n
<1>9. BytesOf(b') = BytesOf(b) + Bytes(n)
  BY <1>3, <1>6, <1>7, BytesOfAppend
<1>10. m_flash_buffer_size = BytesOf(b)
  BY <1>1, <1>2, AloneInBuffer DEF BufferSize
<1>11. m_flash_buffer_size' + object'[c].size = BytesOf(b')
  <2>1. Bytes(n) = 1 + NameSize[call[c].key] + 1 + ValueSize[call[c].value]
    BY <1>6
  <2>2. m_flash_buffer_size' = m_flash_buffer_size + 1 + NameSize[call[c].key] + 1
    BY <1>7
  <2>3. m_flash_buffer_size \in Int
    BY <1>3
  <2> QED
    BY <1>5, <1>8, <1>9, <1>10, <2>1, <2>2, <2>3
<1> QED
  BY <1>1, <1>2, <1>11 DEF BufferSize

LEMMA CopyValueSize ==
  ASSUME TypeOK, Invariant, BufferSize, NEW c \in Clients, CopyValue(c)
  PROVE  BufferSize'
<1> DEFINE b == m_flash_buffer
           i == object[c].index
<1>1. ClientStep(c) /\ Working(c) /\ pc[c] \in {"copy", "append"} /\ pc'[c] = "dirty"
  BY DEF CopyValue, ClientStep, Working, TypeOK
<1>2. /\ \A d \in Clients \ {c} : pc[d] \notin {"append", "shift"}
      /\ \A d \in Clients : pc'[d] \notin {"append", "shift"}
  BY <1>1, AloneInBuffer
<1>3. b \in Seq(Objects) /\ i \in 1..Len(b) /\ call[c].value \in Values
  BY <1>1, ObjectInBuffer DEF Invariant, Calls
<1>4. b' = [b EXCEPT ![i].value = call[c].value]
  BY DEF CopyValue
<1> HIDE DEF i
<1>6. BytesOf(b') = BytesOf(b)
  BY <1>3, <1>4, BytesOfExcept
<1>7. m_flash_buffer_size' = BytesOf(b)
  <2>1. CASE pc[c] = "append"
    BY <2>1 DEF BufferSize, CopyValue
  <2>2. CASE pc[c] = "copy"
    <3>1. m_flash_buffer_size = BytesOf(b)
      BY <1>1, <1>2, <2>2, AloneInBuffer DEF BufferSize
    <3> QED
      BY <2>2, <3>1 DEF CopyValue
  <2> QED
    BY <1>1, <2>1, <2>2
<1> QED
  BY <1>2, <1>6, <1>7 DEF BufferSize

LEMMA DeleteFindSize ==
  ASSUME TypeOK, Invariant, BufferSize, NEW c \in Clients, DeleteFind(c)
  PROVE  BufferSize'
<1> DEFINE b == m_flash_buffer
           i == Found(c)
<1>1. ClientStep(c) /\ Working(c) /\ pc[c] = "Delete"
  BY DEF DeleteFind, ClientStep, Working
<1>2. /\ \A d \in Clients : pc[d] \notin {"append", "shift"}
      /\ \A d \in Clients \ {c} : pc'[d] \notin {"append", "shift"}
  BY <1>1, AloneInBuffer
<1>3. b \in Seq(Objects) /\ UniqueKeys(b)
  BY InOrder DEF Invariant, DeleteFind, Operations, TypeOK
<1>4. m_flash_buffer_size = BytesOf(b)
  BY <1>1, <1>2, AloneInBuffer DEF BufferSize
<1>5. b' = b /\ m_flash_buffer_size' = m_flash_buffer_size
  BY DEF DeleteFind, bufferVars
<1>6. CASE i = 0
  <2>1. pc'[c] = "unlock"
    BY <1>6 DEF DeleteFind, TypeOK
  <2> QED
    BY <1>2, <1>4, <1>5, <2>1 DEF BufferSize
<1>7. CASE i # 0
  <2>1. pc'[c] = "shift" /\ call'[c] = call[c] /\ object'[c] = [index |-> i, size |-> b[i].size]
    BY <1>7 DEF DeleteFind, TypeOK
  <2>2. i \in 1..Len(b) /\ b[i].key = call[c].key
    BY <1>3, <1>7, FindUnique DEF Found
  <2> HIDE DEF i
  <2>3. BytesOf(b) = BytesOf(Without(b, i)) + Bytes(b[i])
    BY <1>3, <2>2, BytesOfWithout
  <2>4. Bytes(b[i]) = ObjectSize(call'[c].key, object'[c].size) /\ object'[c].index = i
    BY <2>1, <2>2 DEF Bytes
  <2> QED
    BY <1>2, <1>4, <1>5, <2>1, <2>3, <2>4 DEF BufferSize
<1> QED
  BY <1>6, <1>7

LEMMA DeleteShiftSize ==
  ASSUME TypeOK, Invariant, BufferSize, NEW c \in Clients, DeleteShift(c)
  PROVE  BufferSize'
<1> DEFINE b == m_flash_buffer
           h == object[c].index
<1>1. ClientStep(c) /\ Working(c) /\ pc[c] = "shift" /\ pc'[c] = "shift"
  BY DEF DeleteShift, ClientStep, Working
<1>2. \A d \in Clients \ {c} : pc'[d] \notin {"append", "shift"}
  BY <1>1, AloneInBuffer
<1>3. b \in Seq(Objects) /\ Len(b) \in Nat /\ h \in 1..Len(b) /\ h + 1 \in 1..Len(b)
  BY <1>1, ObjectInBuffer DEF Invariant, DeleteShift
<1>4. b' = [b EXCEPT ![h] = b[h + 1]] /\ m_flash_buffer_size' = m_flash_buffer_size
  BY DEF DeleteShift
<1>5. call'[c] = call[c] /\ object'[c].index = h + 1 /\ object'[c].size = object[c].size
  BY DEF DeleteShift, TypeOK
<1> HIDE DEF h
<1>6. b[h + 1] \in Objects
  BY <1>3, ElementOfSeq
<1>7. Len(b') = Len(b) /\ \A j \in 1..Len(b) : b'[j] = IF j = h THEN b[h + 1] ELSE b[j]
  BY <1>3, <1>4, <1>6, ExceptSeq
\* The hole moves up and the rest stays.
<1>8. Without(b', h + 1) = Without(b, h)
  <2>1. \A j \in 1..Len(b) - 1 : (IF j < h + 1 THEN b'[j] ELSE b'[j + 1]) = IF j < h THEN b[j] ELSE b[j + 1]
    <3> SUFFICES ASSUME NEW j \in 1..Len(b) - 1
                 PROVE  (IF j < h + 1 THEN b'[j] ELSE b'[j + 1]) = IF j < h THEN b[j] ELSE b[j + 1]
      OBVIOUS
    <3>1. j \in 1..Len(b) /\ j + 1 \in 1..Len(b) /\ j \in Int /\ h \in Int
      BY <1>3
    <3>2. b'[j] = (IF j = h THEN b[h + 1] ELSE b[j]) /\ b'[j + 1] = IF j + 1 = h THEN b[h + 1] ELSE b[j + 1]
      BY <1>7, <3>1
    <3>3. CASE j < h
      BY <3>1, <3>2, <3>3
    <3>4. CASE j = h
      BY <3>1, <3>2, <3>4
    <3>5. CASE j > h
      BY <3>1, <3>2, <3>5
    <3> QED
      BY <3>1, <3>3, <3>4, <3>5
  <2> QED
    BY <1>7, <2>1 DEF Without
<1>9. m_flash_buffer_size = BytesOf(Without(b, h)) + ObjectSize(call[c].key, object[c].size)
  BY <1>1 DEF BufferSize, h
<1> QED
  BY <1>1, <1>2, <1>4, <1>5, <1>8, <1>9 DEF BufferSize

LEMMA DeleteEndSize ==
  ASSUME TypeOK, Invariant, BufferSize, NEW c \in Clients, DeleteEnd(c)
  PROVE  BufferSize'
<1> DEFINE b == m_flash_buffer
           h == object[c].index
           gone == ObjectSize(call[c].key, object[c].size)
<1>1. ClientStep(c) /\ Working(c) /\ pc[c] = "shift" /\ pc'[c] = "unlock"
  BY DEF DeleteEnd, ClientStep, Working, TypeOK
<1>2. \A d \in Clients : pc'[d] \notin {"append", "shift"}
  BY <1>1, AloneInBuffer
<1>3. b \in Seq(Objects) /\ Len(b) \in Nat /\ h \in 1..Len(b) /\ h = Len(b)
  BY <1>1, ObjectInBuffer DEF Invariant, DeleteEnd
<1>4. b' = SubSeq(b, 1, Len(b) - 1) /\ m_flash_buffer_size' = m_flash_buffer_size - gone
  BY DEF DeleteEnd
<1>5. m_flash_buffer_size = BytesOf(Without(b, h)) + gone
  BY <1>1 DEF BufferSize
<1>6. gone \in Int
  BY <1>1, NumberTypes DEF Invariant, Calls, ObjectSize
<1> HIDE DEF h, gone
\* The hole is the last place: to cut it is to leave it out.
<1>7. Without(b, h) \in Seq(Objects) /\ Len(Without(b, h)) = Len(b) - 1 /\ BytesOf(Without(b, h)) \in Nat
  BY <1>3, WithoutType, BytesOfType
<1>8. Len(b') = Len(b) - 1 /\ (\A j \in 1..Len(b) - 1 : b'[j] = b[j]) /\ b' \in Seq(Objects)
  <2>1. \A j \in 1..Len(b) : b[j] \in Objects
    BY <1>3, ElementOfSeq
  <2>2. SubSeq(b, 1, Len(b) - 1) \in Seq(Objects)
    BY <1>3, <2>1, SubSeqProperties
  <2> QED
    BY <1>3, <1>4, <2>2, CutLast
<1>9. \A j \in 1..Len(b) - 1 : Without(b, h)[j] = b[j]
  BY <1>3 DEF Without
<1>10. BytesOf(b') = BytesOf(Without(b, h))
  BY <1>7, <1>8, <1>9, BytesOfSame
<1> QED
  BY <1>2, <1>4, <1>5, <1>6, <1>7, <1>10 DEF BufferSize

LEMMA BufferSizeNext ==
  ASSUME TypeOK, Invariant, Sizes, Next
  PROVE  BufferSize'
<1>0. BufferSize /\ PayloadSizes
  BY DEF Sizes
<1>1. ASSUME NEW c \in Clients, ClientStep(c) PROVE BufferSize'
  <2>1. CASE Lock(c) \/ Unlock(c) \/ WriteOtherSize(c) \/ WriteNoSpace(c) \/ NeedUpdateFlash(c) \/ Read(c) \/ IsExist(c)
    <3>1. UNCHANGED <<m_flash_buffer, m_flash_buffer_size>>
      BY <2>1 DEF Lock, Unlock, WriteOtherSize, WriteNoSpace, NeedUpdateFlash, Read, IsExist, bufferVars
    <3>2. pc[c] \notin {"append", "shift"}
      BY <2>1 DEF Lock, Unlock, WriteOtherSize, WriteNoSpace, NeedUpdateFlash, Read, IsExist
    <3>3. Lock(c) => pc'[c] \in Operations
      BY DEF Lock, Invariant, Calls, TypeOK
    <3>4. pc'[c] \notin {"append", "shift"}
      BY <2>1, <3>3 DEF Unlock, WriteOtherSize, WriteNoSpace, Return, NeedUpdateFlash, Read, IsExist, TypeOK, Operations
    <3> QED
      BY <1>0, <1>1, <3>1, <3>2, <3>4, OthersStay, BufferSizeKept
  <2> QED
    BY <1>0, <1>1, <2>1, WriteExistingSize, WriteNewSize, CopyValueSize, DeleteFindSize, DeleteShiftSize,
       DeleteEndSize DEF ClientStep
<1>2. ASSUME NEW c \in Clients, NEW op, NEW k, NEW v, Call(c, op, k, v) PROVE BufferSize'
  BY <1>0, <1>2, BufferSizeKept DEF Call, TypeOK, bufferVars
<1>3. PowerFailure => BufferSize'
  BY DEF PowerFailure, RamLost, BufferSize
<1>4. Boot => BufferSize'
  <2>0. CASE Boot /\ stored = Damaged
    BY <1>0, <2>0, BufferSizeKept DEF Boot, LoadDamaged, clientVars, callVars, bufferVars
  <2> SUFFICES ASSUME Boot, stored # Damaged PROVE BufferSize'
    BY <2>0
  <2>1. \A d \in Clients : pc'[d] = "idle"
    BY DEF Boot, Load
  <2>2. m_flash_buffer_size' = BytesOf(m_flash_buffer')
    <3>1. CASE stored = NoPayload
      BY <3>1, BytesOfEmpty DEF Boot, Load, EmptyPayload
    <3>2. CASE stored # NoPayload
      BY <1>0, <3>2 DEF Boot, Load, EmptyPayload, PayloadSizes
    <3> QED
      BY <3>1, <3>2
  <2> QED
    BY <2>1, <2>2 DEF BufferSize
<1>5. TaskStep \/ TimerExpired \/ StartTask \/ EraseInWrite \/ WriteToFlashFails => BufferSize'
  BY <1>0, BufferSizeKept DEF TaskStep, Pull, CheckFlag, LockForFlush, WriteSnapshot, UnlockAfterWrite, WriteToFlash,
     TimerExpired, StartTask, EraseInWrite, WriteToFlashFails, clientVars, callVars, bufferVars
<1> QED
  BY <1>1, <1>2, <1>3, <1>4, <1>5 DEF Next

LEMMA PayloadSizesNext ==
  ASSUME TypeOK, Invariant, Sizes, Next
  PROVE  PayloadSizes'
<1>0. BufferSize /\ PayloadSizes
  BY DEF Sizes
<1>1. ASSUME NEW c \in Clients, ClientStep(c) PROVE PayloadSizes'
  BY <1>0, <1>1, OthersStay DEF PayloadSizes, flashVars
<1>2. WriteSnapshot => PayloadSizes'
  <2> SUFFICES ASSUME WriteSnapshot PROVE PayloadSizes'
    OBVIOUS
  <2>1. \A c \in Clients : ~Working(c)
    BY RegistryAssumption DEF WriteSnapshot, Invariant, Exclusive
  <2>2. m_flash_buffer_size = BytesOf(m_flash_buffer)
    BY <1>0, <2>1 DEF WriteSnapshot, BufferSize, Working
  <2> QED
    BY <1>0, <2>2 DEF WriteSnapshot, Flash!Submit, Image, Snapshot, PayloadSizes
<1>3. Pull \/ CheckFlag \/ LockForFlush \/ UnlockAfterWrite \/ TimerExpired \/ StartTask \/ Boot => PayloadSizes'
  BY <1>0 DEF Pull, CheckFlag, LockForFlush, UnlockAfterWrite, TimerExpired, StartTask, Boot, PayloadSizes, flashVars
<1>4. WriteToFlash \/ WriteToFlashFails \/ EraseInWrite \/ PowerFailure => PayloadSizes'
  BY <1>0 DEF WriteToFlash, WriteToFlashFails, EraseInWrite, PowerFailure, RamLost, Flash!Commit, Flash!CommitUnnoticed, Flash!Abandon, Flash!Lose,
     PayloadSizes
<1>5. ASSUME NEW c \in Clients, NEW op, NEW k, NEW v, Call(c, op, k, v) PROVE PayloadSizes'
  BY <1>0, <1>5 DEF Call, PayloadSizes, flashVars
<1> QED
  BY <1>1, <1>2, <1>3, <1>4, <1>5 DEF Next, TaskStep

LEMMA InitSizes == Init => Sizes
BY BytesOfEmpty DEF Init, Flash!Init, Sizes, BufferSize, PayloadSizes

LEMMA NextSizes == IInv /\ Sizes /\ [Next]_vars => Sizes'
<1> SUFFICES ASSUME IInv, Sizes, [Next]_vars PROVE Sizes'
  OBVIOUS
<1>1. CASE Next
  BY <1>1, BufferSizeNext, PayloadSizesNext DEF IInv, Sizes
<1>2. CASE UNCHANGED vars
  <2>1. UNCHANGED <<pc, call, object, task, m_flash_buffer, m_flash_buffer_size, stored, submitted>>
    BY <1>2 DEF vars, clientVars, callVars, bufferVars, flashVars
  <2>2. PayloadSizes'
    BY <2>1 DEF Sizes, PayloadSizes
  <2> QED
    BY <2>1, <2>2, BufferSizeKept DEF Sizes
<1> QED
  BY <1>1, <1>2

LEMMA SizesAlways == Spec => []Sizes
BY InitSizes, NextSizes, Always, PTL DEF Spec

\* The size the constructor trusts is the one of the objects, in RAM and on the flash:
\* the parts of it that Write and Delete add and take off at different times, under
\* whatever else runs, always make up the whole.
THEOREM SizeIsRight == Spec => []SizeMatches
<1>1. Sizes => SizeMatches
  BY DEF Sizes, BufferSize, PayloadSizes, SizeMatches
<1> QED
  BY <1>1, SizesAlways, PTL

------------------------------------------------------------------------------
(* How far the registry outgrows the flash. *)

LEMMA NearlyFitsLess ==
  ASSUME NEW m \in Int, NEW n \in Int, m <= n, NearlyFits(n)
  PROVE  NearlyFits(m)
<1>1. MaxFlashSize \in Int /\ \A k \in Keys : ObjectSize(k, 0) \in Int
  BY RegistryAssumption DEF ObjectSize
<1> QED
  BY <1>1 DEF NearlyFits

\* What a start will load fits.
SavedFit == \A p \in {stored, submitted} \ {NoPayload, Damaged} : p.size <= MaxFlashSize

Overrun == OverrunBounded /\ SavedFit

LEMMA OverrunKept ==
  ASSUME Overrun, m_flash_buffer_size' = m_flash_buffer_size,
         \A d \in Clients : pc'[d] = "append" => pc[d] = "append" /\ object'[d] = object[d],
         {stored', submitted'} \subseteq {stored, submitted, NoPayload}
  PROVE  Overrun'
<1>1. SavedFit'
  BY DEF Overrun, SavedFit
<1>2. \A d \in Clients : pc'[d] = "append" => NearlyFits(m_flash_buffer_size' + object'[d].size)
  BY DEF Overrun, OverrunBounded
<1>3. NearlyFits(m_flash_buffer_size')
  BY DEF Overrun, OverrunBounded
<1> QED
  BY <1>1, <1>2, <1>3 DEF Overrun, OverrunBounded, NearlyFits

\* A client changes the size, alone.
LEMMA OverrunByClient ==
  ASSUME TypeOK, Invariant, Overrun, NEW c \in Clients, ClientStep(c), Working(c),
         NearlyFits(m_flash_buffer_size'),
         pc'[c] = "append" => NearlyFits(m_flash_buffer_size' + object'[c].size)
  PROVE  Overrun'
<1>1. \A d \in Clients \ {c} : pc'[d] # "append"
  BY AloneInBuffer
<1>2. stored' = stored /\ submitted' = submitted
  BY OthersStay DEF flashVars
<1>3. SavedFit'
  BY <1>2 DEF Overrun, SavedFit
<1> QED
  BY <1>1, <1>3 DEF Overrun, OverrunBounded, NearlyFits

LEMMA OverrunNext ==
  ASSUME TypeOK, Invariant, Overrun, Next
  PROVE  Overrun'
<1>0. m_flash_buffer_size \in Int /\ \A c \in Clients : object[c].size \in Nat
  BY DEF TypeOK
<1>1. ASSUME NEW c \in Clients, ClientStep(c) PROVE Overrun'
  <2>0. UNCHANGED <<stored, submitted>> /\ \A d \in Clients \ {c} : pc'[d] = pc[d] /\ object'[d] = object[d]
    BY <1>1, OthersStay DEF flashVars
  <2>1. CASE WriteNew(c)
    <3> DEFINE key == call[c].key
               size == ValueSize[call[c].value]
    <3>1. pc[c] = "Write" /\ Working(c) /\ key \in Keys /\ call[c].value \in Values
      BY <2>1 DEF WriteNew, Working, Invariant, Calls, Operations
    <3>2. size \in Nat /\ NameSize[key] \in Nat /\ MaxFlashSize \in Nat
      BY <3>1, NumberTypes, RegistryAssumption
    <3>3. /\ size + m_flash_buffer_size <= MaxFlashSize
          /\ m_flash_buffer_size' = m_flash_buffer_size + 1 + NameSize[key] + 1
      BY <2>1 DEF WriteNew
    <3>4. object'[c].size = size
      BY <2>1 DEF WriteNew, TypeOK
    <3> HIDE DEF size
    <3>5. /\ m_flash_buffer_size' <= MaxFlashSize + (1 + NameSize[key] + 1 + 0)
          /\ m_flash_buffer_size' + size <= MaxFlashSize + (1 + NameSize[key] + 1 + 0)
      BY <1>0, <3>2, <3>3
    <3>6. NearlyFits(m_flash_buffer_size') /\ NearlyFits(m_flash_buffer_size' + object'[c].size)
      BY <3>1, <3>4, <3>5 DEF NearlyFits, ObjectSize
    <3> QED
      BY <1>1, <3>1, <3>6, OverrunByClient
  <2>2. CASE CopyValue(c)
    <3>1. Working(c) /\ pc'[c] # "append"
      BY <2>2 DEF CopyValue, Working, TypeOK
    <3>2. NearlyFits(m_flash_buffer_size')
      BY <2>2 DEF CopyValue, Overrun, OverrunBounded
    <3> QED
      BY <1>1, <3>1, <3>2, OverrunByClient
  <2>3. CASE DeleteEnd(c)
    <3>1. Working(c) /\ pc'[c] # "append" /\ call[c].key \in Keys
      BY <2>3 DEF DeleteEnd, Working, TypeOK, Invariant, Calls
    <3>2. ObjectSize(call[c].key, object[c].size) \in Nat
      BY <1>0, <3>1, NumberTypes DEF ObjectSize
    <3>3. m_flash_buffer_size' \in Int /\ m_flash_buffer_size' <= m_flash_buffer_size
      BY <1>0, <2>3, <3>2 DEF DeleteEnd
    <3>4. NearlyFits(m_flash_buffer_size')
      BY <1>0, <3>3, NearlyFitsLess DEF Overrun, OverrunBounded
    <3> QED
      BY <1>1, <3>1, <3>4, OverrunByClient
  <2>4. CASE Lock(c)
    <3>1. pc'[c] \in Operations
      BY <2>4 DEF Lock, Invariant, Calls, TypeOK
    <3>2. pc'[c] # "append" /\ m_flash_buffer_size' = m_flash_buffer_size
      BY <2>4, <3>1 DEF Lock, Operations, bufferVars
    <3> QED
      BY <2>0, <3>2, OverrunKept
  <2>5. CASE Unlock(c) \/ WriteOtherSize(c) \/ WriteNoSpace(c) \/ WriteExisting(c) \/ NeedUpdateFlash(c) \/ Read(c)
               \/ IsExist(c) \/ DeleteFind(c) \/ DeleteShift(c)
    <3>1. m_flash_buffer_size' = m_flash_buffer_size
      BY <2>5 DEF Unlock, WriteOtherSize, WriteNoSpace, WriteExisting, NeedUpdateFlash, Read, IsExist, DeleteFind,
         DeleteShift, bufferVars
    <3>2. pc'[c] # "append"
      BY <2>5 DEF Unlock, WriteOtherSize, WriteNoSpace, WriteExisting, NeedUpdateFlash, Read, IsExist, DeleteFind,
         DeleteShift, Return, TypeOK
    <3> QED
      BY <2>0, <3>1, <3>2, OverrunKept
  <2> QED
    BY <1>1, <2>1, <2>2, <2>3, <2>4, <2>5 DEF ClientStep
<1>2. ASSUME NEW c \in Clients, NEW op, NEW k, NEW v, Call(c, op, k, v) PROVE Overrun'
  BY <1>2, OverrunKept DEF Call, TypeOK, bufferVars, flashVars
<1>3. PowerFailure => Overrun'
  <2> SUFFICES ASSUME PowerFailure PROVE Overrun'
    OBVIOUS
  <2>1. NearlyFits(m_flash_buffer_size')
    BY RegistryAssumption DEF PowerFailure, RamLost, NearlyFits
  <2>2. \A d \in Clients : pc'[d] # "append"
    BY DEF PowerFailure, RamLost
  <2>3. {stored', submitted'} \subseteq {stored, NoPayload}
    BY DEF PowerFailure, RamLost, Flash!Abandon, Flash!Lose
  <2>4. SavedFit'
    BY <2>3 DEF Overrun, SavedFit
  <2> QED
    BY <2>1, <2>2, <2>4 DEF Overrun, OverrunBounded, NearlyFits
<1>4. Boot => Overrun'
  <2>0. CASE Boot /\ stored = Damaged
    BY <2>0, OverrunKept DEF Boot, LoadDamaged, clientVars, callVars, bufferVars, flashVars
  <2> SUFFICES ASSUME Boot, stored # Damaged PROVE Overrun'
    BY <2>0
  <2>1. NearlyFits(m_flash_buffer_size')
    <3>1. CASE stored = NoPayload
      BY <3>1, RegistryAssumption DEF Boot, Load, EmptyPayload, NearlyFits
    <3>2. CASE stored # NoPayload
      BY <3>2 DEF Boot, Load, Overrun, SavedFit, NearlyFits
    <3> QED
      BY <3>1, <3>2
  <2>2. \A d \in Clients : pc'[d] # "append"
    BY DEF Boot, Load
  <2>3. SavedFit'
    BY DEF Boot, flashVars, Overrun, SavedFit
  <2> QED
    BY <2>1, <2>2, <2>3 DEF Overrun, OverrunBounded, NearlyFits
<1>5. Pull \/ CheckFlag \/ LockForFlush \/ UnlockAfterWrite \/ TimerExpired \/ StartTask => Overrun'
  BY OverrunKept DEF Pull, CheckFlag, LockForFlush, UnlockAfterWrite, TimerExpired, StartTask, clientVars, callVars,
     bufferVars, flashVars
<1>6. WriteToFlash \/ WriteToFlashFails \/ EraseInWrite => Overrun'
  BY OverrunKept DEF WriteToFlash, WriteToFlashFails, EraseInWrite, Flash!Commit, Flash!CommitUnnoticed, Flash!Abandon, Flash!Lose,
     clientVars, callVars, bufferVars
<1>7. WriteSnapshot => Overrun'
  <2> SUFFICES ASSUME WriteSnapshot PROVE Overrun'
    OBVIOUS
  <2>1. stored' = stored /\ submitted' = Image
    BY DEF WriteSnapshot, Flash!Submit
  <2>2. SavedFit'
    BY <2>1 DEF Overrun, SavedFit, Image, Snapshot
  <2>3. UNCHANGED <<pc, object, m_flash_buffer_size>>
    BY DEF WriteSnapshot, clientVars, callVars
  <2> QED
    BY <2>2, <2>3 DEF Overrun, OverrunBounded, NearlyFits
<1> QED
  BY <1>1, <1>2, <1>3, <1>4, <1>5, <1>6, <1>7 DEF Next, TaskStep

\* Write refuses a value that does not fit, and forgets to count the name: the registry
\* outgrows the flash by one name and two sizes, and never by more, however many calls,
\* flushes and restarts follow each other.
THEOREM OverrunIsBounded == Spec => []OverrunBounded
<1>1. Init => Overrun
  BY RegistryAssumption DEF Init, Flash!Init, Overrun, OverrunBounded, NearlyFits, SavedFit
<1>2. IInv /\ Overrun /\ [Next]_vars => Overrun'
  <2> SUFFICES ASSUME IInv, Overrun, [Next]_vars PROVE Overrun'
    OBVIOUS
  <2>1. CASE Next
    BY <2>1, OverrunNext DEF IInv
  <2>2. CASE UNCHANGED vars
    BY <2>2, OverrunKept DEF vars, clientVars, callVars, bufferVars, flashVars
  <2> QED
    BY <2>1, <2>2
<1>3. Overrun => OverrunBounded
  BY DEF Overrun
<1> QED
  BY <1>1, <1>2, <1>3, Always, PTL DEF Spec

------------------------------------------------------------------------------
(* What holds when the objects of all keys fit in the flash. *)

\* Each object has the size of a value.
KnownSize(size) == \E v \in Values : size = ValueSize[v]

Known(objects) == \A i \in 1..Len(objects) : KnownSize(objects[i].size)

KnownSizes ==
  /\ Known(m_flash_buffer)
  /\ \A c \in Clients : pc[c] = "shift" => KnownSize(object[c].size)
  /\ \A p \in {stored, submitted} \ {NoPayload, Damaged} : Known(p.objects)
  /\ ~Running => m_flash_buffer_size = 0

\* There are room bytes for the object of each key.
Room(room) ==
  /\ IsFiniteSet(Keys)
  /\ room \in Nat
  /\ \A k \in Keys, v \in Values : ObjectSize(k, ValueSize[v]) <= room
  /\ Cardinality(Keys) * room <= MaxFlashSize

LEMMA KnownExcept ==
  ASSUME NEW s \in Seq(Objects), NEW i \in 1..Len(s), NEW v \in Values \cup {Partial}, Known(s)
  PROVE  Known([s EXCEPT ![i].value = v])
<1> DEFINE t == [s EXCEPT ![i].value = v]
<1>1. /\ Len(t) = Len(s)
      /\ \A j \in 1..Len(s) : j # i => t[j] = s[j]
      /\ t[i] = [s[i] EXCEPT !.value = v]
  BY ExceptObject
<1>2. s[i] \in Objects
  BY ElementOfSeq
<1> HIDE DEF t
<1>3. t[i].size = s[i].size
  BY <1>1, <1>2 DEF Objects
<1>4. Known(t)
  BY <1>1, <1>3 DEF Known
<1> QED
  BY <1>4 DEF t

LEMMA KnownByClient ==
  ASSUME TypeOK, Invariant, Known(m_flash_buffer), NEW c \in Clients, ClientStep(c)
  PROVE  Known(m_flash_buffer')
<1> DEFINE b == m_flash_buffer
<1>0. b \in Seq(Objects) /\ Len(b) \in Nat
  BY DEF TypeOK
<1>1. CASE WriteExisting(c)
  <2> DEFINE i == Found(c)
  <2>1. i # 0 /\ b' = [b EXCEPT ![i].value = Partial] /\ pc[c] = "Write"
    BY <1>1 DEF WriteExisting
  <2>2. i \in 1..Len(b)
    BY <2>1, InOrder, FindUnique DEF Operations, Invariant, Found, TypeOK
  <2> HIDE DEF i
  <2> QED
    BY <1>0, <2>1, <2>2, KnownExcept
<1>2. CASE CopyValue(c)
  <2> DEFINE i == object[c].index
  <2>1. b' = [b EXCEPT ![i].value = call[c].value] /\ pc[c] \in {"copy", "append"}
    BY <1>2 DEF CopyValue
  <2>2. i \in 1..Len(b) /\ call[c].value \in Values
    BY <2>1, ObjectInBuffer DEF Invariant, Calls
  <2> HIDE DEF i
  <2> QED
    BY <1>0, <2>1, <2>2, KnownExcept
<1>3. CASE WriteNew(c)
  <2> DEFINE n == [key |-> call[c].key, size |-> ValueSize[call[c].value], value |-> Partial]
  <2>1. b' = Append(b, n) /\ pc[c] = "Write"
    BY <1>3 DEF WriteNew
  <2>2. call[c].value \in Values /\ n.size = ValueSize[call[c].value]
    BY <2>1 DEF Invariant, Calls, Operations
  <2> HIDE DEF n
  <2>3. Len(b') = Len(b) + 1 /\ b'[Len(b) + 1] = n /\ \A i \in 1..Len(b) : b'[i] = b[i]
    BY <1>0, <2>1
  <2> QED
    BY <1>0, <2>2, <2>3 DEF Known, KnownSize
<1>4. CASE DeleteShift(c)
  <2> DEFINE h == object[c].index
  <2>1. b' = [b EXCEPT ![h] = b[h + 1]] /\ h < Len(b) /\ pc[c] = "shift"
    BY <1>4 DEF DeleteShift
  <2>2. h \in 1..Len(b) /\ h + 1 \in 1..Len(b)
    BY <1>0, <2>1, ObjectInBuffer DEF Invariant
  <2> HIDE DEF h
  <2>3. Len(b') = Len(b) /\ \A i \in 1..Len(b) : b'[i] \in {b[i], b[h + 1]}
    BY <1>0, <2>1, <2>2
  <2> QED
    BY <2>2, <2>3 DEF Known
<1>5. CASE DeleteEnd(c)
  <2>1. b' = SubSeq(b, 1, Len(b) - 1) /\ pc[c] = "shift"
    BY <1>5 DEF DeleteEnd
  <2>2. Len(b) >= 1
    BY <1>0, <2>1, ObjectInBuffer DEF Invariant
  <2> QED
    BY <1>0, <2>1, <2>2, CutLast DEF Known
<1>6. CASE UNCHANGED m_flash_buffer
  BY <1>6
<1> QED
  BY <1>1, <1>2, <1>3, <1>4, <1>5, <1>6
  DEF ClientStep, Lock, Unlock, WriteOtherSize, WriteNoSpace, NeedUpdateFlash, Read, IsExist,
      DeleteFind, bufferVars

LEMMA KnownNext ==
  ASSUME TypeOK, Invariant, KnownSizes, [Next]_vars
  PROVE  KnownSizes'
<1>1. ASSUME NEW c \in Clients, ClientStep(c) PROVE KnownSizes'
  <2>1. Known(m_flash_buffer') /\ UNCHANGED <<stored, submitted, task>>
    BY <1>1, KnownByClient, OthersStay DEF flashVars, KnownSizes
  <2>3. ASSUME NEW d \in Clients, pc'[d] = "shift" PROVE KnownSize(object'[d].size)
    <3>1. CASE d # c
      BY <1>1, <2>3, <3>1, OthersStay DEF KnownSizes
    <3>2. CASE d = c /\ DeleteFind(c)
      <4> DEFINE i == Found(c)
      <4>1. pc[c] = "Delete"
        BY <3>2 DEF DeleteFind
      <4>2. i # 0 /\ object'[c].size = m_flash_buffer[i].size
        BY <2>3, <3>2 DEF DeleteFind, TypeOK
      <4>3. i \in 1..Len(m_flash_buffer)
        BY <4>1, <4>2, InOrder, FindUnique DEF Operations, Invariant, Found, TypeOK
      <4> HIDE DEF i
      <4> QED
        BY <3>2, <4>2, <4>3 DEF KnownSizes, Known
    <3>3. CASE d = c /\ DeleteShift(c)
      <4>1. object'[c].size = object[c].size /\ pc[c] = "shift"
        BY <3>3 DEF DeleteShift, TypeOK
      <4> QED
        BY <3>3, <4>1 DEF KnownSizes
    <3>4. CASE d = c /\ Lock(c)
      <4>1. pc'[c] \in Operations
        BY <3>4 DEF Lock, Invariant, Calls, TypeOK
      <4> QED
        BY <2>3, <3>4, <4>1 DEF Operations
    <3>5. CASE d = c /\ ~DeleteFind(c) /\ ~DeleteShift(c) /\ ~Lock(c)
      BY <1>1, <2>3, <3>5 DEF ClientStep, TypeOK, Unlock, WriteExisting, WriteOtherSize,
         WriteNoSpace, WriteNew, CopyValue, NeedUpdateFlash, Read, IsExist, DeleteEnd, Return
    <3> QED
      BY <3>1, <3>2, <3>3, <3>4, <3>5
  <2>2. Running
    BY <1>1 DEF ClientStep, Invariant, Places, TypeOK, Lock, Unlock, WriteExisting, WriteOtherSize,
       WriteNoSpace, WriteNew, CopyValue, NeedUpdateFlash, Read, IsExist, DeleteFind, DeleteShift,
       DeleteEnd
  <2> QED
    BY <2>1, <2>2, <2>3 DEF KnownSizes, Known
<1>2. ASSUME NEW c \in Clients, NEW op, NEW k, NEW v, Call(c, op, k, v) PROVE KnownSizes'
  BY <1>2 DEF Call, TypeOK, KnownSizes, Known, bufferVars, flashVars
<1>3. CASE PowerFailure
  <2>1. m_flash_buffer' = <<>> /\ m_flash_buffer_size' = 0 /\ {stored', submitted'} \subseteq {stored, NoPayload}
    BY <1>3 DEF PowerFailure, RamLost, Flash!Abandon, Flash!Lose
  <2>2. Known(m_flash_buffer')
    BY <2>1 DEF Known
  <2>3. \A d \in Clients : pc'[d] # "shift"
    BY <1>3 DEF PowerFailure, RamLost
  <2> QED
    BY <2>1, <2>2, <2>3 DEF KnownSizes, Known
<1>4. CASE Boot
  <2>0. CASE stored = Damaged
    <3>1. UNCHANGED <<pc, object, m_flash_buffer, m_flash_buffer_size, stored, submitted>> /\ ~Running
      BY <1>4, <2>0 DEF Boot, LoadDamaged, clientVars, callVars, bufferVars, flashVars
    <3> QED
      BY <3>1 DEF KnownSizes, Known
  <2>1. CASE stored # Damaged
    <3>1. m_flash_buffer' = (IF stored = NoPayload THEN EmptyPayload ELSE stored).objects
          /\ Running' /\ UNCHANGED <<stored, submitted>> /\ \A d \in Clients : pc'[d] # "shift"
      BY <1>4, <2>1 DEF Boot, Load, flashVars
    <3>2. Known(m_flash_buffer')
      BY <2>1, <3>1 DEF KnownSizes, Known, EmptyPayload
    <3> QED
      BY <3>1, <3>2 DEF KnownSizes, Known
  <2> QED
    BY <2>0, <2>1
<1>5. CASE Pull \/ CheckFlag \/ LockForFlush \/ UnlockAfterWrite \/ TimerExpired \/ StartTask
  BY <1>5 DEF Pull, CheckFlag, LockForFlush, UnlockAfterWrite, TimerExpired, StartTask, bufferVars,
     flashVars, clientVars, callVars, KnownSizes, Known
<1>6. CASE WriteToFlash \/ WriteToFlashFails \/ EraseInWrite
  <2>1. /\ {stored', submitted'} \subseteq {stored, submitted, NoPayload} /\ Running'
        /\ UNCHANGED <<pc, object, m_flash_buffer>>
    BY <1>6 DEF WriteToFlash, WriteToFlashFails, EraseInWrite, Flash!Commit, Flash!CommitUnnoticed, Flash!Abandon, Flash!Lose,
       bufferVars, clientVars, callVars
  <2> QED
    BY <2>1 DEF KnownSizes, Known
<1>7. CASE WriteSnapshot
  <2>1. stored' = stored /\ submitted' = Image /\ Running' /\ UNCHANGED <<pc, object, m_flash_buffer>>
    BY <1>7 DEF WriteSnapshot, Flash!Submit, clientVars, callVars
  <2>2. submitted' # Damaged => submitted'.objects = m_flash_buffer
    BY <2>1 DEF Image, Snapshot
  <2> QED
    BY <2>1, <2>2 DEF KnownSizes, Known
<1>8. CASE UNCHANGED vars
  BY <1>8 DEF vars, bufferVars, flashVars, clientVars, callVars, KnownSizes, Known
<1> QED
  BY <1>1, <1>2, <1>3, <1>4, <1>5, <1>6, <1>7, <1>8 DEF Next, TaskStep

LEMMA InitKnown == Init => KnownSizes
BY DEF Init, Flash!Init, KnownSizes, Known

LEMMA KnownAlways == Spec => []KnownSizes
<1>1. IInv /\ KnownSizes /\ [Next]_vars => KnownSizes'
  BY KnownNext DEF IInv
<1> QED
  BY <1>1, InitKnown, Always, PTL DEF Spec

\* Objects with different keys are no more than the keys.
LEMMA LenBound ==
  ASSUME IsFiniteSet(Keys), NEW s \in Seq(Objects), UniqueKeys(s)
  PROVE  Len(s) <= Cardinality(Keys) /\ Cardinality(Keys) \in Nat
<1> DEFINE f == [i \in 1..Len(s) |-> s[i].key]
<1>0. Len(s) \in Nat /\ \A i \in 1..Len(s) : s[i] \in Objects
  BY ElementOfSeq
<1>1. \A i \in 1..Len(s) : s[i].key \in Keys
  BY <1>0 DEF Objects
<1>2. f \in Injection(1..Len(s), Keys)
  BY <1>1 DEF UniqueKeys, Injection, IsInjective
<1>3. Cardinality(1..Len(s)) <= Cardinality(Keys)
  BY <1>2, FS_Injection
<1>4. Cardinality(1..Len(s)) = Len(s)
  <2> DEFINE n == Len(s)
  <2>1. n \in Int /\ n >= 0 /\ 1 \in Int
    BY <1>0
  <2> HIDE DEF n
  <2>2. Cardinality(1..n) = IF 1 > n THEN 0 ELSE n - 1 + 1
    BY <2>1, FS_Interval
  <2>3. Cardinality(1..n) = n
    BY <2>1, <2>2
  <2> QED
    BY <2>3 DEF n
<1>5. Cardinality(Keys) \in Nat
  BY FS_CardinalityType
<1> QED
  BY <1>3, <1>4, <1>5

\* Objects of room bytes at most take room bytes each at most.
LEMMA BytesBound ==
  ASSUME NEW s \in Seq(Objects), NEW room \in Nat, \A i \in 1..Len(s) : Bytes(s[i]) <= room
  PROVE  BytesOf(s) <= Len(s) * room
<1> DEFINE N == Len(s)
<1>0. N \in Nat /\ \A i \in 1..N : Bytes(s[i]) \in Nat
  BY ElementOfSeq, BytesType
<1>1. PICK end : Ends(end, s, N)
  BY EndsExist
<1>2. \A n \in 0..N : end[n] \in Nat
  BY <1>1 DEF Ends
<1> DEFINE Bad == {n \in 0..N : end[n] > n * room}
<1>3. Bad = {}
  <2> SUFFICES ASSUME Bad # {} PROVE FALSE
    OBVIOUS
  <2>1. PICK n \in Bad : \A m \in Bad : n <= m
    <3>1. Bad \in SUBSET Nat
      BY <1>0
    <3> HIDE DEF Bad
    <3> QED
      BY <3>1, Least
  <2>2. n \in 0..N /\ end[n] > n * room
    BY <2>1
  <2>3. n # 0
    BY <2>2, <1>1 DEF Ends
  <2>4. n \in 1..N /\ n - 1 \in 0..N /\ n - 1 \notin Bad
    BY <1>0, <2>1, <2>2, <2>3
  <2>5. end[n - 1] <= (n - 1) * room
    <3>1. ~(end[n - 1] > (n - 1) * room)
      BY <2>4
    <3>2. end[n - 1] \in Int /\ (n - 1) * room \in Int
      BY <1>2, <2>4
    <3> QED
      BY <3>1, <3>2
  <2>6. end[n] = end[n - 1] + Bytes(s[n]) /\ Bytes(s[n]) <= room
    BY <1>1, <2>4 DEF Ends
  <2>7. (n - 1) * room + room = n * room
    BY <2>2
  <2>8. end[n] <= n * room
    <3>1. end[n] \in Int /\ end[n - 1] \in Int /\ Bytes(s[n]) \in Int /\ n * room \in Int /\ (n - 1) * room \in Int
      BY <1>0, <1>2, <2>2, <2>4
    <3> QED
      BY <2>5, <2>6, <2>7, <3>1
  <2> QED
    BY <1>2, <2>2, <2>8
<1>4. end[N] <= N * room
  <2>1. ~(end[N] > N * room)
    BY <1>0, <1>3
  <2> QED
    BY <1>0, <1>2, <2>1
<1> QED
  BY <1>1, <1>4, BytesOfEnds

\* Known objects with different keys fit.
LEMMA AllFit ==
  ASSUME NEW room, Room(room), NEW s \in Seq(Objects), UniqueKeys(s), Known(s)
  PROVE  BytesOf(s) <= MaxFlashSize
<1>1. \A i \in 1..Len(s) : Bytes(s[i]) <= room
  <2> SUFFICES ASSUME NEW i \in 1..Len(s) PROVE Bytes(s[i]) <= room
    OBVIOUS
  <2>0. s[i] \in Objects
    BY ElementOfSeq
  <2>1. s[i].key \in Keys /\ \E v \in Values : s[i].size = ValueSize[v]
    BY <2>0 DEF Known, KnownSize, Objects
  <2> QED
    BY <2>1 DEF Room, Bytes
<1>2. BytesOf(s) <= Len(s) * room
  BY <1>1, BytesBound DEF Room
<1>3. Len(s) <= Cardinality(Keys) /\ Cardinality(Keys) \in Nat
  BY LenBound DEF Room
<1>4. Len(s) * room <= Cardinality(Keys) * room
  <2>1. Len(s) \in Nat /\ room \in Nat
    BY DEF Room
  <2>2. (Cardinality(Keys) - Len(s)) * room >= 0
    BY <1>3, <2>1
  <2>3. (Cardinality(Keys) - Len(s)) * room = Cardinality(Keys) * room - Len(s) * room
    BY <1>3, <2>1
  <2> QED
    BY <1>3, <2>1, <2>2, <2>3
<1>5. BytesOf(s) \in Nat /\ Len(s) * room \in Int /\ Cardinality(Keys) * room \in Int /\ MaxFlashSize \in Int
  BY <1>3, BytesOfType, RegistryAssumption DEF Room
<1> QED
  BY <1>2, <1>4, <1>5 DEF Room

LEMMA FitsNow ==
  ASSUME NEW room, Room(room), IInv, Sizes, KnownSizes
  PROVE  BufferFits
<1> DEFINE b == m_flash_buffer
<1>0. /\ b \in Seq(Objects) /\ Len(b) \in Nat /\ MaxFlashSize \in Nat /\ m_flash_buffer_size \in Int
      /\ \A c \in Clients : object[c].size \in Nat
  BY RegistryAssumption DEF IInv, TypeOK
<1>1. CASE ~Running
  BY <1>0, <1>1 DEF KnownSizes, BufferFits
<1>2. ASSUME NEW c \in Clients, pc[c] = "append" PROVE BufferFits
  <2>1. \A d \in Clients : pc[d] # "shift"
    BY <1>2, Alone DEF IInv, Invariant, Working
  <2>2. BytesOf(b) <= MaxFlashSize
    BY <1>0, <2>1, AllFit DEF IInv, Invariant, Buffer, KnownSizes
  <2>3. m_flash_buffer_size + object[c].size = BytesOf(b)
    BY <1>2 DEF Sizes, BufferSize
  <2> QED
    BY <1>0, <2>2, <2>3, BytesOfType DEF BufferFits
<1>3. ASSUME NEW c \in Clients, pc[c] = "shift" PROVE BufferFits
  <2> DEFINE h == object[c].index
             t == Without(b, h)
  <2>1. HolePlace(c) /\ h \in 1..Len(b)
    BY <1>3, ObjectInBuffer DEF IInv, Invariant, Buffer
  <2>2. t \in Seq(Objects) /\ Len(t) = Len(b) - 1
    BY <1>0, <2>1, WithoutType
  <2>3. \A i \in 1..Len(t) : t[i] = IF i < h THEN b[i] ELSE b[i + 1]
    BY <2>2 DEF Without
  <2>4. Known(t)
    <3>1. Known(b)
      BY DEF KnownSizes
    <3>2. \A i \in 1..Len(t) : IF i < h THEN i \in 1..Len(b) ELSE i + 1 \in 1..Len(b)
      BY <1>0, <2>1, <2>2
    <3> QED
      BY <2>3, <3>1, <3>2 DEF Known
  <2>5. UniqueKeys(t) /\ \A i \in 1..Len(t) : t[i].key # call[c].key
    <3> DEFINE up(n) == IF n < h THEN n ELSE n + 1
    <3>1. ASSUME NEW i \in 1..Len(t) PROVE up(i) \in 1..Len(b) \ {h} /\ t[i] = b[up(i)]
      BY <1>0, <2>1, <2>2, <2>3
    <3>2. \A i \in 1..Len(t) : t[i].key # call[c].key
      BY <2>1, <3>1 DEF HolePlace
    <3>3. ASSUME NEW i \in 1..Len(t), NEW j \in 1..Len(t), t[i].key = t[j].key PROVE i = j
      <4>1. up(i) = up(j)
        <5> HIDE DEF up, t, b, h
        <5>1. up(i) \in 1..Len(b) \ {h} /\ up(j) \in 1..Len(b) \ {h} /\ b[up(i)].key = b[up(j)].key
          BY <3>1, <3>3
        <5> QED
          BY <2>1, <5>1 DEF HolePlace, b, h
      <4> QED
        BY <1>0, <2>1, <2>2, <4>1
    <3> QED
      BY <3>2, <3>3 DEF UniqueKeys
  <2> DEFINE o == [key |-> call[c].key, size |-> object[c].size, value |-> Partial]
             u == Append(t, o)
  <2>6. o \in Objects /\ KnownSize(o.size) /\ o.key = call[c].key /\ o.size = object[c].size
    BY <1>0, <1>3 DEF IInv, Invariant, Calls, KnownSizes, Objects
  <2> HIDE DEF t, o
  <2>7. u \in Seq(Objects) /\ Len(u) = Len(t) + 1 /\ u[Len(t) + 1] = o /\ \A i \in 1..Len(t) : u[i] = t[i]
    BY <2>2, <2>6
  <2>8. UniqueKeys(u) /\ Known(u)
    BY <1>0, <2>2, <2>4, <2>5, <2>6, <2>7 DEF UniqueKeys, Known
  <2>9. BytesOf(u) <= MaxFlashSize
    BY <2>7, <2>8, AllFit
  <2>10. BytesOf(u) = BytesOf(t) + ObjectSize(call[c].key, object[c].size)
    BY <2>2, <2>6, BytesOfAppend DEF Bytes
  <2>11. m_flash_buffer_size = BytesOf(t) + ObjectSize(call[c].key, object[c].size)
    BY <1>3 DEF Sizes, BufferSize, t
  <2> QED
    BY <2>9, <2>10, <2>11 DEF BufferFits
<1>4. CASE Running /\ \A c \in Clients : pc[c] \notin {"append", "shift"}
  <2>1. BytesOf(b) <= MaxFlashSize
    BY <1>0, <1>4, AllFit DEF IInv, Invariant, Buffer, KnownSizes
  <2> QED
    BY <1>4, <2>1 DEF Sizes, BufferSize, BufferFits
<1> QED
  BY <1>1, <1>2, <1>3, <1>4

\* The objects stay inside the buffer for clients whose objects have room in it, key by
\* key: what Write forgets to count is noticed by no one else.
THEOREM RoomForAll ==
  ASSUME NEW room, Room(room)
  PROVE  Spec => []BufferFits
<1>1. IInv /\ Sizes /\ KnownSizes => BufferFits
  BY FitsNow
<1> QED
  BY <1>1, Always, SizesAlways, KnownAlways, PTL

\* A call that has not read yet has no result, and a read that has found an object has
\* its value.
Filled ==
  \A c \in Clients :
    /\ pc[c] # "unlock" => ~result[c].ok
    /\ call[c].op = "Read" /\ result[c].ok => result[c].value # Absent

SameSizes == \A v, w \in Values : ValueSize[v] = ValueSize[w]

LEMMA ReadFills ==
  ASSUME SameSizes, TypeOK, Invariant, KnownSizes, NEW c \in Clients, Read(c), result'[c].ok
  PROVE  result'[c].value # Absent
<1> DEFINE i == Found(c)
<1>1. pc[c] = "Read" /\ i # 0
  BY DEF Read, TypeOK
<1>2. i \in 1..Len(m_flash_buffer)
  BY <1>1, InOrder, FindUnique DEF Operations, Invariant, Found, TypeOK
<1>3. call[c].value \in Values
  BY <1>1 DEF Invariant, Calls, Operations
<1>4. m_flash_buffer[i].size = ValueSize[call[c].value] => result'[c].value = m_flash_buffer[i].value
  BY <1>1 DEF Read, TypeOK
<1>5. m_flash_buffer[i] \in Objects
  BY <1>2, ElementOfSeq DEF TypeOK
<1> HIDE DEF i
<1>6. m_flash_buffer[i].size = ValueSize[call[c].value]
  BY <1>2, <1>3 DEF SameSizes, KnownSizes, Known, KnownSize
<1> QED
  BY <1>4, <1>5, <1>6, RegistryAssumption DEF Objects

LEMMA FilledNext ==
  ASSUME SameSizes, TypeOK, Invariant, KnownSizes, Filled, [Next]_vars
  PROVE  Filled'
<1>1. ASSUME NEW c \in Clients, ClientStep(c) PROVE Filled'
  <2>1. \A d \in Clients \ {c} : pc'[d] = pc[d] /\ call'[d] = call[d] /\ result'[d] = result[d]
    BY <1>1, OthersStay DEF ClientStep, Lock, Unlock, WriteExisting, WriteOtherSize, WriteNoSpace,
       WriteNew, CopyValue, NeedUpdateFlash, Read, IsExist, DeleteFind, DeleteShift, DeleteEnd,
       Return, NoResult, clientVars, callVars, TypeOK
  <2>2. CASE Read(c)
    <3>1. pc'[c] = "unlock"
      BY <2>2 DEF Read, TypeOK
    <3> QED
      BY <2>1, <2>2, <3>1, ReadFills DEF Filled
  <2>3. CASE IsExist(c)
    <3>1. pc'[c] = "unlock" /\ call'[c].op = "IsExist"
      BY <2>3 DEF IsExist, TypeOK, Invariant, Calls, Operations
    <3> QED
      BY <2>1, <3>1 DEF Filled
  <2>4. CASE Unlock(c) \/ WriteOtherSize(c) \/ WriteNoSpace(c)
    <3>1. ~result'[c].ok
      BY <2>4 DEF Unlock, WriteOtherSize, WriteNoSpace, Return, NoResult, TypeOK
    <3> QED
      BY <2>1, <3>1 DEF Filled
  <2>5. CASE UNCHANGED result /\ pc[c] # "unlock"
    <3>1. ~result'[c].ok
      BY <2>5 DEF Filled
    <3> QED
      BY <2>1, <3>1 DEF Filled
  <2> QED
    BY <1>1, <2>2, <2>3, <2>4, <2>5, OthersStay
    DEF ClientStep, Lock, WriteExisting, WriteNew, CopyValue, NeedUpdateFlash, DeleteFind,
        DeleteShift, DeleteEnd, Invariant, Calls, Operations, clientVars, callVars
<1>2. ASSUME NEW c \in Clients, NEW op, NEW k, NEW v, Call(c, op, k, v) PROVE Filled'
  BY <1>2 DEF Call, TypeOK, Filled
<1>3. CASE PowerFailure
  BY <1>3 DEF PowerFailure, RamLost, NoResult, Filled
<1>4. CASE Boot
  <2>1. (\A c \in Clients : pc[c] = "off") /\ UNCHANGED clientVars
    BY <1>4 DEF Boot, Load, LoadDamaged, Invariant, Places
  <2>2. \A c \in Clients : pc'[c] # "unlock"
    BY <1>4, <2>1 DEF Boot, Load, LoadDamaged
  <2> QED
    BY <2>1, <2>2 DEF clientVars, callVars, Filled
<1>5. CASE UNCHANGED <<pc, clientVars>>
  BY <1>5 DEF clientVars, callVars, Filled
<1> QED
  BY <1>1, <1>2, <1>3, <1>4, <1>5
  DEF Next, TaskStep, Pull, CheckFlag, LockForFlush, UnlockAfterWrite, TimerExpired, StartTask,
      WriteToFlash, WriteToFlashFails, EraseInWrite, WriteSnapshot, vars

\* A Read that returns true has filled in the value if all values have one size: only a
\* caller that asks for another size than the one that was written is misled.
THEOREM ReadFillsOneSize ==
  ASSUME SameSizes
  PROVE  Spec => []ReadSuccessFillsValue
<1>1. Init => Filled
  <2> SUFFICES ASSUME Init PROVE Filled
    OBVIOUS
  <2>1. \A c \in Clients : result[c].ok = FALSE
    BY DEF Init, NoResult
  <2> QED
    BY <2>1 DEF Filled
<1>2. IInv /\ KnownSizes /\ Filled /\ [Next]_vars => Filled'
  BY FilledNext DEF IInv
<1>3. Filled => ReadSuccessFillsValue
  BY DEF Filled, ReadSuccessFillsValue
<1> QED
  BY <1>1, <1>2, <1>3, Always, KnownAlways, PTL DEF Spec

------------------------------------------------------------------------------
(* Nobody keeps the mutex. *)

\* With values of one size and room for all of them, Write has no early return.
LEMMA WritesSucceed ==
  ASSUME NEW room, Room(room), SameSizes, IInv, Sizes, KnownSizes, NEW c \in Clients
  PROVE  ~WriteOtherSize(c) /\ ~WriteNoSpace(c)
<1> DEFINE b == m_flash_buffer
<1>0. b \in Seq(Objects) /\ Len(b) \in Nat
  BY DEF IInv, TypeOK
<1>1. SUFFICES ASSUME pc[c] = "Write" PROVE ~WriteOtherSize(c) /\ ~WriteNoSpace(c)
  BY DEF WriteOtherSize, WriteNoSpace
<1>2. call[c].key \in Keys /\ call[c].value \in Values
  BY <1>1 DEF IInv, Invariant, Calls, Operations
<1>3. ASSUME WriteOtherSize(c) PROVE FALSE
  <2> DEFINE i == Found(c)
  <2>1. i # 0 /\ b[i].size # ValueSize[call[c].value]
    BY <1>3 DEF WriteOtherSize
  <2>2. i \in 1..Len(b)
    BY <1>1, <2>1, InOrder, FindUnique DEF Operations, IInv, Invariant, Found, TypeOK
  <2> HIDE DEF i
  <2>3. b[i].size = ValueSize[call[c].value]
    BY <1>2, <2>2 DEF SameSizes, KnownSizes, Known, KnownSize
  <2> QED
    BY <2>1, <2>3
<1>4. ASSUME WriteNoSpace(c) PROVE FALSE
  <2> DEFINE n == [key |-> call[c].key, size |-> ValueSize[call[c].value], value |-> Partial]
  <2>1. Found(c) = 0 /\ n.size + m_flash_buffer_size > MaxFlashSize
    BY <1>4 DEF WriteNoSpace
  <2>2. n \in Objects /\ n.key = call[c].key /\ KnownSize(n.size) /\ n.size \in Nat
    BY <1>2, RegistryAssumption DEF Objects, KnownSize
  <2>3. UniqueKeys(b) /\ \A j \in 1..Len(b) : b[j].key # n.key
    BY <1>0, <1>1, <2>1, <2>2, InOrder, FindUnique DEF Operations, IInv, Invariant, Found
  <2>4. m_flash_buffer_size = BytesOf(b)
    <3>1. Working(c)
      BY <1>1 DEF Working
    <3>2. \A d \in Clients : pc[d] \notin {"append", "shift"}
      BY <1>1, <3>1, Alone DEF IInv, Invariant, Working
    <3>3. Running
      BY <1>1 DEF IInv, Invariant, Places
    <3> QED
      BY <3>2, <3>3 DEF Sizes, BufferSize
  <2> HIDE DEF n
  <2> DEFINE u == Append(b, n)
  <2>5. u \in Seq(Objects) /\ Len(u) = Len(b) + 1 /\ u[Len(b) + 1] = n /\ \A j \in 1..Len(b) : u[j] = b[j]
    BY <1>0, <2>2
  <2>6. UniqueKeys(u) /\ Known(u)
    BY <1>0, <2>2, <2>3, <2>5 DEF UniqueKeys, KnownSizes, Known
  <2>7. BytesOf(u) <= MaxFlashSize
    BY <2>5, <2>6, AllFit
  <2>8. BytesOf(u) = BytesOf(b) + ObjectSize(n.key, n.size)
    BY <1>0, <2>2, BytesOfAppend DEF Bytes
  <2>9. ObjectSize(n.key, n.size) \in Nat /\ ObjectSize(n.key, n.size) > n.size
    BY <1>2, <2>2, RegistryAssumption DEF ObjectSize
  <2>10. BytesOf(b) \in Nat /\ MaxFlashSize \in Nat
    BY <1>0, BytesOfType, RegistryAssumption
  <2> QED
    BY <2>1, <2>2, <2>4, <2>7, <2>8, <2>9, <2>10
<1> QED
  BY <1>3, <1>4

\* A step of a client keeps the mutex as long as the client is at work.
LEMMA ClientReleases ==
  ASSUME NEW room, Room(room), SameSizes, IInv, Sizes, KnownSizes, LocksReleased,
         NEW c \in Clients, ClientStep(c)
  PROVE  LocksReleased'
<1> USE RegistryAssumption
<1>0. \A d \in Clients \ {c} : pc'[d] = pc[d]
  BY OthersStay DEF IInv
<1>1. task' = task
  BY DEF ClientStep, Lock, Unlock, WriteExisting, WriteOtherSize, WriteNoSpace, WriteNew, CopyValue,
     NeedUpdateFlash, Read, IsExist, DeleteFind, DeleteShift, DeleteEnd
<1>2. CASE Lock(c)
  <2>1. m_mutex.owner = Nobody /\ m_mutex.count = 0
    BY <1>2 DEF Lock, LocksReleased
  <2>2. m_mutex' = [owner |-> c, count |-> 1]
    BY <1>2, <2>1 DEF Lock
  <2>3. pc'[c] \in Operations
    BY <1>2 DEF Lock, IInv, TypeOK, Invariant, Calls
  <2> QED
    BY <2>2, <2>3 DEF LocksReleased, Operations
<1>3. CASE Unlock(c)
  <2>1. m_mutex.owner = c /\ m_mutex.count = 1
    BY <1>3 DEF Unlock, IInv, Invariant, Exclusive, Working, LocksReleased
  <2>2. m_mutex' = [owner |-> Nobody, count |-> 0]
    BY <1>3, <2>1 DEF Unlock, Unlocked
  <2> QED
    BY <2>2 DEF LocksReleased
<1>4. CASE ~Lock(c) /\ ~Unlock(c)
  <2>1. ~WriteOtherSize(c) /\ ~WriteNoSpace(c)
    BY WritesSucceed
  <2>2. UNCHANGED m_mutex /\ pc'[c] \notin {"off", "idle", "lock"}
    BY <1>4, <2>1 DEF ClientStep, WriteExisting, WriteNew, CopyValue, NeedUpdateFlash, Read, IsExist,
       DeleteFind, DeleteShift, DeleteEnd, IInv, TypeOK
  <2> QED
    BY <1>0, <1>1, <2>2 DEF LocksReleased
<1> QED
  BY <1>2, <1>3, <1>4

LEMMA NextReleases ==
  ASSUME NEW room, Room(room), SameSizes, IInv, Sizes, KnownSizes, LocksReleased, [Next]_vars
  PROVE  LocksReleased'
<1> USE RegistryAssumption
<1>1. ASSUME NEW c \in Clients, ClientStep(c) PROVE LocksReleased'
  BY <1>1, ClientReleases
<1>2. ASSUME NEW c \in Clients, NEW op, NEW k, NEW v, Call(c, op, k, v) PROVE LocksReleased'
  <2>1. UNCHANGED <<m_mutex, task>> /\ pc[c] = "idle" /\ \A d \in Clients \ {c} : pc'[d] = pc[d]
    BY <1>2 DEF Call, IInv, TypeOK
  <2> QED
    BY <2>1 DEF LocksReleased
<1>3. CASE LockForFlush
  <2>1. m_mutex.owner = Nobody /\ m_mutex.count = 0
    BY <1>3 DEF LockForFlush, LocksReleased
  <2>2. m_mutex' = [owner |-> Registry, count |-> 1] /\ task' = "write"
    BY <1>3, <2>1 DEF LockForFlush
  <2> QED
    BY <2>2 DEF LocksReleased
<1>4. CASE UnlockAfterWrite
  <2>1. m_mutex.owner = Registry /\ m_mutex.count = 1
    BY <1>4 DEF UnlockAfterWrite, IInv, Invariant, Exclusive, LocksReleased
  <2>2. m_mutex' = [owner |-> Nobody, count |-> 0]
    BY <1>4, <2>1 DEF UnlockAfterWrite, Unlocked
  <2> QED
    BY <2>2 DEF LocksReleased
<1>5. CASE PowerFailure
  BY <1>5 DEF PowerFailure, RamLost, LocksReleased
<1>6. CASE Boot
  <2>1. UNCHANGED m_mutex /\ task = "off" /\ \A d \in Clients : pc[d] = "off"
    BY <1>6 DEF Boot, Load, LoadDamaged, IInv, Invariant, Places
  <2> QED
    BY <2>1 DEF LocksReleased
<1>7. CASE WriteSnapshot
  BY <1>7 DEF WriteSnapshot, LocksReleased
<1>8. CASE Pull \/ CheckFlag \/ StartTask \/ WriteToFlash \/ WriteToFlashFails
  <2>1. UNCHANGED <<m_mutex, pc>> /\ task \notin {"write", "unlock"}
    BY <1>8 DEF Pull, CheckFlag, StartTask, WriteToFlash, WriteToFlashFails
  <2> QED
    BY <2>1 DEF LocksReleased
<1>9. CASE TimerExpired \/ EraseInWrite \/ UNCHANGED vars
  BY <1>9 DEF TimerExpired, EraseInWrite, vars, LocksReleased
<1> QED
  BY <1>1, <1>2, <1>3, <1>4, <1>5, <1>6, <1>7, <1>8, <1>9 DEF Next, TaskStep

\* With values of one size and room for the objects of all keys no call returns with the
\* mutex locked: the early returns of Write are the only ones that keep it.
THEOREM LocksAreReleased ==
  ASSUME NEW room, Room(room), SameSizes
  PROVE  Spec => []LocksReleased
<1>1. Init => LocksReleased
  BY RegistryAssumption DEF Init, LocksReleased
<1>2. IInv /\ Sizes /\ KnownSizes /\ LocksReleased /\ [Next]_vars => LocksReleased'
  BY NextReleases
<1> QED
  BY <1>1, <1>2, Always, SizesAlways, KnownAlways, PTL DEF Spec

==============================================================================
