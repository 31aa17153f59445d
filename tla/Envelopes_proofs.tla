--------------------------- MODULE Envelopes_proofs ---------------------------
(***************************************************************************)
(* What is picked from a list, and so what decoding yields, whatever was   *)
(* written: a sequence of stamps, each of a class that is known.           *)
(***************************************************************************)
EXTENDS Envelopes, FiniteSetTheorems, SequenceTheorems, WellFoundedInduction, TLAPS

LEMMA IsSequenceOf ==
  ASSUME NEW S, NEW s \in Seq(S)
  PROVE  IsSequence(s) /\ ToSet(s) \subseteq S
  <1>1. /\ s \in [1..Len(s) -> S] /\ Len(s) \in Nat /\ DOMAIN s = 1..Len(s)
    BY LenProperties
  <1>2. ToSet(s) \subseteq S
    BY <1>1 DEF ToSet
  <1>3. s \in [1..Len(s) -> ToSet(s)]
    BY <1>1 DEF ToSet
  <1>4. s \in Seq(ToSet(s))
    BY <1>1, <1>3, SeqDef
  <1> QED BY <1>2, <1>4 DEF IsSequence

LEMMA PlacesOf ==
  ASSUME NEW s, IsSequence(s)
  PROVE  Len(s) \in Nat /\ DOMAIN s = 1..Len(s) /\ (s # <<>> => Len(s) # 0)
BY DEF IsSequence

\* Two sequences are joined.
LEMMA Joined ==
  ASSUME NEW s, NEW u, IsSequence(s), IsSequence(u)
  PROVE  /\ IsSequence(s \o u)
         /\ Len(s \o u) = Len(s) + Len(u)
         /\ \A i \in 1..Len(s) : (s \o u)[i] = s[i]
         /\ \A i \in 1..Len(u) : (s \o u)[Len(s) + i] = u[i]
         /\ ToSet(s \o u) = ToSet(s) \cup ToSet(u)
  <1> DEFINE T == ToSet(s) \cup ToSet(u)
  <1>1. s \in Seq(T) /\ u \in Seq(T)
    BY SeqMonotonic DEF IsSequence
  <1>2. /\ Len(s) \in Nat /\ DOMAIN s = 1..Len(s)
        /\ Len(u) \in Nat /\ DOMAIN u = 1..Len(u)
    BY <1>1, LenProperties
  <1> HIDE DEF T
  <1>3. /\ s \o u \in Seq(T)
        /\ Len(s \o u) = Len(s) + Len(u)
        /\ \A i \in 1..Len(s) + Len(u) : (s \o u)[i] = IF i <= Len(s) THEN s[i] ELSE u[i - Len(s)]
    BY <1>1, ConcatProperties
  <1>4. IsSequence(s \o u) /\ ToSet(s \o u) \subseteq T
    BY <1>3, IsSequenceOf
  <1>5. DOMAIN (s \o u) = 1..(Len(s) + Len(u))
    BY <1>3
  <1>6. \A i \in 1..Len(s) : i \in DOMAIN (s \o u) /\ (s \o u)[i] = s[i]
    BY <1>2, <1>3, <1>5
  <1>7. \A i \in 1..Len(u) : Len(s) + i \in DOMAIN (s \o u) /\ (s \o u)[Len(s) + i] = u[i]
    BY <1>2, <1>3, <1>5
  <1>8. ToSet(s) \subseteq ToSet(s \o u)
    BY <1>2, <1>6 DEF ToSet
  <1>9. ToSet(u) \subseteq ToSet(s \o u)
    BY <1>2, <1>7 DEF ToSet
  <1> QED BY <1>3, <1>4, <1>6, <1>7, <1>8, <1>9 DEF T

\* Joining nothing changes nothing.
LEMMA JoinedNothing ==
  ASSUME NEW s, IsSequence(s)
  PROVE  s \o <<>> = s /\ <<>> \o s = s
BY ConcatEmptySeq DEF IsSequence

\* Places one further are as many.
LEMMA ShiftedCount ==
  ASSUME NEW A, A \subseteq Nat, IsFiniteSet(A)
  PROVE  LET B == {k + 1 : k \in A}
         IN  IsFiniteSet(B) /\ Cardinality(B) = Cardinality(A)
  <1> DEFINE B == {k + 1 : k \in A}
             f == [k \in A |-> k + 1]
  <1>1. f \in Bijection(A, B)
    <2>1. f \in [A -> B]
      OBVIOUS
    <2>2. \A k, l \in A : f[k] = f[l] => k = l
      OBVIOUS
    <2>3. \A b \in B : \E k \in A : f[k] = b
      OBVIOUS
    <2> HIDE DEF f, B
    <2>4. f \in Injection(A, B)
      BY <2>1, <2>2 DEF Injection, IsInjective
    <2>5. f \in Surjection(A, B)
      BY <2>1, <2>3 DEF Surjection
    <2> QED BY <2>4, <2>5 DEF Bijection
  <1>2. ExistsBijection(A, B)
    BY <1>1 DEF ExistsBijection
  <1> QED BY <1>2, FS_Bijection

\* Of some numbers one is the least.
LEMMA Least ==
  ASSUME NEW T, T \subseteq Nat, T # {}
  PROVE  \E n \in T : \A k \in T : n <= k
  <1> DEFINE R == {p \in Nat \X Nat : p[1] < p[2]}
  <1>1. IsWellFoundedOn(R, Nat)
    BY NatLessThanWellFounded, Zenon DEF OpToRel
  <1>2. \A k, n \in T : k < n => <<k, n>> \in R
    OBVIOUS
  <1> HIDE DEF R
  <1>3. PICK n \in T : \A k \in T : ~ (<<k, n>> \in R)
    BY <1>1, WFMin, Zenon
  <1>4. ASSUME NEW k \in T PROVE n <= k
    <2>1. k \in Nat /\ n \in Nat
      OBVIOUS
    <2>2. ~ (k < n)
      BY <1>2, <1>3
    <2> QED BY <2>1, <2>2
  <1> QED BY <1>4

\* Of k numbers one has none before it, one has one, and so on up to k - 1: by removing the
\* least from the smallest set that had it otherwise.
LEMMA Ranked ==
  ASSUME NEW S, S \subseteq Nat, IsFiniteSet(S), NEW n \in 1..Cardinality(S)
  PROVE  \E i \in S : Cardinality({j \in S : j < i}) = n - 1
  <1> DEFINE Bad(k, T) == /\ T \subseteq Nat /\ IsFiniteSet(T) /\ Cardinality(T) = k
                          /\ \E r \in 1..k : \A i \in T : Cardinality({j \in T : j < i}) # r - 1
             bad == {k \in Nat : \E T \in SUBSET Nat : Bad(k, T)}
  <1>1. bad = {}
    <2> SUFFICES ASSUME bad # {} PROVE FALSE
      OBVIOUS
    <2>1. PICK k \in bad : \A l \in bad : k <= l
      <3>1. bad \subseteq Nat
        OBVIOUS
      <3> HIDE DEF bad
      <3> QED BY <3>1, Least
    <2>2. PICK T \in SUBSET Nat : Bad(k, T)
      OBVIOUS
    <2>3. PICK r \in 1..k : \A i \in T : Cardinality({j \in T : j < i}) # r - 1
      BY <2>2
    <2>4. k \in Nat /\ k > 0 /\ T # {}
      BY <2>2, <2>3, FS_EmptySet
    <2>5. PICK m \in T : \A i \in T : m <= i
      BY <2>4, Least
    <2>6. {j \in T : j < m} = {}
      <3> SUFFICES ASSUME NEW j \in T, j < m PROVE FALSE
        OBVIOUS
      <3>1. j \in Nat /\ m \in Nat
        BY <2>2
      <3>2. m <= j
        BY <2>5
      <3> QED BY <3>1, <3>2
    <2>7. r # 1
      BY <2>3, <2>6, FS_EmptySet
    <2> DEFINE U == T \ {m}
    <2>8. U \in SUBSET Nat /\ IsFiniteSet(U) /\ Cardinality(U) = k - 1
      BY <2>2, <2>4, FS_RemoveElement
    <2>9. k - 1 \in Nat /\ k - 1 \notin bad
      BY <2>1, <2>4
    <2>10. r - 1 \in 1..(k - 1)
      BY <2>3, <2>4, <2>7
    <2>11. PICK i \in U : Cardinality({j \in U : j < i}) = (r - 1) - 1
      BY <2>8, <2>9, <2>10
    <2>12. {j \in T : j < i} = {j \in U : j < i} \cup {m} /\ m \notin {j \in U : j < i}
      BY <2>5, <2>11
    <2>13. IsFiniteSet({j \in U : j < i})
      BY <2>8, FS_Subset
    <2>14. Cardinality({j \in T : j < i}) = ((r - 1) - 1) + 1
      <3> DEFINE V == {j \in U : j < i}
      <3> HIDE DEF V
      <3>1. Cardinality(V \cup {m}) = Cardinality(V) + 1
        BY <2>12, <2>13, FS_AddElement DEF V
      <3> QED BY <2>11, <2>12, <3>1 DEF V
    <2>15. ((r - 1) - 1) + 1 = r - 1
      BY <2>3, <2>4
    <2> QED BY <2>3, <2>11, <2>14, <2>15
  <1>2. Cardinality(S) \in Nat /\ S \in SUBSET Nat
    BY FS_CardinalityType
  <1>3. ~Bad(Cardinality(S), S)
    <2> HIDE DEF Bad
    <2> QED BY <1>1, <1>2
  <1> QED BY <1>3

\* q has what stands at some places of s, all of them, each once, in their order.
Lists(q, s, places) ==
  \E c \in Nat : \E place \in [1..c -> places] :
    /\ q = [n \in 1..c |-> s[place[n]]]
    /\ \A m, n \in 1..c : m < n => place[m] < place[n]
    /\ \A i \in places : \E n \in 1..c : place[n] = i

\* That is what picking them yields.
LEMMA PickedPlaces ==
  ASSUME NEW s, NEW k \in Nat, DOMAIN s = 1..k, NEW places, places \subseteq 1..k
  PROVE  Lists(Picked(s, places), s, places)
  <1> DEFINE c     == Cardinality(places)
             rank  == [i \in places |-> Cardinality({j \in places : j < i})]
             place == [n \in 1..c |-> CHOOSE i \in places : rank[i] = n - 1]
  <1>1. IsFiniteSet(places) /\ c \in Nat /\ \A i \in places : i \in Nat
    <2>1. IsFiniteSet(1..k) /\ 1..k \subseteq Nat
      BY FS_Interval
    <2>2. places \subseteq Nat
      BY <2>1
    <2> QED BY <2>1, <2>2, FS_Subset, FS_CardinalityType
  <1>2. \A T : T \subseteq places => /\ IsFiniteSet(T) /\ Cardinality(T) \in Nat /\ Cardinality(T) <= c
                                     /\ Cardinality(T) = c => T = places
    <2>1. ASSUME NEW T, T \subseteq places
          PROVE  /\ IsFiniteSet(T) /\ Cardinality(T) \in Nat /\ Cardinality(T) <= c
                 /\ Cardinality(T) = c => T = places
      BY <1>1, <2>1, FS_Subset, FS_CardinalityType
    <2> QED BY <2>1
  <1>3. \A n \in 1..c : \E i \in places : rank[i] = n - 1
    <2>1. places \subseteq Nat
      BY <1>1
    <2>2. ASSUME NEW n \in 1..c PROVE \E i \in places : rank[i] = n - 1
      <3>1. \E i \in places : Cardinality({j \in places : j < i}) = n - 1
        BY <1>1, <2>1, Ranked
      <3> QED BY <3>1
    <2> QED BY <2>2
  <1>4. ASSUME NEW i \in places PROVE rank[i] \in Nat /\ rank[i] < c
    <2> DEFINE below == {j \in places : j < i}
    <2>1. rank[i] = Cardinality(below) /\ below \subseteq places
      OBVIOUS
    <2>2. i \notin below
      BY <1>1
    <2>3. below # places
      BY <2>2
    <2> HIDE DEF below
    <2> QED BY <1>1, <1>2, <2>1, <2>3
  <1>5. ASSUME NEW i \in places, NEW l \in places, i < l
        PROVE  rank[i] < rank[l]
    <2> DEFINE below == {j \in places : j < i}
               further == {j \in places : j < l}
    <2>1. rank[i] = Cardinality(below) /\ rank[l] = Cardinality(further)
      OBVIOUS
    <2>2. i \in Nat /\ l \in Nat /\ \A j \in places : j \in Nat
      BY <1>1
    <2>3. below \subseteq further /\ further \subseteq places /\ i \in further /\ i \notin below
      <3>1. \A j \in below : j < l
        BY <1>5, <2>2
      <3>2. ~(i < i)
        BY <2>2
      <3> QED BY <1>5, <3>1, <3>2
    <2>4. below # further
      BY <2>3
    <2> HIDE DEF below, further
    <2>5. IsFiniteSet(further) /\ Cardinality(further) \in Nat
      BY <1>2, <2>3
    <2>6. /\ Cardinality(below) <= Cardinality(further)
          /\ Cardinality(below) = Cardinality(further) => below = further
      BY <2>3, <2>5, FS_Subset
    <2>7. Cardinality(below) \in Nat
      BY <1>2, <2>3
    <2> QED BY <2>1, <2>4, <2>5, <2>6, <2>7
  <1>6. Picked(s, places) = [n \in 1..c |-> s[place[n]]]
    <2> DEFINE before == [i \in places |-> {j \in places : j < i}]
    <2>1. DOMAIN before = places /\ \A i \in places : Cardinality(before[i]) = rank[i]
      OBVIOUS
    <2>2. Picked(s, places) = Listed(s, before)
      BY DEF Picked
    <2>3. \A n \in 1..c : (CHOOSE i \in places : Cardinality(before[i]) = n - 1) = place[n]
      <3>1. \A n : (CHOOSE i \in places : Cardinality(before[i]) = n - 1)
                    = CHOOSE i \in places : rank[i] = n - 1
        <4> HIDE DEF before, rank
        <4> QED BY <2>1
      <3> HIDE DEF before, rank, c
      <3>2. \A n \in 1..c : place[n] = CHOOSE i \in places : rank[i] = n - 1
        OBVIOUS
      <3> HIDE DEF place
      <3> QED BY <3>1, <3>2
    <2> HIDE DEF before, place, rank
    <2>4. Listed(s, before) =
            [n \in 1..Cardinality(DOMAIN before) |->
               s[CHOOSE i \in DOMAIN before : Cardinality(before[i]) = n - 1]]
      BY DEF Listed
    <2>5. Listed(s, before) =
            [n \in 1..c |-> s[CHOOSE i \in places : Cardinality(before[i]) = n - 1]]
      BY <2>1, <2>4
    <2> QED BY <2>2, <2>3, <2>5
  <1> HIDE DEF rank
  <1>7. place \in [1..c -> places] /\ \A n \in 1..c : rank[place[n]] = n - 1
    BY <1>3
  <1> HIDE DEF place, c
  <1>8. ASSUME NEW m \in 1..c, NEW n \in 1..c, m < n
        PROVE  place[m] < place[n]
    <2> DEFINE p == place[m]
               q == place[n]
    <2>1. p \in places /\ q \in places /\ rank[p] = m - 1 /\ rank[q] = n - 1
      BY <1>7
    <2> HIDE DEF p, q
    <2>2. p # q /\ ~(q < p)
      BY <1>1, <1>5, <1>8, <2>1
    <2>3. p < q
      BY <1>1, <2>1, <2>2
    <2> QED BY <2>3 DEF p, q
  <1>9. ASSUME NEW i \in places
        PROVE  \E n \in 1..c : place[n] = i
    <2>1. rank[i] + 1 \in 1..c
      BY <1>1, <1>4
    <2> DEFINE p == place[rank[i] + 1]
    <2>2. p \in places /\ rank[p] = rank[i]
      BY <1>4, <1>7, <2>1
    <2> HIDE DEF p
    <2>3. ~(p < i) /\ ~(i < p)
      BY <1>4, <1>5, <2>2
    <2>4. p = i
      BY <1>1, <2>2, <2>3
    <2> QED BY <2>1, <2>4 DEF p
  <1> QED BY <1>1, <1>6, <1>7, <1>8, <1>9 DEF Lists

\* It is a sequence of what stands there.
LEMMA PickedSequence ==
  ASSUME NEW s, NEW k \in Nat, DOMAIN s = 1..k, NEW places, places \subseteq 1..k
  PROVE  /\ Picked(s, places) \in Seq({s[i] : i \in places})
         /\ \A i \in places : \E n \in DOMAIN Picked(s, places) : Picked(s, places)[n] = s[i]
  <1>1. Lists(Picked(s, places), s, places)
    BY PickedPlaces
  <1>2. PICK c \in Nat : \E place \in [1..c -> places] :
          /\ Picked(s, places) = [n \in 1..c |-> s[place[n]]]
          /\ \A i \in places : \E n \in 1..c : place[n] = i
    BY <1>1 DEF Lists
  <1>3. PICK place \in [1..c -> places] :
          /\ Picked(s, places) = [n \in 1..c |-> s[place[n]]]
          /\ \A i \in places : \E n \in 1..c : place[n] = i
    BY <1>2
  <1>4. [n \in 1..c |-> s[place[n]]] \in [1..c -> {s[i] : i \in places}]
    OBVIOUS
  <1>5. [n \in 1..c |-> s[place[n]]] \in Seq({s[i] : i \in places})
    BY <1>4, SeqDef
  <1> QED BY <1>3, <1>5

\* Decoding yields a sequence of the stamps that were written, those of a known class.
LEMMA DecodedStamps ==
  ASSUME NEW headers, NEW k \in Nat, DOMAIN headers = 1..k, NEW known
  PROVE  /\ DecodeStamps(headers, known) \in Seq({headers[i] : i \in 1..k})
         /\ \A n \in DOMAIN DecodeStamps(headers, known) :
              DecodeStamps(headers, known)[n].type \in known
  <1> DEFINE places == {i \in DOMAIN headers : headers[i].type \in known}
             read   == DecodeStamps(headers, known)
  <1>1. read \in Seq({headers[i] : i \in places})
    BY PickedSequence DEF DecodeStamps
  <1>2. /\ {headers[i] : i \in places} \subseteq {headers[i] : i \in 1..k}
        /\ \A x \in {headers[i] : i \in places} : x.type \in known
    OBVIOUS
  <1> HIDE DEF places, read
  <1>3. /\ read \in Seq({headers[i] : i \in 1..k})
        /\ \A n \in DOMAIN read : read[n] \in {headers[i] : i \in places}
    <2>1. \A S, T : S \subseteq T => Seq(S) \subseteq Seq(T)
      OBVIOUS
    <2>2. \A S : \A q \in Seq(S) : \A n \in DOMAIN q : q[n] \in S
      OBVIOUS
    <2> QED BY <1>1, <1>2, <2>1, <2>2
  <1> QED BY <1>2, <1>3 DEF read

\* What is written is as long as there are stamps that may leave the process.
LEMMA EncodedLength ==
  ASSUME NEW e, NEW k \in Nat, DOMAIN e.stamps = 1..k
  PROVE  \E l \in Nat : DOMAIN EncodeStamps(e) = 1..l
  <1> DEFINE places == {i \in DOMAIN e.stamps : ~IsA(e.stamps[i], "NonSendable")}
  <1>1. Cardinality(places) \in Nat
    <2>1. IsFiniteSet(1..k) /\ places \subseteq 1..k
      BY FS_Interval
    <2>2. IsFiniteSet(places)
      BY <2>1, FS_Subset
    <2> QED BY <2>2, FS_CardinalityType
  <1>2. DOMAIN EncodeStamps(e) = 1..Cardinality(places)
    <2>1. \A f : DOMAIN Listed(e.stamps, f) = 1..Cardinality(DOMAIN f)
      BY DEF Listed
    <2> QED BY <2>1 DEF EncodeStamps
  <1> QED BY <1>1, <1>2
=============================================================================
