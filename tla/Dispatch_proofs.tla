---------------------------- MODULE Dispatch_proofs ----------------------------
(***************************************************************************)
(* Theorems of Dispatch: where messages go, who handles them, what the     *)
(* stamps they come back with tell of it, and which units of work and      *)
(* errors are kept apart, for any settings, messages and number of         *)
(* dispatches.                                                             *)
(***************************************************************************)
EXTENDS Dispatch, Envelopes_proofs

-----------------------------------------------------------------------------
(***************************************************************************)
(* Sequences.                                                              *)
(***************************************************************************)

\* One more at the end.
LEMMA Appended ==
  ASSUME NEW s, IsSequence(s), NEW x
  PROVE  /\ IsSequence(Append(s, x))
         /\ Len(Append(s, x)) = Len(s) + 1
         /\ DOMAIN Append(s, x) = 1..(Len(s) + 1)
         /\ \A i \in 1..Len(s) : Append(s, x)[i] = s[i]
         /\ Append(s, x)[Len(s) + 1] = x
         /\ ToSet(Append(s, x)) = ToSet(s) \cup {x}
  <1> DEFINE T == ToSet(s) \cup {x}
  <1>1. s \in Seq(T) /\ x \in T
    BY SeqMonotonic DEF IsSequence
  <1>2. Len(s) \in Nat /\ DOMAIN s = 1..Len(s)
    BY <1>1, LenProperties
  <1> HIDE DEF T
  <1>3. /\ Append(s, x) \in Seq(T)
        /\ Len(Append(s, x)) = Len(s) + 1
        /\ \A i \in 1..Len(s) : Append(s, x)[i] = s[i]
        /\ Append(s, x)[Len(s) + 1] = x
    BY <1>1, AppendProperties
  <1>4. DOMAIN Append(s, x) = 1..(Len(s) + 1)
    BY <1>3
  <1>5. IsSequence(Append(s, x)) /\ ToSet(Append(s, x)) \subseteq T
    BY <1>3, IsSequenceOf
  <1>6. ToSet(s) \subseteq ToSet(Append(s, x)) /\ x \in ToSet(Append(s, x))
    BY <1>2, <1>3, <1>4 DEF ToSet
  <1> QED BY <1>3, <1>4, <1>5, <1>6 DEF T

\* All but the last.
LEMMA Fronts ==
  ASSUME NEW s, IsSequence(s), s # <<>>
  PROVE  /\ IsSequence(Front(s))
         /\ Len(Front(s)) = Len(s) - 1
         /\ DOMAIN Front(s) = 1..(Len(s) - 1)
         /\ \A i \in 1..(Len(s) - 1) : Front(s)[i] = s[i]
         /\ Len(s) \in DOMAIN s /\ Len(s) \in Nat \ {0}
  <1>1. Len(s) \in Nat \ {0} /\ DOMAIN s = 1..Len(s) /\ s \in Seq(ToSet(s))
    BY DEF IsSequence
  <1> DEFINE n == Len(s) - 1
  <1>2. \A i \in 1..n : s[i] \in ToSet(s)
    BY <1>1 DEF ToSet
  <1>3. 1 \in Int /\ n \in Int /\ n >= 0
    BY <1>1
  <1> HIDE DEF n
  <1>4. /\ SubSeq(s, 1, n) \in Seq(ToSet(s))
        /\ Len(SubSeq(s, 1, n)) = IF 1 <= n THEN n - 1 + 1 ELSE 0
        /\ \A i \in 1..n - 1 + 1 : SubSeq(s, 1, n)[i] = s[1 + i - 1]
    BY <1>2, <1>3, SubSeqProperties
  <1>5. Len(SubSeq(s, 1, n)) = n /\ \A i \in 1..n : SubSeq(s, 1, n)[i] = s[i]
    BY <1>3, <1>4
  <1>6. DOMAIN SubSeq(s, 1, n) = 1..n
    BY <1>4, <1>5
  <1>7. Front(s) = SubSeq(s, 1, n)
    BY DEF Front, n
  <1>8. IsSequence(SubSeq(s, 1, n))
    BY <1>4, IsSequenceOf
  <1>9. Len(s) \in DOMAIN s
    BY <1>1
  <1> QED BY <1>1, <1>5, <1>6, <1>7, <1>8, <1>9 DEF n

\* The last is another.
LEMMA LastReplaced ==
  ASSUME NEW s, IsSequence(s), s # <<>>, NEW x
  PROVE  LET q == Append(Front(s), x)
         IN  /\ IsSequence(q) /\ Len(q) = Len(s) /\ DOMAIN q = DOMAIN s
             /\ \A i \in DOMAIN s : q[i] = IF i = Len(s) THEN x ELSE s[i]
  <1> DEFINE q == Append(Front(s), x)
  <1>1. /\ IsSequence(Front(s)) /\ Len(Front(s)) = Len(s) - 1
        /\ \A i \in 1..(Len(s) - 1) : Front(s)[i] = s[i]
        /\ Len(s) \in Nat \ {0}
    BY Fronts
  <1>2. DOMAIN s = 1..Len(s)
    BY DEF IsSequence
  <1>3. /\ IsSequence(q) /\ Len(q) = Len(Front(s)) + 1 /\ DOMAIN q = 1..(Len(Front(s)) + 1)
        /\ \A i \in 1..Len(Front(s)) : q[i] = Front(s)[i]
        /\ q[Len(Front(s)) + 1] = x
    BY <1>1, Appended
  <1> HIDE DEF q
  <1>4. /\ Len(q) = Len(s) /\ DOMAIN q = 1..Len(s)
        /\ \A i \in 1..(Len(s) - 1) : q[i] = s[i]
        /\ q[Len(s)] = x
    BY <1>1, <1>3
  <1>5. \A i \in DOMAIN s : q[i] = IF i = Len(s) THEN x ELSE s[i]
    BY <1>1, <1>2, <1>4
  <1> QED BY <1>2, <1>3, <1>4, <1>5 DEF q

\* The first of what is still to come follows what has been.
LEMMA OneOn ==
  ASSUME NEW S, NEW s \in Seq(S), NEW u \in Seq(S), u # <<>>
  PROVE  /\ Append(s, Head(u)) \in Seq(S) /\ Tail(u) \in Seq(S) /\ Head(u) \in S
         /\ Append(s, Head(u)) \o Tail(u) = s \o u
         /\ Head(u) \in ToSet(s \o u)
  <1>1. /\ Head(u) \in S /\ Tail(u) \in Seq(S) /\ Len(Tail(u)) = Len(u) - 1
        /\ \A i \in 1..Len(Tail(u)) : Tail(u)[i] = u[i + 1]
    BY HeadTailProperties
  <1>2. Head(u) = u[1] /\ Len(u) \in Nat \ {0} /\ Len(s) \in Nat
    OBVIOUS
  <1> DEFINE a == Append(s, Head(u))
             t == Tail(u)
             q == s \o u
  <1>3. /\ a \in Seq(S) /\ Len(a) = Len(s) + 1
        /\ \A i \in 1..Len(s) : a[i] = s[i]
        /\ a[Len(s) + 1] = Head(u)
    BY <1>1, AppendProperties
  <1>4. /\ q \in Seq(S) /\ Len(q) = Len(s) + Len(u)
        /\ \A i \in 1..Len(s) + Len(u) : q[i] = IF i <= Len(s) THEN s[i] ELSE u[i - Len(s)]
    BY ConcatProperties
  <1> HIDE DEF a, t, q
  <1>5. /\ a \o t \in Seq(S) /\ Len(a \o t) = Len(a) + Len(t)
        /\ \A i \in 1..Len(a) + Len(t) : (a \o t)[i] = IF i <= Len(a) THEN a[i] ELSE t[i - Len(a)]
    BY <1>1, <1>3, ConcatProperties DEF t
  <1>6. Len(a \o t) = Len(q) /\ Len(t) = Len(u) - 1
    BY <1>1, <1>2, <1>3, <1>4, <1>5 DEF t
  <1>7. ASSUME NEW i \in 1..Len(a \o t)
        PROVE  (a \o t)[i] = q[i]
    <2>1. CASE i <= Len(s)
      <3>1. i \in 1..Len(a) + Len(t) /\ i <= Len(a) /\ i \in 1..Len(s) + Len(u) /\ i \in 1..Len(s)
        BY <2>1, <1>2, <1>3, <1>5, <1>6
      <3>2. (a \o t)[i] = a[i]
        BY <3>1, <1>5
      <3>3. q[i] = s[i]
        BY <3>1, <2>1, <1>4
      <3> QED BY <3>1, <3>2, <3>3, <1>3
    <2>2. CASE i = Len(s) + 1
      <3>1. i \in 1..Len(a) + Len(t) /\ i <= Len(a) /\ i \in 1..Len(s) + Len(u) /\ ~(i <= Len(s))
        BY <2>2, <1>2, <1>3, <1>6
      <3>2. (a \o t)[i] = a[Len(s) + 1]
        BY <2>2, <3>1, <1>5
      <3>3. q[i] = u[i - Len(s)] /\ i - Len(s) = 1
        BY <2>2, <3>1, <1>2, <1>4
      <3> QED BY <3>2, <3>3, <1>2, <1>3
    <2>3. CASE i > Len(s) + 1
      <3>1. i - Len(a) \in 1..Len(t) /\ (a \o t)[i] = t[i - Len(a)]
        BY <2>3, <1>2, <1>3, <1>5, <1>6
      <3>2. t[i - Len(a)] = u[(i - Len(a)) + 1]
        BY <3>1, <1>1 DEF t
      <3>3. (i - Len(a)) + 1 = i - Len(s)
        BY <1>2, <1>3
      <3>4. q[i] = u[i - Len(s)]
        BY <2>3, <1>2, <1>4, <1>6
      <3> QED BY <3>1, <3>2, <3>3, <3>4
    <2> QED BY <2>1, <2>2, <2>3, <1>2
  <1>8. a \o t = q
    BY <1>4, <1>5, <1>6, <1>7, SeqEqual
  <1>9. Head(u) \in ToSet(q)
    <2>1. Len(s) + 1 \in DOMAIN q /\ q[Len(s) + 1] = u[1]
      BY <1>2, <1>4
    <2> QED BY <1>2, <2>1 DEF ToSet
  <1> QED BY <1>1, <1>3, <1>8, <1>9 DEF a, t, q

\* What has been is a part of it all, and what is still to come is none of that.
LEMMA SoFar ==
  ASSUME NEW S, NEW s \in Seq(S), NEW u \in Seq(S), IsInjective(s \o u)
  PROVE  /\ IsInjective(s) /\ ToSet(s) \subseteq ToSet(s \o u)
         /\ u # <<>> => Head(u) \notin ToSet(s)
         /\ u = <<>> => s \o u = s
         /\ s = <<>> => s \o u = u
  <1> DEFINE q == s \o u
  <1>1. /\ q \in Seq(S) /\ Len(q) = Len(s) + Len(u)
        /\ \A i \in 1..Len(s) + Len(u) : q[i] = IF i <= Len(s) THEN s[i] ELSE u[i - Len(s)]
    BY ConcatProperties
  <1>2. /\ Len(s) \in Nat /\ DOMAIN s = 1..Len(s) /\ Len(u) \in Nat
        /\ u # <<>> => Len(u) # 0 /\ Head(u) = u[1]
    OBVIOUS
  <1>3. u = <<>> => s \o u = s
    BY ConcatEmptySeq
  <1>4. s = <<>> => s \o u = u
    BY ConcatEmptySeq
  <1>5. \A a, b \in DOMAIN q : q[a] = q[b] => a = b
    BY DEF IsInjective
  <1> HIDE DEF q
  <1>6. DOMAIN q = 1..Len(s) + Len(u)
    BY <1>1
  <1>7. \A i \in DOMAIN s : i \in DOMAIN q /\ q[i] = s[i]
    BY <1>1, <1>2, <1>6
  <1>8. IsInjective(s)
    BY <1>5, <1>7 DEF IsInjective
  <1>9. ToSet(s) \subseteq ToSet(q)
    BY <1>7 DEF ToSet
  <1>10. ASSUME u # <<>>, Head(u) \in ToSet(s) PROVE FALSE
    <2>1. PICK i \in DOMAIN s : s[i] = Head(u)
      BY <1>10 DEF ToSet
    <2>2. Len(s) + 1 \in DOMAIN q /\ q[Len(s) + 1] = Head(u)
      BY <1>10, <1>1, <1>2, <1>6
    <2>3. i = Len(s) + 1
      BY <1>5, <1>7, <2>1, <2>2
    <2> QED BY <1>2, <2>3
  <1> QED BY <1>3, <1>4, <1>8, <1>9, <1>10 DEF q

\* A sequence without elements is empty.
LEMMA NoElements ==
  ASSUME NEW S, NEW s \in Seq(S)
  PROVE  s = <<>> <=> ToSet(s) = {}
  <1>1. Len(s) \in Nat /\ DOMAIN s = 1..Len(s) /\ (s = <<>> <=> Len(s) = 0)
    OBVIOUS
  <1>2. ToSet(s) = {} <=> DOMAIN s = {}
    BY Zenon DEF ToSet
  <1>3. ASSUME NEW n \in Nat PROVE n = 0 <=> 1..n = {}
    <2>1. n # 0 => 1 \in 1..n
      OBVIOUS
    <2> QED BY <2>1
  <1> QED BY <1>1, <1>2, <1>3

\* A sequence of one element.
LEMMA Single ==
  ASSUME NEW S, NEW x \in S
  PROVE  <<x>> \in Seq(S) /\ IsInjective(<<x>>) /\ ToSet(<<x>>) = {x}
  <1>1. <<x>> \in Seq(S) /\ Len(<<x>>) = 1 /\ <<x>>[1] = x
    OBVIOUS
  <1> DEFINE one == <<x>>
  <1>2. one \in Seq(S) /\ Len(one) = 1 /\ one[1] = x
    BY <1>1
  <1> HIDE DEF one
  <1>3. DOMAIN one = 1..1 /\ 1..1 = {1}
    BY <1>2
  <1>4. IsInjective(one) /\ ToSet(one) = {x}
    BY <1>2, <1>3 DEF IsInjective, ToSet
  <1> QED BY <1>2, <1>4 DEF one

\* Each once: the same elements, of which no two are the same.
LEMMA OnceElements ==
  ASSUME NEW S, NEW s \in Seq(S)
  PROVE  Once(s) \in Seq(S) /\ IsInjective(Once(s)) /\ ToSet(Once(s)) = ToSet(s)
  <1> DEFINE places == {i \in DOMAIN s : \A j \in 1..i - 1 : s[j] # s[i]}
             q      == Picked(s, places)
  <1>1. Len(s) \in Nat /\ DOMAIN s = 1..Len(s) /\ places \subseteq 1..Len(s) /\ Once(s) = q
    BY DEF Once
  <1>2. \A i \in DOMAIN s : s[i] \in S
    OBVIOUS
  <1>3. \A i \in DOMAIN s : \E n \in places : s[n] = s[i]
    <2> SUFFICES ASSUME NEW i \in DOMAIN s PROVE \E n \in places : s[n] = s[i]
      OBVIOUS
    <2> DEFINE same == {j \in DOMAIN s : s[j] = s[i]}
    <2>1. same \subseteq Nat /\ same # {}
      BY <1>1
    <2>2. PICK n \in same : \A k \in same : n <= k
      <3> HIDE DEF same
      <3> QED BY <2>1, Least
    <2>3. ASSUME NEW j \in 1..n - 1 PROVE s[j] # s[n]
      <3>1. j \in DOMAIN s /\ ~(n <= j)
        BY <1>1, <2>2
      <3> QED BY <2>2, <3>1
    <2> QED BY <2>2, <2>3
  <1>4. \A i, j \in places : i < j => s[i] # s[j]
    BY <1>1
  <1> HIDE DEF places, q
  <1>5. Lists(q, s, places)
    BY <1>1, PickedPlaces DEF q
  <1>6. PICK c \in Nat : \E place \in [1..c -> places] :
          /\ q = [n \in 1..c |-> s[place[n]]]
          /\ \A m, n \in 1..c : m < n => place[m] < place[n]
          /\ \A i \in places : \E n \in 1..c : place[n] = i
    BY <1>5 DEF Lists
  <1>7. PICK place \in [1..c -> places] :
          /\ q = [n \in 1..c |-> s[place[n]]]
          /\ \A m, n \in 1..c : m < n => place[m] < place[n]
          /\ \A i \in places : \E n \in 1..c : place[n] = i
    BY <1>6
  <1>8. q \in [1..c -> S]
    BY <1>1, <1>2, <1>7
  <1>9. IsInjective(q)
    <2> SUFFICES ASSUME NEW m \in 1..c, NEW n \in 1..c, q[m] = q[n], m # n PROVE FALSE
      BY <1>8 DEF IsInjective
    <2>1. m < n \/ n < m
      OBVIOUS
    <2>2. q[m] = s[place[m]] /\ q[n] = s[place[n]] /\ place[m] \in places /\ place[n] \in places
      BY <1>7
    <2> QED BY <1>4, <1>7, <2>1, <2>2
  <1>10. ToSet(q) = ToSet(s)
    <2>1. \A n \in DOMAIN q : q[n] \in ToSet(s)
      BY <1>1, <1>7 DEF ToSet
    <2>2. ASSUME NEW i \in DOMAIN s PROVE s[i] \in ToSet(q)
      <3>1. PICK k \in places : s[k] = s[i]
        BY <1>3
      <3>2. PICK n \in 1..c : place[n] = k
        BY <1>7
      <3> QED BY <3>1, <3>2, <1>7 DEF ToSet
    <2> QED BY <2>1, <2>2 DEF ToSet
  <1>11. q \in Seq(S)
    BY <1>8, SeqDef
  <1> QED BY <1>1, <1>9, <1>10, <1>11

\* The last of the stamps of a kind is one of them.
LEMMA LastIs ==
  ASSUME NEW e, IsSequence(e.stamps), NEW type, Carries(e, type)
  PROVE  \E i \in DOMAIN e.stamps : IsA(e.stamps[i], type) /\ LastOf(e, type) = e.stamps[i].value
  <1> DEFINE places == {i \in 1..Len(e.stamps) : IsA(e.stamps[i], type)}
  <1>1. Len(e.stamps) \in Nat /\ DOMAIN e.stamps = 1..Len(e.stamps)
    BY PlacesOf
  <1>2. places # {}
    BY <1>1 DEF Carries
  <1>3. \E m \in places : \A i \in places : m >= i
    <2> DEFINE left == {Len(e.stamps) - i : i \in places}
    <2>1. left \subseteq Nat /\ left # {}
      <3>1. \A i \in places : Len(e.stamps) - i \in Nat
        BY <1>1
      <3> HIDE DEF places
      <3> QED BY <1>2, <3>1
    <2>2. PICK n \in left : \A k \in left : n <= k
      <3> HIDE DEF left
      <3> QED BY <2>1, Least
    <2>3. PICK m \in places : n = Len(e.stamps) - m
      OBVIOUS
    <2>4. ASSUME NEW i \in places PROVE m >= i
      <3>1. n <= Len(e.stamps) - i
        BY <2>2
      <3> QED BY <1>1, <2>3, <3>1
    <2> QED BY <2>4
  <1> DEFINE last == CHOOSE m \in places : \A i \in places : m >= i
  <1>4. last \in places
    BY <1>3
  <1>5. SelectLastInSeq(e.stamps, LAMBDA s : IsA(s, type)) = last
    BY <1>2 DEF SelectLastInSeq, Max
  <1> QED BY <1>1, <1>4, <1>5 DEF LastOf

-----------------------------------------------------------------------------
(***************************************************************************)
(* What the locators answer.                                               *)
(***************************************************************************)

LEMMA FoundIs ==
  ASSUME settings \in Settings, NEW type
  PROVE  \A table \in {settings.routes, settings.declared, settings.handlers} :
           /\ Found(table, type) \in Seq(STRING)
           /\ Accumulated(table, type) \in Seq(STRING)
           /\ ToSet(Accumulated(table, type)) =
                UNION {ToSet(Found(table, class)) : class \in {type, BaseOf(type)}}
           /\ Accumulated(table, type) = <<>> <=> ToSet(Accumulated(table, type)) = {}
  <1> SUFFICES ASSUME NEW table \in {settings.routes, settings.declared, settings.handlers}
               PROVE  /\ Found(table, type) \in Seq(STRING)
                      /\ Accumulated(table, type) \in Seq(STRING)
                      /\ ToSet(Accumulated(table, type)) =
                           UNION {ToSet(Found(table, class)) : class \in {type, BaseOf(type)}}
                      /\ Accumulated(table, type) = <<>> <=> ToSet(Accumulated(table, type)) = {}
    OBVIOUS
  <1>1. \A class : Found(table, class) \in Seq(STRING)
    <2>1. \A k \in DOMAIN table : table[k] \in Seq(STRING)
      BY SettingsAssumption
    <2>2. <<>> \in Seq(STRING)
      OBVIOUS
    <2> QED BY <2>1, <2>2, Zenon DEF Found
  <1> DEFINE a == Found(table, type)
             b == Found(table, BaseOf(type))
  <1>2. a \in Seq(STRING) /\ b \in Seq(STRING)
    BY <1>1
  <1> HIDE DEF a, b
  <1>3. IsSequence(a) /\ IsSequence(b)
    BY <1>2, IsSequenceOf
  <1>4. ToSet(a \o b) = ToSet(a) \cup ToSet(b)
    BY <1>3, Joined
  <1>5. a \o b \in Seq(STRING)
    BY <1>2, ConcatProperties
  <1>6. a \o b = <<>> <=> ToSet(a \o b) = {}
    BY <1>5, NoElements
  <1> QED BY <1>2, <1>4, <1>5, <1>6 DEF a, b, Accumulated

\* Names of senders and handlers.
Names == STRING \cup {"redispatching"}

\* Senders: one for each destination.
LEMMA SendersAre ==
  ASSUME settings \in Settings, NEW e, IsSequence(e.stamps), Addressed(e), ~Received(e)
  PROVE  /\ SendersFor(e) \in Seq(Names)
         /\ IsInjective(SendersFor(e))
         /\ ToSet(SendersFor(e)) = Destinations(e)
  <1> DEFINE type == e.message.type
             names == TransportNames(e)
             matched == Accumulated(settings.routes, type)
             table == UNION {ToSet(Found(settings.routes, class)) : class \in {type, BaseOf(type)}}
  <1>1. /\ matched \in Seq(STRING) /\ ToSet(matched) = table
        /\ matched = <<>> <=> table = {}
    BY FoundIs
  <1>2. DeclaredFor(type) \in Seq(STRING)
    BY FoundIs DEF DeclaredFor
  <1>3. /\ Found(settings.routes, "*") \in Seq(STRING)
        /\ Found(settings.routes, "*") # <<>> => settings.routes["*"] = Found(settings.routes, "*")
    BY FoundIs DEF Found
  <1>4. Carries(e, "TransportNames") => LastOf(e, "TransportNames") \in Seq(STRING)
    <2> HAVE Carries(e, "TransportNames")
    <2>1. PICK i \in DOMAIN e.stamps :
            IsA(e.stamps[i], "TransportNames") /\ LastOf(e, "TransportNames") = e.stamps[i].value
      BY LastIs
    <2> QED BY <2>1 DEF Addressed, IsA
  <1> HIDE DEF type, table, matched
  <1>5. names = IF Carries(e, "TransportNames") THEN LastOf(e, "TransportNames")
                ELSE IF matched # <<>> THEN matched
                ELSE IF Found(settings.routes, "*") # <<>> THEN settings.routes["*"]
                ELSE DeclaredFor(type)
    BY DEF TransportNames, matched, type
  <1>6. Destinations(e) =
          CASE Received(e) -> {}
            [] ~Received(e) /\ Carries(e, "TransportNames") -> ToSet(LastOf(e, "TransportNames"))
            [] OTHER -> IF table # {} THEN table
                        ELSE IF Found(settings.routes, "*") # <<>> THEN ToSet(settings.routes["*"])
                        ELSE ToSet(DeclaredFor(type))
    BY DEF Destinations, table, type
  <1> HIDE DEF names
  <1>7. names \in Seq(STRING) /\ ToSet(names) = Destinations(e)
    <2>1. CASE Carries(e, "TransportNames")
      <3>1. names = LastOf(e, "TransportNames")
        BY <1>5, <2>1
      <3>2. Destinations(e) = ToSet(LastOf(e, "TransportNames"))
        BY <1>6, <2>1
      <3> QED BY <1>4, <2>1, <3>1, <3>2
    <2>2. CASE ~Carries(e, "TransportNames")
      <3>1. names = IF matched # <<>> THEN matched
                    ELSE IF Found(settings.routes, "*") # <<>> THEN settings.routes["*"]
                    ELSE DeclaredFor(type)
        BY <1>5, <2>2
      <3>2. Destinations(e) = IF table # {} THEN table
                        ELSE IF Found(settings.routes, "*") # <<>> THEN ToSet(settings.routes["*"])
                        ELSE ToSet(DeclaredFor(type))
        BY <1>6, <2>2
      <3> QED BY <1>1, <1>2, <1>3, <3>1, <3>2
    <2> QED BY <2>1, <2>2
  <1>8. SendersFor(e) = Once(names)
    BY DEF SendersFor, names
  <1>9. names \in Seq(Names)
    BY <1>7, SeqMonotonic DEF Names
  <1> QED BY <1>7, <1>8, <1>9, OnceElements

\* Handlers: each once; the one for a redispatch is for nothing else.
LEMMA HandlersAre ==
  ASSUME settings \in Settings, NEW type
  PROVE  /\ HandlersFor(type) \in Seq(Names)
         /\ IsInjective(HandlersFor(type))
         /\ ToSet(HandlersFor(type)) = Bound(type)
         /\ "redispatching" \in ToSet(HandlersFor(type)) => type = "redispatch"
  <1> DEFINE all == Accumulated(settings.handlers, type)
             found == UNION {ToSet(Found(settings.handlers, class)) : class \in {type, BaseOf(type)}}
  <1>1. /\ all \in Seq(STRING) /\ ToSet(all) = found
        /\ all = <<>> <=> found = {}
    BY FoundIs
  <1>2. "redispatching" \notin found
    <2>1. \A class : "redispatching" \notin ToSet(Found(settings.handlers, class))
      <3> SUFFICES ASSUME NEW class PROVE "redispatching" \notin ToSet(Found(settings.handlers, class))
        OBVIOUS
      <3>1. CASE class \in DOMAIN settings.handlers
        BY <3>1, SettingsAssumption DEF Found, Contains, ToSet
      <3>2. CASE class \notin DOMAIN settings.handlers
        BY <3>2 DEF Found, ToSet
      <3> QED BY <3>1, <3>2
    <2> QED BY <2>1
  <1>3. HandlersFor(type) = IF Once(all) = <<>> /\ type = "redispatch" THEN <<"redispatching">> ELSE Once(all)
    BY DEF HandlersFor
  <1>4. Bound(type) = IF found = {} /\ type = "redispatch" THEN {"redispatching"} ELSE found
    BY DEF Bound
  <1> HIDE DEF all, found
  <1>5. Once(all) \in Seq(STRING) /\ IsInjective(Once(all)) /\ ToSet(Once(all)) = found
    BY <1>1, OnceElements
  <1>6. Once(all) = <<>> <=> found = {}
    BY <1>5, NoElements
  <1>7. /\ <<"redispatching">> \in Seq(Names)
        /\ IsInjective(<<"redispatching">>)
        /\ ToSet(<<"redispatching">>) = {"redispatching"}
    BY Single DEF Names
  <1>8. Once(all) \in Seq(Names)
    BY <1>5, SeqMonotonic DEF Names
  <1> QED BY <1>2, <1>3, <1>4, <1>5, <1>6, <1>7, <1>8

-----------------------------------------------------------------------------
(***************************************************************************)
(* Stamps.                                                                 *)
(***************************************************************************)

\* There is a stamp of one who received among these.
Marked(stamps) == \E x \in ToSet(stamps) : x.type = "Received"

LEMMA ReceivedIs ==
  ASSUME NEW e
  PROVE  Received(e) <=> Marked(e.stamps)
BY DEF Received, Carries, Marked, IsA, ToSet

\* An envelope with other stamps.
LEMMA Restamped ==
  ASSUME NEW message, NEW old, NEW stamps
  PROVE  [Envelope(message, old) EXCEPT !.stamps = stamps] = Envelope(message, stamps)
BY DEF Envelope

\* An envelope with more stamps.
LEMMA Stamping ==
  ASSUME NEW e, WellFormed(e), NEW stamps, IsSequence(stamps)
  PROVE  LET w == WithStamps(e, stamps)
         IN  /\ WellFormed(w) /\ w.message = e.message
             /\ w.stamps = e.stamps \o stamps
             /\ ToSet(w.stamps) = ToSet(e.stamps) \cup ToSet(stamps)
             /\ Received(w) <=> Received(e) \/ Marked(stamps)
  <1> DEFINE w == WithStamps(e, stamps)
             all == e.stamps \o stamps
  <1>1. w = Envelope(e.message, all)
    <2>1. e = Envelope(e.message, e.stamps)
      BY DEF WellFormed
    <2>2. WithStamps(e, stamps) = [e EXCEPT !.stamps = all]
      BY Zenon DEF WithStamps
    <2> HIDE DEF all
    <2> QED BY <2>1, <2>2, Restamped
  <1>2. IsSequence(all) /\ ToSet(all) = ToSet(e.stamps) \cup ToSet(stamps)
    BY Joined DEF WellFormed
  <1> HIDE DEF all, w
  <1>3. w.message = e.message /\ w.stamps = all
    BY <1>1 DEF Envelope
  <1>4. WellFormed(w)
    BY <1>1, <1>2, <1>3 DEF WellFormed
  <1>5. Marked(all) <=> Marked(e.stamps) \/ Marked(stamps)
    BY <1>2 DEF Marked
  <1> QED BY <1>2, <1>3, <1>4, <1>5, ReceivedIs DEF all, w

\* One stamp.
LEMMA OneStamp ==
  ASSUME NEW x
  PROVE  IsSequence(<<x>>) /\ ToSet(<<x>>) = {x} /\ (Marked(<<x>>) <=> x.type = "Received")
  <1>1. <<x>> \in Seq({x}) /\ ToSet(<<x>>) = {x}
    BY Single
  <1> QED BY <1>1, IsSequenceOf DEF Marked

\* What is picked of stamps is some of them.
LEMMA PickedOf ==
  ASSUME NEW s, IsSequence(s), NEW places, places \subseteq DOMAIN s
  PROVE  /\ IsSequence(Picked(s, places))
         /\ ToSet(Picked(s, places)) = {s[i] : i \in places}
  <1>1. Len(s) \in Nat /\ DOMAIN s = 1..Len(s)
    BY PlacesOf
  <1> DEFINE q == Picked(s, places)
             S == {s[i] : i \in places}
  <1>2. q \in Seq(S) /\ \A i \in places : \E n \in DOMAIN q : q[n] = s[i]
    BY <1>1, PickedSequence
  <1> HIDE DEF q
  <1>3. S \subseteq ToSet(q)
    BY <1>2 DEF ToSet
  <1> HIDE DEF S
  <1>4. IsSequence(q) /\ ToSet(q) \subseteq S
    BY <1>2, IsSequenceOf
  <1> QED BY <1>3, <1>4 DEF q, S

\* What a sender added is of what it returned, and all of that which is new.
LEMMA AddedIs ==
  ASSUME NEW returned, IsSequence(returned), NEW before, IsSequence(before)
  PROVE  LET q == AddedBy(returned, before)
         IN  /\ IsSequence(q) /\ ToSet(q) \subseteq ToSet(returned)
             /\ \A x \in ToSet(returned) : x \notin ToSet(before) => x \in ToSet(q)
  <1>1. /\ Len(returned) \in Nat /\ DOMAIN returned = 1..Len(returned)
        /\ Len(before) \in Nat /\ DOMAIN before = 1..Len(before)
    BY PlacesOf
  <1> DEFINE accounted(s) == Cardinality({i \in DOMAIN before : before[i] = s})
             so_far(i)    == Cardinality({j \in 1..i : returned[j] = returned[i]})
             places == {i \in DOMAIN returned : so_far(i) > accounted(returned[i])}
             rest   == SubSeq(returned, Len(before) + 1, Len(returned))
             q      == AddedBy(returned, before)
  <1>2. q = IF IsPrefix(before, returned) THEN rest ELSE Picked(returned, places)
    BY DEF AddedBy
  <1>3. CASE IsPrefix(before, returned)
    <2> DEFINE m == Len(before) + 1
               n == Len(returned)
    <2>1. m \in Nat \ {0} /\ n \in Nat /\ m <= n + 1
      BY <1>1, <1>3 DEF IsPrefix
    <2>2. \A i \in m..n : returned[i] \in ToSet(returned)
      BY <1>1, <2>1 DEF ToSet
    <2>3. rest = SubSeq(returned, m, n)
      OBVIOUS
    <2> HIDE DEF m, rest
    <2>4. /\ rest \in Seq(ToSet(returned))
          /\ Len(rest) = IF m <= n THEN n - m + 1 ELSE 0
          /\ \A i \in 1 .. n - m + 1 : rest[i] = returned[m + i - 1]
      BY <2>1, <2>2, <2>3, SubSeqProperties
    <2>5. IsSequence(rest) /\ ToSet(rest) \subseteq ToSet(returned)
      BY <2>4, IsSequenceOf
    <2>6. ASSUME NEW i \in DOMAIN returned, returned[i] \notin ToSet(before)
          PROVE  returned[i] \in ToSet(rest)
      <3>1. i >= m
        <4> SUFFICES ASSUME i < m PROVE FALSE
          BY <1>1, <2>1
        <4>1. i \in 1..Len(before) /\ Len(before) <= Len(returned)
          BY <1>1, <2>1 DEF m
        <4>2. SubSeq(before, 1, Len(before)) = SubSeq(returned, 1, Len(before))
          BY <1>3 DEF IsPrefix
        <4>3. /\ \A k \in 1..Len(before) : before[k] \in ToSet(before)
              /\ \A k \in 1..Len(before) : returned[k] \in ToSet(returned)
              /\ 1 \in Int /\ Len(before) \in Int
          BY <1>1, <4>1 DEF ToSet
        <4>4. \A k \in 1 .. Len(before) - 1 + 1 : SubSeq(before, 1, Len(before))[k] = before[1 + k - 1]
          BY <4>3, SubSeqProperties
        <4>5. \A k \in 1 .. Len(before) - 1 + 1 : SubSeq(returned, 1, Len(before))[k] = returned[1 + k - 1]
          BY <4>3, SubSeqProperties
        <4>6. 1 + i - 1 = i /\ i \in 1 .. Len(before) - 1 + 1
          BY <1>1, <4>1
        <4>7. returned[i] = before[i]
          BY <4>2, <4>4, <4>5, <4>6
        <4> QED BY <2>6, <4>1, <4>3, <4>7
      <3>2. i - m + 1 \in 1 .. n - m + 1 /\ m + (i - m + 1) - 1 = i /\ m <= n
        BY <1>1, <2>1, <3>1
      <3>3. rest[i - m + 1] = returned[i] /\ i - m + 1 \in 1..Len(rest)
        BY <2>1, <2>4, <3>2
      <3>4. DOMAIN rest = 1..Len(rest)
        BY <2>4
      <3> QED BY <3>3, <3>4 DEF ToSet
    <2>7. \A x \in ToSet(returned) : x \notin ToSet(before) => x \in ToSet(rest)
      BY <2>6 DEF ToSet
    <2> QED BY <1>2, <1>3, <2>5, <2>7
  <1>4. CASE ~IsPrefix(before, returned)
    <2>1. places \subseteq DOMAIN returned
      OBVIOUS
    <2>2. ASSUME NEW i \in DOMAIN returned, returned[i] \notin ToSet(before)
          PROVE  i \in places
      <3>1. {k \in DOMAIN before : before[k] = returned[i]} = {}
        BY <2>2 DEF ToSet
      <3>2. accounted(returned[i]) = 0
        BY <3>1, FS_EmptySet
      <3> DEFINE same == {j \in 1..i : returned[j] = returned[i]}
      <3>3. i \in Nat /\ i \in same
        BY <1>1
      <3>4. IsFiniteSet(same) /\ same # {}
        <4>1. IsFiniteSet(1..i) /\ same \subseteq 1..i
          BY <3>3, FS_Interval
        <4> QED BY <3>3, <4>1, FS_Subset
      <3>5. so_far(i) = Cardinality(same)
        OBVIOUS
      <3> HIDE DEF same
      <3>6. Cardinality(same) \in Nat /\ Cardinality(same) # 0
        BY <3>4, FS_CardinalityType, FS_EmptySet
      <3>7. so_far(i) > accounted(returned[i])
        <4> HIDE DEF so_far, accounted
        <4> QED BY <3>2, <3>5, <3>6
      <3> HIDE DEF so_far, accounted
      <3> QED BY <3>7
    <2> HIDE DEF places
    <2>3. /\ IsSequence(Picked(returned, places))
          /\ ToSet(Picked(returned, places)) = {returned[i] : i \in places}
      BY <2>1, PickedOf
    <2>4. {returned[i] : i \in places} \subseteq ToSet(returned)
      BY <2>1 DEF ToSet
    <2>5. \A x \in ToSet(returned) : x \notin ToSet(before) => x \in {returned[i] : i \in places}
      BY <2>2 DEF ToSet
    <2> QED BY <1>2, <1>4, <2>3, <2>4, <2>5
  <1> QED BY <1>3, <1>4

\* Read back, an envelope is one of the same message.
LEMMA KeptIs ==
  ASSUME NEW e, WellFormed(e), NEW known
  PROVE  WellFormed(RoundTripped(e, known))
  <1> DEFINE headers == EncodeStamps(e)
             read    == DecodeStamps(headers, known)
  <1>1. Len(e.stamps) \in Nat /\ DOMAIN e.stamps = 1..Len(e.stamps)
    BY PlacesOf DEF WellFormed
  <1>2. PICK l \in Nat : DOMAIN headers = 1..l
    BY <1>1, EncodedLength
  <1> HIDE DEF headers
  <1>3. read \in Seq({headers[i] : i \in 1..l})
    BY <1>2, DecodedStamps
  <1>4. RoundTripped(e, known) = Envelope(e.message, read)
    BY DEF RoundTripped, headers
  <1> HIDE DEF read
  <1>5. IsSequence(read)
    BY <1>3, IsSequenceOf
  <1> QED BY <1>4, <1>5 DEF WellFormed, Envelope

\* The stamps of a class, all of that class.
LEMMA AllOf ==
  ASSUME NEW e, WellFormed(e)
  PROVE  IsSequence(AllStamps(e, "MessageId")) /\ ~Marked(AllStamps(e, "MessageId"))
  <1> DEFINE places == {i \in DOMAIN e.stamps : IsA(e.stamps[i], "MessageId")}
  <1>1. AllStamps(e, "MessageId") = Picked(e.stamps, places)
    BY DEF AllStamps
  <1>2. \A i \in places : e.stamps[i].type = "MessageId"
    BY DEF IsA
  <1>3. places \subseteq DOMAIN e.stamps
    OBVIOUS
  <1> HIDE DEF places
  <1>4. /\ IsSequence(Picked(e.stamps, places))
        /\ ToSet(Picked(e.stamps, places)) = {e.stamps[i] : i \in places}
    BY <1>3, PickedOf DEF WellFormed
  <1> QED BY <1>1, <1>2, <1>4 DEF Marked

\* What a redispatch sends out is new, and addressed as anything else may be.
LEMMA RedispatchedIs ==
  ASSUME NEW m \in Messages, m.type = "redispatch"
  PROVE  WellFormed(Redispatched(m)) /\ ~Received(Redispatched(m)) /\ Addressed(Redispatched(m))
  <1> DEFINE e == m.envelope
             places == {i \in DOMAIN e.stamps : ~IsA(e.stamps[i], "NonSendable")}
             kept == Picked(e.stamps, places)
             bare == WithoutStamps(e, "NonSendable")
             more == IF m.names = <<>> THEN <<>> ELSE <<Stamp("TransportNames", m.names)>>
  <1>1. WellFormed(e) /\ Addressed(e) /\ m.names \in Seq(STRING)
    BY EnvelopesAssumption
  <1>2. places \subseteq DOMAIN e.stamps /\ \A i \in places : e.stamps[i].type # "Received"
    BY DEF IsA, NonSendable
  <1>3. bare = Envelope(e.message, kept)
    <2>1. e = Envelope(e.message, e.stamps)
      BY <1>1 DEF WellFormed
    <2>2. bare = [e EXCEPT !.stamps = kept]
      BY Zenon DEF WithoutStamps
    <2> HIDE DEF e, kept, bare
    <2> QED BY <2>1, <2>2, Restamped
  <1> HIDE DEF places
  <1>4. IsSequence(kept) /\ ToSet(kept) = {e.stamps[i] : i \in places}
    BY <1>1, <1>2, PickedOf DEF WellFormed
  <1> HIDE DEF kept
  <1>5. bare.message = e.message /\ bare.stamps = kept
    BY <1>3 DEF Envelope
  <1>6. WellFormed(bare)
    BY <1>1, <1>3, <1>4, <1>5 DEF WellFormed
  <1>7. ~Received(bare)
    BY <1>2, <1>4, <1>5, ReceivedIs DEF Marked
  <1>8. IsSequence(more) /\ ~Marked(more) /\ \A x \in ToSet(more) : x.value \in Seq(STRING)
    <2>1. CASE m.names = <<>>
      <3>1. more = <<>>
        BY <2>1
      <3>2. <<>> \in Seq({}) /\ ToSet(<<>>) = {}
        BY DEF ToSet
      <3>3. IsSequence(<<>>)
        BY <3>2, IsSequenceOf
      <3> QED BY <3>1, <3>2, <3>3 DEF Marked
    <2>2. CASE m.names # <<>>
      <3>1. more = <<Stamp("TransportNames", m.names)>>
        BY <2>2
      <3>2. Stamp("TransportNames", m.names).type # "Received" /\ Stamp("TransportNames", m.names).value = m.names
        BY DEF Stamp
      <3> QED BY <1>1, <3>1, <3>2, OneStamp
    <2> QED BY <2>1, <2>2
  <1>9. Redispatched(m) = WithStamps(bare, more)
    BY DEF Redispatched
  <1> HIDE DEF bare, more
  <1>10. LET w == Redispatched(m)
         IN  WellFormed(w) /\ ~Received(w) /\ ToSet(w.stamps) = ToSet(kept) \cup ToSet(more)
    <2> DEFINE w == WithStamps(bare, more)
    <2>1. /\ WellFormed(w) /\ ToSet(w.stamps) = ToSet(bare.stamps) \cup ToSet(more)
          /\ Received(w) <=> Received(bare) \/ Marked(more)
      BY <1>6, <1>8, Stamping
    <2> HIDE DEF w
    <2>2. Redispatched(m) = w
      BY <1>9 DEF w
    <2> QED BY <1>5, <1>7, <1>8, <2>1, <2>2
  <1>11. \A x \in ToSet(Redispatched(m).stamps) : x.type = "TransportNames" => x.value \in Seq(STRING)
    <2>1. \A x \in ToSet(kept) : x.type = "TransportNames" => x.value \in Seq(STRING)
      BY <1>1, <1>2, <1>4 DEF Addressed
    <2> QED BY <1>8, <1>10, <2>1
  <1>12. Addressed(Redispatched(m))
    BY <1>11 DEF Addressed, ToSet
  <1> QED BY <1>10, <1>12

\* The name an error is kept under is that of no other.
LEMMA UnusedIs ==
  ASSUME NEW errors, IsSequence(errors), NEW name
  PROVE  Unused(errors, name) \notin ToSet(errors)
  <1>1. Len(errors) \in Nat /\ DOMAIN errors = 1..Len(errors)
    BY PlacesOf
  <1>2. \A x : Contains(errors, x) <=> x \in ToSet(errors)
    BY <1>1 DEF Contains, ToSet
  <1> DEFINE l == Len(errors)
             T == {n \in 1..l + 1 : <<name, n>> \notin ToSet(errors)}
  <1>3. T # {}
    <2> SUFFICES ASSUME T = {} PROVE FALSE
      OBVIOUS
    <2>1. \A n \in 1..l + 1 : \E i \in 1..l : errors[i] = <<name, n>>
      BY <1>1 DEF ToSet
    <2> DEFINE f == [n \in 1..l + 1 |-> CHOOSE i \in 1..l : errors[i] = <<name, n>>]
    <2>2. f \in [1..l + 1 -> 1..l] /\ \A n \in 1..l + 1 : errors[f[n]] = <<name, n>>
      BY <2>1
    <2> HIDE DEF f
    <2>3. /\ IsFiniteSet(1..l) /\ IsFiniteSet(1..l + 1)
          /\ Cardinality(1..l) = l /\ Cardinality(1..l + 1) = l + 1
      <3>1. 1 \in Int /\ l \in Int /\ l + 1 \in Int /\ l >= 0
        BY <1>1
      <3>2. Cardinality(1..l) = IF 1 > l THEN 0 ELSE l - 1 + 1
        BY <3>1, FS_Interval
      <3>3. Cardinality(1..l + 1) = IF 1 > l + 1 THEN 0 ELSE (l + 1) - 1 + 1
        BY <3>1, FS_Interval
      <3>4. IsFiniteSet(1..l) /\ IsFiniteSet(1..l + 1)
        BY <3>1, FS_Interval
      <3> QED BY <3>1, <3>2, <3>3, <3>4
    <2>4. Cardinality(1..l) < Cardinality(1..l + 1)
      BY <1>1, <2>3
    <2>5. \E x, y \in 1..l + 1 : x # y /\ f[x] = f[y]
      <3> DEFINE S == 1..l + 1
                 U == 1..l
      <3>1. f \in [S -> U] /\ IsFiniteSet(S) /\ IsFiniteSet(U) /\ Cardinality(U) < Cardinality(S)
        BY <2>2, <2>3, <2>4
      <3> HIDE DEF S, U
      <3>2. \E x, y \in S : x # y /\ f[x] = f[y]
        BY <3>1, FS_PigeonHole
      <3> QED BY <3>2 DEF S
    <2> QED BY <2>2, <2>5
  <1>4. T \subseteq Nat
    BY <1>1
  <1> HIDE DEF T
  <1>5. PICK n \in T : \A k \in T : n <= k
    BY <1>3, <1>4, Least
  <1> DEFINE P(m) == /\ ~Contains(errors, <<name, m>>)
                     /\ \A k \in 1..m - 1 : Contains(errors, <<name, k>>)
  <1>6. \E m \in 1..l + 1 : P(m)
    <2>1. n \in 1..l + 1 /\ ~Contains(errors, <<name, n>>)
      BY <1>2, <1>5 DEF T
    <2>2. ASSUME NEW k \in 1..n - 1 PROVE Contains(errors, <<name, k>>)
      <3>1. k \in 1..l + 1 /\ ~(n <= k)
        BY <1>1, <2>1
      <3>2. k \notin T
        BY <1>5, <3>1
      <3> QED BY <1>2, <3>1, <3>2 DEF T
    <2> QED BY <2>1, <2>2
  <1> DEFINE c == CHOOSE m \in 1..l + 1 : P(m)
  <1>7. P(c)
    <2> HIDE DEF P
    <2> QED BY <1>6
  <1>8. Unused(errors, name) = <<name, c>>
    BY DEF Unused
  <1> HIDE DEF c
  <1> QED BY <1>2, <1>7, <1>8

-----------------------------------------------------------------------------
(***************************************************************************)
(* The inductive invariant.                                                *)
(***************************************************************************)
DispatchFields == {"bus", "envelope", "sentTo", "ran", "failed", "unit", "end", "stamps", "within"}

FrameFields == {"dispatch", "bus", "envelope", "offset", "step", "todo", "added", "errors", "unit"}

\* What SentAsRouted and EveryHandlerRuns say of a dispatch.
RoutedWell(d) ==
  /\ IsInjective(d.sentTo)
  /\ ToSet(d.sentTo) \subseteq Destinations(d.envelope)
  /\ d.end = "returned" => ToSet(d.sentTo) = Destinations(d.envelope)
  /\ d.bus = "publishing" => ~Received(d.envelope)

HandledWell(d) ==
  /\ IsInjective(d.ran)
  /\ d.ran # <<>> => HandledHere(d)
  /\ Ended(d) /\ d.ran # <<>> => /\ ToSet(d.ran) = Bound(d.envelope.message.type)
                                /\ d.end = "raised" <=> d.failed # {}
  /\ d.end = "returned" => d.failed = {} /\ (HandledHere(d) => ToSet(d.ran) = Bound(d.envelope.message.type))

\* What a worker dispatches it received.
Sound(d) ==
  /\ DOMAIN d = DispatchFields
  /\ WellFormed(d.envelope)
  /\ d.bus \in {"publishing", "working"}
  /\ d.bus = "publishing" => Addressed(d.envelope)
  /\ d.bus = "working" => Received(d.envelope)
  /\ d.sentTo \in Seq(Names) /\ d.ran \in Seq(Names)
  /\ IsFiniteSet(d.failed) /\ d.failed \subseteq ToSet(d.ran)
  /\ RoutedWell(d) /\ HandledWell(d)

\* Sent wherever it was to go, and to be handled here.
ToHandle(d) == ToSet(d.sentTo) = Destinations(d.envelope) /\ HandledHere(d)

\* The four stages of frame f of dispatch d: nothing was done yet; it is being sent, and one that
\* handed it back is one it was sent to; it is about to be handled; its handlers run, or ran.
Starts(f, d) ==
  /\ f.step = "next" /\ f.offset \in {0, 1} /\ (f.offset = 1 => f.bus = "publishing")
  /\ f.envelope = d.envelope /\ f.added = <<>>
  /\ d.sentTo = <<>> /\ d.ran = <<>>

Sends(f, d) ==
  /\ f.step = "sending" /\ f.bus = "publishing" /\ f.offset = 2
  /\ f.envelope = d.envelope
  /\ d.sentTo \o f.todo = SendersFor(d.envelope) /\ d.ran = <<>>
  /\ IsSequence(f.added) /\ (Marked(f.added) <=> "direct" \in ToSet(d.sentTo))

Arrives(f, d) ==
  /\ f.step = "next" /\ f.offset = IF f.bus = "publishing" THEN 2 ELSE 1
  /\ ToHandle(d) /\ d.ran = <<>>

Handles(f, d) ==
  /\ f.step \in {"handling", "awaiting", "next"} /\ f.offset = IF f.bus = "publishing" THEN 3 ELSE 2
  /\ ToHandle(d)
  /\ d.ran \o f.todo = HandlersFor(d.envelope.message.type)
  /\ f.step = "awaiting" => f.todo # <<>>
  /\ f.step = "next" => f.todo = <<>> /\ f.errors = <<>>

\* A frame keeps one error for each handler that failed.
Fits(f, d) ==
  /\ DOMAIN f = FrameFields /\ f.bus = d.bus /\ d.end = "running"
  /\ WellFormed(f.envelope) /\ f.envelope.message = d.envelope.message
  /\ f.todo \in Seq(Names)
  /\ IsSequence(f.errors) /\ IsInjective(f.errors) /\ Len(f.errors) = Cardinality(d.failed)
  /\ Starts(f, d) \/ Sends(f, d) \/ Arrives(f, d) \/ Handles(f, d)

Shape ==
  /\ settings \in Settings
  /\ DOMAIN frames = Tasks /\ \A t \in Tasks : IsSequence(frames[t])
  /\ IsSequence(dispatches)
  /\ IsSequence(queue) /\ \A e \in ToSet(queue) : WellFormed(e)

DispatchesSound == \A i \in DOMAIN dispatches : \A d \in {dispatches[i]} : Sound(d)

\* A frame waits exactly if another is above it.
FramesFit ==
  \A t \in Tasks : \A k \in DOMAIN frames[t] : \A f \in {frames[t][k]} :
    /\ f.dispatch \in DOMAIN dispatches
    /\ \A d \in {dispatches[f.dispatch]} : Fits(f, d)
    /\ k < Len(frames[t]) <=> f.step = "awaiting"

\* No two frames are of one dispatch.
FramesApart ==
  \A t, u \in Tasks : \A k \in DOMAIN frames[t] : \A l \in DOMAIN frames[u] :
    frames[t][k].dispatch = frames[u][l].dispatch => t = u /\ k = l

\* Frame f of one of the dispatches ds: before it enters a unit, it has that of the dispatch it is
\* within, to join; from then on, that of its dispatch.
Placed(ds, f) ==
  \A d \in {ds[f.dispatch]} :
    IF f.offset # 0 THEN f.unit # 0 /\ d.unit = f.unit
    ELSE /\ d.unit = 0
         /\ d.within = 0 => f.unit = 0
         /\ d.within # 0 => f.unit # 0 /\ d.within \in DOMAIN ds /\ ds[d.within].unit = f.unit

FramesPlaced == \A t \in Tasks : \A k \in DOMAIN frames[t] : Placed(dispatches, frames[t][k])

\* A unit is of one dispatch that is new work, and of those within one of that unit.
UnitsTold ==
  /\ units \in Nat
  /\ \A i \in DOMAIN dispatches : \A d \in {dispatches[i]} :
       /\ d.unit \in 0..units
       /\ d.unit # 0 /\ Own(d) =>
            \A j \in DOMAIN dispatches : j # i /\ Own(dispatches[j]) => dispatches[j].unit # d.unit
       /\ d.unit # 0 /\ ~Own(d) => d.within \in DOMAIN dispatches /\ dispatches[d.within].unit = d.unit

UnitsApart == UnitsTold /\ FramesPlaced

Inv == Shape /\ DispatchesSound /\ FramesFit /\ FramesApart /\ UnitsApart

-----------------------------------------------------------------------------
(***************************************************************************)
(* One dispatch and its frame, step by step.                               *)
(***************************************************************************)

LEMMA Nothing ==
  /\ \A S : <<>> \in Seq(S)
  /\ IsSequence(<<>>) /\ ToSet(<<>>) = {} /\ IsInjective(<<>>) /\ Len(<<>>) = 0 /\ ~Marked(<<>>)
  <1>1. \A S : <<>> \in Seq(S)
    OBVIOUS
  <1>2. ToSet(<<>>) = {}
    BY <1>1, NoElements
  <1>3. IsSequence(<<>>)
    BY <1>1, <1>2 DEF IsSequence
  <1>4. IsInjective(<<>>)
    <2>1. DOMAIN <<>> = {}
      OBVIOUS
    <2> QED BY <2>1 DEF IsInjective
  <1>5. Len(<<>>) = 0
    OBVIOUS
  <1> QED BY <1>1, <1>2, <1>3, <1>4, <1>5 DEF Marked

\* What was received is to go nowhere, and to be handled.
LEMMA ReceivedStays ==
  ASSUME NEW e, Received(e)
  PROVE  Destinations(e) = {}
BY Zenon DEF Destinations

\* The unit and the stamps of a dispatch are none of it.
LEMMA SoundSame ==
  ASSUME NEW d, NEW e, Sound(d), DOMAIN e = DispatchFields,
         e.bus = d.bus, e.envelope = d.envelope, e.sentTo = d.sentTo, e.ran = d.ran,
         e.failed = d.failed, e.end = d.end
  PROVE  Sound(e)
  <1>1. HandledHere(e) <=> HandledHere(d)
    BY DEF HandledHere
  <1>2. RoutedWell(e)
    BY DEF Sound, RoutedWell
  <1>3. HandledWell(e)
    BY <1>1 DEF Sound, HandledWell, Ended
  <1> QED BY <1>2, <1>3 DEF Sound

LEMMA FitsSame ==
  ASSUME NEW f, NEW d, NEW e, Fits(f, d),
         e.bus = d.bus, e.envelope = d.envelope, e.sentTo = d.sentTo, e.ran = d.ran,
         e.failed = d.failed, e.end = d.end
  PROVE  Fits(f, e)
  <1>1. HandledHere(e) <=> HandledHere(d)
    BY DEF HandledHere
  <1>2. ToHandle(e) <=> ToHandle(d)
    BY <1>1 DEF ToHandle
  <1> QED BY <1>2 DEF Fits, Starts, Sends, Arrives, Handles

\* A dispatch that begins.
LEMMA NewDispatch ==
  ASSUME NEW bus \in {"publishing", "working"}, NEW x, WellFormed(x),
         bus = "publishing" => ~Received(x) /\ Addressed(x), bus = "working" => Received(x),
         NEW i, NEW d, d = [bus |-> bus, envelope |-> x, sentTo |-> <<>>, ran |-> <<>>, failed |-> {},
                     unit |-> 0, end |-> "running", stamps |-> <<>>, within |-> i],
         NEW n, NEW u,
         NEW f, f = [dispatch |-> n, bus |-> bus, envelope |-> x, offset |-> 0, step |-> "next",
                     todo |-> <<>>, added |-> <<>>, errors |-> <<>>, unit |-> u]
  PROVE  Sound(d) /\ Fits(f, d)
  <1>1. /\ DOMAIN d = DispatchFields /\ d.bus = bus /\ d.envelope = x /\ d.sentTo = <<>> /\ d.ran = <<>>
        /\ d.failed = {} /\ d.end = "running"
    BY DEF DispatchFields
  <1>2. /\ DOMAIN f = FrameFields /\ f.bus = bus /\ f.envelope = x /\ f.offset = 0 /\ f.step = "next"
        /\ f.todo = <<>> /\ f.added = <<>> /\ f.errors = <<>>
    BY DEF FrameFields
  <1>3. RoutedWell(d)
    BY <1>1, Nothing DEF RoutedWell
  <1>4. HandledWell(d)
    BY <1>1, Nothing DEF HandledWell, Ended
  <1>5. Sound(d)
    BY <1>1, <1>3, <1>4, Nothing, FS_EmptySet DEF Sound
  <1>6. Starts(f, d)
    BY <1>1, <1>2 DEF Starts
  <1>7. Fits(f, d)
    BY <1>1, <1>2, <1>6, Nothing, FS_EmptySet DEF Fits
  <1> QED BY <1>5, <1>7

\* It enters a unit of work.
LEMMA EntersIt ==
  ASSUME NEW d, Sound(d), NEW f, Fits(f, d), f.step = "next", f.offset = 0, NEW u,
         NEW g, g = [f EXCEPT !.unit = u, !.offset = 1],
         NEW e, e = [d EXCEPT !.unit = u]
  PROVE  Sound(e) /\ Fits(g, e) /\ f.envelope = d.envelope
  <1>1. Starts(f, d)
    BY DEF Fits, Sends, Arrives, Handles
  <1>2. /\ DOMAIN e = DispatchFields /\ e.bus = d.bus /\ e.envelope = d.envelope /\ e.sentTo = d.sentTo
        /\ e.ran = d.ran /\ e.failed = d.failed /\ e.end = d.end
    BY DEF Sound, DispatchFields
  <1>3. Sound(e)
    BY <1>2, SoundSame
  <1>4. /\ DOMAIN g = FrameFields /\ g.bus = f.bus /\ g.envelope = f.envelope /\ g.offset = 1
        /\ g.step = f.step /\ g.todo = f.todo /\ g.added = f.added /\ g.errors = f.errors
    BY DEF Fits, FrameFields
  <1>5. CASE d.bus = "publishing"
    <2>1. Starts(g, d)
      BY <1>1, <1>4, <1>5 DEF Starts, Fits
    <2>2. Fits(g, d)
      BY <1>4, <2>1 DEF Fits
    <2> QED BY <1>1, <1>2, <1>3, <2>2, FitsSame DEF Starts
  <1>6. CASE d.bus = "working"
    <2>1. ToHandle(d)
      BY <1>1, <1>6, ReceivedStays, Nothing DEF Sound, Starts, ToHandle, HandledHere
    <2>2. Arrives(g, d)
      BY <1>1, <1>4, <1>6, <2>1 DEF Starts, Arrives, Fits
    <2>3. Fits(g, d)
      BY <1>4, <2>2 DEF Fits
    <2> QED BY <1>1, <1>2, <1>3, <2>3, FitsSame DEF Starts
  <1> QED BY <1>5, <1>6 DEF Sound

\* It comes to the senders.
LEMMA ComesToSend ==
  ASSUME settings \in Settings,
         NEW d, Sound(d), NEW f, Fits(f, d), f.step = "next", f.offset = 1, f.bus = "publishing",
         NEW g, g = [[f EXCEPT !.offset = @ + 1] EXCEPT !.step = "sending", !.todo = SendersFor(f.envelope)]
  PROVE  Fits(g, d) /\ ~Received(f.envelope)
  <1>1. Starts(f, d)
    BY DEF Fits, Sends, Arrives, Handles
  <1>2. /\ DOMAIN g = FrameFields /\ g.bus = f.bus /\ g.envelope = f.envelope /\ g.offset = 1 + 1
        /\ g.step = "sending" /\ g.todo = SendersFor(f.envelope) /\ g.added = f.added /\ g.errors = f.errors
    BY DEF Fits, FrameFields
  <1>3. d.bus = "publishing" /\ f.envelope = d.envelope
    BY <1>1 DEF Fits, Starts
  <1>4. ~Received(d.envelope) /\ Addressed(d.envelope) /\ IsSequence(d.envelope.stamps)
    BY <1>3 DEF Sound, RoutedWell, WellFormed
  <1>5. SendersFor(d.envelope) \in Seq(Names)
    BY <1>4, SendersAre
  <1>6. <<>> \o SendersFor(d.envelope) = SendersFor(d.envelope)
    BY <1>5, ConcatEmptySeq
  <1>7. Sends(g, d)
    BY <1>1, <1>2, <1>3, <1>6, Nothing DEF Starts, Sends
  <1>8. Fits(g, d)
    BY <1>2, <1>3, <1>5, <1>7 DEF Fits
  <1> QED BY <1>3, <1>4, <1>8

\* It comes to the handlers.
LEMMA ComesToHandle ==
  ASSUME settings \in Settings,
         NEW d, Sound(d), NEW f, Fits(f, d), f.step = "next",
         f.offset = IF f.bus = "publishing" THEN 2 ELSE 1,
         NEW g, g = [[f EXCEPT !.offset = @ + 1] EXCEPT !.step = "handling",
                                                        !.todo = HandlersFor(f.envelope.message.type)]
  PROVE  Fits(g, d) /\ d.ran = <<>>
  <1>1. Arrives(f, d)
    <2>1. ~Starts(f, d)
      <3>1. CASE f.bus = "publishing"
        BY <3>1 DEF Starts
      <3>2. CASE f.bus # "publishing"
        BY <3>2 DEF Starts
      <3> QED BY <3>1, <3>2
    <2>2. ~Sends(f, d)
      BY DEF Sends
    <2>3. ~Handles(f, d)
      <3>1. CASE f.bus = "publishing"
        BY <3>1 DEF Handles
      <3>2. CASE f.bus # "publishing"
        BY <3>2 DEF Handles
      <3> QED BY <3>1, <3>2
    <2> QED BY <2>1, <2>2, <2>3 DEF Fits
  <1>2. /\ DOMAIN g = FrameFields /\ g.bus = f.bus /\ g.envelope = f.envelope
        /\ g.offset = (IF f.bus = "publishing" THEN 2 ELSE 1) + 1
        /\ g.step = "handling" /\ g.todo = HandlersFor(f.envelope.message.type) /\ g.errors = f.errors
    BY DEF Fits, FrameFields
  <1>3. f.envelope.message = d.envelope.message
    BY DEF Fits
  <1>4. HandlersFor(d.envelope.message.type) \in Seq(Names)
    BY HandlersAre
  <1>5. <<>> \o HandlersFor(d.envelope.message.type) = HandlersFor(d.envelope.message.type)
    BY <1>4, ConcatEmptySeq
  <1>6. Handles(g, d)
    BY <1>1, <1>2, <1>3, <1>5 DEF Arrives, Handles
  <1>7. Fits(g, d)
    BY <1>2, <1>3, <1>4, <1>6 DEF Fits
  <1> QED BY <1>1, <1>7 DEF Arrives

\* It ends.
LEMMA EndsIt ==
  ASSUME NEW d, Sound(d), NEW end \in {"returned", "raised"}, NEW stamps,
         NEW e, e = [d EXCEPT !.end = end, !.stamps = stamps],
         d.ran # <<>> => ToSet(d.ran) = Bound(d.envelope.message.type),
         d.ran # <<>> /\ end = "raised" => d.failed # {},
         end = "returned" => /\ ToSet(d.sentTo) = Destinations(d.envelope)
                             /\ d.failed = {}
                             /\ HandledHere(d) => ToSet(d.ran) = Bound(d.envelope.message.type)
  PROVE  Sound(e)
  <1>1. /\ DOMAIN e = DispatchFields /\ e.bus = d.bus /\ e.envelope = d.envelope /\ e.sentTo = d.sentTo
        /\ e.ran = d.ran /\ e.failed = d.failed /\ e.end = end
    BY DEF Sound, DispatchFields
  <1>2. HandledHere(e) <=> HandledHere(d)
    BY <1>1 DEF HandledHere
  <1>3. RoutedWell(e)
    BY <1>1 DEF Sound, RoutedWell
  <1>4. HandledWell(e)
    BY <1>1, <1>2 DEF Sound, HandledWell
  <1> QED BY <1>1, <1>3, <1>4 DEF Sound

\* What was sent so far, and what is still to come.
LEMMA SendersLeft ==
  ASSUME settings \in Settings, NEW d, Sound(d), NEW f, Fits(f, d), f.step = "sending"
  PROVE  /\ Sends(f, d)
         /\ ~Received(d.envelope) /\ d.bus = "publishing"
         /\ d.sentTo \in Seq(Names) /\ f.todo \in Seq(Names)
         /\ d.sentTo \o f.todo = SendersFor(d.envelope)
         /\ IsInjective(d.sentTo \o f.todo) /\ ToSet(d.sentTo \o f.todo) = Destinations(d.envelope)
  <1>1. Sends(f, d)
    BY DEF Fits, Starts, Arrives, Handles
  <1>2. d.bus = "publishing" /\ d.sentTo \o f.todo = SendersFor(d.envelope) /\ f.todo \in Seq(Names)
    BY <1>1 DEF Sends, Fits
  <1>3. /\ ~Received(d.envelope) /\ Addressed(d.envelope) /\ IsSequence(d.envelope.stamps)
        /\ d.sentTo \in Seq(Names)
    BY <1>2 DEF Sound, RoutedWell, WellFormed
  <1> QED BY <1>1, <1>2, <1>3, SendersAre

\* The sender at hand took it.
LEMMA SendsOne ==
  ASSUME settings \in Settings,
         NEW d, Sound(d), NEW f, Fits(f, d), f.step = "sending", f.todo # <<>>,
         NEW more, IsSequence(more), Marked(more) <=> Head(f.todo) = "direct",
         NEW g, g = [f EXCEPT !.todo = Tail(@), !.added = @ \o more],
         NEW e, e = [d EXCEPT !.sentTo = Append(@, Head(f.todo))]
  PROVE  Sound(e) /\ Fits(g, e)
  <1> DEFINE s == d.sentTo
             u == f.todo
             x == Head(u)
             v == Append(s, x)
             w == Tail(u)
  <1>1. /\ Sends(f, d) /\ ~Received(d.envelope) /\ d.bus = "publishing"
        /\ s \in Seq(Names) /\ u \in Seq(Names) /\ u # <<>>
        /\ s \o u = SendersFor(d.envelope)
        /\ IsInjective(s \o u) /\ ToSet(s \o u) = Destinations(d.envelope)
    BY SendersLeft
  <1>2. /\ DOMAIN e = DispatchFields /\ e.bus = d.bus /\ e.envelope = d.envelope /\ e.sentTo = v
        /\ e.ran = d.ran /\ e.failed = d.failed /\ e.end = d.end
    BY DEF Sound, DispatchFields
  <1>3. /\ DOMAIN g = FrameFields /\ g.bus = f.bus /\ g.envelope = f.envelope /\ g.offset = f.offset
        /\ g.step = f.step /\ g.todo = w /\ g.added = f.added \o more /\ g.errors = f.errors
    BY DEF Fits, FrameFields
  <1> HIDE DEF s, u
  <1>4. /\ v \in Seq(Names) /\ w \in Seq(Names) /\ v \o w = s \o u
    <2> HIDE DEF v, w, x
    <2>1. s \in Seq(Names) /\ u \in Seq(Names) /\ u # <<>>
      BY <1>1
    <2>2. /\ Append(s, Head(u)) \in Seq(Names) /\ Tail(u) \in Seq(Names)
          /\ Append(s, Head(u)) \o Tail(u) = s \o u
      BY <2>1, OneOn
    <2> QED BY <2>2 DEF v, w, x
  <1>5. IsSequence(s) /\ ToSet(v) = ToSet(s) \cup {x}
    <2>1. IsSequence(s)
      BY <1>1, IsSequenceOf
    <2> QED BY <2>1, Appended
  <1> HIDE DEF v, w, x
  <1>6. IsInjective(v) /\ ToSet(v) \subseteq Destinations(d.envelope)
    <2>1. IsInjective(v \o w)
      BY <1>1, <1>4
    <2>2. IsInjective(v) /\ ToSet(v) \subseteq ToSet(v \o w)
      BY <1>4, <2>1, SoFar
    <2> QED BY <1>1, <1>4, <2>2
  <1>7. d.ran = <<>> /\ d.end = "running" /\ IsSequence(f.added) /\ (Marked(f.added) <=> "direct" \in ToSet(s))
    BY <1>1 DEF Sends, Fits, s
  <1>8. RoutedWell(e)
    BY <1>1, <1>2, <1>6, <1>7 DEF RoutedWell
  <1>9. HandledWell(e)
    BY <1>2, <1>7, Nothing DEF HandledWell, Ended
  <1>10. Sound(e)
    BY <1>2, <1>4, <1>8, <1>9 DEF Sound
  <1>11. IsSequence(g.added) /\ (Marked(g.added) <=> "direct" \in ToSet(v))
    <2> DEFINE a == f.added
    <2>1. IsSequence(a) /\ g.added = a \o more
      BY <1>3, <1>7
    <2> HIDE DEF a
    <2>2. IsSequence(a \o more) /\ ToSet(a \o more) = ToSet(a) \cup ToSet(more)
      BY <2>1, Joined
    <2>3. Marked(a \o more) <=> Marked(a) \/ Marked(more)
      BY <2>2 DEF Marked
    <2>4. Marked(more) <=> x = "direct"
      BY DEF x, u
    <2>5. Marked(a) <=> "direct" \in ToSet(s)
      BY <1>7 DEF a
    <2> QED BY <1>5, <2>1, <2>2, <2>3, <2>4, <2>5
  <1>12. Sends(g, e)
    BY <1>1, <1>2, <1>3, <1>4, <1>11 DEF Sends
  <1>13. Fits(g, e)
    BY <1>2, <1>3, <1>4, <1>12 DEF Fits
  <1> QED BY <1>10, <1>13

\* Every sender took it: it goes on exactly if it is to be handled here.
LEMMA RoutesIt ==
  ASSUME settings \in Settings,
         NEW d, Sound(d), NEW f, Fits(f, d), f.step = "sending", f.todo = <<>>,
         NEW x, x = WithStamps(f.envelope, f.added),
         NEW on \in BOOLEAN,
         on <=> IF d.sentTo # <<>> THEN Received(x) ELSE ~settings.requireSender /\ settings.handleUnrouted,
         NEW g, g = [f EXCEPT !.envelope = x, !.step = "next"]
  PROVE  /\ ToSet(d.sentTo) = Destinations(d.envelope) /\ d.ran = <<>> /\ d.failed = {}
         /\ on => Fits(g, d)
         /\ ~on /\ (d.sentTo # <<>> \/ ~settings.requireSender) => ~HandledHere(d)
  <1>1. /\ Sends(f, d) /\ ~Received(d.envelope) /\ d.bus = "publishing"
        /\ d.sentTo \in Seq(Names)
        /\ d.sentTo \o <<>> = SendersFor(d.envelope)
        /\ ToSet(d.sentTo \o <<>>) = Destinations(d.envelope)
    BY SendersLeft
  <1>2. d.sentTo \o <<>> = d.sentTo
    BY <1>1, ConcatEmptySeq
  <1>3. ToSet(d.sentTo) = Destinations(d.envelope) /\ (d.sentTo = <<>> <=> Destinations(d.envelope) = {})
    BY <1>1, <1>2, NoElements
  <1>4. d.ran = <<>> /\ d.failed = {}
    BY <1>1, Nothing DEF Sends, Sound
  <1>5. /\ WellFormed(x) /\ x.message = f.envelope.message
        /\ Received(x) <=> Received(f.envelope) \/ Marked(f.added)
    BY <1>1, Stamping DEF Sends, Fits
  <1>6. Received(x) <=> "direct" \in ToSet(d.sentTo)
    BY <1>1, <1>5 DEF Sends
  <1>7. Contains(d.sentTo, "direct") <=> "direct" \in ToSet(d.sentTo)
    <2>1. DOMAIN d.sentTo = 1..Len(d.sentTo)
      BY <1>1
    <2> QED BY <2>1 DEF Contains, ToSet
  <1>8. HandledHere(d) <=> "direct" \in ToSet(d.sentTo)
                           \/ (d.sentTo = <<>> /\ settings.handleUnrouted /\ ~settings.requireSender)
    BY <1>1, <1>3, <1>7 DEF HandledHere
  <1>9. d.sentTo = <<>> => "direct" \notin ToSet(d.sentTo)
    BY Nothing
  <1>10. ASSUME on PROVE Fits(g, d)
    <2>1. /\ DOMAIN g = FrameFields /\ g.bus = f.bus /\ g.envelope = x /\ g.offset = f.offset
          /\ g.step = "next" /\ g.todo = f.todo /\ g.errors = f.errors
      BY DEF Fits, FrameFields
    <2>2. ToHandle(d)
      BY <1>3, <1>6, <1>8, <1>10 DEF ToHandle
    <2>3. Arrives(g, d)
      BY <1>1, <1>4, <2>1, <2>2 DEF Arrives, Sends
    <2> QED BY <1>5, <2>1, <2>3 DEF Fits
  <1> QED BY <1>3, <1>4, <1>6, <1>8, <1>9, <1>10

\* The handlers that ran so far, and those still to run.
LEMMA HandlersLeft ==
  ASSUME settings \in Settings, NEW d, Sound(d), NEW f, Fits(f, d), f.step \in {"handling", "awaiting"}
  PROVE  /\ Handles(f, d)
         /\ d.ran \in Seq(Names) /\ f.todo \in Seq(Names)
         /\ d.ran \o f.todo = HandlersFor(d.envelope.message.type)
         /\ IsInjective(d.ran \o f.todo)
         /\ ToSet(d.ran \o f.todo) = Bound(d.envelope.message.type)
         /\ "redispatching" \in ToSet(d.ran \o f.todo) => d.envelope.message.type = "redispatch"
  <1>1. Handles(f, d)
    BY DEF Fits, Starts, Sends, Arrives
  <1>2. d.ran \in Seq(Names) /\ f.todo \in Seq(Names)
    BY DEF Fits, Sound
  <1>3. d.ran \o f.todo = HandlersFor(d.envelope.message.type)
    BY <1>1 DEF Handles
  <1> QED BY <1>1, <1>2, <1>3, HandlersAre

\* A sequence of different elements with another one has one more.
LEMMA Different ==
  ASSUME NEW s, IsSequence(s), IsInjective(s), NEW x, x \notin ToSet(s)
  PROVE  IsInjective(Append(s, x))
  <1> DEFINE q == Append(s, x)
             l == Len(s)
  <1>1. l \in Nat /\ DOMAIN s = 1..l
    BY PlacesOf
  <1>2. DOMAIN q = 1..(l + 1) /\ (\A i \in 1..l : q[i] = s[i]) /\ q[l + 1] = x
    BY Appended
  <1> HIDE DEF q, l
  <1>3. \A i \in 1..l : q[i] # x
    BY <1>1, <1>2 DEF ToSet
  <1>4. \A i, j \in 1..l : q[i] = q[j] => i = j
    BY <1>1, <1>2 DEF IsInjective
  <1>5. \A i \in 1..(l + 1) : i \in 1..l \/ i = l + 1
    BY <1>1
  <1> QED BY <1>2, <1>3, <1>4, <1>5 DEF IsInjective, q

\* A dispatch of which one more handler ended.
RanOne(d, handler, ok) ==
  [d EXCEPT !.ran = Append(@, handler), !.failed = IF ok THEN @ ELSE @ \cup {handler}]

\* The handler at hand ended.
LEMMA HandlesOne ==
  ASSUME settings \in Settings,
         NEW d, Sound(d), NEW f, Fits(f, d), f.step \in {"handling", "awaiting"}, f.todo # <<>>,
         NEW ok \in BOOLEAN, NEW g, g = HandlerEnds(f, ok),
         NEW e, e = RanOne(d, Head(f.todo), ok)
  PROVE  /\ Sound(e) /\ Fits(g, e) /\ g.step = "handling"
         /\ g.dispatch = f.dispatch /\ g.unit = f.unit /\ g.offset = f.offset
  <1> DEFINE s == d.ran
             u == f.todo
             x == Head(u)
             v == Append(s, x)
             w == Tail(u)
             name == NameOf(x)
             kept == IF ok THEN WithStamps(f.envelope, <<Stamp("Handled", name)>>) ELSE f.envelope
             errors == IF ok THEN f.errors ELSE Append(f.errors, Unused(f.errors, name))
             failed == IF ok THEN d.failed ELSE d.failed \cup {x}
  <1>1. /\ Handles(f, d) /\ s \in Seq(Names) /\ u \in Seq(Names) /\ u # <<>>
        /\ s \o u = HandlersFor(d.envelope.message.type)
        /\ IsInjective(s \o u) /\ ToSet(s \o u) = Bound(d.envelope.message.type)
    BY HandlersLeft
  <1>2. /\ DOMAIN e = DispatchFields /\ e.bus = d.bus /\ e.envelope = d.envelope /\ e.sentTo = d.sentTo
        /\ e.ran = v /\ e.failed = failed /\ e.end = d.end
    BY DEF Sound, DispatchFields, RanOne
  <1>3. /\ DOMAIN g = FrameFields /\ g.dispatch = f.dispatch /\ g.unit = f.unit
        /\ g.bus = f.bus /\ g.offset = f.offset /\ g.step = "handling" /\ g.todo = w
        /\ g.envelope = kept /\ g.errors = errors
    <2> DEFINE rest == [f EXCEPT !.todo = Tail(@), !.step = "handling"]
    <2>1. /\ DOMAIN rest = FrameFields /\ rest.dispatch = f.dispatch /\ rest.unit = f.unit
          /\ rest.bus = f.bus /\ rest.offset = f.offset /\ rest.step = "handling" /\ rest.todo = w
          /\ rest.envelope = f.envelope /\ rest.errors = f.errors
      BY DEF Fits, FrameFields
    <2>2. g = IF ok THEN [rest EXCEPT !.envelope = WithStamps(@, <<Stamp("Handled", name)>>)]
              ELSE [rest EXCEPT !.errors = Append(@, Unused(@, name))]
      BY Zenon DEF HandlerEnds
    <2> HIDE DEF rest, name, w
    <2>3. CASE ok
      <3>1. g = [rest EXCEPT !.envelope = WithStamps(@, <<Stamp("Handled", name)>>)]
        BY <2>2, <2>3
      <3> QED BY <2>1, <2>3, <3>1 DEF FrameFields
    <2>4. CASE ~ok
      <3>1. g = [rest EXCEPT !.errors = Append(@, Unused(@, name))]
        BY <2>2, <2>4
      <3> QED BY <2>1, <2>4, <3>1 DEF FrameFields
    <2> QED BY <2>3, <2>4
  <1> HIDE DEF s, u
  <1>4. v \in Seq(Names) /\ w \in Seq(Names) /\ v \o w = s \o u
    <2> HIDE DEF v, w, x
    <2>1. s \in Seq(Names) /\ u \in Seq(Names) /\ u # <<>>
      BY <1>1
    <2>2. /\ Append(s, Head(u)) \in Seq(Names) /\ Tail(u) \in Seq(Names)
          /\ Append(s, Head(u)) \o Tail(u) = s \o u
      BY <2>1, OneOn
    <2> QED BY <2>2 DEF v, w, x
  <1>5. IsSequence(s) /\ ToSet(v) = ToSet(s) \cup {x} /\ v # <<>>
    <2>1. IsSequence(s)
      BY <1>1, IsSequenceOf
    <2>2. ToSet(v) = ToSet(s) \cup {x}
      BY <2>1, Appended
    <2> HIDE DEF v
    <2>3. v # <<>>
      BY <2>2, Nothing
    <2> QED BY <2>1, <2>2, <2>3
  <1>6. x \notin ToSet(s)
    <2>1. s \in Seq(Names) /\ u \in Seq(Names) /\ u # <<>> /\ IsInjective(s \o u)
      BY <1>1
    <2>2. Head(u) \notin ToSet(s)
      BY <2>1, SoFar
    <2> QED BY <2>2 DEF x
  <1> HIDE DEF v, w
  <1>7. IsInjective(v)
    <2>1. IsInjective(v \o w)
      BY <1>1, <1>4
    <2> QED BY <1>4, <2>1, SoFar
  <1>8. /\ IsFiniteSet(d.failed) /\ d.failed \subseteq ToSet(s) /\ d.end = "running"
        /\ WellFormed(f.envelope) /\ f.envelope.message = d.envelope.message /\ f.bus = d.bus
        /\ IsSequence(f.errors) /\ IsInjective(f.errors) /\ Len(f.errors) = Cardinality(d.failed)
        /\ ToHandle(d)
    BY <1>1 DEF Sound, Fits, Handles, s
  <1>9. /\ IsFiniteSet(failed) /\ failed \subseteq ToSet(v)
        /\ IsSequence(errors) /\ IsInjective(errors) /\ Len(errors) = Cardinality(failed)
    <2> HIDE DEF x, name
    <2>1. CASE ok
      <3>1. failed = d.failed /\ errors = f.errors
        BY <2>1
      <3> QED BY <1>5, <1>8, <3>1
    <2>2. CASE ~ok
      <3> DEFINE old == f.errors
                 new == Unused(old, name)
      <3>1. failed = d.failed \cup {x} /\ errors = Append(old, new)
        BY <2>2
      <3>2. IsSequence(old) /\ IsInjective(old) /\ Len(old) = Cardinality(d.failed)
        BY <1>8
      <3>3. IsFiniteSet(failed) /\ Cardinality(failed) = Cardinality(d.failed) + 1
        <4>1. x \notin d.failed
          BY <1>6, <1>8
        <4> QED BY <1>8, <3>1, <4>1, FS_AddElement
      <3> HIDE DEF old, failed, errors
      <3>4. new \notin ToSet(old)
        BY <3>2, UnusedIs
      <3> HIDE DEF new
      <3>5. IsSequence(errors) /\ Len(errors) = Len(old) + 1 /\ IsInjective(errors)
        BY <3>1, <3>2, <3>4, Appended, Different
      <3>6. failed \subseteq ToSet(v)
        BY <1>5, <1>8, <3>1
      <3> QED BY <3>2, <3>3, <3>5, <3>6
    <2> QED BY <2>1, <2>2
  <1>10. WellFormed(kept) /\ kept.message = d.envelope.message
    <2>1. CASE ok
      <3> DEFINE mark == <<Stamp("Handled", name)>>
      <3>1. kept = WithStamps(f.envelope, mark) /\ IsSequence(mark)
        BY <2>1, OneStamp
      <3> HIDE DEF mark, kept
      <3> QED BY <1>8, <3>1, Stamping
    <2>2. CASE ~ok
      BY <1>8, <2>2
    <2> QED BY <2>1, <2>2
  <1> HIDE DEF x, name, kept, errors, failed
  <1>11. ToHandle(e) /\ HandledHere(e)
    BY <1>2, <1>8 DEF ToHandle, HandledHere
  <1>12. RoutedWell(e)
    BY <1>2 DEF Sound, RoutedWell
  <1>13. HandledWell(e)
    BY <1>2, <1>7, <1>8, <1>11 DEF HandledWell, Ended
  <1>14. Sound(e)
    BY <1>2, <1>4, <1>9, <1>12, <1>13 DEF Sound
  <1>15. Handles(g, e)
    BY <1>1, <1>2, <1>3, <1>4, <1>11 DEF Handles
  <1>16. Fits(g, e)
    BY <1>2, <1>3, <1>4, <1>8, <1>9, <1>10, <1>15 DEF Fits
  <1> QED BY <1>3, <1>14, <1>16

\* A handler waits for what it dispatched.
LEMMA WaitsFor ==
  ASSUME NEW d, NEW f, Fits(f, d), f.step = "handling", f.todo # <<>>,
         NEW g, g = [f EXCEPT !.step = "awaiting"]
  PROVE  Fits(g, d) /\ g.step = "awaiting" /\ g.dispatch = f.dispatch /\ g.unit = f.unit
  <1>1. /\ DOMAIN g = FrameFields /\ g.dispatch = f.dispatch /\ g.unit = f.unit
        /\ g.bus = f.bus /\ g.offset = f.offset /\ g.step = "awaiting" /\ g.todo = f.todo
        /\ g.envelope = f.envelope /\ g.errors = f.errors
    BY DEF Fits, FrameFields
  <1>2. Handles(f, d)
    BY DEF Fits, Starts, Sends, Arrives
  <1>3. Handles(g, d)
    BY <1>1, <1>2 DEF Handles
  <1> QED BY <1>1, <1>3 DEF Fits

\* Every handler ran: it goes on if none failed.
LEMMA HandledAll ==
  ASSUME settings \in Settings, NEW d, Sound(d), NEW f, Fits(f, d), f.step = "handling", f.todo = <<>>,
         NEW g, g = [f EXCEPT !.step = "next"]
  PROVE  ToSet(d.ran) = Bound(d.envelope.message.type) /\ (f.errors = <<>> => Fits(g, d))
  <1>1. /\ Handles(f, d) /\ d.ran \in Seq(Names)
        /\ ToSet(d.ran \o <<>>) = Bound(d.envelope.message.type)
    BY HandlersLeft
  <1>2. d.ran \o <<>> = d.ran
    BY <1>1, ConcatEmptySeq
  <1>3. /\ DOMAIN g = FrameFields /\ g.bus = f.bus /\ g.offset = f.offset /\ g.step = "next"
        /\ g.todo = f.todo /\ g.envelope = f.envelope /\ g.errors = f.errors
    BY DEF Fits, FrameFields
  <1>4. f.errors = <<>> => Handles(g, d)
    BY <1>1, <1>3 DEF Handles
  <1>5. f.errors = <<>> => Fits(g, d)
    BY <1>3, <1>4 DEF Fits
  <1> QED BY <1>1, <1>2, <1>5

\* It comes to the end of the chain.
LEMMA ComesToEnd ==
  ASSUME settings \in Settings, NEW d, Sound(d), NEW f, Fits(f, d), f.step = "next",
         f.offset = IF f.bus = "publishing" THEN 3 ELSE 2
  PROVE  ToSet(d.sentTo) = Destinations(d.envelope) /\ d.failed = {} /\ ToSet(d.ran) = Bound(d.envelope.message.type)
  <1>1. Handles(f, d)
    <2>1. ~Starts(f, d)
      <3>1. CASE f.bus = "publishing"
        BY <3>1 DEF Starts
      <3>2. CASE f.bus # "publishing"
        BY <3>2 DEF Starts
      <3> QED BY <3>1, <3>2
    <2>2. ~Sends(f, d)
      BY DEF Sends
    <2>3. ~Arrives(f, d)
      <3>1. CASE f.bus = "publishing"
        BY <3>1 DEF Arrives
      <3>2. CASE f.bus # "publishing"
        BY <3>2 DEF Arrives
      <3> QED BY <3>1, <3>2
    <2> QED BY <2>1, <2>2, <2>3 DEF Fits
  <1>2. /\ d.ran \in Seq(Names) /\ f.todo = <<>> /\ f.errors = <<>>
        /\ d.ran \o f.todo = HandlersFor(d.envelope.message.type)
    BY <1>1 DEF Handles, Sound
  <1>3. d.ran \o <<>> = d.ran
    BY <1>2, ConcatEmptySeq
  <1>4. d.ran = HandlersFor(d.envelope.message.type)
    BY <1>2, <1>3
  <1>5. ToSet(d.ran) = Bound(d.envelope.message.type)
    BY <1>4, HandlersAre
  <1>6. d.failed = {}
    <2>1. IsFiniteSet(d.failed) /\ Cardinality(d.failed) = Len(<<>>)
      BY <1>2 DEF Sound, Fits
    <2>2. Len(<<>>) = 0
      BY Nothing
    <2> QED BY <2>1, <2>2, FS_EmptySet
  <1> QED BY <1>1, <1>5, <1>6 DEF Handles, ToHandle

-----------------------------------------------------------------------------
(***************************************************************************)
(* What a step of one task leaves alone.                                   *)
(***************************************************************************)

\* Settings never change, nor does what follows from them.
LEMMA SameAnswers ==
  ASSUME settings' = settings, NEW e, NEW type
  PROVE  /\ SendersFor(e)' = SendersFor(e) /\ Destinations(e)' = Destinations(e)
         /\ HandlersFor(type)' = HandlersFor(type) /\ Bound(type)' = Bound(type)
  <1>1. DeclaredFor(type)' = DeclaredFor(type)
    BY DEF DeclaredFor
  <1>2. TransportNames(e)' = TransportNames(e)
    BY DEF TransportNames, DeclaredFor
  <1>3. SendersFor(e)' = SendersFor(e)
    BY <1>2 DEF SendersFor
  <1>4. Destinations(e)' = Destinations(e)
    BY Zenon DEF Destinations, DeclaredFor
  <1> QED BY <1>3, <1>4 DEF HandlersFor, Bound

LEMMA SameJudgement ==
  ASSUME settings' = settings, NEW f, NEW d
  PROVE  (Sound(d)' <=> Sound(d)) /\ (Fits(f, d)' <=> Fits(f, d))
  <1>1. /\ SendersFor(d.envelope)' = SendersFor(d.envelope)
        /\ Destinations(d.envelope)' = Destinations(d.envelope)
        /\ HandlersFor(d.envelope.message.type)' = HandlersFor(d.envelope.message.type)
        /\ Bound(d.envelope.message.type)' = Bound(d.envelope.message.type)
    BY SameAnswers
  <1>2. HandledHere(d)' <=> HandledHere(d)
    BY <1>1 DEF HandledHere
  <1>3. ToHandle(d)' <=> ToHandle(d)
    BY <1>1, <1>2 DEF ToHandle
  <1>4. (RoutedWell(d)' <=> RoutedWell(d)) /\ (HandledWell(d)' <=> HandledWell(d))
    BY <1>1, <1>2 DEF RoutedWell, HandledWell
  <1>5. Sound(d)' <=> Sound(d)
    BY <1>4 DEF Sound
  <1>6. Fits(f, d)' <=> Fits(f, d)
    BY <1>1, <1>3 DEF Fits, Starts, Sends, Arrives, Handles
  <1> QED BY <1>5, <1>6

LEMMA OneFrame ==
  ASSUME FramesApart, NEW u \in Tasks, NEW v \in Tasks, NEW k \in DOMAIN frames[u],
         NEW l \in DOMAIN frames[v], frames[u][k].dispatch = frames[v][l].dispatch
  PROVE  u = v /\ k = l
BY DEF FramesApart

\* Frame k of task u after a step of t that touched the frames from n on: one there was, or new.
LEMMA OthersKept ==
  ASSUME Inv, settings' = settings, Shape', NEW t \in Tasks, NEW n \in Nat,
         \A u \in Tasks : u # t => frames'[u] = frames[u],
         \A k \in DOMAIN frames'[t] : k < n =>
           /\ k \in DOMAIN frames[t] /\ frames'[t][k] = frames[t][k]
           /\ k < Len(frames[t]) /\ k < Len(frames'[t]),
         \A i \in DOMAIN dispatches :
           /\ i \in DOMAIN dispatches'
           /\ \/ dispatches'[i] = dispatches[i]
              \/ \E k \in DOMAIN frames[t] : k >= n /\ frames[t][k].dispatch = i,
         \A k \in DOMAIN frames'[t] : k >= n => \A f \in {frames'[t][k]} :
           /\ f.dispatch \in DOMAIN dispatches'
           /\ \A d \in {dispatches'[f.dispatch]} : Fits(f, d)
           /\ k < Len(frames'[t]) <=> f.step = "awaiting",
         \A k \in DOMAIN frames'[t] : k >= n =>
           \/ k \in DOMAIN frames[t] /\ frames'[t][k].dispatch = frames[t][k].dispatch
           \/ k = Len(frames'[t]) /\ frames'[t][k].dispatch \notin DOMAIN dispatches
  PROVE  FramesFit' /\ FramesApart'
  <1>1. \A u \in Tasks : \A k \in DOMAIN frames[u] : frames[u][k].dispatch \in DOMAIN dispatches
    BY DEF Inv, FramesFit
  <1>2. /\ \A u \in Tasks : \A k \in DOMAIN frames[u] : k \in Nat
        /\ \A u \in Tasks : \A k \in DOMAIN frames'[u] : k \in Nat
    <2>1. ASSUME NEW s, IsSequence(s) PROVE \A k \in DOMAIN s : k \in Nat
      BY <2>1, PlacesOf
    <2>2. \A u \in Tasks : IsSequence(frames[u])
      BY DEF Inv, Shape
    <2>3. \A u \in Tasks : IsSequence(frames'[u])
      BY DEF Shape
    <2> QED BY <2>1, <2>2, <2>3
  <1>3. FramesFit'
    <2> SUFFICES ASSUME NEW u \in Tasks, NEW k \in DOMAIN frames'[u], NEW f \in {frames'[u][k]}
                 PROVE  /\ f.dispatch \in DOMAIN dispatches'
                        /\ \A d \in {dispatches'[f.dispatch]} : Fits(f, d)'
                        /\ k < Len(frames'[u]) <=> f.step = "awaiting"
      BY DEF FramesFit
    <2>1. CASE u = t /\ k >= n
      <3>1. /\ f.dispatch \in DOMAIN dispatches'
            /\ \A d \in {dispatches'[f.dispatch]} : Fits(f, d)
            /\ k < Len(frames'[u]) <=> f.step = "awaiting"
        BY <2>1
      <3>2. ASSUME NEW d \in {dispatches'[f.dispatch]} PROVE Fits(f, d)'
        BY <3>1, SameJudgement
      <3> QED BY <3>1, <3>2
    <2>2. CASE u # t \/ ~(k >= n)
      <3>1. k \in DOMAIN frames[u] /\ f = frames[u][k]
        BY <1>2, <2>2
      <3>2. /\ f.dispatch \in DOMAIN dispatches
            /\ \A d \in {dispatches[f.dispatch]} : Fits(f, d)
            /\ k < Len(frames[u]) <=> f.step = "awaiting"
        BY <3>1 DEF Inv, FramesFit
      <3>3. f.dispatch \in DOMAIN dispatches' /\ dispatches'[f.dispatch] = dispatches[f.dispatch]
        <4> SUFFICES ASSUME NEW l \in DOMAIN frames[t], l >= n, frames[t][l].dispatch = f.dispatch
                     PROVE FALSE
          BY <3>2
        <4>1. t = u /\ l = k
          BY <3>1 DEF Inv, FramesApart
        <4> QED BY <2>2, <4>1
      <3>4. k < Len(frames'[u]) <=> k < Len(frames[u])
        BY <1>2, <2>2
      <3>5. ASSUME NEW d \in {dispatches'[f.dispatch]} PROVE Fits(f, d)'
        BY <3>2, <3>3, SameJudgement
      <3> QED BY <3>2, <3>3, <3>4, <3>5
    <2> QED BY <2>1, <2>2
  <1>4. FramesApart'
    <2>1. \A u \in Tasks : \A k \in DOMAIN frames'[u] :
            \/ k \in DOMAIN frames[u] /\ frames'[u][k].dispatch = frames[u][k].dispatch
            \/ u = t /\ k = Len(frames'[t]) /\ frames'[u][k].dispatch \notin DOMAIN dispatches
      <3> SUFFICES ASSUME NEW u \in Tasks, NEW k \in DOMAIN frames'[u]
                   PROVE  \/ k \in DOMAIN frames[u] /\ frames'[u][k].dispatch = frames[u][k].dispatch
                          \/ u = t /\ k = Len(frames'[t]) /\ frames'[u][k].dispatch \notin DOMAIN dispatches
        OBVIOUS
      <3>1. CASE u = t /\ k >= n
        BY <3>1
      <3>2. CASE u # t \/ ~(k >= n)
        BY <1>2, <3>2
      <3> QED BY <3>1, <3>2
    <2> SUFFICES ASSUME NEW u \in Tasks, NEW v \in Tasks,
                        NEW k \in DOMAIN frames'[u], NEW l \in DOMAIN frames'[v],
                        frames'[u][k].dispatch = frames'[v][l].dispatch
                 PROVE  u = v /\ k = l
      BY DEF FramesApart
    <2>2. CASE k \in DOMAIN frames[u] /\ frames'[u][k].dispatch = frames[u][k].dispatch
      <3>1. frames'[u][k].dispatch \in DOMAIN dispatches
        BY <1>1, <2>2
      <3>2. l \in DOMAIN frames[v] /\ frames'[v][l].dispatch = frames[v][l].dispatch
        BY <2>1, <3>1
      <3>3. frames[u][k].dispatch = frames[v][l].dispatch
        BY <2>2, <3>2
      <3>4. FramesApart
        BY DEF Inv
      <3>5. k \in DOMAIN frames[u] /\ l \in DOMAIN frames[v]
        BY <2>2, <3>2
      <3> QED BY <3>3, <3>4, <3>5, OneFrame
    <2>3. CASE u = t /\ k = Len(frames'[t]) /\ frames'[u][k].dispatch \notin DOMAIN dispatches
      <3>1. v = t /\ l = Len(frames'[t])
        BY <1>1, <2>1, <2>3
      <3> QED BY <2>3, <3>1
    <2> QED BY <2>1, <2>2, <2>3
  <1> QED BY <1>3, <1>4

\* Units stay apart when no dispatch enters one: each frame is placed as one there was, or anew.
LEMMA UnitsKept ==
  ASSUME Inv, units' = units,
         \A i \in DOMAIN dispatches :
           /\ i \in DOMAIN dispatches' /\ dispatches'[i].unit = dispatches[i].unit
           /\ dispatches'[i].within = dispatches[i].within
           /\ dispatches'[i].envelope = dispatches[i].envelope,
         \A i \in DOMAIN dispatches' : i \in DOMAIN dispatches \/ dispatches'[i].unit = 0,
         \A u \in Tasks : \A k \in DOMAIN frames'[u] :
           \/ Placed(dispatches', frames'[u][k])
           \/ \E v \in Tasks : \E l \in DOMAIN frames[v] :
                /\ frames'[u][k].dispatch = frames[v][l].dispatch
                /\ frames'[u][k].unit = frames[v][l].unit
                /\ frames'[u][k].offset = 0 <=> frames[v][l].offset = 0
  PROVE  UnitsApart'
  <1>1. FramesPlaced'
    <2> SUFFICES ASSUME NEW u \in Tasks, NEW k \in DOMAIN frames'[u]
                 PROVE  Placed(dispatches', frames'[u][k])
      BY DEF FramesPlaced
    <2>1. PICK g : g = frames'[u][k]
      OBVIOUS
    <2>2. CASE Placed(dispatches', g)
      BY <2>1, <2>2
    <2>3. CASE \E v \in Tasks : \E l \in DOMAIN frames[v] :
                 /\ g.dispatch = frames[v][l].dispatch /\ g.unit = frames[v][l].unit
                 /\ g.offset = 0 <=> frames[v][l].offset = 0
      <3>0. PICK v \in Tasks : \E l \in DOMAIN frames[v] :
                 /\ g.dispatch = frames[v][l].dispatch /\ g.unit = frames[v][l].unit
                 /\ g.offset = 0 <=> frames[v][l].offset = 0
        BY <2>3
      <3>1. PICK l \in DOMAIN frames[v] :
                 /\ g.dispatch = frames[v][l].dispatch /\ g.unit = frames[v][l].unit
                 /\ g.offset = 0 <=> frames[v][l].offset = 0
        BY <3>0
      <3>2. PICK f : f = frames[v][l]
        OBVIOUS
      <3>3. f.dispatch \in DOMAIN dispatches /\ Placed(dispatches, f)
        BY <3>1, <3>2 DEF Inv, FramesFit, UnitsApart, FramesPlaced
      <3>4. g.dispatch = f.dispatch /\ g.unit = f.unit /\ (g.offset = 0 <=> f.offset = 0)
        BY <3>1, <3>2
      <3>5. Placed(dispatches', g)
        BY <3>3, <3>4 DEF Placed
      <3> QED BY <2>1, <3>5
    <2> QED BY <2>1, <2>2, <2>3
  <1>2. UnitsTold'
    <2>1. units' \in Nat
      BY DEF Inv, UnitsApart, UnitsTold
    <2>2. \A j \in DOMAIN dispatches : Own(dispatches'[j]) <=> Own(dispatches[j])
      BY DEF Own
    <2> SUFFICES ASSUME NEW i \in DOMAIN dispatches', NEW d \in {dispatches'[i]}
                 PROVE  /\ d.unit \in 0..units'
                        /\ d.unit # 0 /\ Own(d) =>
                             \A j \in DOMAIN dispatches' :
                               j # i /\ Own(dispatches'[j]) => dispatches'[j].unit # d.unit
                        /\ d.unit # 0 /\ ~Own(d) =>
                             d.within \in DOMAIN dispatches' /\ dispatches'[d.within].unit = d.unit
      BY <2>1 DEF UnitsTold
    <2>3. CASE d.unit = 0
      BY <2>1, <2>3
    <2>4. CASE d.unit # 0
      <3>1. i \in DOMAIN dispatches
        BY <2>4
      <3>2. /\ dispatches[i].unit \in 0..units
            /\ dispatches[i].unit # 0 /\ Own(dispatches[i]) =>
                 \A j \in DOMAIN dispatches :
                   j # i /\ Own(dispatches[j]) => dispatches[j].unit # dispatches[i].unit
            /\ dispatches[i].unit # 0 /\ ~Own(dispatches[i]) =>
                 /\ dispatches[i].within \in DOMAIN dispatches
                 /\ dispatches[dispatches[i].within].unit = dispatches[i].unit
        BY <3>1 DEF Inv, UnitsApart, UnitsTold
      <3>3. d.unit = dispatches[i].unit /\ d.within = dispatches[i].within /\ (Own(d) <=> Own(dispatches[i]))
        BY <2>2, <3>1
      <3> QED BY <2>2, <2>4, <3>1, <3>2, <3>3
    <2> QED BY <2>3, <2>4
  <1> QED BY <1>1, <1>2 DEF UnitsApart

-----------------------------------------------------------------------------
(***************************************************************************)
(* The three things a step does: it changes the frame on top, it puts one  *)
(* on top, or it takes that away.                                          *)
(***************************************************************************)

LEMMA Mapped ==
  ASSUME NEW s, IsSequence(s), NEW q, DOMAIN q = DOMAIN s, q = [i \in DOMAIN q |-> q[i]]
  PROVE  IsSequence(q) /\ Len(q) = Len(s)
  <1>1. Len(s) \in Nat /\ DOMAIN s = 1..Len(s)
    BY PlacesOf
  <1>2. q \in [1..Len(s) -> ToSet(q)]
    BY <1>1 DEF ToSet
  <1>3. q \in Seq(ToSet(q))
    BY <1>1, <1>2, SeqDef
  <1>4. Len(q) = Len(s)
    BY <1>1, <1>3
  <1> QED BY <1>3, <1>4 DEF IsSequence

\* The frame on top, and its dispatch.
LEMMA TopIs ==
  ASSUME Inv, NEW t \in Tasks, frames[t] # <<>>, NEW f, f = Top(t), NEW d, d = dispatches[f.dispatch]
  PROVE  /\ IsSequence(frames[t]) /\ Len(frames[t]) \in DOMAIN frames[t] /\ Len(frames[t]) \in Nat \ {0}
         /\ DOMAIN frames[t] = 1..Len(frames[t]) /\ f = frames[t][Len(frames[t])]
         /\ f.dispatch \in DOMAIN dispatches /\ f.dispatch \in Nat
         /\ Sound(d) /\ Fits(f, d) /\ f.step # "awaiting"
  <1>1. /\ IsSequence(frames[t]) /\ Len(frames[t]) \in DOMAIN frames[t] /\ Len(frames[t]) \in Nat \ {0}
        /\ DOMAIN frames[t] = 1..Len(frames[t])
    <2>1. IsSequence(frames[t])
      BY DEF Inv, Shape
    <2> QED BY <2>1, Fronts, PlacesOf
  <1>2. f = frames[t][Len(frames[t])]
    BY DEF Top, Last
  <1>3. /\ f.dispatch \in DOMAIN dispatches /\ Fits(f, d)
        /\ Len(frames[t]) < Len(frames[t]) <=> f.step = "awaiting"
    BY <1>1, <1>2 DEF Inv, FramesFit
  <1>4. f.dispatch \in Nat
    <2>1. IsSequence(dispatches)
      BY DEF Inv, Shape
    <2> QED BY <1>3, <2>1, PlacesOf
  <1>5. Sound(d)
    BY <1>3 DEF Inv, DispatchesSound
  <1>6. ~(Len(frames[t]) < Len(frames[t]))
    BY <1>1
  <1> QED BY <1>1, <1>2, <1>3, <1>4, <1>5, <1>6

\* Those below it wait for a handler of theirs.
LEMMA BelowIs ==
  ASSUME Inv, NEW t \in Tasks, NEW k \in DOMAIN frames[t], k < Len(frames[t]),
         NEW f, f = frames[t][k], NEW d, d = dispatches[f.dispatch]
  PROVE  /\ f.dispatch \in DOMAIN dispatches
         /\ Sound(d) /\ Fits(f, d) /\ f.step = "awaiting" /\ f.todo # <<>>
  <1>1. f.dispatch \in DOMAIN dispatches /\ Fits(f, d) /\ f.step = "awaiting"
    BY DEF Inv, FramesFit
  <1>2. Sound(d)
    BY <1>1 DEF Inv, DispatchesSound
  <1>3. f.todo # <<>>
    BY <1>1 DEF Fits, Starts, Sends, Arrives, Handles
  <1> QED BY <1>1, <1>2, <1>3

\* The frame on top becomes g.
LEMMA TopBecomes ==
  ASSUME Inv, NEW t \in Tasks, frames[t] # <<>>, NEW g, Becomes(t, g)
  PROVE  /\ DOMAIN frames' = Tasks /\ \A u \in Tasks : u # t => frames'[u] = frames[u]
         /\ IsSequence(frames'[t]) /\ Len(frames'[t]) = Len(frames[t])
         /\ DOMAIN frames'[t] = DOMAIN frames[t]
         /\ \A k \in DOMAIN frames[t] : frames'[t][k] = IF k = Len(frames[t]) THEN g ELSE frames[t][k]
  <1> DEFINE s == frames[t]
             q == Append(Front(s), g)
  <1>1. DOMAIN frames = Tasks /\ IsSequence(s) /\ s # <<>>
    BY DEF Inv, Shape
  <1>2. DOMAIN frames' = Tasks /\ (\A u \in Tasks : u # t => frames'[u] = frames[u]) /\ frames'[t] = q
    BY <1>1 DEF Becomes
  <1> HIDE DEF s
  <1>3. /\ IsSequence(q) /\ Len(q) = Len(s) /\ DOMAIN q = DOMAIN s
        /\ \A i \in DOMAIN s : q[i] = IF i = Len(s) THEN g ELSE s[i]
    BY <1>1, LastReplaced
  <1> QED BY <1>2, <1>3 DEF s

LEMMA TopChanged ==
  ASSUME Inv, settings' = settings, NEW t \in Tasks, frames[t] # <<>>, NEW f, f = Top(t),
         NEW d, d = dispatches[f.dispatch],
         NEW g, NEW e, g.dispatch = f.dispatch, g.step # "awaiting", Sound(e), Fits(g, e),
         Becomes(t, g), dispatches' = [dispatches EXCEPT ![f.dispatch] = e],
         IsSequence(queue'), \A x \in ToSet(queue') : WellFormed(x)
  PROVE  Shape' /\ DispatchesSound' /\ FramesFit' /\ FramesApart'
  <1> DEFINE n == Len(frames[t])
  <1>1. /\ DOMAIN frames' = Tasks /\ \A u \in Tasks : u # t => frames'[u] = frames[u]
        /\ IsSequence(frames'[t]) /\ Len(frames'[t]) = n
        /\ DOMAIN frames'[t] = DOMAIN frames[t]
        /\ \A k \in DOMAIN frames[t] : frames'[t][k] = IF k = n THEN g ELSE frames[t][k]
    BY TopBecomes
  <1>2. /\ n \in DOMAIN frames[t] /\ n \in Nat /\ f = frames[t][n]
        /\ DOMAIN frames[t] = 1..n
        /\ f.dispatch \in DOMAIN dispatches
    BY TopIs
  <1>3. /\ DOMAIN dispatches' = DOMAIN dispatches /\ IsSequence(dispatches')
        /\ \A i \in DOMAIN dispatches : dispatches'[i] = IF i = f.dispatch THEN e ELSE dispatches[i]
    <2>1. IsSequence(dispatches)
      BY DEF Inv, Shape
    <2>2. /\ DOMAIN dispatches' = DOMAIN dispatches
          /\ \A i \in DOMAIN dispatches : dispatches'[i] = IF i = f.dispatch THEN e ELSE dispatches[i]
          /\ dispatches' = [i \in DOMAIN dispatches' |-> dispatches'[i]]
      OBVIOUS
    <2> QED BY <2>1, <2>2, Mapped
  <1>4. \A u \in Tasks : \A k \in DOMAIN frames[u] : frames[u][k].dispatch \in DOMAIN dispatches
    BY DEF Inv, FramesFit
  <1>5. \A i \in DOMAIN dispatches : i \in Nat
    <2>1. IsSequence(dispatches)
      BY DEF Inv, Shape
    <2> QED BY <2>1, PlacesOf
  <1>6. Shape'
    BY <1>1, <1>3 DEF Inv, Shape
  <1>7. DispatchesSound'
    <2> SUFFICES ASSUME NEW i \in DOMAIN dispatches', NEW x \in {dispatches'[i]} PROVE Sound(x)'
      BY DEF DispatchesSound
    <2>1. Sound(x)
      BY <1>3 DEF Inv, DispatchesSound
    <2> QED BY <2>1, SameJudgement
  <1>8. \A k \in DOMAIN frames'[t] : k < n =>
           /\ k \in DOMAIN frames[t] /\ frames'[t][k] = frames[t][k]
           /\ k < n /\ k < Len(frames'[t])
    BY <1>1, <1>2
  <1>9. \A i \in DOMAIN dispatches :
          /\ i \in DOMAIN dispatches'
          /\ \/ dispatches'[i] = dispatches[i]
             \/ \E k \in DOMAIN frames[t] : k >= n /\ frames[t][k].dispatch = i
    BY <1>2, <1>3
  <1>10. \A k \in DOMAIN frames'[t] : k >= n => k = n /\ frames'[t][k] = g
    BY <1>1, <1>2
  <1>11. \A k \in DOMAIN frames'[t] : k >= n => \A x \in {frames'[t][k]} :
           /\ x.dispatch \in DOMAIN dispatches'
           /\ \A y \in {dispatches'[x.dispatch]} : Fits(x, y)
           /\ k < Len(frames'[t]) <=> x.step = "awaiting"
    <2> SUFFICES ASSUME NEW k \in DOMAIN frames'[t], k >= n, NEW x \in {frames'[t][k]}
                 PROVE  /\ x.dispatch \in DOMAIN dispatches'
                        /\ \A y \in {dispatches'[x.dispatch]} : Fits(x, y)
                        /\ k < Len(frames'[t]) <=> x.step = "awaiting"
      OBVIOUS
    <2>1. x = g /\ k = n
      BY <1>10
    <2>2. dispatches'[g.dispatch] = e /\ g.dispatch \in DOMAIN dispatches'
      BY <1>2, <1>3
    <2>3. ~(k < Len(frames'[t]))
      BY <1>1, <1>2, <2>1
    <2> QED BY <2>1, <2>2, <2>3
  <1>12. \A k \in DOMAIN frames'[t] : k >= n =>
           \/ k \in DOMAIN frames[t] /\ frames'[t][k].dispatch = frames[t][k].dispatch
           \/ k = Len(frames'[t]) /\ frames'[t][k].dispatch \notin DOMAIN dispatches
    BY <1>1, <1>2, <1>10
  <1>13. FramesFit' /\ FramesApart'
    <2> HIDE DEF n
    <2>1. \A k \in DOMAIN frames'[t] : k < n =>
           /\ k \in DOMAIN frames[t] /\ frames'[t][k] = frames[t][k]
           /\ k < Len(frames[t]) /\ k < Len(frames'[t])
      BY <1>8 DEF n
    <2> QED BY <1>1, <1>2, <1>6, <1>9, <1>11, <1>12, <2>1, OthersKept
  <1> QED BY <1>6, <1>7, <1>13

\* The units stay apart where they are left alone.
LEMMA TopUnits ==
  ASSUME Inv, NEW t \in Tasks, frames[t] # <<>>, NEW f, f = Top(t), NEW d, d = dispatches[f.dispatch],
         NEW g, NEW e, g.dispatch = f.dispatch, g.unit = f.unit, g.offset = 0 <=> f.offset = 0,
         e.unit = d.unit, e.within = d.within, e.envelope = d.envelope,
         Becomes(t, g), dispatches' = [dispatches EXCEPT ![f.dispatch] = e], units' = units
  PROVE  UnitsApart'
  <1> DEFINE n == Len(frames[t])
  <1>1. /\ DOMAIN frames' = Tasks /\ \A u \in Tasks : u # t => frames'[u] = frames[u]
        /\ IsSequence(frames'[t]) /\ Len(frames'[t]) = n
        /\ DOMAIN frames'[t] = DOMAIN frames[t]
        /\ \A k \in DOMAIN frames[t] : frames'[t][k] = IF k = n THEN g ELSE frames[t][k]
    BY TopBecomes
  <1>2. /\ n \in DOMAIN frames[t] /\ n \in Nat /\ f = frames[t][n]
        /\ DOMAIN frames[t] = 1..n
        /\ f.dispatch \in DOMAIN dispatches
    BY TopIs
  <1>3. /\ DOMAIN dispatches' = DOMAIN dispatches /\ IsSequence(dispatches')
        /\ \A i \in DOMAIN dispatches : dispatches'[i] = IF i = f.dispatch THEN e ELSE dispatches[i]
    <2>1. IsSequence(dispatches)
      BY DEF Inv, Shape
    <2>2. /\ DOMAIN dispatches' = DOMAIN dispatches
          /\ \A i \in DOMAIN dispatches : dispatches'[i] = IF i = f.dispatch THEN e ELSE dispatches[i]
          /\ dispatches' = [i \in DOMAIN dispatches' |-> dispatches'[i]]
      OBVIOUS
    <2> QED BY <2>1, <2>2, Mapped
  <1>4. \A u \in Tasks : \A k \in DOMAIN frames[u] : frames[u][k].dispatch \in DOMAIN dispatches
    BY DEF Inv, FramesFit
  <1>5. \A i \in DOMAIN dispatches : i \in Nat
    <2>1. IsSequence(dispatches)
      BY DEF Inv, Shape
    <2> QED BY <2>1, PlacesOf
  <1>6. ASSUME NEW u \in Tasks, NEW k \in DOMAIN frames'[u]
        PROVE  \E v \in Tasks : \E l \in DOMAIN frames[v] :
                 /\ frames'[u][k].dispatch = frames[v][l].dispatch
                 /\ frames'[u][k].unit = frames[v][l].unit
                 /\ frames'[u][k].offset = 0 <=> frames[v][l].offset = 0
    <2>1. CASE u = t
      BY <1>1, <1>2, <2>1
    <2>2. CASE u # t
      BY <1>1, <2>2
    <2> QED BY <2>1, <2>2
  <1>8. \A i \in DOMAIN dispatches :
          /\ i \in DOMAIN dispatches' /\ dispatches'[i].unit = dispatches[i].unit
          /\ dispatches'[i].within = dispatches[i].within
          /\ dispatches'[i].envelope = dispatches[i].envelope
    BY <1>2, <1>3
  <1> QED BY <1>3, <1>6, <1>8, UnitsKept

LEMMA TopKeeps ==
  ASSUME Inv, settings' = settings, NEW t \in Tasks, frames[t] # <<>>, NEW f, f = Top(t),
         NEW d, d = dispatches[f.dispatch],
         NEW g, NEW e, g.dispatch = f.dispatch, g.step # "awaiting", Sound(e), Fits(g, e),
         Becomes(t, g), dispatches' = [dispatches EXCEPT ![f.dispatch] = e],
         g.unit = f.unit, g.offset = 0 <=> f.offset = 0,
         e.unit = d.unit, e.within = d.within, e.envelope = d.envelope, units' = units,
         IsSequence(queue'), \A x \in ToSet(queue') : WellFormed(x)
  PROVE  Inv'
  <1>1. Shape' /\ DispatchesSound' /\ FramesFit' /\ FramesApart'
    BY TopChanged
  <1>2. UnitsApart'
    BY TopUnits
  <1> QED BY <1>1, <1>2 DEF Inv

\* A frame f of a dispatch d was put on top of those of t, of which the last, w by now, waits for it.
Stacks(t, bus, x, n, m, w, f, d) ==
  /\ n = Len(frames[t]) /\ n \in Nat /\ DOMAIN frames[t] = 1..n
  /\ m = Len(dispatches) /\ m \in Nat /\ DOMAIN dispatches = 1..m
  /\ f = Frame(t, bus, x)
  /\ d = [bus |-> bus, envelope |-> x, sentTo |-> <<>>, ran |-> <<>>, failed |-> {},
          unit |-> 0, end |-> "running", stamps |-> <<>>,
          within |-> IF frames[t] = <<>> THEN 0 ELSE Top(t).dispatch]
  /\ DOMAIN frames' = Tasks /\ \A u \in Tasks : u # t => frames'[u] = frames[u]
  /\ IsSequence(frames'[t]) /\ Len(frames'[t]) = n + 1 /\ DOMAIN frames'[t] = 1..(n + 1)
  /\ \A k \in 1..n : frames'[t][k] = IF k = n THEN w ELSE frames[t][k]
  /\ frames'[t][n + 1] = f
  /\ IsSequence(dispatches') /\ DOMAIN dispatches' = 1..(m + 1)
  /\ \A i \in 1..m : dispatches'[i] = dispatches[i]
  /\ dispatches'[m + 1] = d
  /\ n # 0 => /\ n \in 1..n /\ Top(t) = frames[t][n] /\ w = [Top(t) EXCEPT !.step = "awaiting"]
              /\ w.dispatch = frames[t][n].dispatch /\ w.unit = frames[t][n].unit
              /\ w.step = "awaiting" /\ w.dispatch \in 1..m /\ Fits(w, dispatches[w.dispatch])

\* A dispatch that begins puts a frame on top of those of its task.
LEMMA Stacked ==
  ASSUME Inv, NEW t \in Tasks, frames[t] = <<>> \/ (Top(t).step = "handling" /\ Top(t).todo # <<>>),
         NEW bus, NEW x, Dispatches(t, bus, x)
  PROVE  \E n, m, w, f, d : Stacks(t, bus, x, n, m, w, f, d)
  <1> DEFINE s == frames[t]
             n == Len(s)
             w == [Last(s) EXCEPT !.step = "awaiting"]
             p == IF s = <<>> THEN s ELSE Append(Front(s), w)
             m == Len(dispatches)
  <1>1. PICK f : f = Frame(t, bus, x)
    OBVIOUS
  <1>2. PICK d : d = [bus |-> bus, envelope |-> x, sentTo |-> <<>>, ran |-> <<>>, failed |-> {},
                      unit |-> 0, end |-> "running", stamps |-> <<>>,
                      within |-> IF frames[t] = <<>> THEN 0 ELSE Top(t).dispatch]
    OBVIOUS
  <1>3. /\ IsSequence(s) /\ DOMAIN frames = Tasks /\ IsSequence(dispatches)
        /\ n \in Nat /\ DOMAIN s = 1..n /\ m \in Nat /\ DOMAIN dispatches = 1..m
    BY PlacesOf DEF Inv, Shape
  <1>4. /\ DOMAIN frames' = Tasks /\ (\A u \in Tasks : u # t => frames'[u] = frames[u])
        /\ frames'[t] = Append(p, f) /\ dispatches' = Append(dispatches, d)
    BY <1>1, <1>2, <1>3 DEF Dispatches, Begun
  <1> HIDE DEF w
  <1>9. /\ IsSequence(p) /\ Len(p) = n /\ DOMAIN p = 1..n
        /\ \A k \in 1..n : p[k] = IF k = n THEN w ELSE s[k]
    <2>1. CASE s = <<>>
      <3>1. n = 0 /\ p = s
        BY <2>1, Nothing
      <3>2. ~ \E k : k \in 1..0
        OBVIOUS
      <3> QED BY <1>3, <3>1, <3>2
    <2>2. CASE s # <<>>
      <3>1. p = Append(Front(s), w)
        BY <2>2
      <3> HIDE DEF p, s, n
      <3>2. /\ IsSequence(p) /\ Len(p) = Len(s) /\ DOMAIN p = DOMAIN s
            /\ \A i \in DOMAIN s : p[i] = IF i = Len(s) THEN w ELSE s[i]
        BY <1>3, <2>2, <3>1, LastReplaced
      <3> QED BY <1>3, <3>2 DEF n
    <2> QED BY <2>1, <2>2
  <1> HIDE DEF p
  <1>10. /\ IsSequence(frames'[t]) /\ Len(frames'[t]) = n + 1 /\ DOMAIN frames'[t] = 1..(n + 1)
         /\ \A k \in 1..n : frames'[t][k] = IF k = n THEN w ELSE s[k]
         /\ frames'[t][n + 1] = f
    <2>1. /\ IsSequence(Append(p, f)) /\ Len(Append(p, f)) = Len(p) + 1
          /\ DOMAIN Append(p, f) = 1..(Len(p) + 1)
          /\ (\A k \in 1..Len(p) : Append(p, f)[k] = p[k]) /\ Append(p, f)[Len(p) + 1] = f
      BY <1>9, Appended
    <2> QED BY <1>4, <1>9, <2>1
  <1>11. /\ IsSequence(dispatches') /\ DOMAIN dispatches' = 1..(m + 1)
         /\ (\A i \in 1..m : dispatches'[i] = dispatches[i]) /\ dispatches'[m + 1] = d
    BY <1>3, <1>4, Appended
  <1>12. s # <<>> => /\ n \in 1..n /\ w.dispatch = s[n].dispatch /\ w.unit = s[n].unit
                     /\ w.step = "awaiting" /\ w.dispatch \in 1..m
                     /\ Fits(w, dispatches[w.dispatch])
                     /\ Top(t) = s[n]
    <2> HAVE s # <<>>
    <2>1. PICK g : g = Top(t)
      OBVIOUS
    <2>2. PICK y : y = dispatches[g.dispatch]
      OBVIOUS
    <2>3. PICK v : v = w
      OBVIOUS
    <2>4. /\ n \in DOMAIN s /\ g = s[n] /\ g.dispatch \in DOMAIN dispatches /\ Fits(g, y)
      BY <2>1, <2>2, TopIs
    <2>5. v = [g EXCEPT !.step = "awaiting"]
      BY <2>1, <2>3 DEF w, Top
    <2>6. Fits(v, y) /\ v.step = "awaiting" /\ v.dispatch = g.dispatch /\ v.unit = g.unit
      BY <2>1, <2>4, <2>5, WaitsFor
    <2> QED BY <1>3, <2>1, <2>2, <2>3, <2>4, <2>6
  <1>13. n # 0 => s # <<>>
    <2>1. Len(<<>>) = 0
      BY Nothing
    <2> QED BY <2>1
  <1>14. w = [Last(s) EXCEPT !.step = "awaiting"]
    BY DEF w
  <1>15. n = Len(s) /\ m = Len(dispatches)
    OBVIOUS
  <1>16. Last(s) = Top(t)
    BY DEF Top
  <1>17. s = frames[t]
    OBVIOUS
  <1> HIDE DEF n, m, s
  <1>18. Stacks(t, bus, x, n, m, w, f, d)
    BY <1>1, <1>2, <1>3, <1>4, <1>10, <1>11, <1>12, <1>13, <1>14, <1>15, <1>16, <1>17 DEF Stacks
  <1> QED BY <1>18

\* A dispatch begins, on top of the handler that waits for it if there is one.
LEMMA Begins ==
  ASSUME Inv, settings' = settings, NEW t \in Tasks,
         frames[t] = <<>> \/ (Top(t).step = "handling" /\ Top(t).todo # <<>>),
         NEW bus \in {"publishing", "working"}, NEW x, WellFormed(x),
         bus = "publishing" => ~Received(x) /\ Addressed(x), bus = "working" => Received(x),
         Dispatches(t, bus, x), units' = units,
         IsSequence(queue'), \A y \in ToSet(queue') : WellFormed(y)
  PROVE  Inv'
  <1>1. PICK n, m, w, f, d : Stacks(t, bus, x, n, m, w, f, d)
    BY Stacked
  <1>2. PICK s : s = frames[t]
    OBVIOUS
  <1>3. n \in Nat /\ DOMAIN s = 1..n /\ m \in Nat /\ DOMAIN dispatches = 1..m
    BY <1>1, <1>2 DEF Stacks
  <1>4. DOMAIN frames' = Tasks /\ (\A u \in Tasks : u # t => frames'[u] = frames[u])
    BY <1>1 DEF Stacks
  <1>9. /\ f = Frame(t, bus, x) /\ m = Len(dispatches)
        /\ d = [bus |-> bus, envelope |-> x, sentTo |-> <<>>, ran |-> <<>>, failed |-> {},
                unit |-> 0, end |-> "running", stamps |-> <<>>,
                within |-> IF frames[t] = <<>> THEN 0 ELSE Top(t).dispatch]
    BY <1>1 DEF Stacks
  <1>5. /\ f = [dispatch |-> m + 1, bus |-> bus, envelope |-> x, offset |-> 0, step |-> "next",
                todo |-> <<>>, added |-> <<>>, errors |-> <<>>,
                unit |-> IF s = <<>> THEN 0 ELSE Top(t).unit]
    BY <1>2, <1>9 DEF Frame
  <1>6. Sound(d) /\ Fits(f, d)
    BY <1>5, <1>9, NewDispatch
  <1>7. f.dispatch = m + 1 /\ f.step = "next" /\ (f.unit = 0 \/ (s # <<>> /\ f.unit = Top(t).unit))
    BY <1>5
  <1>8. d.unit = 0
    BY <1>9
  <1>10. /\ IsSequence(frames'[t]) /\ Len(frames'[t]) = n + 1 /\ DOMAIN frames'[t] = 1..(n + 1)
         /\ \A k \in 1..n : frames'[t][k] = IF k = n THEN w ELSE s[k]
         /\ frames'[t][n + 1] = f
    BY <1>1, <1>2 DEF Stacks
  <1>11. /\ IsSequence(dispatches') /\ DOMAIN dispatches' = 1..(m + 1)
         /\ (\A i \in 1..m : dispatches'[i] = dispatches[i]) /\ dispatches'[m + 1] = d
    BY <1>1 DEF Stacks
  <1>19. s = frames[t] /\ n = Len(s)
    BY <1>1, <1>2 DEF Stacks
  <1>15. n > 0 => s # <<>>
    <2>1. Len(<<>>) = 0
      BY Nothing
    <2> QED BY <1>19, <2>1
  <1>12. s # <<>> => /\ n \in 1..n /\ w.dispatch = s[n].dispatch /\ w.unit = s[n].unit
                     /\ w.step = "awaiting" /\ w.dispatch \in 1..m
                     /\ Fits(w, dispatches[w.dispatch])
                     /\ Top(t) = s[n]
    <2>1. s # <<>> => n # 0
      <3>1. IsSequence(s)
        BY <1>2 DEF Inv, Shape
      <3> QED BY <1>19, <3>1, PlacesOf
    <2> QED BY <1>1, <1>2, <2>1 DEF Stacks
  <1>13. Shape'
    BY <1>4, <1>10, <1>11 DEF Inv, Shape
  <1>14. DispatchesSound'
    <2> SUFFICES ASSUME NEW i \in DOMAIN dispatches', NEW y \in {dispatches'[i]} PROVE Sound(y)'
      BY DEF DispatchesSound
    <2>1. CASE i \in 1..m
      <3>1. Sound(y)
        BY <1>3, <1>11, <2>1 DEF Inv, DispatchesSound
      <3> QED BY <3>1, SameJudgement
    <2>2. CASE i = m + 1
      <3>1. y = d
        BY <1>11, <2>2
      <3> QED BY <1>6, <3>1, SameJudgement
    <2> QED BY <1>3, <1>11, <2>1, <2>2
  <1>16. \A u \in Tasks : \A k \in DOMAIN frames[u] : frames[u][k].dispatch \in DOMAIN dispatches
    BY DEF Inv, FramesFit
  <1>20. \A k \in 1..(n + 1) : k \in Nat /\ (k \in 1..n \/ k = n + 1) /\ (k \in 1..n => n > 0)
    BY <1>3
  <1>17. FramesFit' /\ FramesApart'
    <2>1. \A k \in DOMAIN frames'[t] : k < n =>
           /\ k \in DOMAIN frames[t] /\ frames'[t][k] = frames[t][k]
           /\ k < Len(frames[t]) /\ k < Len(frames'[t])
      <3> SUFFICES ASSUME NEW k \in 1..(n + 1), k < n
                   PROVE  /\ k \in DOMAIN s /\ frames'[t][k] = s[k]
                          /\ k < n /\ k < n + 1
        BY <1>10, <1>19
      <3>1. k \in 1..n /\ k # n /\ k < n + 1
        BY <1>3
      <3> QED BY <1>3, <1>10, <3>1
    <2>2. \A i \in DOMAIN dispatches :
            /\ i \in DOMAIN dispatches'
            /\ \/ dispatches'[i] = dispatches[i]
               \/ \E k \in DOMAIN frames[t] : k >= n /\ frames[t][k].dispatch = i
      BY <1>3, <1>11
    <2>3. \A k \in DOMAIN frames'[t] : k >= n =>
            \/ k = n /\ s # <<>> /\ frames'[t][k] = w
            \/ k = n + 1 /\ frames'[t][k] = f
      <3> SUFFICES ASSUME NEW k \in 1..(n + 1), k >= n
                   PROVE  \/ k = n /\ s # <<>> /\ frames'[t][k] = w
                          \/ k = n + 1 /\ frames'[t][k] = f
        BY <1>10
      <3>1. CASE k = n + 1
        BY <1>10, <3>1
      <3>2. CASE k \in 1..n
        <4>1. k = n /\ s # <<>>
          BY <1>3, <1>15, <3>2
        <4> QED BY <1>10, <3>2, <4>1
      <3> QED BY <1>20, <3>1, <3>2
    <2>4. \A k \in DOMAIN frames'[t] : k >= n => \A y \in {frames'[t][k]} :
           /\ y.dispatch \in DOMAIN dispatches'
           /\ \A z \in {dispatches'[y.dispatch]} : Fits(y, z)
           /\ k < Len(frames'[t]) <=> y.step = "awaiting"
      <3> SUFFICES ASSUME NEW k \in DOMAIN frames'[t], k >= n, NEW y \in {frames'[t][k]}
                   PROVE  /\ y.dispatch \in DOMAIN dispatches'
                          /\ \A z \in {dispatches'[y.dispatch]} : Fits(y, z)
                          /\ k < Len(frames'[t]) <=> y.step = "awaiting"
        OBVIOUS
      <3>1. CASE k = n /\ s # <<>> /\ frames'[t][k] = w
        <4>1. y = w /\ y.dispatch \in 1..m /\ y.step = "awaiting" /\ Fits(y, dispatches[y.dispatch])
          BY <1>12, <3>1
        <4>2. y.dispatch \in DOMAIN dispatches' /\ dispatches'[y.dispatch] = dispatches[y.dispatch]
          BY <1>3, <1>11, <4>1
        <4>3. k < Len(frames'[t])
          BY <1>3, <1>10, <3>1
        <4> QED BY <4>1, <4>2, <4>3
      <3>2. CASE k = n + 1 /\ frames'[t][k] = f
        <4>1. y = f /\ dispatches'[y.dispatch] = d /\ y.dispatch \in DOMAIN dispatches'
          BY <1>3, <1>7, <1>11, <3>2
        <4>2. ~(k < Len(frames'[t]))
          BY <1>3, <1>10, <3>2
        <4> QED BY <1>6, <1>7, <4>1, <4>2
      <3> QED BY <2>3, <3>1, <3>2
    <2>5. \A k \in DOMAIN frames'[t] : k >= n =>
           \/ k \in DOMAIN frames[t] /\ frames'[t][k].dispatch = frames[t][k].dispatch
           \/ k = Len(frames'[t]) /\ frames'[t][k].dispatch \notin DOMAIN dispatches
      <3> SUFFICES ASSUME NEW k \in DOMAIN frames'[t], k >= n
                   PROVE  \/ k \in DOMAIN frames[t] /\ frames'[t][k].dispatch = frames[t][k].dispatch
                          \/ k = Len(frames'[t]) /\ frames'[t][k].dispatch \notin DOMAIN dispatches
        OBVIOUS
      <3>1. CASE k = n /\ s # <<>> /\ frames'[t][k] = w
        BY <1>3, <1>12, <1>19, <3>1
      <3>2. CASE k = n + 1 /\ frames'[t][k] = f
        <4>1. frames'[t][k].dispatch = m + 1 /\ k = Len(frames'[t])
          BY <1>7, <1>10, <3>2
        <4>2. m + 1 \notin DOMAIN dispatches
          BY <1>3
        <4> QED BY <4>1, <4>2
      <3> QED BY <2>3, <3>1, <3>2
    <2>6. n \in Nat /\ \A u \in Tasks : u # t => frames'[u] = frames[u]
      BY <1>3, <1>4
    <2> QED BY <1>13, <2>1, <2>2, <2>4, <2>5, <2>6, OthersKept
  <1>18. UnitsApart'
    <2>1. Placed(dispatches', f)
      <3>1. dispatches'[f.dispatch] = d /\ d.unit = 0 /\ f.offset = 0
        BY <1>5, <1>9, <1>11
      <3>2. CASE s = <<>>
        <4>1. d.within = 0 /\ f.unit = 0
          BY <1>2, <1>5, <1>9, <3>2
        <4> QED BY <3>1, <4>1 DEF Placed
      <3>3. CASE s # <<>>
        <4>1. PICK y : y = Top(t)
          OBVIOUS
        <4>2. d.within = y.dispatch /\ f.unit = y.unit
          BY <1>2, <1>5, <1>9, <3>3, <4>1
        <4>3. PICK z : z = dispatches[y.dispatch]
          OBVIOUS
        <4>4. /\ Fits(y, z) /\ y.step = "handling" /\ n \in DOMAIN frames[t] /\ y = frames[t][n]
              /\ y.dispatch \in 1..m /\ y.dispatch \in Nat \ {0}
          BY <1>2, <1>3, <1>12, <1>19, <3>3, <4>1, <4>3, TopIs
        <4>5. Placed(dispatches, y)
          BY <4>4 DEF Inv, UnitsApart, FramesPlaced
        <4>6. y.offset # 0
          BY <4>4 DEF Fits, Starts, Sends, Arrives, Handles
        <4>7. y.unit # 0 /\ dispatches[y.dispatch].unit = y.unit
          BY <4>5, <4>6 DEF Placed
        <4>8. /\ d.within # 0 /\ f.unit # 0 /\ d.within \in DOMAIN dispatches'
              /\ dispatches'[d.within].unit = f.unit
          BY <1>3, <1>11, <4>2, <4>4, <4>7
        <4> QED BY <3>1, <4>8 DEF Placed
      <3> QED BY <3>2, <3>3
    <2>2. s # <<>> => w.offset = Top(t).offset
      <3>1. s # <<>> => w = [Top(t) EXCEPT !.step = "awaiting"] /\ DOMAIN Top(t) = FrameFields
        <4> HAVE s # <<>>
        <4>1. n # 0
          BY <1>3, <1>12
        <4>2. w = [Top(t) EXCEPT !.step = "awaiting"]
          BY <1>1, <4>1 DEF Stacks
        <4>3. PICK y : y = Top(t)
          OBVIOUS
        <4>4. PICK z : z = dispatches[y.dispatch]
          OBVIOUS
        <4>5. Fits(y, z)
          BY <1>2, <4>3, <4>4, TopIs
        <4> QED BY <4>2, <4>3, <4>5 DEF Fits
      <3> QED BY <3>1 DEF FrameFields
    <2>3. ASSUME NEW u \in Tasks, NEW k \in DOMAIN frames'[u]
          PROVE  \/ Placed(dispatches', frames'[u][k])
                 \/ \E v \in Tasks : \E l \in DOMAIN frames[v] :
                      /\ frames'[u][k].dispatch = frames[v][l].dispatch
                      /\ frames'[u][k].unit = frames[v][l].unit
                      /\ frames'[u][k].offset = 0 <=> frames[v][l].offset = 0
      <3>1. CASE u = t /\ k = n + 1
        BY <1>10, <2>1, <3>1
      <3>2. CASE ~(u = t /\ k = n + 1)
        <4>1. /\ k \in DOMAIN frames[u] /\ frames'[u][k].unit = frames[u][k].unit
              /\ frames'[u][k].dispatch = frames[u][k].dispatch
              /\ frames'[u][k].offset = frames[u][k].offset
          <5>1. CASE u = t
            <6>1. k \in 1..n
              BY <1>10, <1>20, <3>2, <5>1
            <6>2. s # <<>>
              BY <1>3, <1>15, <6>1
            <6> QED BY <1>3, <1>10, <1>12, <1>19, <2>2, <5>1, <6>1, <6>2
          <5>2. CASE u # t
            BY <1>4, <5>2
          <5> QED BY <5>1, <5>2
        <4> QED BY <4>1
      <3> QED BY <3>1, <3>2
    <2>4. \A i \in DOMAIN dispatches :
            /\ i \in DOMAIN dispatches' /\ dispatches'[i].unit = dispatches[i].unit
            /\ dispatches'[i].within = dispatches[i].within
            /\ dispatches'[i].envelope = dispatches[i].envelope
      BY <1>3, <1>11
    <2>5. \A i \in DOMAIN dispatches' : i \in DOMAIN dispatches \/ dispatches'[i].unit = 0
      BY <1>3, <1>8, <1>11
    <2> QED BY <2>3, <2>4, <2>5, UnitsKept
  <1> QED BY <1>13, <1>14, <1>17, <1>18 DEF Inv

\* The frame on top, f, was taken away, and that below it, b, is g by now, of dispatch h.
Unstacks(t, f, e, n, b, c, fine, g, h) ==
  /\ n = Len(frames[t]) /\ n \in Nat \ {0} /\ DOMAIN frames[t] = 1..n /\ f = frames[t][n]
  /\ f.dispatch \in DOMAIN dispatches
  /\ n > 1 => /\ n - 1 \in DOMAIN frames[t] /\ b = frames[t][n - 1] /\ c = dispatches[b.dispatch]
              /\ g = HandlerEnds(b, fine) /\ h = RanOne(c, Head(b.todo), fine)
              /\ b.dispatch \in DOMAIN dispatches /\ b.dispatch # f.dispatch
              /\ Sound(c) /\ Fits(b, c) /\ b.todo # <<>>
              /\ Sound(h) /\ Fits(g, h) /\ g.step = "handling"
              /\ g.dispatch = b.dispatch /\ g.unit = b.unit /\ g.offset = b.offset
  /\ DOMAIN frames' = Tasks /\ \A u \in Tasks : u # t => frames'[u] = frames[u]
  /\ IsSequence(frames'[t]) /\ Len(frames'[t]) = n - 1 /\ DOMAIN frames'[t] = 1..(n - 1)
  /\ \A k \in 1..(n - 1) : frames'[t][k] = IF k = n - 1 THEN g ELSE frames[t][k]
  /\ DOMAIN dispatches' = DOMAIN dispatches /\ IsSequence(dispatches')
  /\ dispatches'[f.dispatch] = e
  /\ n > 1 => dispatches'[b.dispatch] = h
  /\ \A i \in DOMAIN dispatches : i # f.dispatch /\ ~(n > 1 /\ i = b.dispatch) =>
       dispatches'[i] = dispatches[i]

OneLess(t, f, e) ==
  \E n, b, c, g, h : \E fine \in BOOLEAN : Unstacks(t, f, e, n, b, c, fine, g, h)

\* One that ends takes it away, and with it the handler that waited for it.
LEMMA Unstacked ==
  ASSUME Inv, NEW t \in Tasks, frames[t] # <<>>, NEW f, f = Top(t),
         NEW d, d = dispatches[f.dispatch], NEW end, NEW x, Ends(t, end, x),
         NEW e, e = [d EXCEPT !.end = end, !.stamps = x.stamps]
  PROVE  OneLess(t, f, e)
  <1> DEFINE s == frames[t]
             below == Front(s)
  <1>1. PICK n : n = Len(s)
    OBVIOUS
  <1>2. PICK b : b = s[n - 1]
    OBVIOUS
  <1>3. PICK c : c = dispatches[b.dispatch]
    OBVIOUS
  <1>4. PICK fine \in BOOLEAN : fine <=> end = "returned" \/ Received(f.envelope)
    OBVIOUS
  <1>5. PICK g : g = HandlerEnds(b, fine)
    OBVIOUS
  <1>6. PICK h : h = RanOne(c, Head(b.todo), fine)
    OBVIOUS
  <1>7. /\ IsSequence(s) /\ s # <<>> /\ n \in DOMAIN s /\ n \in Nat \ {0} /\ DOMAIN s = 1..n
        /\ f = s[n] /\ f.dispatch \in DOMAIN dispatches /\ f.dispatch \in Nat
        /\ Sound(d) /\ Fits(f, d)
    BY <1>1, TopIs
  <1>8. /\ DOMAIN frames = Tasks /\ IsSequence(dispatches) /\ \A i \in DOMAIN dispatches : i \in Nat
    BY PlacesOf DEF Inv, Shape
  <1>9. n > 1 => /\ n - 1 \in DOMAIN s
                 /\ b.dispatch \in DOMAIN dispatches /\ b.dispatch # f.dispatch
                 /\ Sound(c) /\ Fits(b, c) /\ b.todo # <<>>
                 /\ Sound(h) /\ Fits(g, h) /\ g.step = "handling"
                 /\ g.dispatch = b.dispatch /\ g.unit = b.unit /\ g.offset = b.offset
    <2> HAVE n > 1
    <2>1. n - 1 \in DOMAIN frames[t] /\ n - 1 < Len(frames[t]) /\ n - 1 # n
      BY <1>1, <1>7
    <2>2. /\ b.dispatch \in DOMAIN dispatches
          /\ Sound(c) /\ Fits(b, c) /\ b.step = "awaiting" /\ b.todo # <<>>
      BY <1>2, <1>3, <2>1, BelowIs
    <2>3. b.dispatch # f.dispatch
      <3>1. FramesApart
        BY DEF Inv
      <3> QED BY <1>2, <1>7, <2>1, <3>1, OneFrame
    <2>4. settings \in Settings
      BY DEF Inv, Shape
    <2>5. /\ Sound(h) /\ Fits(g, h) /\ g.step = "handling"
          /\ g.dispatch = b.dispatch /\ g.unit = b.unit /\ g.offset = b.offset
      <3>1. b.step \in {"handling", "awaiting"}
        BY <2>2
      <3>2. settings \in Settings /\ Sound(c) /\ Fits(b, c) /\ b.todo # <<>>
        BY <2>2, <2>4
      <3> HIDE DEF s
      <3> QED BY <1>5, <1>6, <3>1, <3>2, HandlesOne
    <2> QED BY <2>1, <2>2, <2>3, <2>5
  <1>10. /\ IsSequence(below) /\ Len(below) = n - 1 /\ DOMAIN below = 1..(n - 1)
         /\ \A k \in 1..(n - 1) : below[k] = s[k]
         /\ n > 1 <=> below # <<>>
         /\ n > 1 => Last(below) = b
    <2>1. /\ IsSequence(below) /\ Len(below) = n - 1 /\ DOMAIN below = 1..(n - 1)
          /\ \A k \in 1..(n - 1) : below[k] = s[k]
      <3> HIDE DEF s
      <3> QED BY <1>1, <1>7, Fronts
    <2> HIDE DEF below
    <2>2. n > 1 <=> below # <<>>
      <3>1. Len(<<>>) = 0
        BY Nothing
      <3>2. below # <<>> => Len(below) # 0
        BY <2>1, PlacesOf
      <3> QED BY <1>7, <2>1, <3>1, <3>2
    <2>3. n > 1 => Last(below) = b
      BY <1>2, <1>7, <2>1 DEF Last
    <2> QED BY <2>1, <2>2, <2>3
  <1>11. /\ frames' = [frames EXCEPT ![t] = IF below = <<>> THEN <<>>
                                           ELSE Append(Front(below), HandlerEnds(Last(below), fine))]
         /\ dispatches' = [i \in DOMAIN dispatches |->
              IF i = f.dispatch THEN [dispatches[i] EXCEPT !.end = end, !.stamps = x.stamps]
              ELSE IF below # <<>> /\ i = Last(below).dispatch
              THEN [dispatches[i] EXCEPT !.ran = Append(@, Head(Last(below).todo)),
                                         !.failed = IF ~fine THEN @ \cup {Head(Last(below).todo)} ELSE @]
              ELSE dispatches[i]]
    <2>1. (end = "returned" \/ Received(f.envelope)) = fine
      BY <1>4
    <2> QED BY <2>1, Zenon DEF Ends
  <1> HIDE DEF below
  <1>12. /\ DOMAIN frames' = Tasks /\ (\A u \in Tasks : u # t => frames'[u] = frames[u])
         /\ IsSequence(frames'[t]) /\ Len(frames'[t]) = n - 1 /\ DOMAIN frames'[t] = 1..(n - 1)
         /\ \A k \in 1..(n - 1) : frames'[t][k] = IF k = n - 1 THEN g ELSE s[k]
    <2>1. DOMAIN frames' = Tasks /\ (\A u \in Tasks : u # t => frames'[u] = frames[u])
      BY <1>8, <1>11
    <2>2. CASE n > 1
      <3>1. frames'[t] = Append(Front(below), g)
        BY <1>5, <1>8, <1>10, <1>11, <2>2
      <3>2. /\ IsSequence(frames'[t]) /\ Len(frames'[t]) = Len(below) /\ DOMAIN frames'[t] = DOMAIN below
            /\ \A i \in DOMAIN below : frames'[t][i] = IF i = Len(below) THEN g ELSE below[i]
        BY <1>10, <2>2, <3>1, LastReplaced
      <3> QED BY <1>10, <2>1, <3>2
    <2>3. CASE ~(n > 1)
      <3>1. n = 1 /\ frames'[t] = <<>>
        <4>1. n = 1
          BY <1>7, <2>3
        <4>2. below = <<>>
          BY <1>10, <2>3
        <4>3. frames'[t] = <<>>
          BY <1>8, <1>11, <4>2
        <4> QED BY <4>1, <4>3
      <3>2. IsSequence(<<>>) /\ Len(<<>>) = 0
        BY Nothing
      <3>3. IsSequence(frames'[t]) /\ Len(frames'[t]) = 0 /\ DOMAIN frames'[t] = 1..0
        BY <3>1, <3>2, PlacesOf
      <3>4. ~ \E k : k \in 1..0
        OBVIOUS
      <3>5. n - 1 = 0
        BY <3>1
      <3> QED BY <2>1, <3>3, <3>4, <3>5
    <2> QED BY <2>2, <2>3
  <1>13. /\ DOMAIN dispatches' = DOMAIN dispatches /\ IsSequence(dispatches')
         /\ dispatches'[f.dispatch] = e
         /\ n > 1 => dispatches'[b.dispatch] = h
         /\ \A i \in DOMAIN dispatches : i # f.dispatch /\ ~(n > 1 /\ i = b.dispatch) =>
              dispatches'[i] = dispatches[i]
    <2>1. DOMAIN dispatches' = DOMAIN dispatches /\ dispatches' = [i \in DOMAIN dispatches' |-> dispatches'[i]]
      BY <1>11
    <2>2. IsSequence(dispatches')
      BY <1>8, <2>1, Mapped
    <2>3. dispatches'[f.dispatch] = e
      BY <1>7, <1>11
    <2>4. ASSUME n > 1 PROVE dispatches'[b.dispatch] = h
      <3>1. b.dispatch # f.dispatch /\ b.dispatch \in DOMAIN dispatches /\ below # <<>> /\ Last(below) = b
        BY <1>9, <1>10, <2>4
      <3>2. dispatches'[b.dispatch] = [c EXCEPT !.ran = Append(@, Head(b.todo)),
                                                !.failed = IF ~fine THEN @ \cup {Head(b.todo)} ELSE @]
        BY <1>3, <1>11, <3>1
      <3>3. CASE fine
        BY <1>6, <3>2, <3>3 DEF RanOne
      <3>4. CASE ~fine
        BY <1>6, <3>2, <3>4 DEF RanOne
      <3> QED BY <3>3, <3>4
    <2>5. ASSUME NEW i \in DOMAIN dispatches, i # f.dispatch, ~(n > 1 /\ i = b.dispatch)
          PROVE  dispatches'[i] = dispatches[i]
      BY <1>10, <1>11, <2>5
    <2> QED BY <2>1, <2>2, <2>3, <2>4, <2>5
  <1>14. s = frames[t]
    OBVIOUS
  <1> HIDE DEF s
  <1>15. Unstacks(t, f, e, n, b, c, fine, g, h)
    BY <1>1, <1>2, <1>3, <1>5, <1>6, <1>7, <1>9, <1>12, <1>13, <1>14 DEF Unstacks
  <1> QED BY <1>15 DEF OneLess

\* A dispatch ends, and with it the handler that waited for it.
LEMMA Finishes ==
  ASSUME Inv, settings' = settings, NEW t \in Tasks, frames[t] # <<>>, NEW f, f = Top(t),
         NEW d, d = dispatches[f.dispatch], NEW end, NEW x, Ends(t, end, x),
         NEW e, e = [d EXCEPT !.end = end, !.stamps = x.stamps], Sound(e), units' = units,
         IsSequence(queue'), \A y \in ToSet(queue') : WellFormed(y)
  PROVE  Inv'
  <1>4. OneLess(t, f, e)
    BY Unstacked
  <1>5. PICK n, b, c, g, h : \E fine \in BOOLEAN : Unstacks(t, f, e, n, b, c, fine, g, h)
    BY <1>4 DEF OneLess
  <1>10. PICK fine \in BOOLEAN : Unstacks(t, f, e, n, b, c, fine, g, h)
    BY <1>5
  <1>19. PICK s : s = frames[t]
    OBVIOUS
  <1>1. n = Len(s)
    BY <1>10, <1>19 DEF Unstacks
  <1>2. n > 1 => b = s[n - 1]
    BY <1>10, <1>19 DEF Unstacks
  <1>3. n > 1 => c = dispatches[b.dispatch]
    BY <1>10 DEF Unstacks
  <1>6. n > 1 => h = RanOne(c, Head(b.todo), fine)
    BY <1>10 DEF Unstacks
  <1>7. /\ n \in DOMAIN s /\ n \in Nat \ {0} /\ DOMAIN s = 1..n
        /\ f = s[n] /\ f.dispatch \in DOMAIN dispatches
        /\ Sound(d) /\ Fits(f, d)
    <2>1. n \in Nat \ {0} /\ DOMAIN s = 1..n /\ f = s[n]
      BY <1>10, <1>19 DEF Unstacks
    <2>2. f.dispatch \in DOMAIN dispatches /\ Sound(d) /\ Fits(f, d)
      BY TopIs
    <2> QED BY <2>1, <2>2
  <1>8. DOMAIN frames = Tasks /\ IsSequence(dispatches) /\ \A i \in DOMAIN dispatches : i \in Nat
    BY PlacesOf DEF Inv, Shape
  <1>9. n > 1 => /\ n - 1 \in DOMAIN s
                 /\ b.dispatch \in DOMAIN dispatches /\ b.dispatch # f.dispatch
                 /\ Sound(c) /\ Fits(b, c) /\ b.todo # <<>>
                 /\ Sound(h) /\ Fits(g, h) /\ g.step = "handling"
                 /\ g.dispatch = b.dispatch /\ g.unit = b.unit /\ g.offset = b.offset
    BY <1>10, <1>19 DEF Unstacks
  <1>12. /\ DOMAIN frames' = Tasks /\ (\A u \in Tasks : u # t => frames'[u] = frames[u])
         /\ IsSequence(frames'[t]) /\ Len(frames'[t]) = n - 1 /\ DOMAIN frames'[t] = 1..(n - 1)
         /\ \A k \in 1..(n - 1) : frames'[t][k] = IF k = n - 1 THEN g ELSE s[k]
    BY <1>10, <1>19 DEF Unstacks
  <1>13. /\ DOMAIN dispatches' = DOMAIN dispatches /\ IsSequence(dispatches')
         /\ dispatches'[f.dispatch] = e
         /\ n > 1 => dispatches'[b.dispatch] = h
         /\ \A i \in DOMAIN dispatches : i # f.dispatch /\ ~(n > 1 /\ i = b.dispatch) =>
              dispatches'[i] = dispatches[i]
    BY <1>10 DEF Unstacks
  <1>14. \A i \in DOMAIN dispatches : /\ dispatches'[i].unit = dispatches[i].unit
                                      /\ dispatches'[i].within = dispatches[i].within
                                      /\ dispatches'[i].envelope = dispatches[i].envelope
                                      /\ Sound(dispatches'[i])
    <2> SUFFICES ASSUME NEW i \in DOMAIN dispatches
                 PROVE  /\ dispatches'[i].unit = dispatches[i].unit
                        /\ dispatches'[i].within = dispatches[i].within
                        /\ dispatches'[i].envelope = dispatches[i].envelope
                        /\ Sound(dispatches'[i])
      OBVIOUS
    <2>1. CASE i = f.dispatch
      <3>1. e.unit = d.unit /\ e.within = d.within /\ e.envelope = d.envelope
        BY <1>7 DEF Sound, DispatchFields
      <3> QED BY <1>13, <2>1, <3>1
    <2>2. CASE n > 1 /\ i = b.dispatch
      <3>1. h.unit = c.unit /\ h.within = c.within /\ h.envelope = c.envelope
        BY <1>6, <1>9, <2>2 DEF Sound, DispatchFields, RanOne
      <3> QED BY <1>3, <1>9, <1>13, <2>2, <3>1
    <2>3. CASE i # f.dispatch /\ ~(n > 1 /\ i = b.dispatch)
      <3>1. Sound(dispatches[i])
        BY DEF Inv, DispatchesSound
      <3> QED BY <1>13, <2>3, <3>1
    <2> QED BY <2>1, <2>2, <2>3
  <1>15. Shape'
    BY <1>12, <1>13 DEF Inv, Shape
  <1>16. DispatchesSound'
    <2> SUFFICES ASSUME NEW i \in DOMAIN dispatches', NEW y \in {dispatches'[i]} PROVE Sound(y)'
      BY DEF DispatchesSound
    <2>1. Sound(y)
      BY <1>13, <1>14
    <2> QED BY <2>1, SameJudgement
  <1>17. \A k \in 1..(n - 1) : k \in 1..n /\ n > 1 /\ k < n /\ (k = n - 1 \/ k < n - 1)
    BY <1>7
  <1>18. n - 1 \in Nat /\ n - 1 < n /\ ~(n - 1 < n - 1)
    BY <1>7
  <1>20. FramesFit' /\ FramesApart'
    <2>1. \A k \in DOMAIN frames'[t] : k < n - 1 =>
           /\ k \in DOMAIN frames[t] /\ frames'[t][k] = frames[t][k]
           /\ k < Len(frames[t]) /\ k < Len(frames'[t])
      <3> SUFFICES ASSUME NEW k \in 1..(n - 1), k < n - 1
                   PROVE  k \in 1..n /\ frames'[t][k] = s[k] /\ k < n
        BY <1>1, <1>7, <1>12, <1>19
      <3>1. k # n - 1
        BY <1>18
      <3> QED BY <1>12, <1>17, <3>1
    <2>2. \A k \in DOMAIN frames'[t] : k >= n - 1 => k = n - 1 /\ n > 1 /\ frames'[t][k] = g
      <3> SUFFICES ASSUME NEW k \in 1..(n - 1), k >= n - 1 PROVE k = n - 1 /\ n > 1 /\ frames'[t][k] = g
        BY <1>12
      <3>1. k = n - 1 /\ n > 1
        BY <1>7
      <3> QED BY <1>12, <3>1
    <2>3. \A i \in DOMAIN dispatches :
            /\ i \in DOMAIN dispatches'
            /\ \/ dispatches'[i] = dispatches[i]
               \/ \E k \in DOMAIN frames[t] : k >= n - 1 /\ frames[t][k].dispatch = i
      <3> SUFFICES ASSUME NEW i \in DOMAIN dispatches, dispatches'[i] # dispatches[i]
                   PROVE  \E k \in DOMAIN s : k >= n - 1 /\ s[k].dispatch = i
        BY <1>13, <1>19
      <3>1. CASE i = f.dispatch
        <4>1. n >= n - 1
          BY <1>7
        <4> QED BY <1>7, <3>1, <4>1
      <3>2. CASE n > 1 /\ i = b.dispatch
        <4>1. n - 1 >= n - 1
          BY <1>7
        <4> QED BY <1>2, <1>9, <3>2, <4>1
      <3> QED BY <1>13, <3>1, <3>2
    <2>4. \A k \in DOMAIN frames'[t] : k >= n - 1 => \A y \in {frames'[t][k]} :
           /\ y.dispatch \in DOMAIN dispatches'
           /\ \A z \in {dispatches'[y.dispatch]} : Fits(y, z)
           /\ k < Len(frames'[t]) <=> y.step = "awaiting"
      <3> SUFFICES ASSUME NEW k \in DOMAIN frames'[t], k >= n - 1, NEW y \in {frames'[t][k]}
                   PROVE  /\ y.dispatch \in DOMAIN dispatches'
                          /\ \A z \in {dispatches'[y.dispatch]} : Fits(y, z)
                          /\ k < Len(frames'[t]) <=> y.step = "awaiting"
        OBVIOUS
      <3>1. k = n - 1 /\ n > 1 /\ y = g
        BY <2>2
      <3>2. dispatches'[y.dispatch] = h /\ y.dispatch \in DOMAIN dispatches' /\ Fits(y, h) /\ y.step # "awaiting"
        BY <1>9, <1>13, <3>1
      <3>3. ~(k < Len(frames'[t]))
        BY <1>12, <1>18, <3>1
      <3> QED BY <3>2, <3>3
    <2>5. \A k \in DOMAIN frames'[t] : k >= n - 1 =>
           \/ k \in DOMAIN frames[t] /\ frames'[t][k].dispatch = frames[t][k].dispatch
           \/ k = Len(frames'[t]) /\ frames'[t][k].dispatch \notin DOMAIN dispatches
      BY <1>2, <1>9, <1>19, <2>2
    <2>6. n - 1 \in Nat /\ \A u \in Tasks : u # t => frames'[u] = frames[u]
      BY <1>12, <1>18
    <2>7. PICK m : m = n - 1
      OBVIOUS
    <2> QED BY <1>15, <2>1, <2>3, <2>4, <2>5, <2>6, <2>7, OthersKept
  <1>21. UnitsApart'
    <2>1. ASSUME NEW u \in Tasks, NEW k \in DOMAIN frames'[u]
          PROVE  \E v \in Tasks : \E l \in DOMAIN frames[v] :
                   /\ frames'[u][k].dispatch = frames[v][l].dispatch
                   /\ frames'[u][k].unit = frames[v][l].unit
                   /\ frames'[u][k].offset = 0 <=> frames[v][l].offset = 0
      <3>1. CASE u = t
        <4>1. k \in 1..(n - 1) /\ k \in DOMAIN s /\ n > 1
          BY <1>7, <1>12, <1>17, <3>1
        <4>2. CASE k = n - 1
          BY <1>2, <1>9, <1>12, <1>19, <3>1, <4>1, <4>2
        <4>3. CASE k # n - 1
          BY <1>12, <1>19, <3>1, <4>1, <4>3
        <4> QED BY <4>2, <4>3
      <3>2. CASE u # t
        BY <1>12, <3>2
      <3> QED BY <3>1, <3>2
    <2>2. \A i \in DOMAIN dispatches :
            /\ i \in DOMAIN dispatches' /\ dispatches'[i].unit = dispatches[i].unit
            /\ dispatches'[i].within = dispatches[i].within
            /\ dispatches'[i].envelope = dispatches[i].envelope
      BY <1>13, <1>14
    <2> QED BY <1>13, <2>1, <2>2, UnitsKept
  <1> QED BY <1>15, <1>16, <1>20, <1>21 DEF Inv

-----------------------------------------------------------------------------
(***************************************************************************)
(* The steps.                                                              *)
(***************************************************************************)

\* The frame on top and its dispatch turn into g and e.
TopTurns(t, f, d, g, e) ==
  /\ frames[t] # <<>> /\ f = Top(t) /\ d = dispatches[f.dispatch]
  /\ f.envelope = d.envelope /\ e.envelope = d.envelope /\ g.dispatch = f.dispatch
  /\ Becomes(t, g) /\ dispatches' = [dispatches EXCEPT ![f.dispatch] = e]

\* It enters a unit: one that is opened is no other's, and one that is joined is that of the
\* dispatch it is within.
LEMMA UnitEntered ==
  ASSUME Inv, NEW t \in Tasks, NEW f, NEW d, NEW g, NEW e, TopTurns(t, f, d, g, e),
         f.offset = 0, g.offset = 1, e.within = d.within, NEW v, g.unit = v, e.unit = v,
         \/ (Received(f.envelope) \/ f.unit = 0) /\ v = units + 1 /\ units' = units + 1
         \/ ~(Received(f.envelope) \/ f.unit = 0) /\ v = f.unit /\ units' = units
  PROVE  UnitsApart'
  <1>0. /\ frames[t] # <<>> /\ f = Top(t) /\ d = dispatches[f.dispatch]
        /\ f.envelope = d.envelope /\ e.envelope = d.envelope /\ g.dispatch = f.dispatch
        /\ Becomes(t, g) /\ dispatches' = [dispatches EXCEPT ![f.dispatch] = e]
    BY DEF TopTurns
  <1>1. PICK n : n = Len(frames[t])
    OBVIOUS
  <1>2. PICK m : m = f.dispatch
    OBVIOUS
  <1>3. n \in DOMAIN frames[t] /\ f = frames[t][n] /\ m \in DOMAIN dispatches /\ m \in Nat
    BY <1>0, <1>1, <1>2, TopIs
  <1>4. /\ \A u \in Tasks : u # t => frames'[u] = frames[u]
        /\ DOMAIN frames'[t] = DOMAIN frames[t]
        /\ \A k \in DOMAIN frames[t] : frames'[t][k] = IF k = n THEN g ELSE frames[t][k]
    BY <1>0, <1>1, TopBecomes
  <1>5. /\ DOMAIN dispatches' = DOMAIN dispatches /\ dispatches'[m] = e
        /\ \A i \in DOMAIN dispatches : i # m => dispatches'[i] = dispatches[i]
    BY <1>0, <1>2, <1>3
  <1>6. d = dispatches[m] /\ Placed(dispatches, f)
    BY <1>0, <1>2, <1>3 DEF Inv, UnitsApart, FramesPlaced
  <1>7. /\ d.unit = 0 /\ (d.within = 0 <=> f.unit = 0)
        /\ d.within # 0 => d.within \in DOMAIN dispatches /\ dispatches[d.within].unit = f.unit
    BY <1>2, <1>6 DEF Placed
  <1>8. /\ units \in Nat
        /\ \A i \in DOMAIN dispatches : \A x \in {dispatches[i]} :
             /\ x.unit \in 0..units
             /\ x.unit # 0 /\ Own(x) =>
                  \A j \in DOMAIN dispatches : j # i /\ Own(dispatches[j]) => dispatches[j].unit # x.unit
             /\ x.unit # 0 /\ ~Own(x) => x.within \in DOMAIN dispatches /\ dispatches[x.within].unit = x.unit
    BY DEF Inv, UnitsApart, UnitsTold
  <1>9. \A i \in DOMAIN dispatches : dispatches[i].unit # 0 => i # m /\ dispatches'[i] = dispatches[i]
    BY <1>5, <1>6, <1>7
  <1>10. v \in 0..units' /\ v # 0 /\ units' \in Nat /\ (\A x \in 0..units : x \in 0..units')
    <2>1. CASE v = units + 1 /\ units' = units + 1
      BY <1>8, <2>1
    <2>2. CASE ~(Received(f.envelope) \/ f.unit = 0) /\ v = f.unit /\ units' = units
      <3>1. v \in 0..units
        BY <1>7, <1>8, <2>2
      <3> QED BY <1>8, <2>2, <3>1
    <2> QED BY <2>1, <2>2
  <1>11. FramesPlaced'
    <2> SUFFICES ASSUME NEW u \in Tasks, NEW k \in DOMAIN frames'[u] PROVE Placed(dispatches', frames'[u][k])
      BY DEF FramesPlaced
    <2>1. CASE u = t /\ k = n
      <3>1. frames'[u][k] = g /\ dispatches'[g.dispatch] = e
        BY <1>0, <1>2, <1>3, <1>4, <1>5, <2>1
      <3>2. Placed(dispatches', g)
        BY <1>10, <3>1 DEF Placed
      <3> QED BY <3>1, <3>2
    <2>2. CASE ~(u = t /\ k = n)
      <3>1. PICK x : x = frames'[u][k]
        OBVIOUS
      <3>2. k \in DOMAIN frames[u] /\ x = frames[u][k]
        BY <1>4, <2>2, <3>1
      <3>3. x.dispatch \in DOMAIN dispatches /\ Placed(dispatches, x) /\ FramesApart
        BY <3>2 DEF Inv, FramesFit, UnitsApart, FramesPlaced
      <3>4. x.dispatch # m
        BY <1>2, <1>3, <2>2, <3>2, <3>3, OneFrame
      <3>5. dispatches'[x.dispatch] = dispatches[x.dispatch]
        BY <1>5, <3>3, <3>4
      <3>6. Placed(dispatches', x)
        BY <1>5, <1>9, <3>3, <3>5 DEF Placed
      <3> QED BY <3>1, <3>6
    <2> QED BY <2>1, <2>2
  <1>12. UnitsTold'
    <2> SUFFICES ASSUME NEW i \in DOMAIN dispatches', NEW x \in {dispatches'[i]}
                 PROVE  /\ x.unit \in 0..units'
                        /\ x.unit # 0 /\ Own(x) =>
                             \A j \in DOMAIN dispatches' :
                               j # i /\ Own(dispatches'[j]) => dispatches'[j].unit # x.unit
                        /\ x.unit # 0 /\ ~Own(x) =>
                             x.within \in DOMAIN dispatches' /\ dispatches'[x.within].unit = x.unit
      BY <1>10 DEF UnitsTold
    <2>1. x.unit \in 0..units'
      BY <1>5, <1>8, <1>10
    <2>2. Own(e) <=> d.within = 0 \/ Received(f.envelope)
      BY <1>0 DEF Own
    <2>3. CASE (Received(f.envelope) \/ f.unit = 0) /\ v = units + 1
      <3>1. Own(e)
        BY <1>7, <2>2, <2>3
      <3>2. \A j \in DOMAIN dispatches : dispatches[j].unit # v
        BY <1>8, <2>3
      <3>3. ASSUME NEW j \in DOMAIN dispatches', j # i, x.unit # 0, Own(x), Own(dispatches'[j])
            PROVE  dispatches'[j].unit # x.unit
        <4>1. CASE i = m
          BY <1>5, <3>2, <3>3, <4>1
        <4>2. CASE i # m
          BY <1>5, <1>8, <3>2, <3>3, <4>2
        <4> QED BY <4>1, <4>2
      <3>4. ASSUME x.unit # 0, ~Own(x)
            PROVE  x.within \in DOMAIN dispatches' /\ dispatches'[x.within].unit = x.unit
        <4>1. i # m /\ x = dispatches[i]
          BY <1>5, <3>1, <3>4
        <4>2. x.within \in DOMAIN dispatches /\ dispatches[x.within].unit = x.unit
          BY <1>5, <1>8, <3>4, <4>1
        <4> QED BY <1>5, <1>9, <3>4, <4>2
      <3> QED BY <2>1, <3>3, <3>4
    <2>4. CASE ~(Received(f.envelope) \/ f.unit = 0) /\ v = f.unit
      <3>1. ~Own(e)
        BY <1>7, <2>2, <2>4
      <3>2. ASSUME NEW j \in DOMAIN dispatches', j # i, x.unit # 0, Own(x), Own(dispatches'[j])
            PROVE  dispatches'[j].unit # x.unit
        <4>1. i # m /\ j # m /\ x = dispatches[i] /\ dispatches'[j] = dispatches[j]
          BY <1>5, <3>1, <3>2
        <4> QED BY <1>5, <1>8, <3>2, <4>1
      <3>3. ASSUME x.unit # 0, ~Own(x)
            PROVE  x.within \in DOMAIN dispatches' /\ dispatches'[x.within].unit = x.unit
        <4>1. CASE i = m
          <5>1. x = e /\ e.within = d.within /\ d.within \in DOMAIN dispatches
                /\ dispatches[d.within].unit = v
            BY <1>5, <1>7, <2>4, <4>1
          <5> QED BY <1>5, <1>9, <1>10, <5>1
        <4>2. CASE i # m
          <5>1. x = dispatches[i]
            BY <1>5, <4>2
          <5>2. x.within \in DOMAIN dispatches /\ dispatches[x.within].unit = x.unit
            BY <1>5, <1>8, <3>3, <5>1
          <5> QED BY <1>5, <1>9, <3>3, <5>2
        <4> QED BY <4>1, <4>2
      <3> QED BY <2>1, <3>2, <3>3
    <2> QED BY <2>3, <2>4
  <1> QED BY <1>11, <1>12 DEF UnitsApart

LEMMA SameQueue ==
  ASSUME Inv, queue' = queue
  PROVE  IsSequence(queue') /\ \A x \in ToSet(queue') : WellFormed(x)
BY DEF Inv, Shape

LEMMA ChainIs ==
  /\ Chain("publishing") = <<"unit", "send", "handle">> /\ Chain("working") = <<"unit", "handle">>
  /\ Len(Chain("publishing")) = 3 /\ Len(Chain("working")) = 2
  /\ Chain("publishing")[1] = "unit" /\ Chain("publishing")[2] = "send" /\ Chain("publishing")[3] = "handle"
  /\ Chain("working")[1] = "unit" /\ Chain("working")[2] = "handle"
BY DEF Chain

\* A step that leaves the dispatches as they are changes the frame alone.
LEMMA FrameChanged ==
  ASSUME Inv, settings' = settings, NEW t \in Tasks, frames[t] # <<>>, NEW f, f = Top(t),
         NEW d, d = dispatches[f.dispatch],
         NEW g, g.dispatch = f.dispatch, g.unit = f.unit, g.offset = 0 <=> f.offset = 0,
         g.step # "awaiting", Fits(g, d),
         Becomes(t, g), dispatches' = dispatches, units' = units, queue' = queue
  PROVE  Inv'
  <1>1. f.dispatch \in DOMAIN dispatches /\ Sound(d)
    BY TopIs
  <1>2. IsSequence(queue') /\ \A x \in ToSet(queue') : WellFormed(x)
    BY SameQueue
  <1>3. dispatches' = [dispatches EXCEPT ![f.dispatch] = d]
    <2>1. IsSequence(dispatches)
      BY DEF Inv, Shape
    <2>2. dispatches = [i \in DOMAIN dispatches |-> dispatches[i]]
      BY <2>1 DEF IsSequence
    <2> QED BY <1>1, <2>2
  <1> QED BY <1>1, <1>2, <1>3, TopKeeps

\* The next of the chain.
LEMMA AdvanceKeeps ==
  ASSUME Inv, NEW t \in Tasks, Advance(t)
  PROVE  Inv'
  <1>1. PICK f : f = Top(t)
    OBVIOUS
  <1>2. PICK d : d = dispatches[f.dispatch]
    OBVIOUS
  <1>3. /\ frames[t] # <<>> /\ f.step = "next" /\ settings' = settings /\ queue' = queue
    BY <1>1 DEF Advance, At
  <1>4. /\ f.dispatch \in DOMAIN dispatches /\ Sound(d) /\ Fits(f, d) /\ f.step # "awaiting"
        /\ settings \in Settings
    BY <1>1, <1>2, <1>3, TopIs DEF Inv, Shape
  <1>5. IsSequence(queue') /\ \A x \in ToSet(queue') : WellFormed(x)
    BY <1>3, SameQueue
  <1>6. DOMAIN f = FrameFields /\ f.bus \in {"publishing", "working"} /\ f.bus = d.bus
        /\ f.envelope.message = d.envelope.message
    BY <1>4 DEF Fits, Sound
  <1>7. \/ f.offset = 0
        \/ f.offset = 1 /\ f.bus = "publishing"
        \/ f.offset = IF f.bus = "publishing" THEN 2 ELSE 1
        \/ f.offset = IF f.bus = "publishing" THEN 3 ELSE 2
    BY <1>3, <1>4 DEF Fits, Starts, Sends, Arrives, Handles
  <1>8. IF f.offset = Len(Chain(f.bus)) THEN Ends(t, "returned", f.envelope) /\ UNCHANGED units
        ELSE CASE Chain(f.bus)[f.offset + 1] = "unit" -> EntersUnit(t, f)
               [] Chain(f.bus)[f.offset + 1] = "send" ->
                    /\ Becomes(t, IF Received(f.envelope) THEN [f EXCEPT !.offset = @ + 1]
                                  ELSE [[f EXCEPT !.offset = @ + 1]
                                          EXCEPT !.step = "sending", !.todo = SendersFor(f.envelope)])
                    /\ UNCHANGED <<dispatches, units>>
               [] OTHER ->
                    IF HandlersFor(f.envelope.message.type) = <<>> /\ settings.requireHandler
                    THEN Ends(t, "raised", f.envelope) /\ UNCHANGED units
                    ELSE /\ Becomes(t, [[f EXCEPT !.offset = @ + 1]
                                          EXCEPT !.step = "handling",
                                                 !.todo = HandlersFor(f.envelope.message.type)])
                         /\ UNCHANGED <<dispatches, units>>
    BY <1>1, Zenon DEF Advance
  <1>9. CASE f.offset = 0
    <2>1. EntersUnit(t, f)
      <3>1. f.offset # Len(Chain(f.bus)) /\ Chain(f.bus)[f.offset + 1] = "unit"
        BY <1>6, <1>9, ChainIs
      <3> QED BY <1>8, <3>1, Zenon
    <2>2. PICK u : u = IF Received(f.envelope) \/ f.unit = 0 THEN units + 1 ELSE f.unit
      OBVIOUS
    <2>3. PICK g : g = [f EXCEPT !.unit = u, !.offset = 1]
      OBVIOUS
    <2>4. PICK e : e = [d EXCEPT !.unit = u]
      OBVIOUS
    <2>5. /\ units' = IF Received(f.envelope) \/ f.unit = 0 THEN units + 1 ELSE units
          /\ Becomes(t, g) /\ dispatches' = [dispatches EXCEPT ![f.dispatch] = e]
      <3>1. EntersUnit(t, f) = 
              /\ units' = IF Received(f.envelope) \/ f.unit = 0 THEN units + 1 ELSE units
              /\ Becomes(t, [f EXCEPT !.unit = u, !.offset = 1])
              /\ dispatches' = [dispatches EXCEPT ![f.dispatch].unit = u]
        BY <2>2, Zenon DEF EntersUnit
      <3> QED BY <1>2, <2>1, <2>3, <2>4, <3>1
    <2>6. Sound(e) /\ Fits(g, e) /\ f.envelope = d.envelope
      <3>1. Sound(d) /\ Fits(f, d) /\ f.step = "next" /\ f.offset = 0
        BY <1>3, <1>4, <1>9
      <3>2. Sound(e)
        BY <2>3, <2>4, <3>1, EntersIt
      <3>3. Fits(g, e)
        BY <2>3, <2>4, <3>1, EntersIt
      <3>4. f.envelope = d.envelope
        BY <2>3, <2>4, <3>1, EntersIt
      <3> QED BY <3>2, <3>3, <3>4
    <2>7. /\ g.dispatch = f.dispatch /\ g.step = f.step /\ g.unit = u
          /\ e.envelope = d.envelope /\ e.unit = u
      BY <1>4, <1>6, <2>3, <2>4 DEF FrameFields, Sound, DispatchFields
    <2>8. Shape' /\ DispatchesSound' /\ FramesFit' /\ FramesApart'
      BY <1>1, <1>2, <1>3, <1>4, <1>5, <2>5, <2>6, <2>7, TopChanged
    <2>9. UnitsApart'
      <3>1. \/ (Received(f.envelope) \/ f.unit = 0) /\ u = units + 1 /\ units' = units + 1
            \/ ~(Received(f.envelope) \/ f.unit = 0) /\ u = f.unit /\ units' = units
        BY <2>2, <2>5
      <3>2. TopTurns(t, f, d, g, e)
        BY <1>1, <1>2, <1>3, <2>5, <2>6, <2>7 DEF TopTurns
      <3>3. g.offset = 1 /\ e.within = d.within
        BY <1>4, <1>6, <2>3, <2>4 DEF FrameFields, Sound, DispatchFields
      <3> QED BY <1>9, <2>7, <3>1, <3>2, <3>3, UnitEntered
    <2> QED BY <2>8, <2>9 DEF Inv
  <1>10. CASE f.offset = 1 /\ f.bus = "publishing"
    <2>1. f.offset # Len(Chain(f.bus)) /\ Chain(f.bus)[f.offset + 1] = "send"
      BY <1>10, ChainIs
    <2>2. PICK g : g = [[f EXCEPT !.offset = @ + 1] EXCEPT !.step = "sending", !.todo = SendersFor(f.envelope)]
      OBVIOUS
    <2>3. Fits(g, d) /\ ~Received(f.envelope)
      BY <1>3, <1>4, <1>10, <2>2, ComesToSend
    <2>4. Becomes(t, g) /\ dispatches' = dispatches /\ units' = units
      <3>1. "send" # "unit"
        OBVIOUS
      <3>2. /\ Becomes(t, IF Received(f.envelope) THEN [f EXCEPT !.offset = @ + 1]
                          ELSE [[f EXCEPT !.offset = @ + 1]
                                  EXCEPT !.step = "sending", !.todo = SendersFor(f.envelope)])
            /\ UNCHANGED <<dispatches, units>>
        BY <1>8, <2>1, <3>1, Zenon
      <3> QED BY <2>2, <2>3, <3>2
    <2>5. /\ g.dispatch = f.dispatch /\ g.unit = f.unit /\ g.step = "sending"
          /\ g.offset = 0 <=> f.offset = 0
      BY <1>6, <1>10, <2>2 DEF FrameFields
    <2> QED BY <1>1, <1>2, <1>3, <2>3, <2>4, <2>5, FrameChanged
  <1>11. CASE f.offset = IF f.bus = "publishing" THEN 2 ELSE 1
    <2>1. /\ f.offset # Len(Chain(f.bus)) /\ Chain(f.bus)[f.offset + 1] # "send"
          /\ Chain(f.bus)[f.offset + 1] # "unit"
      <3>1. CASE f.bus = "publishing"
        BY <1>11, <3>1, ChainIs
      <3>2. CASE f.bus = "working"
        BY <1>11, <3>2, ChainIs
      <3> QED BY <1>6, <3>1, <3>2
    <2>2. PICK g : g = [[f EXCEPT !.offset = @ + 1] EXCEPT !.step = "handling",
                                                          !.todo = HandlersFor(f.envelope.message.type)]
      OBVIOUS
    <2>3. Fits(g, d) /\ d.ran = <<>>
      BY <1>3, <1>4, <1>11, <2>2, ComesToHandle
    <2>4. IF HandlersFor(f.envelope.message.type) = <<>> /\ settings.requireHandler
          THEN Ends(t, "raised", f.envelope) /\ UNCHANGED units
          ELSE Becomes(t, g) /\ UNCHANGED <<dispatches, units>>
      BY <1>8, <2>1, <2>2, Zenon
    <2>5. CASE HandlersFor(f.envelope.message.type) = <<>> /\ settings.requireHandler
      <3>1. Ends(t, "raised", f.envelope) /\ units' = units
        BY <2>4, <2>5
      <3>2. PICK e : e = [d EXCEPT !.end = "raised", !.stamps = f.envelope.stamps]
        OBVIOUS
      <3>3. Sound(e)
        BY <1>4, <2>3, <3>2, EndsIt
      <3> QED BY <1>1, <1>2, <1>3, <1>5, <3>1, <3>2, <3>3, Finishes
    <2>6. CASE ~(HandlersFor(f.envelope.message.type) = <<>> /\ settings.requireHandler)
      <3>1. Becomes(t, g) /\ dispatches' = dispatches /\ units' = units
        BY <2>4, <2>6
      <3>2. /\ g.dispatch = f.dispatch /\ g.unit = f.unit /\ g.step = "handling"
            /\ g.offset = 0 <=> f.offset = 0
        BY <1>6, <1>11, <2>2 DEF FrameFields
      <3> QED BY <1>1, <1>2, <1>3, <2>3, <3>1, <3>2, FrameChanged
    <2> QED BY <2>5, <2>6
  <1>12. CASE f.offset = IF f.bus = "publishing" THEN 3 ELSE 2
    <2>1. f.offset = Len(Chain(f.bus))
      BY <1>6, <1>12, ChainIs
    <2>2. Ends(t, "returned", f.envelope) /\ units' = units
      BY <1>8, <2>1, Zenon
    <2>3. PICK e : e = [d EXCEPT !.end = "returned", !.stamps = f.envelope.stamps]
      OBVIOUS
    <2>4. ToSet(d.sentTo) = Destinations(d.envelope) /\ d.failed = {} /\ ToSet(d.ran) = Bound(d.envelope.message.type)
      BY <1>3, <1>4, <1>12, ComesToEnd
    <2>5. Sound(e)
      BY <1>4, <2>3, <2>4, EndsIt
    <2> QED BY <1>1, <1>2, <1>3, <1>5, <2>2, <2>3, <2>5, Finishes
  <1> QED BY <1>7, <1>9, <1>10, <1>11, <1>12
-----------------------------------------------------------------------------
(***************************************************************************)
(* Every action preserves the invariant.                                   *)
(***************************************************************************)

\* What a sender added was received exactly if what it returned was, by one that got it unreceived.
LEMMA AddedMarked ==
  ASSUME NEW before, IsSequence(before), ~Marked(before), NEW returned, IsSequence(returned)
  PROVE  /\ IsSequence(AddedBy(returned, before))
         /\ Marked(AddedBy(returned, before)) <=> Marked(returned)
  <1>1. PICK q : q = AddedBy(returned, before)
    OBVIOUS
  <1>2. /\ IsSequence(q) /\ ToSet(q) \subseteq ToSet(returned)
        /\ \A x \in ToSet(returned) : x \notin ToSet(before) => x \in ToSet(q)
    BY <1>1, AddedIs
  <1>3. Marked(q) <=> Marked(returned)
    BY <1>2 DEF Marked
  <1> QED BY <1>1, <1>2, <1>3

\* The envelope a sender is handed.
LEMMA StampedIs ==
  ASSUME Inv, NEW t \in Tasks, At(t, "sending"), Top(t).todo # <<>>
  PROVE  /\ WellFormed(Stamped(t)) /\ IsSequence(Stamped(t).stamps) /\ ~Marked(Stamped(t).stamps)
         /\ IsSequence(Top(t).envelope.stamps) /\ ~Marked(Top(t).envelope.stamps)
  <1>1. PICK f : f = Top(t)
    OBVIOUS
  <1>2. PICK d : d = dispatches[f.dispatch]
    OBVIOUS
  <1>3. Sound(d) /\ Fits(f, d) /\ settings \in Settings /\ f.step = "sending"
    BY <1>1, <1>2, TopIs DEF At, Inv, Shape
  <1>4. Sends(f, d) /\ ~Received(d.envelope)
    BY <1>3, SendersLeft
  <1>5. WellFormed(f.envelope) /\ ~Received(f.envelope) /\ ~Marked(f.envelope.stamps)
    BY <1>3, <1>4, ReceivedIs DEF Fits, Sends
  <1>6. PICK x : x = Stamp("Sent", Head(f.todo))
    OBVIOUS
  <1>7. IsSequence(<<x>>) /\ ~Marked(<<x>>)
    BY <1>6, OneStamp DEF Stamp
  <1>8. PICK w : w = WithStamps(f.envelope, <<x>>)
    OBVIOUS
  <1>9. WellFormed(w)
    BY <1>5, <1>7, <1>8, Stamping
  <1>10. ~Received(w)
    BY <1>5, <1>7, <1>8, Stamping
  <1>11. Stamped(t) = w
    BY <1>1, <1>6, <1>8 DEF Stamped
  <1>12. IsSequence(w.stamps) /\ ~Marked(w.stamps)
    BY <1>9, <1>10, ReceivedIs DEF WellFormed
  <1> QED BY <1>1, <1>5, <1>9, <1>11, <1>12 DEF WellFormed

\* A sender took the envelope.
LEMMA SentKeeps ==
  ASSUME Inv, NEW t \in Tasks, At(t, "sending"), Top(t).todo # <<>>,
         NEW stamps, IsSequence(stamps), Marked(stamps) <=> Head(Top(t).todo) = "direct",
         Sent(t, stamps), settings' = settings, units' = units,
         IsSequence(queue'), \A x \in ToSet(queue') : WellFormed(x)
  PROVE  Inv'
  <1>1. PICK f : f = Top(t)
    OBVIOUS
  <1>2. PICK d : d = dispatches[f.dispatch]
    OBVIOUS
  <1>3. /\ frames[t] # <<>> /\ f.step = "sending" /\ f.todo # <<>>
        /\ f.dispatch \in DOMAIN dispatches /\ Sound(d) /\ Fits(f, d) /\ settings \in Settings
    BY <1>1, <1>2, TopIs DEF At, Inv, Shape
  <1>4. PICK more : more = AddedBy(stamps, f.envelope.stamps)
    OBVIOUS
  <1>5. IsSequence(f.envelope.stamps) /\ ~Marked(f.envelope.stamps)
    BY <1>1, StampedIs
  <1>6. IsSequence(more) /\ (Marked(more) <=> Head(f.todo) = "direct")
    BY <1>1, <1>4, <1>5, AddedMarked
  <1>7. PICK g : g = [f EXCEPT !.todo = Tail(@), !.added = @ \o more]
    OBVIOUS
  <1>8. PICK e : e = [d EXCEPT !.sentTo = Append(@, Head(f.todo))]
    OBVIOUS
  <1>9. Sound(e) /\ Fits(g, e)
    BY <1>3, <1>6, <1>7, <1>8, SendsOne
  <1>10. Becomes(t, g) /\ dispatches' = [dispatches EXCEPT ![f.dispatch] = e]
    BY <1>1, <1>2, <1>4, <1>7, <1>8 DEF Sent
  <1>11. /\ g.dispatch = f.dispatch /\ g.step # "awaiting" /\ g.unit = f.unit /\ g.offset = f.offset
         /\ e.unit = d.unit /\ e.within = d.within /\ e.envelope = d.envelope
    BY <1>3, <1>7, <1>8 DEF Fits, Sound, FrameFields, DispatchFields
  <1> QED BY <1>1, <1>2, <1>3, <1>9, <1>10, <1>11, TopKeeps

LEMMA SendDirectlyKeeps ==
  ASSUME Inv, NEW t \in Tasks, SendDirectly(t)
  PROVE  Inv'
  <1>1. PICK x : x = Stamp("Received", "direct")
    OBVIOUS
  <1>2. PICK s : s = Stamped(t).stamps
    OBVIOUS
  <1>3. /\ At(t, "sending") /\ Top(t).todo # <<>> /\ Head(Top(t).todo) = "direct" /\ Sent(t, Append(s, x))
        /\ settings' = settings /\ units' = units /\ queue' = queue
    BY <1>1, <1>2 DEF SendDirectly
  <1>4. IsSequence(s)
    BY <1>2, <1>3, StampedIs
  <1>5. IsSequence(Append(s, x)) /\ ToSet(Append(s, x)) = ToSet(s) \cup {x}
    BY <1>4, Appended
  <1>6. Marked(Append(s, x))
    BY <1>1, <1>5 DEF Marked, Stamp
  <1>7. IsSequence(queue') /\ \A y \in ToSet(queue') : WellFormed(y)
    BY <1>3, SameQueue
  <1> QED BY <1>3, <1>5, <1>6, <1>7, SentKeeps

LEMMA SendAwayKeeps ==
  ASSUME Inv, NEW t \in Tasks, SendAway(t)
  PROVE  Inv'
  <1>1. PICK x : x = Stamp("MessageId", <<"remote", Top(t).dispatch>>)
    OBVIOUS
  <1>2. PICK s : s = Stamped(t).stamps
    OBVIOUS
  <1>3. /\ At(t, "sending") /\ Top(t).todo # <<>> /\ Head(Top(t).todo) = "remote"
        /\ Sent(t, s \o <<x>>) \/ Sent(t, <<x>> \o s)
        /\ settings' = settings /\ units' = units /\ queue' = queue
    BY <1>1, <1>2 DEF SendAway
  <1>4. IsSequence(s) /\ ~Marked(s)
    BY <1>2, <1>3, StampedIs
  <1>5. IsSequence(<<x>>) /\ ~Marked(<<x>>)
    BY <1>1, OneStamp DEF Stamp
  <1>6. IsSequence(s \o <<x>>) /\ ToSet(s \o <<x>>) = ToSet(s) \cup ToSet(<<x>>)
    BY <1>4, <1>5, Joined
  <1>7. IsSequence(<<x>> \o s) /\ ToSet(<<x>> \o s) = ToSet(<<x>>) \cup ToSet(s)
    BY <1>4, <1>5, Joined
  <1>8. ~Marked(s \o <<x>>) /\ ~Marked(<<x>> \o s)
    BY <1>4, <1>5, <1>6, <1>7 DEF Marked
  <1>9. IsSequence(queue') /\ \A y \in ToSet(queue') : WellFormed(y)
    BY <1>3, SameQueue
  <1>10. Head(Top(t).todo) # "direct"
    BY <1>3
  <1>11. CASE Sent(t, s \o <<x>>)
    BY <1>3, <1>6, <1>8, <1>9, <1>10, <1>11, SentKeeps
  <1>12. CASE Sent(t, <<x>> \o s)
    BY <1>3, <1>7, <1>8, <1>9, <1>10, <1>12, SentKeeps
  <1> QED BY <1>3, <1>11, <1>12

LEMMA SendToMemoryKeeps ==
  ASSUME Inv, NEW t \in Tasks, SendToMemory(t)
  PROVE  Inv'
  <1>1. PICK x : x = Stamp("MessageId", <<"memory", Len(recorded) + 1>>)
    OBVIOUS
  <1>2. PICK s : s = Stamped(t)
    OBVIOUS
  <1>3. PICK kept : kept = IF settings.serializes THEN RoundTripped(s, DefaultStamps) ELSE s
    OBVIOUS
  <1>4. PICK put : put = WithStamps(kept, <<x>>)
    OBVIOUS
  <1>5. PICK ids : ids = AllStamps(put, "MessageId")
    OBVIOUS
  <1>6. /\ At(t, "sending") /\ Top(t).todo # <<>> /\ Head(Top(t).todo) = "memory"
        /\ queue' = Append(queue, put) /\ Sent(t, s.stamps \o ids)
        /\ settings' = settings /\ units' = units
    BY <1>1, <1>2, <1>3, <1>4, <1>5 DEF SendToMemory
  <1>7. WellFormed(s) /\ IsSequence(s.stamps) /\ ~Marked(s.stamps)
    BY <1>2, <1>6, StampedIs
  <1>8. WellFormed(kept)
    BY <1>3, <1>7, KeptIs
  <1>9. IsSequence(<<x>>)
    BY OneStamp
  <1>10. WellFormed(put)
    BY <1>4, <1>8, <1>9, Stamping
  <1>11. IsSequence(ids) /\ ~Marked(ids)
    BY <1>5, <1>10, AllOf
  <1>12. IsSequence(s.stamps \o ids) /\ ToSet(s.stamps \o ids) = ToSet(s.stamps) \cup ToSet(ids)
    BY <1>7, <1>11, Joined
  <1>13. ~Marked(s.stamps \o ids)
    BY <1>7, <1>11, <1>12 DEF Marked
  <1>14. IsSequence(queue) /\ \A y \in ToSet(queue) : WellFormed(y)
    BY DEF Inv, Shape
  <1>15. IsSequence(Append(queue, put)) /\ ToSet(Append(queue, put)) = ToSet(queue) \cup {put}
    BY <1>14, Appended
  <1>16. IsSequence(queue') /\ \A y \in ToSet(queue') : WellFormed(y)
    BY <1>6, <1>10, <1>14, <1>15
  <1>17. Head(Top(t).todo) # "direct"
    BY <1>6
  <1> QED BY <1>6, <1>12, <1>13, <1>16, <1>17, SentKeeps
LEMMA SendFailsKeeps ==
  ASSUME Inv, NEW t \in Tasks, SendFails(t)
  PROVE  Inv'
  <1>1. PICK f : f = Top(t)
    OBVIOUS
  <1>2. PICK d : d = dispatches[f.dispatch]
    OBVIOUS
  <1>3. /\ frames[t] # <<>> /\ f.step = "sending" /\ Ends(t, "raised", f.envelope)
        /\ settings' = settings /\ units' = units /\ queue' = queue
    BY <1>1 DEF SendFails, At
  <1>4. Sound(d) /\ Fits(f, d)
    BY <1>1, <1>2, <1>3, TopIs
  <1>5. d.ran = <<>>
    BY <1>3, <1>4 DEF Fits, Starts, Sends, Arrives, Handles
  <1>6. PICK e : e = [d EXCEPT !.end = "raised", !.stamps = f.envelope.stamps]
    OBVIOUS
  <1>7. Sound(e)
    BY <1>4, <1>5, <1>6, EndsIt
  <1>8. IsSequence(queue') /\ \A x \in ToSet(queue') : WellFormed(x)
    BY <1>3, SameQueue
  <1> QED BY <1>1, <1>2, <1>3, <1>6, <1>7, <1>8, Finishes

LEMMA RoutedKeeps ==
  ASSUME Inv, NEW t \in Tasks, Routed(t)
  PROVE  Inv'
  <1>1. PICK f : f = Top(t)
    OBVIOUS
  <1>2. PICK d : d = dispatches[f.dispatch]
    OBVIOUS
  <1>3. PICK x : x = WithStamps(f.envelope, f.added)
    OBVIOUS
  <1>4. PICK on \in BOOLEAN :
          on <=> IF d.sentTo # <<>> THEN Received(x) ELSE ~settings.requireSender /\ settings.handleUnrouted
    OBVIOUS
  <1>5. PICK end \in {"returned", "raised"} :
          end = IF d.sentTo = <<>> /\ settings.requireSender THEN "raised" ELSE "returned"
    OBVIOUS
  <1>6. PICK g : g = [f EXCEPT !.envelope = x, !.step = "next"]
    OBVIOUS
  <1>7. /\ frames[t] # <<>> /\ f.step = "sending" /\ f.todo = <<>>
        /\ settings' = settings /\ units' = units /\ queue' = queue
    BY <1>1 DEF Routed, At
  <1>8. IF on THEN Becomes(t, g) /\ dispatches' = dispatches ELSE Ends(t, end, x)
    BY <1>1, <1>2, <1>3, <1>4, <1>5, <1>6 DEF Routed
  <1>9. Sound(d) /\ Fits(f, d) /\ settings \in Settings
    BY <1>1, <1>2, <1>7, TopIs DEF Inv, Shape
  <1>10. /\ ToSet(d.sentTo) = Destinations(d.envelope) /\ d.ran = <<>> /\ d.failed = {}
         /\ on => Fits(g, d)
         /\ ~on /\ (d.sentTo # <<>> \/ ~settings.requireSender) => ~HandledHere(d)
    BY <1>3, <1>4, <1>6, <1>7, <1>9, RoutesIt
  <1>11. CASE on
    <2>1. Becomes(t, g) /\ dispatches' = dispatches
      BY <1>8, <1>11
    <2>2. g.dispatch = f.dispatch /\ g.unit = f.unit /\ g.offset = f.offset /\ g.step = "next"
      BY <1>6, <1>9 DEF Fits, FrameFields
    <2> QED BY <1>1, <1>2, <1>7, <1>10, <1>11, <2>1, <2>2, FrameChanged
  <1>12. CASE ~on
    <2>1. Ends(t, end, x)
      BY <1>8, <1>12
    <2>2. PICK e : e = [d EXCEPT !.end = end, !.stamps = x.stamps]
      OBVIOUS
    <2>3. end = "returned" => d.sentTo # <<>> \/ ~settings.requireSender
      BY <1>5
    <2>4. end = "returned" => ~HandledHere(d)
      BY <1>10, <1>12, <2>3
    <2>5. Sound(e)
      BY <1>9, <1>10, <2>2, <2>4, EndsIt
    <2>6. IsSequence(queue') /\ \A y \in ToSet(queue') : WellFormed(y)
      BY <1>7, SameQueue
    <2> QED BY <1>1, <1>2, <1>7, <2>1, <2>2, <2>5, <2>6, Finishes
  <1> QED BY <1>11, <1>12

LEMMA HandlerReturnsKeeps ==
  ASSUME Inv, NEW t \in Tasks, HandlerReturns(t)
  PROVE  Inv'
  <1>1. PICK f : f = Top(t)
    OBVIOUS
  <1>2. PICK d : d = dispatches[f.dispatch]
    OBVIOUS
  <1>3. /\ frames[t] # <<>> /\ f.step = "handling" /\ f.todo # <<>>
        /\ settings' = settings /\ units' = units /\ queue' = queue
    BY <1>1 DEF HandlerReturns, Handling, At
  <1>4. PICK ok \in BOOLEAN :
          /\ Becomes(t, HandlerEnds(f, ok))
          /\ dispatches' = [dispatches EXCEPT ![f.dispatch].ran = Append(@, Head(f.todo)),
               ![f.dispatch].failed = IF ok THEN @ ELSE @ \cup {Head(f.todo)}]
    BY <1>1, Zenon DEF HandlerReturns
  <1>5. PICK g : g = HandlerEnds(f, ok)
    OBVIOUS
  <1>6. PICK e : e = RanOne(d, Head(f.todo), ok)
    OBVIOUS
  <1>7. /\ f.dispatch \in DOMAIN dispatches /\ Sound(d) /\ Fits(f, d) /\ settings \in Settings
    BY <1>1, <1>2, <1>3, TopIs DEF Inv, Shape
  <1>8. /\ Sound(e) /\ Fits(g, e) /\ g.step = "handling"
        /\ g.dispatch = f.dispatch /\ g.unit = f.unit /\ g.offset = f.offset
    <2>1. f.step \in {"handling", "awaiting"} /\ f.todo # <<>>
      BY <1>3
    <2>2. settings \in Settings /\ Sound(d) /\ Fits(f, d)
      BY <1>7
    <2> QED BY <1>5, <1>6, <2>1, <2>2, HandlesOne
  <1>9. Becomes(t, g)
    BY <1>4, <1>5
  <1>10. dispatches' = [dispatches EXCEPT ![f.dispatch] = e]
    <2>1. PICK h : h = Head(f.todo)
      OBVIOUS
    <2>2. CASE ok
      BY <1>2, <1>4, <1>6, <1>7, <2>1, <2>2 DEF Sound, DispatchFields, RanOne
    <2>3. CASE ~ok
      BY <1>2, <1>4, <1>6, <1>7, <2>1, <2>3 DEF Sound, DispatchFields, RanOne
    <2> QED BY <2>2, <2>3
  <1>11. e.unit = d.unit /\ e.within = d.within /\ e.envelope = d.envelope
    BY <1>6, <1>7 DEF Sound, DispatchFields, RanOne
  <1>12. IsSequence(queue') /\ \A x \in ToSet(queue') : WellFormed(x)
    BY <1>3, SameQueue
  <1>13. g.step # "awaiting" /\ (g.offset = 0 <=> f.offset = 0)
    BY <1>8
  <1> QED BY <1>1, <1>2, <1>3, <1>7, <1>8, <1>9, <1>10, <1>11, <1>12, <1>13, TopKeeps

LEMMA HandlersRanKeeps ==
  ASSUME Inv, NEW t \in Tasks, HandlersRan(t)
  PROVE  Inv'
  <1>1. PICK f : f = Top(t)
    OBVIOUS
  <1>2. PICK d : d = dispatches[f.dispatch]
    OBVIOUS
  <1>3. PICK g : g = [f EXCEPT !.step = "next"]
    OBVIOUS
  <1>4. /\ frames[t] # <<>> /\ f.step = "handling" /\ f.todo = <<>>
        /\ IF f.errors # <<>> THEN Ends(t, "raised", f.envelope)
           ELSE Becomes(t, g) /\ dispatches' = dispatches
        /\ settings' = settings /\ units' = units /\ queue' = queue
    BY <1>1, <1>3 DEF HandlersRan, At
  <1>5. Sound(d) /\ Fits(f, d) /\ settings \in Settings
    BY <1>1, <1>2, <1>4, TopIs DEF Inv, Shape
  <1>6. ToSet(d.ran) = Bound(d.envelope.message.type) /\ (f.errors = <<>> => Fits(g, d))
    BY <1>3, <1>4, <1>5, HandledAll
  <1>9. f.errors # <<>> => d.failed # {}
    <2>1. IsSequence(f.errors) /\ Len(f.errors) = Cardinality(d.failed)
      BY <1>5 DEF Fits
    <2>2. f.errors # <<>> => Len(f.errors) # 0
      BY <2>1, PlacesOf
    <2> QED BY <2>1, <2>2, FS_EmptySet
  <1>7. CASE f.errors = <<>>
    <2>1. Becomes(t, g) /\ dispatches' = dispatches
      BY <1>4, <1>7
    <2>2. g.dispatch = f.dispatch /\ g.unit = f.unit /\ g.offset = f.offset /\ g.step = "next"
      BY <1>3, <1>5 DEF Fits, FrameFields
    <2> QED BY <1>1, <1>2, <1>4, <1>6, <1>7, <2>1, <2>2, FrameChanged
  <1>8. CASE f.errors # <<>>
    <2>1. Ends(t, "raised", f.envelope)
      BY <1>4, <1>8
    <2>2. PICK e : e = [d EXCEPT !.end = "raised", !.stamps = f.envelope.stamps]
      OBVIOUS
    <2>3. Sound(e)
      BY <1>5, <1>6, <1>8, <1>9, <2>2, EndsIt
    <2>4. IsSequence(queue') /\ \A y \in ToSet(queue') : WellFormed(y)
      BY <1>4, SameQueue
    <2> QED BY <1>1, <1>2, <1>4, <2>1, <2>2, <2>3, <2>4, Finishes
  <1> QED BY <1>7, <1>8
\* What a handler dispatches goes through the bus that publishes, on top of the handler's own.
LEMMA HandlerDispatchesKeeps ==
  ASSUME Inv, NEW t \in Tasks, HandlerDispatches(t)
  PROVE  Inv'
  <1>1. /\ Top(t).step = "handling" /\ Top(t).todo # <<>>
        /\ settings' = settings /\ units' = units /\ queue' = queue
    BY DEF HandlerDispatches, Handling, At
  <1>2. PICK x \in Nested : Dispatches(t, "publishing", x)
    BY DEF HandlerDispatches
  <1>3. WellFormed(x) /\ Addressed(x) /\ ~Received(x)
    BY <1>2, EnvelopesAssumption DEF Received
  <1>4. IsSequence(queue') /\ \A y \in ToSet(queue') : WellFormed(y)
    BY <1>1, SameQueue
  <1> QED BY <1>1, <1>2, <1>3, <1>4, Begins

LEMMA RedispatchKeeps ==
  ASSUME Inv, NEW t \in Tasks, Redispatch(t)
  PROVE  Inv'
  <1>1. PICK f : f = Top(t)
    OBVIOUS
  <1>2. PICK d : d = dispatches[f.dispatch]
    OBVIOUS
  <1>3. PICK m : m = f.envelope.message
    OBVIOUS
  <1>4. /\ frames[t] # <<>> /\ f.step = "handling" /\ f.todo # <<>> /\ Head(f.todo) = "redispatching"
        /\ Dispatches(t, "publishing", Redispatched(m))
        /\ settings' = settings /\ units' = units /\ queue' = queue
    BY <1>1, <1>3 DEF Redispatch, Handling, At
  <1>5. Sound(d) /\ Fits(f, d) /\ settings \in Settings
    BY <1>1, <1>2, <1>4, TopIs DEF Inv, Shape
  <1>6. /\ d.ran \in Seq(Names) /\ f.todo \in Seq(Names)
        /\ "redispatching" \in ToSet(d.ran \o f.todo) => d.envelope.message.type = "redispatch"
    BY <1>4, <1>5, HandlersLeft
  <1>7. Head(f.todo) \in ToSet(d.ran \o f.todo)
    BY <1>4, <1>6, OneOn
  <1>8. m \in Messages /\ m.type = "redispatch"
    BY <1>3, <1>4, <1>5, <1>6, <1>7 DEF Fits, WellFormed
  <1>9. WellFormed(Redispatched(m)) /\ ~Received(Redispatched(m)) /\ Addressed(Redispatched(m))
    BY <1>8, RedispatchedIs
  <1>10. IsSequence(queue') /\ \A y \in ToSet(queue') : WellFormed(y)
    BY <1>4, SameQueue
  <1> QED BY <1>1, <1>4, <1>9, <1>10, Begins

LEMMA PublishKeeps ==
  ASSUME Inv, Publish
  PROVE  Inv'
  <1>1. /\ "application" \in Tasks /\ frames["application"] = <<>>
        /\ settings' = settings /\ units' = units /\ queue' = queue
    BY DEF Publish, Tasks
  <1>2. PICK x \in Inputs : Dispatches("application", "publishing", x)
    BY DEF Publish
  <1>3. WellFormed(x) /\ Addressed(x) /\ ~Received(x)
    BY <1>2, EnvelopesAssumption DEF Received
  <1>4. IsSequence(queue') /\ \A y \in ToSet(queue') : WellFormed(y)
    BY <1>1, SameQueue
  <1> QED BY <1>1, <1>2, <1>3, <1>4, Begins

\* What is taken off the queue is stamped as received.
LEMMA CollectKeeps ==
  ASSUME Inv, NEW t \in Tasks, Collect(t)
  PROVE  Inv'
  <1>1. PICK a : a = Stamp("Received", "in-memory")
    OBVIOUS
  <1>2. PICK b : b = Stamp("AckReceipt", 1)
    OBVIOUS
  <1>3. PICK x : x = WithStamps(Head(queue), <<a, b>>)
    OBVIOUS
  <1>4. /\ frames[t] = <<>> \/ (Top(t).step = "handling" /\ Top(t).todo # <<>>)
        /\ queue # <<>> /\ queue' = Tail(queue) /\ Dispatches(t, "working", x)
        /\ settings' = settings /\ units' = units
    BY <1>1, <1>2, <1>3 DEF Collect, Handling, At
  <1>5. IsSequence(queue) /\ \A y \in ToSet(queue) : WellFormed(y)
    BY DEF Inv, Shape
  <1>6. Head(queue) \in ToSet(queue) /\ Tail(queue) \in Seq(ToSet(queue))
    BY <1>4, <1>5, HeadTailProperties DEF IsSequence
  <1>7. IsSequence(queue') /\ \A y \in ToSet(queue') : WellFormed(y)
    <2>1. IsSequence(Tail(queue)) /\ ToSet(Tail(queue)) \subseteq ToSet(queue)
      BY <1>6, IsSequenceOf
    <2> QED BY <1>4, <1>5, <2>1
  <1>8. IsSequence(<<a, b>>) /\ Marked(<<a, b>>)
    <2>1. <<a, b>> \in Seq({a, b}) /\ DOMAIN <<a, b>> = 1..2 /\ <<a, b>>[1] = a
      OBVIOUS
    <2>2. IsSequence(<<a, b>>)
      BY <2>1, IsSequenceOf
    <2>3. a \in ToSet(<<a, b>>)
      BY <2>1 DEF ToSet
    <2>4. a.type = "Received"
      BY <1>1 DEF Stamp
    <2> QED BY <2>2, <2>3, <2>4 DEF Marked
  <1>9. WellFormed(Head(queue))
    BY <1>5, <1>6
  <1>10. WellFormed(x)
    BY <1>3, <1>8, <1>9, Stamping
  <1>11. Received(x)
    BY <1>3, <1>8, <1>9, Stamping
  <1> QED BY <1>4, <1>7, <1>10, <1>11, Begins

LEMMA GenerateKeeps ==
  ASSUME Inv, Generate
  PROVE  Inv'
  <1>1. PICK a : a = Stamp("Received", "scheduler")
    OBVIOUS
  <1>2. /\ "worker" \in Tasks /\ frames["worker"] = <<>>
        /\ settings' = settings /\ units' = units /\ queue' = queue
    BY DEF Generate, Tasks
  <1>3. PICK m \in Generated : Dispatches("worker", "working", Envelope(m, <<a>>))
    BY <1>1 DEF Generate
  <1>4. PICK x : x = Envelope(m, <<a>>)
    OBVIOUS
  <1>5. x.message = m /\ x.stamps = <<a>> /\ a.type = "Received"
    BY <1>1, <1>4 DEF Envelope, Stamp
  <1>6. IsSequence(<<a>>) /\ Marked(<<a>>)
    BY <1>5, OneStamp
  <1>7. m \in Messages
    BY <1>3, EnvelopesAssumption
  <1>8. WellFormed(x) /\ Received(x)
    BY <1>4, <1>5, <1>6, <1>7, ReceivedIs DEF WellFormed
  <1>9. IsSequence(queue') /\ \A y \in ToSet(queue') : WellFormed(y)
    BY <1>2, SameQueue
  <1> QED BY <1>2, <1>3, <1>4, <1>8, <1>9, Begins

\* The invariant holds of what the program starts with.
LEMMA InitHolds ==
  ASSUME Init
  PROVE  Inv
  <1>1. /\ settings \in Settings /\ dispatches = <<>> /\ queue = <<>> /\ units = 0
        /\ DOMAIN frames = Tasks /\ \A t \in Tasks : frames[t] = <<>>
    BY DEF Init
  <1>2. DOMAIN <<>> = {}
    OBVIOUS
  <1>3. Shape
    BY <1>1, Nothing DEF Shape
  <1>4. DispatchesSound
    BY <1>1, <1>2 DEF DispatchesSound
  <1>5. FramesFit
    BY <1>1, <1>2 DEF FramesFit
  <1>6. FramesApart
    BY <1>1, <1>2 DEF FramesApart
  <1>7. UnitsApart
    BY <1>1, <1>2 DEF UnitsApart, UnitsTold, FramesPlaced
  <1> QED BY <1>3, <1>4, <1>5, <1>6, <1>7 DEF Inv

\* What is said of the variables is said of them after a step that leaves them alone.
LEMMA StutterKeeps ==
  ASSUME Inv, UNCHANGED vars
  PROVE  Inv'
  <1>1. /\ settings' = settings /\ frames' = frames /\ dispatches' = dispatches
        /\ queue' = queue /\ units' = units
    BY DEF vars
  <1>2. Shape'
    BY <1>1 DEF Inv, Shape
  <1>3. DispatchesSound'
    <2> SUFFICES ASSUME NEW i \in DOMAIN dispatches', NEW d \in {dispatches'[i]} PROVE Sound(d)'
      BY DEF DispatchesSound
    <2>1. Sound(d)
      BY <1>1 DEF Inv, DispatchesSound
    <2> QED BY <1>1, <2>1, SameJudgement
  <1>4. FramesFit'
    <2> SUFFICES ASSUME NEW t \in Tasks, NEW k \in DOMAIN frames'[t], NEW f \in {frames'[t][k]}
                 PROVE  /\ f.dispatch \in DOMAIN dispatches'
                        /\ \A d \in {dispatches'[f.dispatch]} : Fits(f, d)'
                        /\ k < Len(frames'[t]) <=> f.step = "awaiting"
      BY DEF FramesFit
    <2>1. /\ f.dispatch \in DOMAIN dispatches'
          /\ \A d \in {dispatches'[f.dispatch]} : Fits(f, d)
          /\ k < Len(frames'[t]) <=> f.step = "awaiting"
      BY <1>1 DEF Inv, FramesFit
    <2>2. ASSUME NEW d \in {dispatches'[f.dispatch]} PROVE Fits(f, d)'
      BY <1>1, <2>1, SameJudgement
    <2> QED BY <2>1, <2>2
  <1>5. FramesApart'
    BY <1>1 DEF Inv, FramesApart
  <1>6. UnitsApart'
    BY <1>1 DEF Inv, UnitsApart, UnitsTold, FramesPlaced
  <1> QED BY <1>2, <1>3, <1>4, <1>5, <1>6 DEF Inv

LEMMA NextKeeps ==
  ASSUME Inv, [Next]_vars
  PROVE  Inv'
  <1>1. CASE Publish
    BY <1>1, PublishKeeps
  <1>2. CASE Generate
    BY <1>2, GenerateKeeps
  <1>3. ASSUME NEW t \in Tasks, Collect(t) PROVE Inv'
    BY <1>3, CollectKeeps
  <1>4. ASSUME NEW t \in Tasks, Step(t) PROVE Inv'
    <2>1. CASE Advance(t)
      BY <2>1, AdvanceKeeps
    <2>2. CASE SendToMemory(t)
      BY <2>2, SendToMemoryKeeps
    <2>3. CASE SendDirectly(t)
      BY <2>3, SendDirectlyKeeps
    <2>4. CASE SendAway(t)
      BY <2>4, SendAwayKeeps
    <2>5. CASE SendFails(t)
      BY <2>5, SendFailsKeeps
    <2>6. CASE Routed(t)
      BY <2>6, RoutedKeeps
    <2>7. CASE HandlerReturns(t)
      BY <2>7, HandlerReturnsKeeps
    <2>8. CASE HandlerDispatches(t)
      BY <2>8, HandlerDispatchesKeeps
    <2>9. CASE Redispatch(t)
      BY <2>9, RedispatchKeeps
    <2>10. CASE HandlersRan(t)
      BY <2>10, HandlersRanKeeps
    <2> QED BY <1>4, <2>1, <2>2, <2>3, <2>4, <2>5, <2>6, <2>7, <2>8, <2>9, <2>10 DEF Step
  <1>5. CASE UNCHANGED vars
    BY <1>5, StutterKeeps
  <1> QED BY <1>1, <1>2, <1>3, <1>4, <1>5 DEF Next

-----------------------------------------------------------------------------
(***************************************************************************)
(* What the stamps of a class tell, and that the stamps of two lists       *)
(* joined tell what those of each tell.                                    *)
(***************************************************************************)

\* There is but one list of what stands at given places.
LEMMA ListsAlike ==
  ASSUME NEW s, NEW P, P \subseteq Nat, NEW q, Lists(q, s, P), NEW r, Lists(r, s, P)
  PROVE  q = r
  <1>1. PICK b \in Nat : \E place \in [1..b -> P] :
          /\ q = [n \in 1..b |-> s[place[n]]]
          /\ \A m, n \in 1..b : m < n => place[m] < place[n]
          /\ \A i \in P : \E n \in 1..b : place[n] = i
    BY DEF Lists
  <1>2. PICK f \in [1..b -> P] :
          /\ q = [n \in 1..b |-> s[f[n]]]
          /\ \A m, n \in 1..b : m < n => f[m] < f[n]
          /\ \A i \in P : \E n \in 1..b : f[n] = i
    BY <1>1
  <1>3. PICK c \in Nat : \E place \in [1..c -> P] :
          /\ r = [n \in 1..c |-> s[place[n]]]
          /\ \A m, n \in 1..c : m < n => place[m] < place[n]
          /\ \A i \in P : \E n \in 1..c : place[n] = i
    BY DEF Lists
  <1>4. PICK g \in [1..c -> P] :
          /\ r = [n \in 1..c |-> s[g[n]]]
          /\ \A m, n \in 1..c : m < n => g[m] < g[n]
          /\ \A i \in P : \E n \in 1..c : g[n] = i
    BY <1>3
  <1>5. (\A n \in 1..b : f[n] \in Nat) /\ (\A n \in 1..c : g[n] \in Nat)
    BY <1>2, <1>4
  <1> DEFINE apart == {n \in Nat : n \in 1..b /\ n \in 1..c /\ f[n] # g[n]}
  <1>6. apart = {}
    <2> SUFFICES ASSUME apart # {} PROVE FALSE
      OBVIOUS
    <2>1. PICK n \in apart : \A k \in apart : n <= k
      <3>1. apart \subseteq Nat
        OBVIOUS
      <3> HIDE DEF apart
      <3> QED BY <3>1, Least
    <2>2. \A m \in 1..(n - 1) : m < n /\ m \in 1..b /\ m \in 1..c /\ f[m] = g[m]
      <3> SUFFICES ASSUME NEW m \in 1..(n - 1) PROVE m < n /\ m \in 1..b /\ m \in 1..c /\ f[m] = g[m]
        OBVIOUS
      <3>1. m < n /\ m \in 1..b /\ m \in 1..c /\ m \in Nat /\ ~(n <= m)
        BY <2>1
      <3>2. m \notin apart
        BY <2>1, <3>1
      <3> QED BY <3>1, <3>2
    <2>3. f[n] < g[n] \/ g[n] < f[n]
      BY <1>5, <2>1
    <2>4. CASE f[n] < g[n]
      <3>1. PICK m \in 1..c : g[m] = f[n]
        BY <1>2, <1>4, <2>1
      <3>2. ~(n < m) /\ m # n
        BY <1>4, <1>5, <2>1, <2>4, <3>1
      <3>3. m \in 1..(n - 1)
        BY <2>1, <3>2
      <3>4. f[m] = f[n] /\ f[m] < f[n]
        BY <1>2, <2>1, <2>2, <3>1, <3>3
      <3> QED BY <1>5, <2>1, <3>4
    <2>5. CASE g[n] < f[n]
      <3>1. PICK m \in 1..b : f[m] = g[n]
        BY <1>2, <1>4, <2>1
      <3>2. ~(n < m) /\ m # n
        BY <1>2, <1>5, <2>1, <2>5, <3>1
      <3>3. m \in 1..(n - 1)
        BY <2>1, <3>2
      <3>4. g[m] = g[n] /\ g[m] < g[n]
        BY <1>4, <2>1, <2>2, <3>1, <3>3
      <3> QED BY <1>5, <2>1, <3>4
    <2> QED BY <2>3, <2>4, <2>5
  <1>7. \A n \in 1..b : n \in 1..c => f[n] = g[n]
    BY <1>6
  <1> HIDE DEF apart
  <1>8. b = c
    <2>1. ASSUME b < c PROVE FALSE
      <3>1. b + 1 \in 1..c /\ \A m \in 1..b : m \in 1..c /\ m < b + 1
        BY <2>1
      <3>2. PICK m \in 1..b : f[m] = g[b + 1]
        BY <1>2, <1>4, <3>1
      <3>3. g[m] = g[b + 1] /\ g[m] < g[b + 1]
        BY <1>4, <1>7, <3>1, <3>2
      <3> QED BY <1>5, <3>1, <3>3
    <2>2. ASSUME c < b PROVE FALSE
      <3>1. c + 1 \in 1..b /\ \A m \in 1..c : m \in 1..b /\ m < c + 1
        BY <2>2
      <3>2. PICK m \in 1..c : g[m] = f[c + 1]
        BY <1>2, <1>4, <3>1
      <3>3. f[m] = f[c + 1] /\ f[m] < f[c + 1]
        BY <1>2, <1>7, <3>1, <3>2
      <3> QED BY <1>5, <3>1, <3>3
    <2> QED BY <2>1, <2>2
  <1> QED BY <1>2, <1>4, <1>7, <1>8

\* The places P of a list of n, and R of one that follows it.
Beside(P, R, n) == P \cup {n + i : i \in R}

\* What is picked of s and u, joined, is what is picked of each.
PickedOfBoth(s, u, P, R) == Picked(s \o u, Beside(P, R, Len(s))) = Picked(s, P) \o Picked(u, R)

\* So what is picked at places of two lists, one after the other, is what is picked of each.
LEMMA PickedJoined ==
  ASSUME NEW s, IsSequence(s), NEW u, IsSequence(u),
         NEW P, P \subseteq DOMAIN s, NEW R, R \subseteq DOMAIN u
  PROVE  PickedOfBoth(s, u, P, R)
  <1> DEFINE l == Len(s)
             w == s \o u
             all == P \cup {l + i : i \in R}
  <1>1. l \in Nat /\ DOMAIN s = 1..l /\ Len(u) \in Nat /\ DOMAIN u = 1..Len(u)
    BY PlacesOf
  <1>2. /\ IsSequence(w) /\ Len(w) = l + Len(u)
        /\ \A i \in 1..l : w[i] = s[i]
        /\ \A i \in 1..Len(u) : w[l + i] = u[i]
    BY Joined
  <1>3. Len(w) \in Nat /\ DOMAIN w = 1..(l + Len(u))
    BY <1>2, PlacesOf
  <1> HIDE DEF w, l
  <1>4. all \subseteq 1..(l + Len(u)) /\ all \subseteq Nat
    BY <1>1
  <1>5. Lists(Picked(s, P), s, P) /\ Lists(Picked(u, R), u, R) /\ Lists(Picked(w, all), w, all)
    <2>1. Lists(Picked(s, P), s, P)
      BY <1>1, PickedPlaces
    <2>2. Lists(Picked(u, R), u, R)
      BY <1>1, PickedPlaces
    <2>3. Lists(Picked(w, all), w, all)
      <3>1. l + Len(u) \in Nat
        BY <1>1
      <3> HIDE DEF all
      <3> QED BY <1>3, <1>4, <3>1, PickedPlaces
    <2> QED BY <2>1, <2>2, <2>3
  <1>6. PICK b \in Nat : \E place \in [1..b -> P] :
          /\ Picked(s, P) = [n \in 1..b |-> s[place[n]]]
          /\ \A m, n \in 1..b : m < n => place[m] < place[n]
          /\ \A i \in P : \E n \in 1..b : place[n] = i
    BY <1>5 DEF Lists
  <1>7. PICK f \in [1..b -> P] :
          /\ Picked(s, P) = [n \in 1..b |-> s[f[n]]]
          /\ \A m, n \in 1..b : m < n => f[m] < f[n]
          /\ \A i \in P : \E n \in 1..b : f[n] = i
    BY <1>6
  <1>8. PICK c \in Nat : \E place \in [1..c -> R] :
          /\ Picked(u, R) = [n \in 1..c |-> u[place[n]]]
          /\ \A m, n \in 1..c : m < n => place[m] < place[n]
          /\ \A i \in R : \E n \in 1..c : place[n] = i
    BY <1>5 DEF Lists
  <1>9. PICK g \in [1..c -> R] :
          /\ Picked(u, R) = [n \in 1..c |-> u[g[n]]]
          /\ \A m, n \in 1..c : m < n => g[m] < g[n]
          /\ \A i \in R : \E n \in 1..c : g[n] = i
    BY <1>8
  <1>10. PICK p : p = Picked(s, P)
    OBVIOUS
  <1>11. PICK r : r = Picked(u, R)
    OBVIOUS
  <1>12. /\ IsSequence(p) /\ Len(p) = b /\ IsSequence(r) /\ Len(r) = c
         /\ \A n \in 1..b : p[n] = s[f[n]]
         /\ \A n \in 1..c : r[n] = u[g[n]]
    <2>1. IsSequence(p) /\ IsSequence(r)
      BY <1>1, <1>10, <1>11, PickedOf
    <2>2. DOMAIN p = 1..b /\ DOMAIN r = 1..c
      BY <1>7, <1>9, <1>10, <1>11
    <2>3. Len(p) = b /\ Len(r) = c
      BY <2>1, <2>2, PlacesOf
    <2> QED BY <1>7, <1>9, <1>10, <1>11, <2>1, <2>3
  <1>13. /\ IsSequence(p \o r) /\ Len(p \o r) = b + c
         /\ \A n \in 1..b : (p \o r)[n] = p[n]
         /\ \A n \in 1..c : (p \o r)[b + n] = r[n]
    BY <1>12, Joined
  <1>14. PICK v : v = p \o r
    OBVIOUS
  <1>15. DOMAIN v = 1..(b + c)
    BY <1>13, <1>14, PlacesOf
  <1> DEFINE h == [n \in 1..(b + c) |-> IF n <= b THEN f[n] ELSE l + g[n - b]]
  <1>16. \A n \in 1..(b + c) : \/ n \in 1..b /\ h[n] = f[n] /\ h[n] \in 1..l
                               \/ n - b \in 1..c /\ h[n] = l + g[n - b] /\ g[n - b] \in 1..Len(u) /\ ~(n <= b)
    <2> SUFFICES ASSUME NEW n \in 1..(b + c)
                 PROVE  \/ n \in 1..b /\ h[n] = f[n] /\ h[n] \in 1..l
                        \/ n - b \in 1..c /\ h[n] = l + g[n - b] /\ g[n - b] \in 1..Len(u) /\ ~(n <= b)
      OBVIOUS
    <2>1. CASE n <= b
      BY <1>1, <1>7, <2>1
    <2>2. CASE ~(n <= b)
      <3>1. n - b \in 1..c
        BY <2>2
      <3> QED BY <1>1, <1>9, <2>2, <3>1
    <2> QED BY <2>1, <2>2
  <1>17. h \in [1..(b + c) -> all]
    <2> SUFFICES ASSUME NEW n \in 1..(b + c) PROVE h[n] \in all
      OBVIOUS
    <2>1. CASE n \in 1..b /\ h[n] = f[n]
      BY <1>7, <2>1
    <2>2. CASE n - b \in 1..c /\ h[n] = l + g[n - b]
      BY <1>9, <2>2
    <2> HIDE DEF h
    <2> QED BY <1>16, <2>1, <2>2
  <1> HIDE DEF h
  <1>18. v = [n \in 1..(b + c) |-> w[h[n]]]
    <2>1. ASSUME NEW n \in 1..(b + c) PROVE v[n] = w[h[n]]
      <3>1. CASE n \in 1..b /\ h[n] = f[n] /\ h[n] \in 1..l
        BY <1>2, <1>12, <1>13, <1>14, <3>1
      <3>2. CASE n - b \in 1..c /\ h[n] = l + g[n - b] /\ g[n - b] \in 1..Len(u)
        <4>1. b + (n - b) = n
          OBVIOUS
        <4> QED BY <1>2, <1>12, <1>13, <1>14, <3>2, <4>1
      <3> QED BY <1>16, <3>1, <3>2
    <2>2. v = [n \in 1..(b + c) |-> v[n]]
      <3>1. v \in Seq(ToSet(v))
        BY <1>13, <1>14 DEF IsSequence
      <3> QED BY <1>15, <3>1
    <2> QED BY <2>1, <2>2
  <1>19. \A m, n \in 1..(b + c) : m < n => h[m] < h[n]
    <2> SUFFICES ASSUME NEW m \in 1..(b + c), NEW n \in 1..(b + c), m < n PROVE h[m] < h[n]
      OBVIOUS
    <2>1. CASE n \in 1..b /\ h[n] = f[n]
      <3>1. m \in 1..b
        BY <2>1
      <3>2. h[m] = f[m]
        BY <1>16, <3>1
      <3> QED BY <1>7, <2>1, <3>1, <3>2
    <2>2. CASE n - b \in 1..c /\ h[n] = l + g[n - b] /\ g[n - b] \in 1..Len(u)
      <3>1. CASE m \in 1..b /\ h[m] \in 1..l
        BY <1>1, <2>2, <3>1
      <3>2. CASE m - b \in 1..c /\ h[m] = l + g[m - b] /\ g[m - b] \in 1..Len(u)
        <4>1. m - b < n - b
          OBVIOUS
        <4>2. g[m - b] < g[n - b]
          BY <1>9, <2>2, <3>2, <4>1
        <4> QED BY <1>1, <2>2, <3>2, <4>2
      <3> QED BY <1>16, <3>1, <3>2
    <2> QED BY <1>16, <2>1, <2>2
  <1>20. \A i \in all : \E n \in 1..(b + c) : h[n] = i
    <2> SUFFICES ASSUME NEW i \in all PROVE \E n \in 1..(b + c) : h[n] = i
      OBVIOUS
    <2>1. CASE i \in P
      <3>1. PICK n \in 1..b : f[n] = i
        BY <1>7, <2>1
      <3>2. n \in 1..(b + c) /\ n <= b
        OBVIOUS
      <3> QED BY <3>1, <3>2 DEF h
    <2>2. ASSUME NEW j \in R, i = l + j PROVE \E n \in 1..(b + c) : h[n] = i
      <3>1. PICK n \in 1..c : g[n] = j
        BY <1>9
      <3>2. b + n \in 1..(b + c) /\ ~(b + n <= b) /\ (b + n) - b = n
        OBVIOUS
      <3> QED BY <2>2, <3>1, <3>2 DEF h
    <2> QED BY <2>1, <2>2
  <1>21. Lists(v, w, all)
    <2> HIDE DEF all
    <2>1. b + c \in Nat
      OBVIOUS
    <2> QED BY <1>17, <1>18, <1>19, <1>20, <2>1 DEF Lists
  <1>22. Picked(w, all) = v
    <2> HIDE DEF all
    <2> QED BY <1>4, <1>5, <1>21, ListsAlike
  <1>23. Beside(P, R, Len(s)) = all
    BY DEF Beside, l
  <1> HIDE DEF all
  <1> QED BY <1>10, <1>11, <1>14, <1>22, <1>23 DEF w, PickedOfBoth

\* What the stamps of a type say, in the order they were added.
Told(stamps, type) ==
  LET all == Picked(stamps, {i \in DOMAIN stamps : stamps[i].type = type})
  IN  [k \in DOMAIN all |-> all[k].value]

ValuesOf(s) == [k \in DOMAIN s |-> s[k].value]

\* The values of two sequences, one after the other.
LEMMA ValuesJoined ==
  ASSUME NEW s, IsSequence(s), NEW u, IsSequence(u)
  PROVE  /\ IsSequence(ValuesOf(s)) /\ Len(ValuesOf(s)) = Len(s)
         /\ ValuesOf(s \o u) = ValuesOf(s) \o ValuesOf(u)
  <1>1. Len(s) \in Nat /\ DOMAIN s = 1..Len(s) /\ Len(u) \in Nat /\ DOMAIN u = 1..Len(u)
    BY PlacesOf
  <1> DEFINE p == ValuesOf(s)
             r == ValuesOf(u)
             w == s \o u
             v == ValuesOf(w)
  <1>2. DOMAIN p = DOMAIN s /\ \A i \in DOMAIN s : p[i] = s[i].value
    BY DEF ValuesOf
  <1>3. DOMAIN r = DOMAIN u /\ \A i \in DOMAIN u : r[i] = u[i].value
    BY DEF ValuesOf
  <1>4. DOMAIN v = DOMAIN w /\ \A i \in DOMAIN w : v[i] = w[i].value
    BY DEF ValuesOf
  <1>5. p = [i \in DOMAIN p |-> p[i]] /\ r = [i \in DOMAIN r |-> r[i]] /\ v = [i \in DOMAIN v |-> v[i]]
    BY DEF ValuesOf
  <1>6. /\ IsSequence(w) /\ Len(w) = Len(s) + Len(u)
        /\ \A i \in 1..Len(s) : w[i] = s[i]
        /\ \A i \in 1..Len(u) : w[Len(s) + i] = u[i]
    BY Joined
  <1>7. DOMAIN w = 1..(Len(s) + Len(u))
    BY <1>6, PlacesOf
  <1> HIDE DEF p, r, v, w
  <1>8. IsSequence(p) /\ Len(p) = Len(s)
    BY <1>2, <1>5, Mapped
  <1>9. IsSequence(r) /\ Len(r) = Len(u)
    BY <1>3, <1>5, Mapped
  <1>10. IsSequence(v) /\ Len(v) = Len(w)
    BY <1>4, <1>5, <1>6, Mapped
  <1>11. /\ IsSequence(p \o r) /\ Len(p \o r) = Len(s) + Len(u)
         /\ \A i \in 1..Len(s) : (p \o r)[i] = p[i]
         /\ \A i \in 1..Len(u) : (p \o r)[Len(s) + i] = r[i]
    BY <1>8, <1>9, Joined
  <1>12. \A i \in 1..Len(v) : v[i] = (p \o r)[i]
    <2> SUFFICES ASSUME NEW i \in 1..(Len(s) + Len(u)) PROVE v[i] = (p \o r)[i]
      BY <1>6, <1>10
    <2>1. CASE i <= Len(s)
      <3>1. i \in 1..Len(s)
        BY <1>1, <2>1
      <3> QED BY <1>1, <1>2, <1>4, <1>6, <1>7, <1>11, <3>1
    <2>2. CASE ~(i <= Len(s))
      <3>1. i - Len(s) \in 1..Len(u) /\ Len(s) + (i - Len(s)) = i
        BY <1>1, <2>2
      <3>2. w[i] = u[i - Len(s)] /\ (p \o r)[i] = r[i - Len(s)]
        BY <1>6, <1>11, <3>1
      <3> QED BY <1>1, <1>3, <1>4, <1>7, <3>1, <3>2
    <2> QED BY <2>1, <2>2
  <1>13. v = p \o r
    <2>1. v \in Seq(ToSet(v) \cup ToSet(p \o r)) /\ (p \o r) \in Seq(ToSet(v) \cup ToSet(p \o r))
      BY <1>10, <1>11, SeqMonotonic DEF IsSequence
    <2>2. Len(v) = Len(p \o r)
      BY <1>6, <1>10, <1>11
    <2> QED BY <1>12, <2>1, <2>2, SeqEqual
  <1> QED BY <1>8, <1>13 DEF p, r, v, w

\* What is told, in terms of what is picked and of its values.
LEMMA ToldIs ==
  ASSUME NEW s, NEW type
  PROVE  Told(s, type) = ValuesOf(Picked(s, {i \in DOMAIN s : s[i].type = type}))
BY DEF Told, ValuesOf

\* What is told is a sequence.
LEMMA ToldSequence ==
  ASSUME NEW s, IsSequence(s), NEW type
  PROVE  IsSequence(Told(s, type))
  <1> DEFINE P == {i \in DOMAIN s : s[i].type = type}
  <1>1. Told(s, type) = ValuesOf(Picked(s, P))
    BY ToldIs
  <1>2. IsSequence(Picked(s, P))
    <2>1. P \subseteq DOMAIN s
      OBVIOUS
    <2> HIDE DEF P
    <2> QED BY <2>1, PickedOf
  <1> QED BY <1>1, <1>2, ValuesJoined

\* What is said in stamps, and then in more.
LEMMA ToldJoined ==
  ASSUME NEW s, IsSequence(s), NEW u, IsSequence(u), NEW type
  PROVE  Told(s \o u, type) = Told(s, type) \o Told(u, type)
  <1> DEFINE P == {i \in DOMAIN s : s[i].type = type}
             R == {i \in DOMAIN u : u[i].type = type}
             w == s \o u
             W == {i \in DOMAIN w : w[i].type = type}
  <1>1. Len(s) \in Nat /\ DOMAIN s = 1..Len(s) /\ Len(u) \in Nat /\ DOMAIN u = 1..Len(u)
    BY PlacesOf
  <1>2. /\ IsSequence(w) /\ Len(w) = Len(s) + Len(u)
        /\ \A i \in 1..Len(s) : w[i] = s[i]
        /\ \A i \in 1..Len(u) : w[Len(s) + i] = u[i]
    BY Joined
  <1>3. DOMAIN w = 1..(Len(s) + Len(u))
    BY <1>2, PlacesOf
  <1>4. W = P \cup {Len(s) + i : i \in R}
    <2> HIDE DEF w
    <2>1. ASSUME NEW i \in W PROVE i \in P \cup {Len(s) + j : j \in R}
      <3>1. CASE i <= Len(s)
        <4>1. i \in 1..Len(s)
          BY <1>1, <1>3, <3>1
        <4> QED BY <1>1, <1>2, <4>1
      <3>2. CASE ~(i <= Len(s))
        <4>1. i - Len(s) \in 1..Len(u) /\ Len(s) + (i - Len(s)) = i
          BY <1>1, <1>3, <3>2
        <4>2. i - Len(s) \in R
          BY <1>1, <1>2, <4>1
        <4> QED BY <4>1, <4>2
      <3> QED BY <3>1, <3>2
    <2>2. ASSUME NEW i \in P PROVE i \in W
      <3>1. i \in DOMAIN w
        BY <1>1, <1>3
      <3> QED BY <1>1, <1>2, <3>1
    <2>3. ASSUME NEW i \in R PROVE Len(s) + i \in W
      <3>1. Len(s) + i \in DOMAIN w /\ i \in 1..Len(u)
        BY <1>1, <1>3
      <3> QED BY <1>1, <1>2, <3>1
    <2> HIDE DEF W, P, R
    <2> QED BY <2>1, <2>2, <2>3
  <1>5. P \subseteq DOMAIN s /\ R \subseteq DOMAIN u
    OBVIOUS
  <1>6. Told(s, type) = ValuesOf(Picked(s, P)) /\ Told(u, type) = ValuesOf(Picked(u, R))
        /\ Told(w, type) = ValuesOf(Picked(w, W))
    BY ToldIs
  <1> HIDE DEF P, R, W
  <1>7. Picked(w, W) = Picked(s, P) \o Picked(u, R)
    <2>1. W = Beside(P, R, Len(s))
      BY <1>4 DEF Beside
    <2>2. PickedOfBoth(s, u, P, R)
      BY <1>5, PickedJoined
    <2> QED BY <2>1, <2>2 DEF PickedOfBoth
  <1>8. IsSequence(Picked(s, P)) /\ IsSequence(Picked(u, R))
    BY <1>5, PickedOf
  <1> HIDE DEF w
  <1>9. PICK p : p = Picked(s, P)
    OBVIOUS
  <1>10. PICK r : r = Picked(u, R)
    OBVIOUS
  <1>11. IsSequence(ValuesOf(p)) /\ ValuesOf(p \o r) = ValuesOf(p) \o ValuesOf(r)
    BY <1>8, <1>9, <1>10, ValuesJoined
  <1> QED BY <1>6, <1>7, <1>9, <1>10, <1>11 DEF w

\* Nothing of a type, nothing said.
LEMMA ToldNone ==
  ASSUME NEW s, IsSequence(s), NEW type, \A x \in ToSet(s) : x.type # type
  PROVE  Told(s, type) = <<>>
  <1> DEFINE P == {i \in DOMAIN s : s[i].type = type}
  <1>1. P = {}
    BY DEF ToSet
  <1>2. Told(s, type) = ValuesOf(Picked(s, {}))
    BY <1>1, ToldIs
  <1>3. Picked(s, {}) = <<>>
    <2>1. IsSequence(Picked(s, {})) /\ ToSet(Picked(s, {})) = {s[i] : i \in {}}
      BY PickedOf
    <2>2. PICK q : q = Picked(s, {})
      OBVIOUS
    <2>3. q \in Seq(ToSet(q)) /\ ToSet(q) = {}
      BY <2>1, <2>2 DEF IsSequence
    <2> QED BY <2>2, <2>3, NoElements
  <1>4. ValuesOf(<<>>) = <<>>
    BY DEF ValuesOf
  <1> QED BY <1>2, <1>3, <1>4

\* One of a type, and that is what is said.
LEMMA ToldOne ==
  ASSUME NEW s, IsSequence(s), NEW type, NEW m \in DOMAIN s, s[m].type = type,
         \A i \in DOMAIN s : s[i].type = type => i = m
  PROVE  Told(s, type) = <<s[m].value>>
  <1> DEFINE P == {i \in DOMAIN s : s[i].type = type}
  <1>1. P = {m}
    OBVIOUS
  <1>2. Told(s, type) = ValuesOf(Picked(s, {m}))
    BY <1>1, ToldIs
  <1> HIDE DEF P
  <1>3. Picked(s, {m}) = <<s[m]>>
    <2>1. Len(s) \in Nat /\ DOMAIN s = 1..Len(s) /\ m \in Nat
      BY PlacesOf
    <2>2. Lists(Picked(s, {m}), s, {m})
      BY <2>1, PickedPlaces
    <2>3. Lists(<<s[m]>>, s, {m})
      <3> DEFINE place == [n \in 1..1 |-> m]
      <3>1. place \in [1..1 -> {m}] /\ 1 \in Nat
        OBVIOUS
      <3>2. <<s[m]>> = [n \in 1..1 |-> s[place[n]]]
        OBVIOUS
      <3>3. \A k, n \in 1..1 : k < n => place[k] < place[n]
        OBVIOUS
      <3>4. \A i \in {m} : \E n \in 1..1 : place[n] = i
        OBVIOUS
      <3> HIDE DEF place
      <3> QED BY <3>1, <3>2, <3>3, <3>4 DEF Lists
    <2>4. {m} \subseteq Nat
      BY <2>1
    <2> QED BY <2>2, <2>3, <2>4, ListsAlike
  <1>4. ValuesOf(<<s[m]>>) = <<s[m].value>>
    BY DEF ValuesOf
  <1> QED BY <1>2, <1>3, <1>4

\* What one stamp says.
LEMMA ToldOfOne ==
  ASSUME NEW x, NEW type
  PROVE  Told(<<x>>, type) = IF x.type = type THEN <<x.value>> ELSE <<>>
  <1>1. IsSequence(<<x>>) /\ ToSet(<<x>>) = {x}
    BY OneStamp
  <1>2. DOMAIN <<x>> = {1} /\ <<x>>[1] = x
    OBVIOUS
  <1>3. PICK s : s = <<x>>
    OBVIOUS
  <1>4. CASE x.type = type
    BY <1>1, <1>2, <1>3, <1>4, ToldOne
  <1>5. CASE x.type # type
    BY <1>1, <1>5, ToldNone
  <1> QED BY <1>4, <1>5

\* What follows the stamps handed over is what was added.
LEMMA PrefixIs ==
  ASSUME NEW before, IsSequence(before), NEW stamps, IsSequence(stamps)
  PROVE  IsPrefix(before, stamps) <=>
           /\ Len(before) <= Len(stamps)
           /\ \A i \in 1..Len(before) : stamps[i] = before[i]
  <1>1. /\ Len(before) \in Nat /\ DOMAIN before = 1..Len(before)
        /\ Len(stamps) \in Nat /\ DOMAIN stamps = 1..Len(stamps)
    BY PlacesOf
  <1> DEFINE n == Len(before)
             S == ToSet(before) \cup ToSet(stamps)
  <1>2. SUFFICES ASSUME n <= Len(stamps)
                 PROVE  SubSeq(before, 1, n) = SubSeq(stamps, 1, n) <=> \A i \in 1..n : stamps[i] = before[i]
    BY DEF IsPrefix
  <1>3. /\ \A k \in 1..n : before[k] \in S
        /\ \A k \in 1..n : stamps[k] \in S
        /\ 1 \in Int /\ n \in Int /\ n - 1 + 1 = n
    BY <1>1, <1>2 DEF ToSet
  <1> HIDE DEF S
  <1>4. /\ SubSeq(before, 1, n) \in Seq(S)
        /\ Len(SubSeq(before, 1, n)) = IF 1 <= n THEN n - 1 + 1 ELSE 0
        /\ \A k \in 1 .. n - 1 + 1 : SubSeq(before, 1, n)[k] = before[1 + k - 1]
    BY <1>3, SubSeqProperties
  <1>5. /\ SubSeq(stamps, 1, n) \in Seq(S)
        /\ Len(SubSeq(stamps, 1, n)) = IF 1 <= n THEN n - 1 + 1 ELSE 0
        /\ \A k \in 1 .. n - 1 + 1 : SubSeq(stamps, 1, n)[k] = stamps[1 + k - 1]
    BY <1>3, SubSeqProperties
  <1>6. \A k \in 1..n : SubSeq(before, 1, n)[k] = before[k] /\ SubSeq(stamps, 1, n)[k] = stamps[k]
    <2> SUFFICES ASSUME NEW k \in 1..n
                 PROVE  SubSeq(before, 1, n)[k] = before[k] /\ SubSeq(stamps, 1, n)[k] = stamps[k]
      OBVIOUS
    <2>1. k \in 1 .. n - 1 + 1 /\ 1 + k - 1 = k
      BY <1>1
    <2> QED BY <1>4, <1>5, <2>1
  <1>7. Len(SubSeq(before, 1, n)) = n /\ Len(SubSeq(stamps, 1, n)) = n
    BY <1>1, <1>4, <1>5
  <1> DEFINE p == SubSeq(before, 1, n)
             q == SubSeq(stamps, 1, n)
  <1>8. p \in Seq(S) /\ q \in Seq(S) /\ Len(p) = n /\ Len(q) = n
    BY <1>4, <1>5, <1>7
  <1>9. \A k \in 1..n : p[k] = before[k] /\ q[k] = stamps[k]
    BY <1>6
  <1> HIDE DEF p, q, n
  <1>10. ASSUME \A i \in 1..n : stamps[i] = before[i] PROVE p = q
    <2>1. \A i \in 1..Len(p) : p[i] = q[i]
      BY <1>8, <1>9, <1>10
    <2> QED BY <1>8, <2>1, SeqEqual
  <1>11. ASSUME p = q PROVE \A i \in 1..n : stamps[i] = before[i]
    BY <1>9, <1>11
  <1> QED BY <1>10, <1>11 DEF p, q, n

\* A list that begins with another is that list and what was added to it.
LEMMA AddedRest ==
  ASSUME NEW before, IsSequence(before), NEW returned, IsSequence(returned), IsPrefix(before, returned)
  PROVE  IsSequence(AddedBy(returned, before)) /\ returned = before \o AddedBy(returned, before)
  <1> DEFINE q == AddedBy(returned, before)
             n == Len(returned)
             m == Len(before) + 1
  <1>1. /\ Len(returned) \in Nat /\ DOMAIN returned = 1..Len(returned)
        /\ Len(before) \in Nat /\ DOMAIN before = 1..Len(before)
    BY PlacesOf
  <1>2. Len(before) <= n /\ \A i \in 1..Len(before) : returned[i] = before[i]
    BY PrefixIs
  <1>3. q = SubSeq(returned, m, n)
    BY DEF AddedBy
  <1>4. IsSequence(q)
    BY AddedIs
  <1>5. \A i \in m..n : returned[i] \in ToSet(returned)
    BY <1>1 DEF ToSet
  <1>6. m \in Int /\ n \in Int /\ m = Len(before) + 1
    BY <1>1
  <1> HIDE DEF q, m
  <1>7. /\ Len(q) = IF m <= n THEN n - m + 1 ELSE 0
        /\ \A i \in 1 .. n - m + 1 : q[i] = returned[m + i - 1]
    BY <1>3, <1>5, <1>6, SubSeqProperties
  <1>8. Len(q) = n - Len(before)
    <2> DEFINE b == Len(before)
               l == Len(q)
    <2>1. /\ b \in Nat /\ n \in Nat /\ m = b + 1 /\ b <= n
          /\ l = IF m <= n THEN n - m + 1 ELSE 0
      BY <1>1, <1>2, <1>6, <1>7
    <2> HIDE DEF b, l, n
    <2>2. l = n - b
      BY <2>1
    <2> QED BY <2>2 DEF b, l
  <1>9. \A i \in 1..(n - Len(before)) : q[i] = returned[Len(before) + i]
    <2> SUFFICES ASSUME NEW i \in 1..(n - Len(before)) PROVE q[i] = returned[Len(before) + i]
      OBVIOUS
    <2>1. i \in 1 .. n - m + 1 /\ m + i - 1 = Len(before) + i
      BY <1>1, <1>6
    <2> QED BY <1>7, <2>1
  <1>10. PICK w : w = before \o q
    OBVIOUS
  <1>11. /\ IsSequence(w) /\ Len(w) = Len(before) + Len(q)
         /\ \A i \in 1..Len(before) : w[i] = before[i]
         /\ \A i \in 1..Len(q) : w[Len(before) + i] = q[i]
    BY <1>4, <1>10, Joined
  <1>12. \A i \in 1..Len(returned) : returned[i] = w[i]
    <2> SUFFICES ASSUME NEW i \in 1..n PROVE returned[i] = w[i]
      OBVIOUS
    <2>1. CASE i <= Len(before)
      <3>1. i \in 1..Len(before)
        BY <1>1, <2>1
      <3> QED BY <1>2, <1>11, <3>1
    <2>2. CASE ~(i <= Len(before))
      <3>1. i - Len(before) \in 1..(n - Len(before)) /\ Len(before) + (i - Len(before)) = i
        BY <1>1, <2>2
      <3> QED BY <1>8, <1>9, <1>11, <3>1
    <2> QED BY <2>1, <2>2
  <1>13. Len(w) = Len(returned)
    BY <1>1, <1>8, <1>11
  <1>14. returned = w
    <2>1. returned \in Seq(ToSet(returned) \cup ToSet(w)) /\ w \in Seq(ToSet(returned) \cup ToSet(w))
      BY <1>11, SeqMonotonic DEF IsSequence
    <2> QED BY <1>12, <1>13, <2>1, SeqEqual
  <1> QED BY <1>4, <1>10, <1>14 DEF q

\* What follows the same beginning is the same.
LEMMA SameRest ==
  ASSUME NEW s, IsSequence(s), NEW u, IsSequence(u), NEW v, IsSequence(v), s \o u = s \o v
  PROVE  u = v
  <1> DEFINE S == ToSet(s) \cup (ToSet(u) \cup ToSet(v))
  <1>1. s \in Seq(S) /\ u \in Seq(S) /\ v \in Seq(S)
    BY SeqMonotonic DEF IsSequence
  <1> HIDE DEF S
  <1> QED BY <1>1, ConcatSimplifications

\* A sender that appends.
LEMMA AppendedTells ==
  ASSUME NEW before, IsSequence(before), NEW more, IsSequence(more)
  PROVE  AddedBy(before \o more, before) = more
  <1>0. PICK w : w = before \o more
    OBVIOUS
  <1>1. /\ IsSequence(w) /\ Len(w) = Len(before) + Len(more)
        /\ \A i \in 1..Len(before) : w[i] = before[i]
    BY <1>0, Joined
  <1>2. Len(before) \in Nat /\ Len(more) \in Nat
    BY PlacesOf
  <1>3. IsPrefix(before, w)
    BY <1>1, <1>2, PrefixIs
  <1>4. IsSequence(AddedBy(w, before)) /\ w = before \o AddedBy(w, before)
    BY <1>1, <1>3, AddedRest
  <1> QED BY <1>0, <1>4, SameRest

\* Joining is associative.
LEMMA JoinedThrice ==
  ASSUME NEW s, IsSequence(s), NEW u, IsSequence(u), NEW v, IsSequence(v)
  PROVE  (s \o u) \o v = s \o (u \o v)
  <1> DEFINE S == ToSet(s) \cup (ToSet(u) \cup ToSet(v))
  <1>1. s \in Seq(S) /\ u \in Seq(S) /\ v \in Seq(S)
    BY SeqMonotonic DEF IsSequence
  <1> HIDE DEF S
  <1> QED BY <1>1, ConcatAssociative

\* One more, joined to two lists, is appended to the latter.
OneMore(p, q, x) == (p \o q) \o <<x>> = p \o Append(q, x)

LEMMA JoinedOne ==
  ASSUME NEW p, IsSequence(p), NEW q, IsSequence(q), NEW x
  PROVE  OneMore(p, q, x)
  <1>1. PICK z : z = <<x>>
    OBVIOUS
  <1>2. IsSequence(z)
    BY <1>1, OneStamp
  <1>3. (p \o q) \o z = p \o (q \o z)
    BY <1>2, JoinedThrice
  <1>4. q \in Seq(ToSet(q) \cup {x})
    BY SeqMonotonic DEF IsSequence
  <1>5. q \o <<x>> = Append(q, x)
    BY <1>4, AppendIsConcat
  <1> QED BY <1>1, <1>3, <1>5 DEF OneMore

\* How many of the first k of s are x.
Standing(s, k, x) == Cardinality({j \in 1..k : s[j] = x})

\* An id is put before, and a stamp after.
Around(returned, before, id, x) == returned = <<id>> \o (before \o <<x>>)

\* Of x and those like place i, one is accounted for unless i is the last.
LastAlone(returned, before, x, i, n) ==
  /\ DOMAIN returned = 1..n /\ returned[n] = x
  /\ Standing(returned, i, returned[i]) > Standing(before, Len(before), returned[i]) <=> i = n

\* A sender that puts an id before: only what it put at the end counts as added.
LEMMA AroundPlaces ==
  ASSUME NEW before, IsSequence(before), NEW id, NEW x, NEW type, id.type # type,
         NEW returned, Around(returned, before, id, x),
         NEW n, n = Len(before) + 2,
         NEW i \in DOMAIN returned, returned[i].type = type
  PROVE  LastAlone(returned, before, x, i, n)
  <1> DEFINE b == Len(before)
             s == returned[i]
             counted == {j \in DOMAIN before : before[j] = s}
             so_far  == {j \in 1..i : returned[j] = s}
             shifted == {j + 1 : j \in counted}
  <1>1. b \in Nat /\ DOMAIN before = 1..b
    BY PlacesOf
  <1>2. IsSequence(<<id>>) /\ Len(<<id>>) = 1 /\ <<id>>[1] = id /\ IsSequence(<<x>>) /\ Len(<<x>>) = 1 /\ <<x>>[1] = x
    BY OneStamp
  <1>3. PICK p : p = <<id>>
    OBVIOUS
  <1>4. PICK q : q = <<x>>
    OBVIOUS
  <1>5. PICK w : w = before \o q
    OBVIOUS
  <1>6. /\ IsSequence(w) /\ Len(w) = b + 1
        /\ \A j \in 1..b : w[j] = before[j]
        /\ \A j \in 1..1 : w[b + j] = q[j]
    BY <1>2, <1>4, <1>5, Joined
  <1>7. /\ IsSequence(returned) /\ Len(returned) = 1 + Len(w)
        /\ \A j \in 1..1 : returned[j] = p[j]
        /\ \A j \in 1..Len(w) : returned[1 + j] = w[j]
    BY <1>2, <1>3, <1>4, <1>5, <1>6, Joined DEF Around
  <1>8. DOMAIN returned = 1..n /\ n = b + 2
    <2>1. DOMAIN returned = 1..Len(returned)
      BY <1>7, PlacesOf
    <2>2. Len(returned) = n
      BY <1>1, <1>6, <1>7
    <2> QED BY <2>1, <2>2
  <1>9. returned[1] = id /\ returned[n] = x /\ \A j \in 1..b : returned[j + 1] = before[j]
    <2>1. returned[1] = id
      BY <1>2, <1>3, <1>7
    <2>2. b + 1 \in 1..Len(w) /\ 1 + (b + 1) = n
      BY <1>1, <1>6, <1>8
    <2>3. returned[n] = x
      BY <1>2, <1>4, <1>6, <1>7, <2>2
    <2>4. ASSUME NEW j \in 1..b PROVE returned[j + 1] = before[j]
      <3>1. j \in 1..Len(w) /\ 1 + j = j + 1
        BY <1>1, <1>6
      <3> QED BY <1>6, <1>7, <3>1
    <2> QED BY <2>1, <2>3, <2>4
  <1>10. i \in 1..n /\ i \in Nat /\ i # 1
    BY <1>1, <1>8, <1>9
  <1>11. IsFiniteSet(counted) /\ counted \subseteq Nat /\ Cardinality(counted) \in Nat
    <2>1. IsFiniteSet(1..b) /\ counted \subseteq 1..b
      BY <1>1, FS_Interval
    <2> HIDE DEF counted, b
    <2>2. IsFiniteSet(counted)
      BY <2>1, FS_Subset
    <2> QED BY <1>1, <2>1, <2>2, FS_CardinalityType
  <1>12. IsFiniteSet(shifted) /\ Cardinality(shifted) = Cardinality(counted)
    <2> HIDE DEF counted
    <2> QED BY <1>11, ShiftedCount
  <1>13. IsFiniteSet(so_far) /\ Cardinality(so_far) \in Nat
    <2>1. IsFiniteSet(1..i) /\ so_far \subseteq 1..i
      BY <1>10, FS_Interval
    <2> HIDE DEF so_far
    <2>2. IsFiniteSet(so_far)
      BY <2>1, FS_Subset
    <2> QED BY <2>2, FS_CardinalityType
  <1>14. ASSUME i # n PROVE Cardinality(so_far) <= Cardinality(counted)
    <2>1. so_far \subseteq shifted
      <3> SUFFICES ASSUME NEW j \in 1..i, returned[j] = s PROVE j \in shifted
        OBVIOUS
      <3>1. j # 1
        BY <1>9
      <3>2. j - 1 \in 1..b /\ (j - 1) + 1 = j
        BY <1>1, <1>8, <1>10, <1>14, <3>1
      <3>3. j - 1 \in counted
        BY <1>1, <1>9, <3>2
      <3> QED BY <3>2, <3>3
    <2> HIDE DEF so_far, shifted, counted
    <2>2. Cardinality(so_far) <= Cardinality(shifted)
      BY <1>12, <2>1, FS_Subset
    <2> QED BY <1>12, <2>2
  <1>15. ASSUME i = n PROVE Cardinality(so_far) > Cardinality(counted)
    <2>1. n \notin shifted
      BY <1>1, <1>8
    <2>2. shifted \cup {n} \subseteq so_far
      <3>1. n \in so_far
        BY <1>10, <1>15
      <3>2. ASSUME NEW j \in counted PROVE j + 1 \in so_far
        <4>1. j \in 1..b /\ before[j] = s
          BY <1>1
        <4>2. j + 1 \in 1..i
          BY <1>1, <1>8, <1>15, <4>1
        <4> QED BY <1>9, <4>1, <4>2
      <3> HIDE DEF so_far, counted
      <3> QED BY <3>1, <3>2
    <2> HIDE DEF so_far, shifted, counted
    <2>3. Cardinality(shifted \cup {n}) = Cardinality(shifted) + 1
      BY <1>12, <2>1, FS_AddElement
    <2>4. Cardinality(shifted \cup {n}) <= Cardinality(so_far)
      BY <1>13, <2>2, FS_Subset
    <2>5. Cardinality(shifted) + 1 <= Cardinality(so_far)
      BY <2>3, <2>4
    <2>6. Cardinality(counted) + 1 <= Cardinality(so_far)
      BY <1>12, <2>5
    <2> QED BY <1>11, <1>13, <2>6
  <1>16. Cardinality(so_far) > Cardinality(counted) <=> i = n
    <2> HIDE DEF so_far, counted
    <2> QED BY <1>11, <1>13, <1>14, <1>15
  <1>17. Standing(returned, i, s) = Cardinality(so_far) /\ Standing(before, b, s) = Cardinality(counted)
    BY <1>1 DEF Standing
  <1> HIDE DEF so_far, counted
  <1> QED BY <1>8, <1>9, <1>16, <1>17 DEF LastAlone

\* So what it added says what the stamp at the end does, but for the id.
LEMMA AroundTells ==
  ASSUME NEW before, IsSequence(before), NEW id, NEW x, NEW type, id.type # type
  PROVE  LET returned == <<id>> \o (before \o <<x>>)
         IN  /\ IsSequence(returned) /\ id \in ToSet(returned)
             /\ Told(AddedBy(returned, before), type) = Told(<<x>>, type)
  <1>1. IsSequence(<<id>>) /\ IsSequence(<<x>>) /\ ToSet(<<id>>) = {id}
    BY OneStamp
  <1>2. PICK p : p = <<id>>
    OBVIOUS
  <1>3. PICK q : q = <<x>>
    OBVIOUS
  <1>4. PICK w : w = before \o q
    OBVIOUS
  <1>5. PICK returned : returned = p \o w
    OBVIOUS
  <1>6. IsSequence(p) /\ IsSequence(q) /\ IsSequence(w) /\ IsSequence(returned)
    <2>1. IsSequence(p) /\ IsSequence(q)
      BY <1>1, <1>2, <1>3
    <2>2. IsSequence(w)
      BY <1>4, <2>1, Joined
    <2> QED BY <1>5, <2>1, <2>2, Joined
  <1>7. id \in ToSet(returned)
    BY <1>1, <1>2, <1>5, <1>6, Joined
  <1>8. Told(AddedBy(returned, before), type) = Told(q, type)
    <2>1. CASE IsPrefix(before, returned)
      <3>1. PICK rest : rest = AddedBy(returned, before)
        OBVIOUS
      <3>2. IsSequence(rest) /\ returned = before \o rest
        BY <1>6, <2>1, <3>1, AddedRest
      <3>3. /\ IsSequence(Told(before, type)) /\ IsSequence(Told(rest, type)) /\ IsSequence(Told(q, type))
            /\ IsSequence(Told(w, type))
            /\ Told(returned, type) = Told(before, type) \o Told(rest, type)
        <4>1. Told(before \o rest, type) = Told(before, type) \o Told(rest, type)
          BY <3>2, ToldJoined
        <4>2. /\ IsSequence(Told(before, type)) /\ IsSequence(Told(rest, type))
              /\ IsSequence(Told(q, type)) /\ IsSequence(Told(w, type))
          BY <1>6, <3>2, ToldSequence
        <4> QED BY <3>2, <4>1, <4>2
      <3>4. Told(w, type) = Told(before, type) \o Told(q, type)
        <4>0. IsSequence(q)
          BY <1>6
        <4>1. Told(before \o q, type) = Told(before, type) \o Told(q, type)
          BY <4>0, ToldJoined
        <4> QED BY <1>4, <4>1
      <3>5. Told(returned, type) = Told(p, type) \o Told(w, type)
        <4>0. IsSequence(p) /\ IsSequence(w)
          BY <1>6
        <4>1. Told(p \o w, type) = Told(p, type) \o Told(w, type)
          BY <4>0, ToldJoined
        <4> QED BY <1>5, <4>1
      <3>6. Told(p, type) = <<>>
        BY <1>2, ToldOfOne
      <3>7. Told(returned, type) = Told(w, type)
        BY <3>3, <3>5, <3>6, JoinedNothing
      <3> QED BY <3>1, <3>3, <3>4, <3>7, SameRest
    <2>2. CASE ~IsPrefix(before, returned)
      <3> DEFINE accounted(s) == Cardinality({i \in DOMAIN before : before[i] = s})
                 so_far(i)    == Cardinality({j \in 1..i : returned[j] = returned[i]})
                 places == {i \in DOMAIN returned : so_far(i) > accounted(returned[i])}
      <3>1. AddedBy(returned, before) = Picked(returned, places)
        BY <2>2 DEF AddedBy
      <3>2. PICK n : n = Len(before) + 2
        OBVIOUS
      <3>3. ASSUME NEW i \in DOMAIN returned, returned[i].type = type
            PROVE  DOMAIN returned = 1..n /\ returned[n] = x /\ (i \in places <=> i = n)
        <4>1. Around(returned, before, id, x)
          BY <1>2, <1>3, <1>4, <1>5 DEF Around
        <4>2. /\ DOMAIN returned = 1..n /\ returned[n] = x
              /\ Standing(returned, i, returned[i]) > Standing(before, Len(before), returned[i]) <=> i = n
          <5> HIDE DEF places, so_far, accounted
          <5>1. LastAlone(returned, before, x, i, n)
            BY <3>2, <3>3, <4>1, AroundPlaces, Zenon
          <5> QED BY <5>1 DEF LastAlone
        <4>3. DOMAIN before = 1..Len(before)
          BY PlacesOf
        <4>4. so_far(i) = Standing(returned, i, returned[i]) /\ accounted(returned[i]) = Standing(before, Len(before), returned[i])
          BY <4>3 DEF Standing
        <4>5. i \in places <=> so_far(i) > accounted(returned[i])
          OBVIOUS
        <4> HIDE DEF places, so_far, accounted
        <4> QED BY <4>2, <4>4, <4>5
      <3>4. places \subseteq DOMAIN returned
        OBVIOUS
      <3> HIDE DEF places
      <3>5. PICK kept : kept = Picked(returned, places)
        OBVIOUS
      <3>6. IsSequence(kept) /\ ToSet(kept) = {returned[i] : i \in places}
        BY <1>6, <3>4, <3>5, PickedOf
      <3>7. Told(q, type) = IF x.type = type THEN <<x.value>> ELSE <<>>
        BY <1>3, ToldOfOne
      <3>8. CASE x.type # type
        <4>1. \A y \in ToSet(kept) : y.type # type
          BY <3>3, <3>4, <3>6, <3>8
        <4> QED BY <3>1, <3>5, <3>6, <3>7, <3>8, <4>1, ToldNone
      <3>9. CASE x.type = type
        <4>1. x \in ToSet(w)
          BY <1>1, <1>3, <1>4, <1>6, OneStamp, Joined
        <4>2. x \in ToSet(returned)
          BY <1>5, <1>6, <4>1, Joined
        <4>3. PICK m \in DOMAIN returned : returned[m] = x
          BY <4>2 DEF ToSet
        <4>4. Len(before) \in Nat /\ DOMAIN returned = 1..n /\ returned[n] = x
          BY <3>3, <3>9, <4>3, PlacesOf
        <4>5. n \in DOMAIN returned
          BY <3>2, <4>4
        <4>6. n \in places
          BY <3>3, <3>9, <4>4, <4>5
        <4>7. Len(returned) \in Nat /\ DOMAIN returned = 1..Len(returned)
          BY <1>6, PlacesOf
        <4>8. Lists(kept, returned, places)
          BY <3>4, <3>5, <4>7, PickedPlaces
        <4>9. PICK c \in Nat : \E place \in [1..c -> places] :
                /\ kept = [k \in 1..c |-> returned[place[k]]]
                /\ \A k, l \in 1..c : k < l => place[k] < place[l]
                /\ \A i \in places : \E k \in 1..c : place[k] = i
          BY <4>8 DEF Lists
        <4>10. PICK place \in [1..c -> places] :
                /\ kept = [k \in 1..c |-> returned[place[k]]]
                /\ \A k, l \in 1..c : k < l => place[k] < place[l]
                /\ \A i \in places : \E k \in 1..c : place[k] = i
          BY <4>9
        <4>11. PICK m1 \in 1..c : place[m1] = n
          BY <4>6, <4>10
        <4>12. m1 \in DOMAIN kept /\ kept[m1] = x
          BY <4>4, <4>10, <4>11
        <4>13. ASSUME NEW k \in DOMAIN kept, kept[k].type = type PROVE k = m1
          <5>1. k \in 1..c /\ kept[k] = returned[place[k]] /\ place[k] \in places
            BY <4>10
          <5>2. place[k] = n
            BY <3>3, <3>4, <4>13, <5>1
          <5>3. n \in Nat
            BY <3>2, <4>4
          <5>4. ~(k < m1) /\ ~(m1 < k)
            BY <4>10, <4>11, <5>1, <5>2, <5>3
          <5> QED BY <5>1, <5>4
        <4>14. Told(kept, type) = <<x.value>>
          BY <3>6, <3>9, <4>12, <4>13, ToldOne
        <4> QED BY <3>1, <3>5, <3>7, <3>9, <4>14
      <3> QED BY <3>8, <3>9
    <2> QED BY <2>1, <2>2
  <1> QED BY <1>2, <1>3, <1>4, <1>5, <1>6, <1>7, <1>8

\* The value of the last of a type is that of the one none of them follows.
LEMMA LastAt ==
  ASSUME NEW e, IsSequence(e.stamps), NEW type, NEW m \in DOMAIN e.stamps, IsA(e.stamps[m], type),
         \A i \in DOMAIN e.stamps : IsA(e.stamps[i], type) => i <= m
  PROVE  LastOf(e, type) = e.stamps[m].value
  <1> DEFINE places == {i \in 1..Len(e.stamps) : IsA(e.stamps[i], type)}
             last == CHOOSE l \in places : \A i \in places : l >= i
  <1>1. Len(e.stamps) \in Nat /\ DOMAIN e.stamps = 1..Len(e.stamps)
    BY PlacesOf
  <1>2. m \in places /\ \A i \in places : i <= m
    BY <1>1
  <1>3. places # {} /\ \A i \in places : i \in Nat
    BY <1>1, <1>2
  <1>4. \E l \in places : \A i \in places : l >= i
    BY <1>1, <1>2
  <1>5. last \in places /\ \A i \in places : last >= i
    <2> HIDE DEF places
    <2> QED BY <1>4
  <1>6. SelectLastInSeq(e.stamps, LAMBDA s : IsA(s, type)) = last
    BY <1>3 DEF SelectLastInSeq, Max
  <1> HIDE DEF last, places
  <1>7. last = m
    BY <1>2, <1>3, <1>5
  <1> QED BY <1>6, <1>7 DEF LastOf

\* The stamp added last is the last of its type, and the one before it of its own.
LEMMA LastAdded ==
  ASSUME NEW e, WellFormed(e), NEW x, x.type # "NonSendable"
  PROVE  LastOf(WithStamps(e, <<x>>), x.type) = x.value
  <1>1. IsSequence(<<x>>) /\ <<x>>[1] = x /\ Len(<<x>>) = 1
    BY OneStamp
  <1>2. PICK p : p = <<x>>
    OBVIOUS
  <1>3. PICK w : w = WithStamps(e, p)
    OBVIOUS
  <1>4. w.stamps = e.stamps \o p /\ WellFormed(w)
    BY <1>1, <1>2, <1>3, Stamping
  <1>5. IsSequence(e.stamps) /\ Len(e.stamps) \in Nat /\ IsSequence(w.stamps)
    BY <1>4, PlacesOf DEF WellFormed
  <1>6. /\ Len(e.stamps \o p) = Len(e.stamps) + 1
        /\ \A i \in 1..1 : (e.stamps \o p)[Len(e.stamps) + i] = p[i]
    BY <1>1, <1>2, <1>5, Joined
  <1>7. DOMAIN w.stamps = 1..(Len(e.stamps) + 1) /\ w.stamps[Len(e.stamps) + 1] = x
    BY <1>1, <1>2, <1>4, <1>5, <1>6, PlacesOf
  <1>8. PICK m : m = Len(e.stamps) + 1
    OBVIOUS
  <1>9. m \in DOMAIN w.stamps /\ w.stamps[m] = x /\ \A i \in DOMAIN w.stamps : i <= m
    BY <1>5, <1>7, <1>8
  <1>10. IsA(x, x.type)
    BY DEF IsA
  <1>11. LastOf(w, x.type) = w.stamps[m].value
    BY <1>5, <1>9, <1>10, LastAt
  <1> QED BY <1>2, <1>3, <1>9, <1>11

\* The stamp before the one added last is the last of its class, if they differ in class.
LEMMA LastButOne ==
  ASSUME NEW e, WellFormed(e), NEW x, NEW y, x.type # "NonSendable", y.type # x.type
  PROVE  LastOf(WithStamps(WithStamps(e, <<x>>), <<y>>), x.type) = x.value
  <1>1. IsSequence(<<x>>) /\ <<x>>[1] = x /\ Len(<<x>>) = 1 /\ IsSequence(<<y>>) /\ <<y>>[1] = y /\ Len(<<y>>) = 1
    BY OneStamp
  <1>2. PICK p : p = <<x>>
    OBVIOUS
  <1>3. PICK w : w = WithStamps(e, p)
    OBVIOUS
  <1>4. w.stamps = e.stamps \o p /\ WellFormed(w)
    BY <1>1, <1>2, <1>3, Stamping
  <1>5. PICK q : q = <<y>>
    OBVIOUS
  <1>6. PICK v : v = WithStamps(w, q)
    OBVIOUS
  <1>7. v.stamps = w.stamps \o q /\ WellFormed(v)
    BY <1>1, <1>4, <1>5, <1>6, Stamping
  <1>8. IsSequence(e.stamps) /\ Len(e.stamps) \in Nat /\ IsSequence(w.stamps) /\ IsSequence(v.stamps)
    BY <1>4, <1>7, PlacesOf DEF WellFormed
  <1>9. /\ Len(e.stamps \o p) = Len(e.stamps) + 1
        /\ \A i \in 1..1 : (e.stamps \o p)[Len(e.stamps) + i] = p[i]
    BY <1>1, <1>2, <1>8, Joined
  <1>10. PICK m : m = Len(e.stamps) + 1
    OBVIOUS
  <1>11. Len(w.stamps) = m /\ w.stamps[m] = x /\ m \in Nat
    BY <1>1, <1>2, <1>4, <1>8, <1>9, <1>10
  <1>12. /\ Len(w.stamps \o q) = m + 1
         /\ \A i \in 1..m : (w.stamps \o q)[i] = w.stamps[i]
         /\ \A i \in 1..1 : (w.stamps \o q)[m + i] = q[i]
    <2>1. IsSequence(q) /\ Len(q) = 1
      BY <1>1, <1>5
    <2>2. /\ Len(w.stamps \o q) = Len(w.stamps) + 1
          /\ \A i \in 1..Len(w.stamps) : (w.stamps \o q)[i] = w.stamps[i]
          /\ \A i \in 1..1 : (w.stamps \o q)[Len(w.stamps) + i] = q[i]
      <3>1. PICK r : r = w.stamps
        OBVIOUS
      <3>2. IsSequence(r)
        BY <1>8, <3>1
      <3>3. PICK all : all = r \o q
        OBVIOUS
      <3>4. /\ Len(all) = Len(r) + Len(q)
            /\ \A i \in 1..Len(r) : all[i] = r[i]
            /\ \A i \in 1..Len(q) : all[Len(r) + i] = q[i]
        <4>1. IsSequence(q)
          BY <2>1
        <4> QED BY <3>2, <3>3, <4>1, Joined
      <3> QED BY <2>1, <3>1, <3>3, <3>4
    <2> QED BY <1>11, <2>2
  <1>13. m \in 1..m
    BY <1>8, <1>10
  <1>14. DOMAIN v.stamps = 1..(m + 1) /\ v.stamps[m + 1] = y /\ v.stamps[m] = x
    <2>1. DOMAIN v.stamps = 1..Len(v.stamps)
      BY <1>8, PlacesOf
    <2>2. Len(v.stamps) = m + 1 /\ v.stamps[m] = w.stamps[m]
      BY <1>7, <1>12, <1>13
    <2>3. v.stamps[m + 1] = q[1]
      <3>1. 1 \in 1..1
        OBVIOUS
      <3>2. (w.stamps \o q)[m + 1] = q[1]
        BY <1>12, <3>1
      <3> QED BY <1>7, <3>2
    <2> QED BY <1>1, <1>5, <1>11, <2>1, <2>2, <2>3
  <1>15. IsA(x, x.type) /\ ~IsA(y, x.type)
    BY DEF IsA
  <1>16. m \in DOMAIN v.stamps
    BY <1>11, <1>13, <1>14
  <1>17. \A i \in DOMAIN v.stamps : IsA(v.stamps[i], x.type) => i <= m
    <2> SUFFICES ASSUME NEW i \in 1..(m + 1), i # m + 1 PROVE i <= m
      BY <1>14, <1>15
    <2> QED BY <1>11
  <1>18. LastOf(v, x.type) = v.stamps[m].value
    BY <1>8, <1>14, <1>15, <1>16, <1>17, LastAt
  <1> QED BY <1>2, <1>3, <1>5, <1>6, <1>14, <1>18

\* What a transport records tells of itself alone.
Tells(e, k) ==
  /\ LastOf(e, "MessageId") = <<"memory", k>>
  /\ ~Received(e) /\ ~Carries(e, "Handled")
  /\ Carries(e, "Sent") => LastOf(e, "Sent") = "memory"

\* An envelope carries a class of stamps when one of its stamps is of it.
LEMMA CarriesIs ==
  ASSUME NEW e, NEW type, type # "NonSendable"
  PROVE  Carries(e, type) <=> \E x \in ToSet(e.stamps) : x.type = type
BY DEF Carries, IsA, ToSet

\* Read back, an envelope has no stamp that tells of this process.
LEMMA KeptStamps ==
  ASSUME NEW e, WellFormed(e), NEW known
  PROVE  \A x \in ToSet(RoundTripped(e, known).stamps) : x.type \in known
  <1> DEFINE headers == EncodeStamps(e)
             read    == DecodeStamps(headers, known)
  <1>1. Len(e.stamps) \in Nat /\ DOMAIN e.stamps = 1..Len(e.stamps)
    BY PlacesOf DEF WellFormed
  <1>2. PICK l \in Nat : DOMAIN headers = 1..l
    BY <1>1, EncodedLength
  <1>3. RoundTripped(e, known).stamps = read
    BY DEF RoundTripped, Envelope
  <1> HIDE DEF headers
  <1>4. \A n \in DOMAIN read : read[n].type \in known
    BY <1>2, DecodedStamps
  <1> HIDE DEF read
  <1> QED BY <1>3, <1>4 DEF ToSet

\* What the in-memory transport puts tells of itself alone, whether or not it serializes.
LEMMA PutTells ==
  ASSUME NEW e, WellFormed(e), ~Received(e), ~Carries(e, "Handled"), NEW serializes \in BOOLEAN, NEW k,
         NEW s, s = WithStamps(e, <<Stamp("Sent", "memory")>>),
         NEW kept, kept = IF serializes THEN RoundTripped(s, DefaultStamps) ELSE s,
         NEW put, put = WithStamps(kept, <<Stamp("MessageId", <<"memory", k>>)>>)
  PROVE  WellFormed(kept) /\ Tells(put, k)
  <1>1. PICK x : x = Stamp("Sent", "memory")
    OBVIOUS
  <1>2. PICK y : y = Stamp("MessageId", <<"memory", k>>)
    OBVIOUS
  <1>3. x.type = "Sent" /\ x.value = "memory" /\ y.type = "MessageId" /\ y.value = <<"memory", k>>
    BY <1>1, <1>2 DEF Stamp
  <1>4. IsSequence(<<x>>) /\ ToSet(<<x>>) = {x} /\ IsSequence(<<y>>) /\ ToSet(<<y>>) = {y}
    BY OneStamp
  <1>5. PICK p : p = <<x>>
    OBVIOUS
  <1>6. PICK q : q = <<y>>
    OBVIOUS
  <1>7. s = WithStamps(e, p) /\ put = WithStamps(kept, q)
    BY <1>1, <1>2, <1>5, <1>6
  <1>8. WellFormed(s) /\ ToSet(s.stamps) = ToSet(e.stamps) \cup {x}
    <2>1. IsSequence(p) /\ ToSet(p) = {x}
      BY <1>4, <1>5
    <2>2. WellFormed(WithStamps(e, p)) /\ ToSet(WithStamps(e, p).stamps) = ToSet(e.stamps) \cup ToSet(p)
      BY <2>1, Stamping
    <2> QED BY <1>7, <2>1, <2>2
  <1>9. WellFormed(kept)
    BY <1>8, KeptIs
  <1>10. ToSet(put.stamps) = ToSet(kept.stamps) \cup {y}
    <2>1. IsSequence(q) /\ ToSet(q) = {y}
      BY <1>4, <1>6
    <2>2. ToSet(WithStamps(kept, q).stamps) = ToSet(kept.stamps) \cup ToSet(q)
      BY <1>9, <2>1, Stamping
    <2> QED BY <1>7, <2>1, <2>2
  <1>11. LastOf(put, "MessageId") = <<"memory", k>>
    BY <1>3, <1>6, <1>7, <1>9, LastAdded
  <1>12. \A z \in ToSet(e.stamps) : z.type # "Received" /\ z.type # "Handled"
    BY CarriesIs DEF Received
  <1>13. CASE serializes
    <2>1. \A z \in ToSet(kept.stamps) : z.type \in DefaultStamps
      BY <1>8, <1>13, KeptStamps
    <2>2. "Received" \notin DefaultStamps /\ "Handled" \notin DefaultStamps /\ "Sent" \notin DefaultStamps
      BY DEF DefaultStamps
    <2>3. ~Carries(put, "Received") /\ ~Carries(put, "Handled") /\ ~Carries(put, "Sent")
      BY <1>3, <1>10, <2>1, <2>2, CarriesIs
    <2> QED BY <1>9, <1>11, <2>3 DEF Tells, Received
  <1>14. CASE ~serializes
    <2>1. kept = s
      BY <1>14
    <2>2. ~Carries(put, "Received") /\ ~Carries(put, "Handled")
      BY <1>3, <1>8, <1>10, <1>12, <2>1, CarriesIs
    <2>3. put = WithStamps(WithStamps(e, p), q)
      BY <1>7, <2>1
    <2>4. LastOf(put, "Sent") = "memory"
      BY <1>3, <1>5, <1>6, <2>3, LastButOne
    <2> QED BY <1>9, <1>11, <2>2, <2>4 DEF Tells, Received
  <1> QED BY <1>13, <1>14

-----------------------------------------------------------------------------
(***************************************************************************)
(* What the stamps of a dispatch say of it.                                *)
(***************************************************************************)

\* `stamps` begin with those of `before`.
Follows(before, stamps) ==
  /\ IsSequence(stamps) /\ Len(before) <= Len(stamps)
  /\ \A i \in 1..Len(before) : stamps[i] = before[i]

NamesOf(ran) == [k \in DOMAIN ran |-> NameOf(ran[k])]

RemoteId(i) == Stamp("MessageId", <<"remote", i>>)
MemoryId(k) == Stamp("MessageId", <<"memory", k>>)

\* What the stamps of dispatch i tell of it, n messages having been recorded.
Says(stamps, d, i, n) ==
  /\ Follows(d.envelope.stamps, stamps)
  /\ Told(stamps, "Sent") = Told(d.envelope.stamps, "Sent") \o d.sentTo
  /\ d.failed = {} => Told(stamps, "Handled") = Told(d.envelope.stamps, "Handled") \o NamesOf(d.ran)
  /\ "remote" \in ToSet(d.sentTo) => RemoteId(i) \in ToSet(stamps)
  /\ "memory" \in ToSet(d.sentTo) => \E k \in 1..n : MemoryId(k) \in ToSet(stamps)

\* Stamps that follow others still do with more of them.
LEMMA FollowsOn ==
  ASSUME NEW a, IsSequence(a), NEW s, Follows(a, s), NEW u, IsSequence(u)
  PROVE  Follows(a, s \o u)
  <1>1. IsSequence(s) /\ Len(a) <= Len(s) /\ \A i \in 1..Len(a) : s[i] = a[i]
    BY DEF Follows
  <1>2. Len(a) \in Nat /\ Len(s) \in Nat /\ Len(u) \in Nat
    BY <1>1, PlacesOf
  <1>3. PICK w : w = s \o u
    OBVIOUS
  <1>4. IsSequence(s)
    BY <1>1
  <1>5. /\ IsSequence(w) /\ Len(w) = Len(s) + Len(u)
        /\ \A i \in 1..Len(s) : w[i] = s[i]
    BY <1>3, <1>4, Joined
  <1>6. Len(a) <= Len(w)
    BY <1>1, <1>2, <1>5
  <1>7. \A i \in 1..Len(a) : i \in 1..Len(s)
    BY <1>1, <1>2
  <1>8. \A i \in 1..Len(a) : w[i] = a[i]
    BY <1>1, <1>5, <1>7
  <1>9. Follows(a, w)
    BY <1>5, <1>6, <1>8 DEF Follows
  <1> QED BY <1>3, <1>9

\* Every list of stamps follows itself.
LEMMA FollowsSelf ==
  ASSUME NEW a, IsSequence(a)
  PROVE  Follows(a, a)
  <1>1. Len(a) \in Nat
    BY PlacesOf
  <1> QED BY <1>1 DEF Follows

\* More may have been recorded since.
LEMMA SaysStill ==
  ASSUME NEW s, NEW d, NEW i, NEW n \in Nat, Says(s, d, i, n), NEW m \in Nat, n <= m
  PROVE  Says(s, d, i, m)
  <1>1. \A k \in 1..n : k \in 1..m
    OBVIOUS
  <1> QED BY <1>1 DEF Says

\* Of a dispatch the same, but for its unit, end and stamps.
LEMMA SaysSame ==
  ASSUME NEW s, NEW d, NEW i, NEW n, Says(s, d, i, n),
         NEW e, e.envelope = d.envelope, e.sentTo = d.sentTo, e.ran = d.ran, e.failed = d.failed
  PROVE  Says(s, e, i, n)
BY Zenon DEF Says

\* Of one that begins.
LEMMA SaysFirst ==
  ASSUME NEW d, IsSequence(d.envelope.stamps), d.sentTo = <<>>, d.ran = <<>>, NEW i, NEW n
  PROVE  Says(d.envelope.stamps, d, i, n)
  <1>1. PICK s : s = d.envelope.stamps
    OBVIOUS
  <1>2. IsSequence(s)
    BY <1>1
  <1>3. PICK a : a = Told(s, "Sent")
    OBVIOUS
  <1>4. PICK b : b = Told(s, "Handled")
    OBVIOUS
  <1>5. IsSequence(a) /\ IsSequence(b)
    BY <1>2, <1>3, <1>4, ToldSequence
  <1>6. a \o <<>> = a /\ b \o <<>> = b
    BY <1>5, JoinedNothing
  <1>7. NamesOf(<<>>) = <<>>
    BY DEF NamesOf
  <1>8. Follows(s, s)
    BY <1>2, FollowsSelf
  <1>9. ToSet(<<>>) = {}
    BY Nothing
  <1>10. Told(s, "Sent") = Told(s, "Sent") \o d.sentTo
    BY <1>3, <1>6
  <1>11. Told(s, "Handled") = Told(s, "Handled") \o NamesOf(d.ran)
    BY <1>4, <1>6, <1>7
  <1>12. "remote" \notin ToSet(d.sentTo) /\ "memory" \notin ToSet(d.sentTo)
    BY <1>9
  <1> QED BY <1>1, <1>8, <1>10, <1>11, <1>12 DEF Says

\* A sender called `name` added these, and some id among them or what it was handed.
Announces(more, name) ==
  IsSequence(more) /\ Told(more, "Sent") = <<name>> /\ Told(more, "Handled") = <<>>

\* A dispatch that was sent once more, to a transport of that name, says so.
LEMMA SaysSent ==
  ASSUME NEW s, NEW d, NEW i, NEW n \in Nat, Says(s, d, i, n), IsSequence(d.envelope.stamps),
         IsSequence(d.sentTo), NEW name, NEW more, Announces(more, name),
         NEW m \in Nat, n <= m,
         name = "remote" => RemoteId(i) \in ToSet(s) \cup ToSet(more),
         name = "memory" => \E k \in 1..m : MemoryId(k) \in ToSet(more),
         NEW e, e.envelope = d.envelope, e.sentTo = Append(d.sentTo, name), e.ran = d.ran, e.failed = d.failed
  PROVE  Says(s \o more, e, i, m)
  <1>1. PICK a : a = d.envelope.stamps
    OBVIOUS
  <1>2. Follows(a, s) /\ IsSequence(a)
    BY <1>1 DEF Says
  <1>3. IsSequence(s)
    BY <1>2 DEF Follows
  <1>4. IsSequence(more) /\ Told(more, "Sent") = <<name>> /\ Told(more, "Handled") = <<>>
    BY DEF Announces
  <1>5. IsSequence(more)
    BY <1>4
  <1>6. PICK w : w = s \o more
    OBVIOUS
  <1>7. Follows(a, w)
    BY <1>2, <1>5, <1>6, FollowsOn
  <1>8. ToSet(w) = ToSet(s) \cup ToSet(more)
    BY <1>3, <1>5, <1>6, Joined
  <1>9. ToSet(Append(d.sentTo, name)) = ToSet(d.sentTo) \cup {name}
    BY Appended
  <1>10. Told(w, "Sent") = Told(a, "Sent") \o e.sentTo
    <2>1. PICK p : p = Told(a, "Sent")
      OBVIOUS
    <2>2. PICK q : q = d.sentTo
      OBVIOUS
    <2>3. IsSequence(p) /\ IsSequence(q)
      BY <1>2, <2>1, <2>2, ToldSequence
    <2>4. Told(s \o more, "Sent") = Told(s, "Sent") \o Told(more, "Sent")
      BY <1>3, <1>5, ToldJoined
    <2>5. Told(s, "Sent") = p \o q
      BY <1>1, <2>1, <2>2 DEF Says
    <2>6. Told(w, "Sent") = (p \o q) \o <<name>>
      BY <1>4, <1>6, <2>4, <2>5
    <2>7. OneMore(p, q, name)
      BY <2>3, JoinedOne
    <2>8. Told(w, "Sent") = p \o Append(q, name)
      BY <2>6, <2>7 DEF OneMore
    <2> QED BY <2>1, <2>2, <2>8
  <1>11. ASSUME e.failed = {} PROVE Told(w, "Handled") = Told(a, "Handled") \o NamesOf(e.ran)
    <2>1. Told(s, "Handled") = Told(a, "Handled") \o NamesOf(e.ran)
      BY <1>1, <1>11 DEF Says
    <2>2. PICK p : p = Told(s, "Handled")
      OBVIOUS
    <2>3. IsSequence(p)
      BY <1>3, <2>2, ToldSequence
    <2>4. Told(s \o more, "Handled") = Told(s, "Handled") \o Told(more, "Handled")
      BY <1>3, <1>5, ToldJoined
    <2>5. p \o <<>> = p
      BY <2>3, JoinedNothing
    <2>6. Told(w, "Handled") = p
      BY <1>4, <1>6, <2>2, <2>4, <2>5
    <2> QED BY <2>1, <2>2, <2>6
  <1>12. "remote" \in ToSet(e.sentTo) => RemoteId(i) \in ToSet(w)
    BY <1>8, <1>9 DEF Says
  <1>13. "memory" \in ToSet(e.sentTo) => \E k \in 1..m : MemoryId(k) \in ToSet(w)
    <2>1. \A k \in 1..n : k \in 1..m
      OBVIOUS
    <2> QED BY <1>8, <1>9, <2>1 DEF Says
  <1>14. Says(w, e, i, m)
    BY <1>1, <1>7, <1>10, <1>11, <1>12, <1>13 DEF Says
  <1> QED BY <1>6, <1>14

\* One more handler ended.
LEMMA SaysHandled ==
  ASSUME NEW x, WellFormed(x), NEW d, NEW i, NEW n, Says(x.stamps, d, i, n), IsSequence(d.envelope.stamps),
         IsSequence(d.ran), NEW handler, NEW ok \in BOOLEAN,
         NEW y, y = IF ok THEN WithStamps(x, <<Stamp("Handled", NameOf(handler))>>) ELSE x,
         NEW e, e.envelope = d.envelope, e.sentTo = d.sentTo, e.ran = Append(d.ran, handler),
         e.failed = IF ok THEN d.failed ELSE d.failed \cup {handler}
  PROVE  Says(y.stamps, e, i, n)
  <1>1. PICK a : a = d.envelope.stamps
    OBVIOUS
  <1>2. PICK s : s = x.stamps
    OBVIOUS
  <1>3. IsSequence(a) /\ IsSequence(s) /\ Follows(a, s)
    BY <1>1, <1>2 DEF Says, WellFormed
  <1>4. CASE ~ok
    BY <1>2, <1>4 DEF Says
  <1>5. CASE ok
    <2>1. PICK h : h = Stamp("Handled", NameOf(handler))
      OBVIOUS
    <2>2. h.type = "Handled" /\ h.value = NameOf(handler)
      BY <2>1 DEF Stamp
    <2>3. PICK u : u = <<h>>
      OBVIOUS
    <2>4. IsSequence(u)
      BY <2>3, OneStamp
    <2>5. y.stamps = s \o u
      <3>1. y = WithStamps(x, u)
        BY <1>5, <2>1, <2>3
      <3>2. WithStamps(x, u).stamps = x.stamps \o u
        BY <2>4, Stamping
      <3> QED BY <1>2, <3>1, <3>2
    <2>6. PICK w : w = s \o u
      OBVIOUS
    <2>7. IsSequence(s)
      BY <1>3
    <2>8. Follows(a, w)
      BY <1>3, <2>4, <2>6, FollowsOn
    <2>9. ToSet(s) \subseteq ToSet(w)
      <3>1. ToSet(w) = ToSet(s) \cup ToSet(u)
        BY <2>4, <2>6, <2>7, Joined
      <3> QED BY <3>1
    <2>10. Told(u, "Sent") = <<>> /\ Told(u, "Handled") = <<NameOf(handler)>>
      BY <2>2, <2>3, ToldOfOne
    <2>11. Told(w, "Sent") = Told(s, "Sent")
      <3>1. Told(s \o u, "Sent") = Told(s, "Sent") \o Told(u, "Sent")
        BY <2>4, <2>7, ToldJoined
      <3>2. IsSequence(Told(s, "Sent"))
        BY <2>7, ToldSequence
      <3>3. Told(s, "Sent") \o <<>> = Told(s, "Sent")
        BY <3>2, JoinedNothing
      <3> QED BY <2>6, <2>10, <3>1, <3>3
    <2>12. ASSUME d.failed = {} PROVE Told(w, "Handled") = Told(a, "Handled") \o NamesOf(e.ran)
      <3>1. PICK p : p = Told(a, "Handled")
        OBVIOUS
      <3>2. PICK q : q = NamesOf(d.ran)
        OBVIOUS
      <3>3. PICK r : r = d.ran
        OBVIOUS
      <3>4. IsSequence(p) /\ IsSequence(r)
        BY <1>3, <3>1, <3>3, ToldSequence
      <3>5. Told(s, "Handled") = p \o q
        BY <1>1, <1>2, <2>12, <3>1, <3>2 DEF Says
      <3>6. Told(s \o u, "Handled") = Told(s, "Handled") \o Told(u, "Handled")
        BY <2>4, <2>7, ToldJoined
      <3>7. Told(w, "Handled") = (p \o q) \o <<NameOf(handler)>>
        BY <2>6, <2>10, <3>5, <3>6
      <3>8. IsSequence(q) /\ Len(q) = Len(r) /\ DOMAIN q = DOMAIN r /\ \A k \in DOMAIN r : q[k] = NameOf(r[k])
        <4>1. DOMAIN q = DOMAIN r /\ q = [k \in DOMAIN q |-> q[k]] /\ \A k \in DOMAIN r : q[k] = NameOf(r[k])
          BY <3>2, <3>3 DEF NamesOf
        <4>2. IsSequence(q) /\ Len(q) = Len(r)
          BY <3>4, <4>1, Mapped
        <4> QED BY <4>1, <4>2
      <3>9. IsSequence(q)
        BY <3>8
      <3>10. PICK name : name = NameOf(handler)
        OBVIOUS
      <3>11. OneMore(p, q, name)
        BY <3>4, <3>9, JoinedOne
      <3>12. Told(w, "Handled") = p \o Append(q, name)
        BY <3>7, <3>10, <3>11 DEF OneMore
      <3>13. Append(q, name) = NamesOf(Append(r, handler))
        <4>1. PICK v : v = Append(r, handler)
          OBVIOUS
        <4>2. PICK z : z = Append(q, name)
          OBVIOUS
        <4>3. /\ DOMAIN v = 1..(Len(r) + 1) /\ \A k \in 1..Len(r) : v[k] = r[k]
              /\ v[Len(r) + 1] = handler
          BY <3>4, <4>1, Appended
        <4>4. /\ IsSequence(z) /\ DOMAIN z = 1..(Len(q) + 1) /\ \A k \in 1..Len(q) : z[k] = q[k]
              /\ z[Len(q) + 1] = name
          BY <3>9, <4>2, Appended
        <4>5. Len(r) \in Nat /\ DOMAIN r = 1..Len(r)
          BY <3>4, PlacesOf
        <4>6. \A k \in 1..(Len(r) + 1) : z[k] = NameOf(v[k])
          <5> SUFFICES ASSUME NEW k \in 1..(Len(r) + 1) PROVE z[k] = NameOf(v[k])
            OBVIOUS
          <5>1. CASE k = Len(r) + 1
            BY <3>8, <3>10, <4>3, <4>4, <5>1
          <5>2. CASE k # Len(r) + 1
            <6>1. k \in 1..Len(r)
              BY <4>5, <5>2
            <6> QED BY <3>8, <4>3, <4>4, <4>5, <6>1
          <5> QED BY <5>1, <5>2
        <4>7. z = [k \in 1..(Len(r) + 1) |-> z[k]]
          <5>1. z \in Seq(ToSet(z))
            BY <4>4 DEF IsSequence
          <5> QED BY <3>8, <4>4, <5>1
        <4>8. z = [k \in DOMAIN v |-> NameOf(v[k])]
          BY <4>3, <4>6, <4>7
        <4> QED BY <4>1, <4>2, <4>8 DEF NamesOf
      <3> QED BY <3>1, <3>3, <3>12, <3>13
    <2>13. Told(w, "Sent") = Told(a, "Sent") \o e.sentTo
      BY <1>1, <1>2, <2>11 DEF Says
    <2>14. e.failed = {} => Told(w, "Handled") = Told(a, "Handled") \o NamesOf(e.ran)
      BY <1>5, <2>12
    <2>15. "remote" \in ToSet(e.sentTo) => RemoteId(i) \in ToSet(w)
      BY <1>2, <2>9 DEF Says
    <2>16. "memory" \in ToSet(e.sentTo) => \E k \in 1..n : MemoryId(k) \in ToSet(w)
      BY <1>2, <2>9 DEF Says
    <2>17. Says(w, e, i, n)
      BY <1>1, <2>8, <2>13, <2>14, <2>15, <2>16 DEF Says
    <2> QED BY <2>5, <2>6, <2>17
  <1> QED BY <1>4, <1>5

-----------------------------------------------------------------------------
(***************************************************************************)
(* The second inductive invariant: at every frame, and in every dispatch   *)
(* that returned, the stamps say what became of it so far.                 *)
(***************************************************************************)

\* What a frame has to tell so far.
StampsOf(f) == IF f.step = "sending" THEN f.envelope.stamps \o f.added ELSE f.envelope.stamps

FramesTell ==
  \A t \in Tasks : \A k \in DOMAIN frames[t] : \A f \in {frames[t][k]} :
    \A d \in {dispatches[f.dispatch]} : Says(StampsOf(f), d, f.dispatch, Len(recorded))

DispatchesTell ==
  \A i \in DOMAIN dispatches : \A d \in {dispatches[i]} :
    d.end = "returned" => Says(d.stamps, d, i, Len(recorded))

RecordedTell == IsSequence(recorded) /\ \A k \in DOMAIN recorded : Tells(recorded[k], k)

\* What goes out was handled by nobody.
PublishedFresh ==
  \A i \in DOMAIN dispatches : \A d \in {dispatches[i]} : d.bus = "publishing" => ~Carries(d.envelope, "Handled")

TellInv == FramesTell /\ DispatchesTell /\ RecordedTell /\ PublishedFresh

\* A step of t that touched its frames from n on, and the dispatches these are of.
LEMMA OthersTell ==
  ASSUME Inv, TellInv, RecordedTell', Len(recorded) <= Len(recorded'), NEW t \in Tasks, NEW n \in Nat,
         \A u \in Tasks : u # t => frames'[u] = frames[u],
         \A k \in DOMAIN frames'[t] : ~(k >= n) => k \in DOMAIN frames[t] /\ frames'[t][k] = frames[t][k],
         \A i \in DOMAIN dispatches :
           \/ dispatches'[i] = dispatches[i]
           \/ \E k \in DOMAIN frames[t] : k >= n /\ frames[t][k].dispatch = i,
         \A k \in DOMAIN frames'[t] : k >= n => \A f \in {frames'[t][k]} : \A d \in {dispatches'[f.dispatch]} :
           Says(StampsOf(f), d, f.dispatch, Len(recorded')),
         \A i \in DOMAIN dispatches' : \A d \in {dispatches'[i]} :
           \/ i \in DOMAIN dispatches /\ d = dispatches[i]
           \/ /\ d.end = "returned" => Says(d.stamps, d, i, Len(recorded'))
              /\ d.bus = "publishing" => ~Carries(d.envelope, "Handled")
  PROVE  TellInv'
  <1>1. Len(recorded) \in Nat /\ Len(recorded') \in Nat
    BY PlacesOf DEF TellInv, RecordedTell
  <1>2. FramesTell'
    <2> SUFFICES ASSUME NEW u \in Tasks, NEW k \in DOMAIN frames'[u], NEW f \in {frames'[u][k]},
                        NEW d \in {dispatches'[f.dispatch]}
                 PROVE  Says(StampsOf(f), d, f.dispatch, Len(recorded'))
      BY DEF FramesTell
    <2>1. CASE u = t /\ k >= n
      BY <2>1
    <2>2. CASE u # t \/ ~(k >= n)
      <3>1. k \in DOMAIN frames[u] /\ f = frames[u][k]
        BY <2>2
      <3>2. f.dispatch \in DOMAIN dispatches
        BY <3>1 DEF Inv, FramesFit
      <3>3. dispatches'[f.dispatch] = dispatches[f.dispatch]
        <4> SUFFICES ASSUME NEW l \in DOMAIN frames[t], l >= n, frames[t][l].dispatch = f.dispatch
                     PROVE FALSE
          BY <3>2
        <4>1. t = u /\ l = k
          BY <3>1 DEF Inv, FramesApart
        <4> QED BY <2>2, <4>1
      <3>4. Says(StampsOf(f), d, f.dispatch, Len(recorded))
        BY <3>1, <3>3 DEF TellInv, FramesTell
      <3> QED BY <1>1, <3>4, SaysStill
    <2> QED BY <2>1, <2>2
  <1>3. DispatchesTell'
    <2> SUFFICES ASSUME NEW i \in DOMAIN dispatches', NEW d \in {dispatches'[i]}, d.end = "returned"
                 PROVE  Says(d.stamps, d, i, Len(recorded'))
      BY DEF DispatchesTell
    <2>1. CASE i \in DOMAIN dispatches /\ d = dispatches[i]
      <3>1. Says(d.stamps, d, i, Len(recorded))
        BY <2>1 DEF TellInv, DispatchesTell
      <3> QED BY <1>1, <3>1, SaysStill
    <2> QED BY <2>1
  <1>4. PublishedFresh'
    <2> SUFFICES ASSUME NEW i \in DOMAIN dispatches', NEW d \in {dispatches'[i]}, d.bus = "publishing"
                 PROVE  ~Carries(d.envelope, "Handled")
      BY DEF PublishedFresh, Carries
    <2>1. CASE i \in DOMAIN dispatches /\ d = dispatches[i]
      BY <2>1 DEF TellInv, PublishedFresh
    <2> QED BY <2>1
  <1> QED BY <1>2, <1>3, <1>4 DEF TellInv

\* What was recorded stays.
LEMMA SameRecord ==
  ASSUME TellInv, recorded' = recorded
  PROVE  RecordedTell' /\ Len(recorded') = Len(recorded) /\ Len(recorded) <= Len(recorded') /\ Len(recorded) \in Nat
  <1>1. IsSequence(recorded)
    BY DEF TellInv, RecordedTell
  <1>2. Len(recorded) \in Nat
    BY <1>1, PlacesOf
  <1>3. RecordedTell'
    BY DEF TellInv, RecordedTell
  <1> QED BY <1>2, <1>3

\* The frame on top and its dispatch change.
LEMMA TopTells ==
  ASSUME Inv, TellInv, RecordedTell', Len(recorded) <= Len(recorded'),
         NEW t \in Tasks, frames[t] # <<>>, NEW f, f = Top(t), NEW d, d = dispatches[f.dispatch],
         NEW g, NEW e, g.dispatch = f.dispatch, e.envelope = d.envelope, e.bus = d.bus, e.end = d.end,
         Becomes(t, g), dispatches' = [dispatches EXCEPT ![f.dispatch] = e],
         Says(StampsOf(g), e, f.dispatch, Len(recorded'))
  PROVE  TellInv'
  <1>1. PICK n : n = Len(frames[t])
    OBVIOUS
  <1>2. /\ n \in DOMAIN frames[t] /\ n \in Nat \ {0} /\ DOMAIN frames[t] = 1..n /\ f = frames[t][n]
        /\ f.dispatch \in DOMAIN dispatches /\ Fits(f, d)
    BY <1>1, TopIs
  <1>3. /\ \A u \in Tasks : u # t => frames'[u] = frames[u]
        /\ DOMAIN frames'[t] = DOMAIN frames[t]
        /\ \A k \in DOMAIN frames[t] : frames'[t][k] = IF k = n THEN g ELSE frames[t][k]
    BY <1>1, TopBecomes
  <1>4. dispatches'[f.dispatch] = e /\ DOMAIN dispatches' = DOMAIN dispatches
        /\ \A i \in DOMAIN dispatches : i # f.dispatch => dispatches'[i] = dispatches[i]
    BY <1>2
  <1>5. d.end = "running"
    BY <1>2 DEF Fits
  <1>6. \A k \in DOMAIN frames'[t] : ~(k >= n) => k \in DOMAIN frames[t] /\ frames'[t][k] = frames[t][k]
    BY <1>2, <1>3
  <1>7. \A i \in DOMAIN dispatches :
           \/ dispatches'[i] = dispatches[i]
           \/ \E k \in DOMAIN frames[t] : k >= n /\ frames[t][k].dispatch = i
    BY <1>2, <1>4
  <1>8. \A k \in DOMAIN frames'[t] : k >= n => \A h \in {frames'[t][k]} : \A c \in {dispatches'[h.dispatch]} :
           Says(StampsOf(h), c, h.dispatch, Len(recorded'))
    <2> SUFFICES ASSUME NEW k \in DOMAIN frames'[t], k >= n, NEW h \in {frames'[t][k]},
                        NEW c \in {dispatches'[h.dispatch]}
                 PROVE  Says(StampsOf(h), c, h.dispatch, Len(recorded'))
      OBVIOUS
    <2>1. k = n
      BY <1>2, <1>3
    <2>2. h = g /\ c = e
      BY <1>2, <1>3, <1>4, <2>1
    <2> QED BY <2>2
  <1>9. \A i \in DOMAIN dispatches' : \A c \in {dispatches'[i]} :
           \/ i \in DOMAIN dispatches /\ c = dispatches[i]
           \/ /\ c.end = "returned" => Says(c.stamps, c, i, Len(recorded'))
              /\ c.bus = "publishing" => ~Carries(c.envelope, "Handled")
    <2> SUFFICES ASSUME NEW i \in DOMAIN dispatches', NEW c \in {dispatches'[i]}, c # dispatches[i]
                 PROVE  c.end # "returned" /\ (c.bus = "publishing" => ~Carries(c.envelope, "Handled"))
      BY <1>4
    <2>1. c = e
      BY <1>4
    <2>2. d.bus = "publishing" => ~Carries(d.envelope, "Handled")
      BY <1>2 DEF TellInv, PublishedFresh
    <2> QED BY <1>5, <2>1, <2>2
  <1> QED BY <1>2, <1>3, <1>6, <1>7, <1>8, <1>9, OthersTell

\* The frame alone.
LEMMA FrameTells ==
  ASSUME Inv, TellInv, NEW t \in Tasks, frames[t] # <<>>, NEW f, f = Top(t),
         NEW d, d = dispatches[f.dispatch], NEW g, g.dispatch = f.dispatch,
         Becomes(t, g), dispatches' = dispatches, recorded' = recorded,
         StampsOf(g) = StampsOf(f)
  PROVE  TellInv'
  <1>1. f.dispatch \in DOMAIN dispatches
    BY TopIs
  <1>2. dispatches' = [dispatches EXCEPT ![f.dispatch] = d]
    <2>1. IsSequence(dispatches)
      BY DEF Inv, Shape
    <2>2. dispatches = [i \in DOMAIN dispatches |-> dispatches[i]]
      BY <2>1 DEF IsSequence
    <2> QED BY <1>1, <2>2
  <1>3. RecordedTell' /\ Len(recorded') = Len(recorded) /\ Len(recorded) <= Len(recorded')
    BY SameRecord
  <1>4. Says(StampsOf(f), d, f.dispatch, Len(recorded))
    <2>1. Len(frames[t]) \in DOMAIN frames[t] /\ f = frames[t][Len(frames[t])]
      BY TopIs
    <2> QED BY <2>1 DEF TellInv, FramesTell
  <1>5. Says(StampsOf(g), d, f.dispatch, Len(recorded'))
    BY <1>3, <1>4
  <1>6. PICK e : e = d
    OBVIOUS
  <1>7. e.envelope = d.envelope /\ e.bus = d.bus /\ e.end = d.end
    BY <1>6
  <1>8. dispatches' = [dispatches EXCEPT ![f.dispatch] = e]
    BY <1>2, <1>6
  <1>9. Says(StampsOf(g), e, f.dispatch, Len(recorded'))
    BY <1>5, <1>6
  <1>10. RecordedTell' /\ Len(recorded) <= Len(recorded')
    BY <1>3
  <1> QED BY ONLY Inv, TellInv, <1>7, <1>8, <1>9, <1>10, frames[t] # <<>>, f = Top(t), t \in Tasks, d = dispatches[f.dispatch], g.dispatch = f.dispatch, Becomes(t,g), TopTells

\* A frame tells so far, by the invariant.
LEMMA FrameSays ==
  ASSUME TellInv, NEW t \in Tasks, NEW k \in DOMAIN frames[t]
  PROVE  Says(StampsOf(frames[t][k]), dispatches[frames[t][k].dispatch], frames[t][k].dispatch, Len(recorded))
BY DEF TellInv, FramesTell

\* The frame on top, and its dispatch, tell so far.
LEMMA TopSays ==
  ASSUME Inv, TellInv, NEW t \in Tasks, frames[t] # <<>>, NEW f, f = Top(t), NEW d, d = dispatches[f.dispatch]
  PROVE  Says(StampsOf(f), d, f.dispatch, Len(recorded))
  <1>1. Len(frames[t]) \in DOMAIN frames[t] /\ f = frames[t][Len(frames[t])]
    BY TopIs
  <1> QED BY <1>1, FrameSays

\* One more handler ended: the frame tells it.
LEMMA HandlerTells ==
  ASSUME NEW d, Sound(d), NEW f, Fits(f, d), f.step \in {"handling", "awaiting"}, NEW ok \in BOOLEAN,
         NEW g, g = HandlerEnds(f, ok), NEW e, e = RanOne(d, Head(f.todo), ok),
         NEW i, NEW n, Says(StampsOf(f), d, i, n)
  PROVE  Says(StampsOf(g), e, i, n)
  <1>1. PICK handler : handler = Head(f.todo)
    OBVIOUS
  <1>2. PICK x : x = f.envelope
    OBVIOUS
  <1>3. PICK y : y = IF ok THEN WithStamps(x, <<Stamp("Handled", NameOf(handler))>>) ELSE x
    OBVIOUS
  <1>4. g.envelope = y /\ g.step = "handling"
    <2> DEFINE rest == [f EXCEPT !.todo = Tail(@), !.step = "handling"]
    <2>1. DOMAIN rest = FrameFields /\ rest.step = "handling" /\ rest.envelope = x
      BY <1>2 DEF Fits, FrameFields
    <2>2. PICK name : name = NameOf(handler)
      OBVIOUS
    <2>3. g = IF ok THEN [rest EXCEPT !.envelope = WithStamps(@, <<Stamp("Handled", name)>>)]
              ELSE [rest EXCEPT !.errors = Append(@, Unused(@, name))]
      BY <1>1, <2>2, Zenon DEF HandlerEnds
    <2> HIDE DEF rest
    <2>4. CASE ok
      <3>1. g = [rest EXCEPT !.envelope = WithStamps(@, <<Stamp("Handled", name)>>)]
        BY <2>3, <2>4
      <3> QED BY <1>3, <2>1, <2>2, <2>4, <3>1 DEF FrameFields
    <2>5. CASE ~ok
      <3>1. g = [rest EXCEPT !.errors = Append(@, Unused(@, name))]
        BY <2>3, <2>5
      <3> QED BY <1>3, <2>1, <2>5, <3>1 DEF FrameFields
    <2> QED BY <2>4, <2>5
  <1>5. StampsOf(f) = x.stamps /\ StampsOf(g) = y.stamps
    BY <1>2, <1>4 DEF StampsOf
  <1>6. /\ e.envelope = d.envelope /\ e.sentTo = d.sentTo /\ e.ran = Append(d.ran, handler)
        /\ e.failed = IF ok THEN d.failed ELSE d.failed \cup {handler}
    BY <1>1 DEF Sound, DispatchFields, RanOne
  <1>7. WellFormed(x) /\ IsSequence(d.envelope.stamps)
    BY <1>2 DEF Fits, Sound, WellFormed
  <1>8. IsSequence(d.ran)
    BY IsSequenceOf DEF Sound
  <1>9. Says(x.stamps, d, i, n)
    BY <1>5
  <1>10. Says(y.stamps, e, i, n)
    <2>1. WellFormed(x) /\ Says(x.stamps, d, i, n) /\ IsSequence(d.envelope.stamps) /\ IsSequence(d.ran)
      BY <1>7, <1>8, <1>9
    <2> QED BY ONLY ok \in BOOLEAN, <1>3, <1>6, <2>1, SaysHandled
  <1> QED BY <1>5, <1>10

\* A dispatch begins.
LEMMA BeginsTells ==
  ASSUME Inv, TellInv, NEW t \in Tasks,
         frames[t] = <<>> \/ (Top(t).step = "handling" /\ Top(t).todo # <<>>),
         NEW bus, NEW x, WellFormed(x), bus = "publishing" => ~Carries(x, "Handled"),
         Dispatches(t, bus, x), recorded' = recorded
  PROVE  TellInv'
  <1>1. PICK n, m, w, f, d : Stacks(t, bus, x, n, m, w, f, d)
    BY Stacked
  <1>2. /\ n = Len(frames[t]) /\ n \in Nat /\ DOMAIN frames[t] = 1..n
        /\ m \in Nat /\ DOMAIN dispatches = 1..m
        /\ DOMAIN frames'[t] = 1..(n + 1) /\ DOMAIN dispatches' = 1..(m + 1)
    BY <1>1 DEF Stacks
  <1>3. /\ \A u \in Tasks : u # t => frames'[u] = frames[u]
        /\ \A k \in 1..n : frames'[t][k] = IF k = n THEN w ELSE frames[t][k]
        /\ frames'[t][n + 1] = f
        /\ \A i \in 1..m : dispatches'[i] = dispatches[i]
        /\ dispatches'[m + 1] = d
    BY <1>1 DEF Stacks
  <1>4. d.envelope = x /\ d.sentTo = <<>> /\ d.ran = <<>> /\ d.end = "running" /\ d.bus = bus
    BY <1>1 DEF Stacks
  <1>5. f.dispatch = m + 1 /\ f.step = "next" /\ f.envelope = x
    BY <1>1 DEF Stacks, Frame
  <1>6. RecordedTell' /\ Len(recorded') = Len(recorded) /\ Len(recorded) <= Len(recorded')
    BY SameRecord
  <1>7. Says(StampsOf(f), d, f.dispatch, Len(recorded'))
    <2>1. StampsOf(f) = d.envelope.stamps
      BY <1>4, <1>5 DEF StampsOf
    <2>2. IsSequence(d.envelope.stamps)
      BY <1>4 DEF WellFormed
    <2> QED BY <1>4, <2>1, <2>2, SaysFirst
  <1>8. ASSUME n # 0
        PROVE  /\ w.dispatch \in 1..m
               /\ Says(StampsOf(w), dispatches[w.dispatch], w.dispatch, Len(recorded'))
    <2>1. /\ n \in 1..n /\ Top(t) = frames[t][n] /\ w = [Top(t) EXCEPT !.step = "awaiting"]
          /\ w.dispatch = frames[t][n].dispatch /\ w.dispatch \in 1..m /\ w.step = "awaiting"
      BY <1>1, <1>8 DEF Stacks
    <2>2. frames[t] # <<>>
      BY <1>2, <1>8, Nothing
    <2>3. PICK b : b = Top(t)
      OBVIOUS
    <2>4. b.step = "handling" /\ DOMAIN b = FrameFields
      <3>1. Fits(b, dispatches[b.dispatch])
        BY <2>2, <2>3, TopIs
      <3> QED BY <2>2, <2>3, <3>1 DEF Fits
    <2>5. w.envelope = b.envelope
      BY <2>1, <2>3, <2>4 DEF FrameFields
    <2>6. StampsOf(w) = StampsOf(b)
      BY <2>1, <2>4, <2>5 DEF StampsOf
    <2>7. Says(StampsOf(b), dispatches[b.dispatch], b.dispatch, Len(recorded))
      BY <2>2, <2>3, TopSays
    <2> QED BY <1>6, <2>1, <2>3, <2>6, <2>7
  <1>9. \A k \in 1..(n + 1) : ~(k >= n) => k \in 1..n /\ k # n
    BY <1>2
  <1>10. \A k \in DOMAIN frames'[t] : ~(k >= n) => k \in DOMAIN frames[t] /\ frames'[t][k] = frames[t][k]
    BY <1>2, <1>3, <1>9
  <1>11. \A i \in DOMAIN dispatches :
           \/ dispatches'[i] = dispatches[i]
           \/ \E k \in DOMAIN frames[t] : k >= n /\ frames[t][k].dispatch = i
    BY <1>2, <1>3
  <1>12. \A k \in DOMAIN frames'[t] : k >= n => \A h \in {frames'[t][k]} : \A c \in {dispatches'[h.dispatch]} :
           Says(StampsOf(h), c, h.dispatch, Len(recorded'))
    <2> SUFFICES ASSUME NEW k \in 1..(n + 1), k >= n, NEW h \in {frames'[t][k]},
                        NEW c \in {dispatches'[h.dispatch]}
                 PROVE  Says(StampsOf(h), c, h.dispatch, Len(recorded'))
      BY <1>2
    <2>1. CASE k = n + 1
      <3>1. h = f /\ c = d
        BY <1>3, <1>5, <2>1
      <3> QED BY <1>7, <3>1
    <2>2. CASE k # n + 1
      <3>1. k = n /\ n # 0 /\ n \in 1..n
        BY <1>2, <2>2
      <3>2. h = w
        BY <1>3, <3>1
      <3>3. c = dispatches[w.dispatch]
        BY <1>3, <1>8, <3>1, <3>2
      <3> QED BY <1>8, <3>1, <3>2, <3>3
    <2> QED BY <2>1, <2>2
  <1>13. \A i \in DOMAIN dispatches' : \A c \in {dispatches'[i]} :
           \/ i \in DOMAIN dispatches /\ c = dispatches[i]
           \/ /\ c.end = "returned" => Says(c.stamps, c, i, Len(recorded'))
              /\ c.bus = "publishing" => ~Carries(c.envelope, "Handled")
    <2> SUFFICES ASSUME NEW i \in 1..(m + 1), NEW c \in {dispatches'[i]}
                 PROVE  \/ i \in DOMAIN dispatches /\ c = dispatches[i]
                        \/ /\ c.end = "returned" => Says(c.stamps, c, i, Len(recorded'))
                           /\ c.bus = "publishing" => ~Carries(c.envelope, "Handled")
      BY <1>2
    <2>1. CASE i = m + 1
      BY <1>3, <1>4, <2>1
    <2>2. CASE i # m + 1
      <3>1. i \in 1..m
        BY <1>2, <2>2
      <3> QED BY <1>2, <1>3, <3>1
    <2> QED BY <2>1, <2>2
  <1>14. RecordedTell' /\ Len(recorded) <= Len(recorded') /\ n \in Nat
         /\ \A u \in Tasks : u # t => frames'[u] = frames[u]
    BY <1>2, <1>3, <1>6
  <1> QED BY ONLY Inv, TellInv, t \in Tasks, <1>10, <1>11, <1>12, <1>13, <1>14, OthersTell

\* A dispatch ends, and with it the handler that waited for it.
LEMMA FinishesTells ==
  ASSUME Inv, TellInv, NEW t \in Tasks, frames[t] # <<>>, NEW f, f = Top(t),
         NEW d, d = dispatches[f.dispatch], NEW end, NEW x, Ends(t, end, x),
         end = "returned" => Says(x.stamps, d, f.dispatch, Len(recorded)), recorded' = recorded
  PROVE  TellInv'
  <1>1. PICK e : e = [d EXCEPT !.end = end, !.stamps = x.stamps]
    OBVIOUS
  <1>2. PICK n, b, c, g, h : \E fine \in BOOLEAN : Unstacks(t, f, e, n, b, c, fine, g, h)
    <2>1. OneLess(t, f, e)
      BY <1>1, Unstacked
    <2> QED BY <2>1 DEF OneLess
  <1>3. PICK fine \in BOOLEAN : Unstacks(t, f, e, n, b, c, fine, g, h)
    BY <1>2
  <1>4. /\ n = Len(frames[t]) /\ n \in Nat \ {0} /\ DOMAIN frames[t] = 1..n /\ f = frames[t][n]
        /\ DOMAIN frames'[t] = 1..(n - 1) /\ DOMAIN dispatches' = DOMAIN dispatches
        /\ f.dispatch \in DOMAIN dispatches
    BY <1>3 DEF Unstacks
  <1>5. /\ \A u \in Tasks : u # t => frames'[u] = frames[u]
        /\ \A k \in 1..(n - 1) : frames'[t][k] = IF k = n - 1 THEN g ELSE frames[t][k]
        /\ dispatches'[f.dispatch] = e
        /\ n > 1 => dispatches'[b.dispatch] = h
        /\ \A i \in DOMAIN dispatches : i # f.dispatch /\ ~(n > 1 /\ i = b.dispatch) =>
             dispatches'[i] = dispatches[i]
    BY <1>3 DEF Unstacks
  <1>6. RecordedTell' /\ Len(recorded') = Len(recorded) /\ Len(recorded) <= Len(recorded')
    BY SameRecord
  <1>7. /\ e.envelope = d.envelope /\ e.sentTo = d.sentTo /\ e.ran = d.ran /\ e.failed = d.failed
        /\ e.bus = d.bus /\ e.end = end /\ e.stamps = x.stamps
    <2>1. Sound(d)
      BY TopIs
    <2> QED BY <1>1, <2>1 DEF Sound, DispatchFields
  <1>8. e.end = "returned" => Says(e.stamps, e, f.dispatch, Len(recorded'))
    <2> SUFFICES ASSUME end = "returned" PROVE Says(e.stamps, e, f.dispatch, Len(recorded'))
      BY <1>7
    <2>1. Says(x.stamps, d, f.dispatch, Len(recorded'))
      BY <1>6
    <2>2. Says(x.stamps, e, f.dispatch, Len(recorded'))
      BY <1>7, <2>1, SaysSame
    <2> QED BY <1>7, <2>2
  <1>9. ASSUME n > 1
        PROVE  /\ n - 1 \in DOMAIN frames[t] /\ b = frames[t][n - 1]
               /\ b.dispatch \in DOMAIN dispatches /\ c = dispatches[b.dispatch] /\ g.dispatch = b.dispatch
               /\ Says(StampsOf(g), h, b.dispatch, Len(recorded'))
               /\ h.end # "returned" /\ h.bus = c.bus /\ h.envelope = c.envelope
    <2>1. /\ n - 1 \in DOMAIN frames[t] /\ b = frames[t][n - 1]
          /\ b.dispatch \in DOMAIN dispatches /\ c = dispatches[b.dispatch] /\ g.dispatch = b.dispatch
          /\ g = HandlerEnds(b, fine) /\ h = RanOne(c, Head(b.todo), fine)
          /\ Sound(c) /\ Fits(b, c)
      BY <1>3, <1>9 DEF Unstacks
    <2>2. b.step = "awaiting"
      <3>1. n - 1 < Len(frames[t])
        BY <1>4
      <3> QED BY <2>1, <3>1, BelowIs
    <2>3. Says(StampsOf(b), c, b.dispatch, Len(recorded'))
      BY <1>6, <2>1, FrameSays
    <2>4. Says(StampsOf(g), h, b.dispatch, Len(recorded'))
      <3>1. b.step \in {"handling", "awaiting"}
        BY <2>2
      <3> QED BY <2>1, <2>3, <3>1, HandlerTells
    <2>5. h.end = c.end /\ h.bus = c.bus /\ h.envelope = c.envelope /\ c.end = "running"
      BY <2>1 DEF RanOne, Sound, Fits, DispatchFields
    <2> QED BY <2>1, <2>4, <2>5
  <1>10. PICK l \in Nat : l = n - 1
    BY <1>4
  <1>11. \A k \in 1..(n - 1) : ~(k >= l) => k \in 1..n /\ k # n - 1
    BY <1>4, <1>10
  <1>12. \A k \in DOMAIN frames'[t] : ~(k >= l) => k \in DOMAIN frames[t] /\ frames'[t][k] = frames[t][k]
    BY <1>4, <1>5, <1>11
  <1>13. \A i \in DOMAIN dispatches :
           \/ dispatches'[i] = dispatches[i]
           \/ \E k \in DOMAIN frames[t] : k >= l /\ frames[t][k].dispatch = i
    <2> SUFFICES ASSUME NEW i \in DOMAIN dispatches, dispatches'[i] # dispatches[i]
                 PROVE  \E k \in DOMAIN frames[t] : k >= l /\ frames[t][k].dispatch = i
      OBVIOUS
    <2>1. CASE i = f.dispatch
      <3>1. n \in DOMAIN frames[t] /\ n >= l
        BY <1>4, <1>10
      <3> QED BY <1>4, <2>1, <3>1
    <2>2. CASE n > 1 /\ i = b.dispatch
      <3>1. l \in DOMAIN frames[t] /\ frames[t][l].dispatch = i /\ l >= l
        BY <1>9, <1>10, <2>2
      <3> QED BY <3>1
    <2> QED BY <1>5, <2>1, <2>2
  <1>14. \A k \in DOMAIN frames'[t] : k >= l => \A y \in {frames'[t][k]} : \A z \in {dispatches'[y.dispatch]} :
           Says(StampsOf(y), z, y.dispatch, Len(recorded'))
    <2> SUFFICES ASSUME NEW k \in 1..(n - 1), k >= l, NEW y \in {frames'[t][k]},
                        NEW z \in {dispatches'[y.dispatch]}
                 PROVE  Says(StampsOf(y), z, y.dispatch, Len(recorded'))
      BY <1>4
    <2>1. k = n - 1 /\ n > 1
      BY <1>4, <1>10
    <2>2. y = g
      BY <1>5, <2>1
    <2>3. z = h /\ y.dispatch = b.dispatch
      BY <1>5, <1>9, <2>1, <2>2
    <2> QED BY <1>9, <2>1, <2>2, <2>3
  <1>15. \A i \in DOMAIN dispatches' : \A z \in {dispatches'[i]} :
           \/ i \in DOMAIN dispatches /\ z = dispatches[i]
           \/ /\ z.end = "returned" => Says(z.stamps, z, i, Len(recorded'))
              /\ z.bus = "publishing" => ~Carries(z.envelope, "Handled")
    <2> SUFFICES ASSUME NEW i \in DOMAIN dispatches, NEW z \in {dispatches'[i]}, z # dispatches[i]
                 PROVE  /\ z.end = "returned" => Says(z.stamps, z, i, Len(recorded'))
                        /\ z.bus = "publishing" => ~Carries(z.envelope, "Handled")
      BY <1>4
    <2>1. \A j \in DOMAIN dispatches : dispatches[j].bus = "publishing" => ~Carries(dispatches[j].envelope, "Handled")
      BY DEF TellInv, PublishedFresh
    <2>2. CASE i = f.dispatch
      <3>1. z = e
        BY <1>5, <2>2
      <3> QED BY <1>4, <1>7, <1>8, <2>1, <2>2, <3>1
    <2>3. CASE n > 1 /\ i = b.dispatch
      <3>1. z = h
        BY <1>5, <2>3
      <3> QED BY <1>9, <2>1, <2>3, <3>1
    <2> QED BY <1>5, <2>2, <2>3
  <1>16. RecordedTell' /\ Len(recorded) <= Len(recorded') /\ l \in Nat
         /\ \A u \in Tasks : u # t => frames'[u] = frames[u]
    BY <1>5, <1>6
  <1> QED BY ONLY Inv, TellInv, t \in Tasks, <1>12, <1>13, <1>14, <1>15, <1>16, OthersTell

-----------------------------------------------------------------------------
(***************************************************************************)
(* Every action keeps what is told.                                        *)
(***************************************************************************)

\* The name of one stamp, and then ids: that is what was added to the stamps handed over.
LEMMA Announced ==
  ASSUME NEW before, IsSequence(before), NEW x, x.type = "Sent",
         NEW ids, IsSequence(ids), \A y \in ToSet(ids) : y.type # "Sent" /\ y.type # "Handled",
         NEW w, w = before \o <<x>>, NEW more, more = AddedBy(w \o ids, before)
  PROVE  Announces(more, x.value) /\ ToSet(ids) \subseteq ToSet(more)
  <1>1. PICK p : p = <<x>>
    OBVIOUS
  <1>2. IsSequence(p) /\ ToSet(p) = {x}
    BY <1>1, OneStamp
  <1>3. PICK q : q = p \o ids
    OBVIOUS
  <1>4. IsSequence(p)
    BY <1>2
  <1>5. IsSequence(q) /\ ToSet(q) = ToSet(p) \cup ToSet(ids)
    BY <1>3, <1>4, Joined
  <1>6. (before \o p) \o ids = before \o (p \o ids)
    BY <1>4, JoinedThrice
  <1>7. w \o ids = before \o q
    BY <1>1, <1>3, <1>6
  <1>8. AddedBy(before \o q, before) = q
    BY <1>5, AppendedTells
  <1>9. more = q
    BY <1>7, <1>8
  <1>10. Told(p, "Sent") = <<x.value>> /\ Told(p, "Handled") = <<>>
    BY <1>1, ToldOfOne
  <1>11. Told(ids, "Sent") = <<>> /\ Told(ids, "Handled") = <<>>
    BY ToldNone
  <1>12. /\ Told(p \o ids, "Sent") = Told(p, "Sent") \o Told(ids, "Sent")
         /\ Told(p \o ids, "Handled") = Told(p, "Handled") \o Told(ids, "Handled")
    BY <1>4, ToldJoined
  <1>13. PICK v : v = <<x.value>>
    OBVIOUS
  <1>14. IsSequence(v)
    BY <1>13, OneStamp
  <1>15. v \o <<>> = v
    BY <1>14, JoinedNothing
  <1>16. <<>> \o <<>> = <<>>
    BY Nothing, JoinedNothing
  <1>17. Told(q, "Sent") = <<x.value>> /\ Told(q, "Handled") = <<>>
    BY <1>3, <1>10, <1>11, <1>12, <1>13, <1>15, <1>16
  <1> QED BY <1>5, <1>9, <1>17 DEF Announces

\* The one that is being sent, and to whom.
LEMMA SendingIs ==
  ASSUME Inv, TellInv, NEW t \in Tasks, At(t, "sending"), Top(t).todo # <<>>,
         NEW f, f = Top(t), NEW d, d = dispatches[f.dispatch]
  PROVE  /\ frames[t] # <<>> /\ f.step = "sending" /\ f.dispatch \in DOMAIN dispatches
         /\ Sound(d) /\ Fits(f, d) /\ settings \in Settings
         /\ IsSequence(f.envelope.stamps) /\ IsSequence(f.added) /\ IsSequence(d.sentTo)
         /\ WellFormed(f.envelope) /\ ~Received(f.envelope) /\ ~Carries(f.envelope, "Handled")
  <1>1. /\ frames[t] # <<>> /\ f.step = "sending"
        /\ f.dispatch \in DOMAIN dispatches /\ Sound(d) /\ Fits(f, d) /\ settings \in Settings
    BY TopIs DEF At, Inv, Shape
  <1>2. Sends(f, d) /\ ~Received(d.envelope) /\ d.bus = "publishing"
    BY <1>1, SendersLeft
  <1>3. ~Carries(d.envelope, "Handled")
    BY <1>1, <1>2 DEF TellInv, PublishedFresh
  <1>4. f.envelope = d.envelope /\ IsSequence(f.added)
    BY <1>2 DEF Sends
  <1>5. IsSequence(d.sentTo)
    BY <1>1, IsSequenceOf DEF Sound
  <1>6. WellFormed(f.envelope) /\ IsSequence(f.envelope.stamps)
    BY <1>1 DEF Fits, WellFormed
  <1> QED BY <1>1, <1>2, <1>3, <1>4, <1>5, <1>6

\* The sender at hand took it, and told so.
LEMMA SentTells ==
  ASSUME Inv, TellInv, RecordedTell', Len(recorded) <= Len(recorded'),
         NEW t \in Tasks, At(t, "sending"), Top(t).todo # <<>>, NEW stamps, Sent(t, stamps),
         NEW f, f = Top(t), NEW more, more = AddedBy(stamps, f.envelope.stamps),
         NEW name, name = Head(f.todo), Announces(more, name),
         name = "remote" => RemoteId(f.dispatch) \in ToSet(f.envelope.stamps) \cup ToSet(more),
         name = "memory" => \E k \in 1..Len(recorded') : MemoryId(k) \in ToSet(more)
  PROVE  TellInv'
  <1>1. PICK d : d = dispatches[f.dispatch]
    OBVIOUS
  <1>2. /\ frames[t] # <<>> /\ f.step = "sending"
        /\ f.dispatch \in DOMAIN dispatches /\ Sound(d) /\ Fits(f, d)
        /\ IsSequence(f.envelope.stamps) /\ IsSequence(f.added) /\ IsSequence(d.sentTo)
    BY <1>1, SendingIs
  <1>3. PICK g : g = [f EXCEPT !.todo = Tail(@), !.added = @ \o more]
    OBVIOUS
  <1>4. PICK e : e = [d EXCEPT !.sentTo = Append(@, name)]
    OBVIOUS
  <1>5. Becomes(t, g) /\ dispatches' = [dispatches EXCEPT ![f.dispatch] = e]
    BY <1>1, <1>3, <1>4 DEF Sent
  <1>6. /\ g.dispatch = f.dispatch /\ g.step = "sending" /\ g.envelope = f.envelope
        /\ g.added = f.added \o more
    BY <1>2, <1>3 DEF Fits, FrameFields
  <1>7. /\ e.envelope = d.envelope /\ e.bus = d.bus /\ e.end = d.end /\ e.ran = d.ran /\ e.failed = d.failed
        /\ e.sentTo = Append(d.sentTo, name)
    BY <1>2, <1>4 DEF Sound, DispatchFields
  <1>8. PICK s : s = StampsOf(f)
    OBVIOUS
  <1>9. PICK u : u = f.envelope.stamps
    OBVIOUS
  <1>10. PICK a : a = f.added
    OBVIOUS
  <1>11. IsSequence(u) /\ IsSequence(a) /\ IsSequence(more)
    BY <1>2, <1>9, <1>10 DEF Announces
  <1>12. s = u \o a
    BY <1>2, <1>8, <1>9, <1>10 DEF StampsOf
  <1>13. (u \o a) \o more = u \o (a \o more)
    BY <1>11, JoinedThrice
  <1>14. StampsOf(g) = s \o more
    BY <1>6, <1>9, <1>10, <1>12, <1>13 DEF StampsOf
  <1>15. ToSet(u) \subseteq ToSet(s)
    <2>1. ToSet(u \o a) = ToSet(u) \cup ToSet(a)
      BY <1>11, Joined
    <2> QED BY <1>12, <2>1
  <1>16. Says(s, d, f.dispatch, Len(recorded))
    BY <1>1, <1>2, <1>8, TopSays
  <1>17. PICK i : i = f.dispatch
    OBVIOUS
  <1>18. PICK n : n = Len(recorded)
    OBVIOUS
  <1>19. PICK m : m = Len(recorded')
    OBVIOUS
  <1>20. n \in Nat /\ m \in Nat /\ n <= m
    BY <1>18, <1>19, PlacesOf DEF TellInv, RecordedTell
  <1>21. /\ name = "remote" => RemoteId(i) \in ToSet(s) \cup ToSet(more)
         /\ name = "memory" => \E k \in 1..m : MemoryId(k) \in ToSet(more)
    BY <1>9, <1>15, <1>17, <1>19
  <1>22. Says(s, d, i, n) /\ IsSequence(d.envelope.stamps)
    BY <1>2, <1>16, <1>17, <1>18 DEF Sound, WellFormed
  <1>23. Says(s \o more, e, i, m)
    BY ONLY Announces(more, name), <1>2, <1>7, <1>20, <1>21, <1>22, SaysSent
  <1>24. Says(StampsOf(g), e, f.dispatch, Len(recorded'))
    BY <1>14, <1>17, <1>19, <1>23
  <1>25. frames[t] # <<>> /\ g.dispatch = f.dispatch /\ e.envelope = d.envelope /\ e.bus = d.bus /\ e.end = d.end
    BY <1>2, <1>6, <1>7
  <1> QED BY ONLY Inv, TellInv, RecordedTell', Len(recorded) <= Len(recorded'), t \in Tasks, f = Top(t),
                  <1>1, <1>5, <1>24, <1>25, TopTells

\* What is handed to it: the stamps of the frame, and one that names it.
LEMMA HandedIs ==
  ASSUME NEW t, WellFormed(Top(t).envelope), NEW x, x = Stamp("Sent", Head(Top(t).todo))
  PROVE  Stamped(t).stamps = Top(t).envelope.stamps \o <<x>>
  <1>1. PICK p : p = <<x>>
    OBVIOUS
  <1>2. IsSequence(p)
    BY <1>1, OneStamp
  <1>3. WithStamps(Top(t).envelope, p).stamps = Top(t).envelope.stamps \o p
    BY <1>2, Stamping
  <1> QED BY <1>1, <1>3 DEF Stamped

\* A sync transport hands the envelope back received, to be handled here.
LEMMA SendDirectlyTells ==
  ASSUME Inv, TellInv, NEW t \in Tasks, SendDirectly(t)
  PROVE  TellInv'
  <1>1. PICK f : f = Top(t)
    OBVIOUS
  <1>2. PICK y : y = Stamp("Received", "direct")
    OBVIOUS
  <1>3. PICK w : w = Stamped(t).stamps
    OBVIOUS
  <1>4. /\ At(t, "sending") /\ Top(t).todo # <<>> /\ Head(f.todo) = "direct"
        /\ Sent(t, Append(w, y)) /\ recorded' = recorded
    BY <1>1, <1>2, <1>3 DEF SendDirectly
  <1>5. PICK d : d = dispatches[f.dispatch]
    OBVIOUS
  <1>6. WellFormed(f.envelope) /\ IsSequence(f.envelope.stamps)
    BY <1>1, <1>4, <1>5, SendingIs
  <1>7. PICK x : x = Stamp("Sent", "direct")
    OBVIOUS
  <1>8. x.type = "Sent" /\ x.value = "direct" /\ y.type = "Received"
    BY <1>2, <1>7 DEF Stamp
  <1>9. PICK before : before = f.envelope.stamps
    OBVIOUS
  <1>10. w = before \o <<x>>
    BY <1>1, <1>3, <1>4, <1>6, <1>7, <1>9, HandedIs
  <1>11. PICK ids : ids = <<y>>
    OBVIOUS
  <1>12. IsSequence(ids) /\ ToSet(ids) = {y}
    BY <1>11, OneStamp
  <1>13. Append(w, y) = w \o ids
    <2>1. IsSequence(w)
      <3>1. PICK p : p = <<x>>
        OBVIOUS
      <3>2. IsSequence(p) /\ IsSequence(before)
        BY <1>6, <1>9, <3>1, OneStamp
      <3>3. IsSequence(before \o p)
        BY <3>2, Joined
      <3> QED BY <1>10, <3>1, <3>3
    <2>2. w \in Seq(ToSet(w) \cup {y})
      BY <2>1, SeqMonotonic DEF IsSequence
    <2> QED BY <1>11, <2>2, AppendIsConcat
  <1>14. PICK more : more = AddedBy(w \o ids, before)
    OBVIOUS
  <1>15. Announces(more, "direct")
    <2>1. IsSequence(before) /\ IsSequence(ids) /\ \A z \in ToSet(ids) : z.type # "Sent" /\ z.type # "Handled"
      BY <1>6, <1>8, <1>9, <1>12
    <2>2. Announces(more, x.value)
      BY <1>8, <1>10, <1>14, <2>1, Announced
    <2> QED BY <1>8, <2>2
  <1>16. RecordedTell' /\ Len(recorded) <= Len(recorded')
    BY <1>4, SameRecord
  <1>17. Sent(t, w \o ids)
    BY <1>4, <1>13
  <1>18. PICK stamps : stamps = w \o ids
    OBVIOUS
  <1>19. PICK name : name = "direct"
    OBVIOUS
  <1>20. Sent(t, stamps) /\ more = AddedBy(stamps, f.envelope.stamps) /\ Announces(more, name)
         /\ name = Head(f.todo) /\ name # "remote" /\ name # "memory"
    BY <1>4, <1>9, <1>14, <1>15, <1>17, <1>18, <1>19
  <1> QED BY <1>1, <1>4, <1>16, <1>20, SentTells

\* The broker gives what it takes an id of its own.
LEMMA SendAwayTells ==
  ASSUME Inv, TellInv, NEW t \in Tasks, SendAway(t)
  PROVE  TellInv'
  <1>1. PICK f : f = Top(t)
    OBVIOUS
  <1>2. PICK y : y = RemoteId(f.dispatch)
    OBVIOUS
  <1>3. PICK w : w = Stamped(t).stamps
    OBVIOUS
  <1>4. PICK ids : ids = <<y>>
    OBVIOUS
  <1>5. /\ At(t, "sending") /\ Top(t).todo # <<>> /\ Head(f.todo) = "remote"
        /\ Sent(t, w \o ids) \/ Sent(t, ids \o w)
        /\ recorded' = recorded
    BY <1>1, <1>2, <1>3, <1>4 DEF SendAway, RemoteId
  <1>6. PICK d : d = dispatches[f.dispatch]
    OBVIOUS
  <1>7. WellFormed(f.envelope) /\ IsSequence(f.envelope.stamps)
    BY <1>1, <1>5, <1>6, SendingIs
  <1>8. PICK x : x = Stamp("Sent", "remote")
    OBVIOUS
  <1>9. x.type = "Sent" /\ x.value = "remote" /\ y.type = "MessageId"
    BY <1>2, <1>8 DEF Stamp, RemoteId
  <1>10. PICK before : before = f.envelope.stamps
    OBVIOUS
  <1>11. w = before \o <<x>>
    BY <1>1, <1>3, <1>5, <1>7, <1>8, <1>10, HandedIs
  <1>12. IsSequence(ids) /\ ToSet(ids) = {y} /\ IsSequence(before)
    BY <1>4, <1>7, <1>10, OneStamp
  <1>13. RecordedTell' /\ Len(recorded) <= Len(recorded')
    BY <1>5, SameRecord
  <1>14. PICK name : name = "remote"
    OBVIOUS
  <1>15. name = Head(f.todo) /\ name # "memory"
    BY <1>5, <1>14
  <1>16. CASE Sent(t, w \o ids)
    <2>1. PICK more : more = AddedBy(w \o ids, before)
      OBVIOUS
    <2>2. Announces(more, x.value) /\ ToSet(ids) \subseteq ToSet(more)
      <3>1. IsSequence(before) /\ IsSequence(ids) /\ \A z \in ToSet(ids) : z.type # "Sent" /\ z.type # "Handled"
        BY <1>9, <1>12
      <3> QED BY <1>9, <1>11, <2>1, <3>1, Announced
    <2>3. Announces(more, name) /\ RemoteId(f.dispatch) \in ToSet(f.envelope.stamps) \cup ToSet(more)
      BY <1>2, <1>9, <1>12, <1>14, <2>2
    <2>4. PICK stamps : stamps = w \o ids
      OBVIOUS
    <2>5. Sent(t, stamps) /\ more = AddedBy(stamps, f.envelope.stamps)
      BY <1>10, <1>16, <2>1, <2>4
    <2> QED BY <1>1, <1>5, <1>13, <1>15, <2>3, <2>5, SentTells
  <1>17. CASE Sent(t, ids \o w)
    <2>1. PICK stamps : stamps = ids \o w
      OBVIOUS
    <2>2. PICK more : more = AddedBy(stamps, before)
      OBVIOUS
    <2>3. stamps = <<y>> \o (before \o <<x>>)
      BY <1>4, <1>11, <2>1
    <2>4. IsSequence(stamps) /\ y \in ToSet(stamps) /\ Told(more, "Sent") = Told(<<x>>, "Sent")
      <3>1. y.type # "Sent"
        BY <1>9
      <3>2. /\ IsSequence(<<y>> \o (before \o <<x>>)) /\ y \in ToSet(<<y>> \o (before \o <<x>>))
            /\ Told(AddedBy(<<y>> \o (before \o <<x>>), before), "Sent") = Told(<<x>>, "Sent")
        BY <1>12, <3>1, AroundTells
      <3> QED BY <2>2, <2>3, <3>2
    <2>5. Told(more, "Handled") = Told(<<x>>, "Handled")
      <3>1. y.type # "Handled"
        BY <1>9
      <3>2. Told(AddedBy(<<y>> \o (before \o <<x>>), before), "Handled") = Told(<<x>>, "Handled")
        BY <1>12, <3>1, AroundTells
      <3> QED BY <2>2, <2>3, <3>2
    <2>6. Told(<<x>>, "Sent") = <<"remote">> /\ Told(<<x>>, "Handled") = <<>>
      BY <1>9, ToldOfOne
    <2>7. IsSequence(more) /\ \A z \in ToSet(stamps) : z \notin ToSet(before) => z \in ToSet(more)
      BY <1>12, <2>2, <2>4, AddedIs
    <2>8. Announces(more, name)
      BY <1>14, <2>4, <2>5, <2>6, <2>7 DEF Announces
    <2>9. RemoteId(f.dispatch) \in ToSet(f.envelope.stamps) \cup ToSet(more)
      BY <1>2, <1>10, <2>4, <2>7
    <2>10. Sent(t, stamps) /\ more = AddedBy(stamps, f.envelope.stamps)
      BY <1>10, <1>17, <2>1, <2>2
    <2> QED BY <1>1, <1>5, <1>13, <1>15, <2>8, <2>9, <2>10, SentTells
  <1> QED BY <1>5, <1>16, <1>17

\* All the ids of an envelope, of which one.
LEMMA AllIds ==
  ASSUME NEW e, WellFormed(e), NEW x, x.type = "MessageId", NEW w, w = WithStamps(e, <<x>>),
         NEW ids, ids = AllStamps(w, "MessageId")
  PROVE  IsSequence(ids) /\ x \in ToSet(ids) /\ \A y \in ToSet(ids) : y.type = "MessageId"
  <1>1. PICK p : p = <<x>>
    OBVIOUS
  <1>2. IsSequence(p) /\ ToSet(p) = {x}
    BY <1>1, OneStamp
  <1>3. IsSequence(p)
    BY <1>2
  <1>4. WellFormed(w) /\ ToSet(w.stamps) = ToSet(e.stamps) \cup ToSet(p)
    BY <1>1, <1>3, Stamping
  <1>5. IsSequence(w.stamps)
    BY <1>4 DEF WellFormed
  <1> DEFINE places == {i \in DOMAIN w.stamps : IsA(w.stamps[i], "MessageId")}
  <1>6. ids = Picked(w.stamps, places)
    BY DEF AllStamps
  <1>7. places \subseteq DOMAIN w.stamps /\ \A i \in places : w.stamps[i].type = "MessageId"
    BY DEF IsA
  <1>8. PICK i \in DOMAIN w.stamps : w.stamps[i] = x
    BY <1>2, <1>4 DEF ToSet
  <1>9. i \in places
    BY <1>8 DEF IsA
  <1> HIDE DEF places
  <1>10. IsSequence(Picked(w.stamps, places)) /\ ToSet(Picked(w.stamps, places)) = {w.stamps[j] : j \in places}
    BY <1>5, <1>7, PickedOf
  <1> QED BY <1>6, <1>7, <1>8, <1>9, <1>10

\* One more was recorded, which tells of itself.
LEMMA OneMoreTells ==
  ASSUME TellInv, NEW put, recorded' = Append(recorded, put), Tells(put, Len(recorded) + 1)
  PROVE  RecordedTell' /\ Len(recorded') = Len(recorded) + 1 /\ Len(recorded) <= Len(recorded')
  <1>1. PICK n : n = Len(recorded)
    OBVIOUS
  <1>2. IsSequence(recorded) /\ n \in Nat /\ DOMAIN recorded = 1..n
    BY <1>1, PlacesOf DEF TellInv, RecordedTell
  <1>3. PICK r : r = Append(recorded, put)
    OBVIOUS
  <1>4. /\ IsSequence(r) /\ Len(r) = n + 1 /\ DOMAIN r = 1..(n + 1)
        /\ (\A k \in 1..n : r[k] = recorded[k]) /\ r[n + 1] = put
    BY <1>1, <1>2, <1>3, Appended
  <1>5. \A k \in DOMAIN r : Tells(r[k], k)
    <2> SUFFICES ASSUME NEW k \in 1..(n + 1) PROVE Tells(r[k], k)
      BY <1>4
    <2>1. CASE k = n + 1
      BY <1>1, <1>4, <2>1
    <2>2. CASE k # n + 1
      <3>1. k \in 1..n
        BY <1>2, <2>2
      <3>2. Tells(recorded[k], k)
        BY <1>2, <3>1 DEF TellInv, RecordedTell
      <3> QED BY <1>4, <3>1, <3>2
    <2> QED BY <2>1, <2>2
  <1>6. RecordedTell'
    BY <1>3, <1>4, <1>5 DEF RecordedTell
  <1> QED BY <1>1, <1>2, <1>3, <1>4, <1>6

\* The in-memory transport records what it takes, with an id of its own.
LEMMA SendToMemoryTells ==
  ASSUME Inv, TellInv, NEW t \in Tasks, SendToMemory(t)
  PROVE  TellInv'
  <1>1. PICK f : f = Top(t)
    OBVIOUS
  <1>2. PICK k : k = Len(recorded) + 1
    OBVIOUS
  <1>3. PICK y : y = MemoryId(k)
    OBVIOUS
  <1>4. PICK s : s = Stamped(t)
    OBVIOUS
  <1>5. PICK serializes \in BOOLEAN : serializes <=> settings.serializes
    OBVIOUS
  <1>6. PICK kept : kept = IF settings.serializes THEN RoundTripped(s, DefaultStamps) ELSE s
    OBVIOUS
  <1>7. PICK put : put = WithStamps(kept, <<y>>)
    OBVIOUS
  <1>8. PICK ids : ids = AllStamps(put, "MessageId")
    OBVIOUS
  <1>9. /\ At(t, "sending") /\ Top(t).todo # <<>> /\ Head(f.todo) = "memory"
        /\ recorded' = Append(recorded, put) /\ Sent(t, s.stamps \o ids)
    BY <1>1, <1>2, <1>3, <1>4, <1>6, <1>7, <1>8 DEF SendToMemory, MemoryId
  <1>10. PICK d : d = dispatches[f.dispatch]
    OBVIOUS
  <1>11. PICK e : e = f.envelope
    OBVIOUS
  <1>12. WellFormed(e) /\ IsSequence(e.stamps) /\ ~Received(e) /\ ~Carries(e, "Handled")
    BY <1>1, <1>9, <1>10, <1>11, SendingIs
  <1>13. PICK x : x = Stamp("Sent", "memory")
    OBVIOUS
  <1>14. x.type = "Sent" /\ x.value = "memory" /\ y.type = "MessageId"
    BY <1>3, <1>13 DEF Stamp, MemoryId
  <1>15. PICK before : before = e.stamps
    OBVIOUS
  <1>16. PICK w : w = s.stamps
    OBVIOUS
  <1>17. w = before \o <<x>>
    BY <1>1, <1>4, <1>9, <1>11, <1>12, <1>13, <1>15, <1>16, HandedIs
  <1>18. WellFormed(kept) /\ Tells(put, k)
    <2>1. s = WithStamps(e, <<Stamp("Sent", "memory")>>)
      BY <1>1, <1>4, <1>9, <1>11 DEF Stamped
    <2>2. kept = IF serializes THEN RoundTripped(s, DefaultStamps) ELSE s
      BY <1>5, <1>6
    <2>3. put = WithStamps(kept, <<Stamp("MessageId", <<"memory", k>>)>>)
      BY <1>3, <1>7 DEF MemoryId
    <2> QED BY ONLY serializes \in BOOLEAN, <1>12, <2>1, <2>2, <2>3, PutTells
  <1>19. IsSequence(ids) /\ y \in ToSet(ids) /\ \A z \in ToSet(ids) : z.type = "MessageId"
    BY <1>7, <1>8, <1>14, <1>18, AllIds
  <1>20. PICK more : more = AddedBy(w \o ids, before)
    OBVIOUS
  <1>21. Announces(more, x.value) /\ ToSet(ids) \subseteq ToSet(more)
    <2>1. IsSequence(before) /\ IsSequence(ids) /\ \A z \in ToSet(ids) : z.type # "Sent" /\ z.type # "Handled"
      BY <1>12, <1>15, <1>19
    <2> QED BY <1>14, <1>17, <1>20, <2>1, Announced
  <1>22. RecordedTell' /\ Len(recorded') = k /\ Len(recorded) <= Len(recorded')
    BY <1>2, <1>9, <1>18, OneMoreTells
  <1>23. k \in 1..Len(recorded')
    <2>1. Len(recorded) \in Nat
      BY PlacesOf DEF TellInv, RecordedTell
    <2> QED BY <1>2, <1>22, <2>1
  <1>24. \E i \in 1..Len(recorded') : MemoryId(i) \in ToSet(more)
    BY <1>3, <1>19, <1>21, <1>23
  <1>25. PICK name : name = "memory"
    OBVIOUS
  <1>26. PICK stamps : stamps = w \o ids
    OBVIOUS
  <1>27. /\ name = Head(f.todo) /\ name # "remote" /\ Announces(more, name)
         /\ Sent(t, stamps) /\ more = AddedBy(stamps, f.envelope.stamps)
    BY <1>9, <1>11, <1>14, <1>15, <1>16, <1>20, <1>21, <1>25, <1>26
  <1>28. RecordedTell' /\ Len(recorded) <= Len(recorded')
    BY <1>22
  <1> QED BY ONLY Inv, TellInv, t \in Tasks, <1>1, <1>9, <1>24, <1>27, <1>28, SentTells

\* A send that fails ends the dispatch, which then returns nothing.
LEMMA SendFailsTells ==
  ASSUME Inv, TellInv, NEW t \in Tasks, SendFails(t)
  PROVE  TellInv'
  <1>1. PICK f : f = Top(t)
    OBVIOUS
  <1>2. PICK d : d = dispatches[f.dispatch]
    OBVIOUS
  <1>3. frames[t] # <<>> /\ Ends(t, "raised", f.envelope) /\ recorded' = recorded
    BY <1>1 DEF SendFails, At
  <1> QED BY <1>1, <1>2, <1>3, FinishesTells

\* Once sent wherever it goes, an envelope has the stamps that were added on the way.
LEMMA RoutedTells ==
  ASSUME Inv, TellInv, NEW t \in Tasks, Routed(t)
  PROVE  TellInv'
  <1>1. PICK f : f = Top(t)
    OBVIOUS
  <1>2. PICK d : d = dispatches[f.dispatch]
    OBVIOUS
  <1>3. PICK x : x = WithStamps(f.envelope, f.added)
    OBVIOUS
  <1>4. PICK on \in BOOLEAN :
          on <=> IF d.sentTo # <<>> THEN Received(x) ELSE ~settings.requireSender /\ settings.handleUnrouted
    OBVIOUS
  <1>5. PICK end : end = IF d.sentTo = <<>> /\ settings.requireSender THEN "raised" ELSE "returned"
    OBVIOUS
  <1>6. PICK g : g = [f EXCEPT !.envelope = x, !.step = "next"]
    OBVIOUS
  <1>7. frames[t] # <<>> /\ f.step = "sending" /\ recorded' = recorded
    BY <1>1 DEF Routed, At
  <1>8. IF on THEN Becomes(t, g) /\ dispatches' = dispatches ELSE Ends(t, end, x)
    BY <1>1, <1>2, <1>3, <1>4, <1>5, <1>6 DEF Routed
  <1>9. Sound(d) /\ Fits(f, d) /\ settings \in Settings
    BY <1>1, <1>2, <1>7, TopIs DEF Inv, Shape
  <1>10. IsSequence(f.added) /\ WellFormed(f.envelope)
    BY <1>7, <1>9, SendersLeft DEF Sends, Fits
  <1>11. x.stamps = f.envelope.stamps \o f.added
    BY <1>3, <1>10, Stamping
  <1>12. StampsOf(f) = x.stamps
    BY <1>7, <1>11 DEF StampsOf
  <1>13. CASE on
    <2>1. Becomes(t, g) /\ dispatches' = dispatches
      BY <1>8, <1>13
    <2>2. g.dispatch = f.dispatch /\ g.envelope = x /\ g.step = "next"
      BY <1>6, <1>9 DEF Fits, FrameFields
    <2>3. StampsOf(g) = StampsOf(f)
      BY <1>12, <2>2 DEF StampsOf
    <2>4. g.dispatch = f.dispatch
      BY <2>2
    <2> QED BY <1>1, <1>2, <1>7, <2>1, <2>3, <2>4, FrameTells
  <1>14. CASE ~on
    <2>1. Ends(t, end, x)
      BY <1>8, <1>14
    <2>2. Says(x.stamps, d, f.dispatch, Len(recorded))
      BY <1>1, <1>2, <1>7, <1>12, TopSays
    <2> QED BY <1>1, <1>2, <1>7, <2>1, <2>2, FinishesTells
  <1> QED BY <1>13, <1>14

\* Entering a middleware, or leaving the last, adds no stamp.
LEMMA AdvanceTells ==
  ASSUME Inv, TellInv, NEW t \in Tasks, Advance(t)
  PROVE  TellInv'
  <1>1. PICK f : f = Top(t)
    OBVIOUS
  <1>2. PICK d : d = dispatches[f.dispatch]
    OBVIOUS
  <1>3. frames[t] # <<>> /\ f.step = "next" /\ recorded' = recorded
    BY <1>1 DEF Advance, At
  <1>4. /\ f.dispatch \in DOMAIN dispatches /\ Sound(d) /\ Fits(f, d) /\ settings \in Settings
    BY <1>1, <1>2, <1>3, TopIs DEF Inv, Shape
  <1>5. DOMAIN f = FrameFields /\ f.bus \in {"publishing", "working"}
    BY <1>4 DEF Fits, Sound
  <1>6. \/ f.offset = 0
        \/ f.offset = 1 /\ f.bus = "publishing"
        \/ f.offset = IF f.bus = "publishing" THEN 2 ELSE 1
        \/ f.offset = IF f.bus = "publishing" THEN 3 ELSE 2
    BY <1>3, <1>4 DEF Fits, Starts, Sends, Arrives, Handles
  <1>7. IF f.offset = Len(Chain(f.bus)) THEN Ends(t, "returned", f.envelope) /\ UNCHANGED units
        ELSE CASE Chain(f.bus)[f.offset + 1] = "unit" -> EntersUnit(t, f)
               [] Chain(f.bus)[f.offset + 1] = "send" ->
                    /\ Becomes(t, IF Received(f.envelope) THEN [f EXCEPT !.offset = @ + 1]
                                  ELSE [[f EXCEPT !.offset = @ + 1]
                                          EXCEPT !.step = "sending", !.todo = SendersFor(f.envelope)])
                    /\ UNCHANGED <<dispatches, units>>
               [] OTHER ->
                    IF HandlersFor(f.envelope.message.type) = <<>> /\ settings.requireHandler
                    THEN Ends(t, "raised", f.envelope) /\ UNCHANGED units
                    ELSE /\ Becomes(t, [[f EXCEPT !.offset = @ + 1]
                                          EXCEPT !.step = "handling",
                                                 !.todo = HandlersFor(f.envelope.message.type)])
                         /\ UNCHANGED <<dispatches, units>>
    BY <1>1, Zenon DEF Advance
  <1>8. Says(StampsOf(f), d, f.dispatch, Len(recorded)) /\ StampsOf(f) = f.envelope.stamps
    BY <1>1, <1>2, <1>3, TopSays DEF StampsOf
  <1>9. CASE f.offset = 0
    <2>1. EntersUnit(t, f)
      <3>1. f.offset # Len(Chain(f.bus)) /\ Chain(f.bus)[f.offset + 1] = "unit"
        BY <1>5, <1>9, ChainIs
      <3> QED BY <1>7, <3>1, Zenon
    <2>2. PICK u : u = IF Received(f.envelope) \/ f.unit = 0 THEN units + 1 ELSE f.unit
      OBVIOUS
    <2>3. PICK g : g = [f EXCEPT !.unit = u, !.offset = 1]
      OBVIOUS
    <2>4. PICK e : e = [d EXCEPT !.unit = u]
      OBVIOUS
    <2>5. Becomes(t, g) /\ dispatches' = [dispatches EXCEPT ![f.dispatch] = e]
      <3>1. EntersUnit(t, f) =
              /\ units' = IF Received(f.envelope) \/ f.unit = 0 THEN units + 1 ELSE units
              /\ Becomes(t, [f EXCEPT !.unit = u, !.offset = 1])
              /\ dispatches' = [dispatches EXCEPT ![f.dispatch].unit = u]
        BY <2>2, Zenon DEF EntersUnit
      <3> QED BY <1>2, <2>1, <2>3, <2>4, <3>1
    <2>6. g.dispatch = f.dispatch /\ g.step = "next" /\ g.envelope = f.envelope
      BY <1>3, <1>5, <2>3 DEF FrameFields
    <2>7. /\ e.envelope = d.envelope /\ e.sentTo = d.sentTo /\ e.ran = d.ran /\ e.failed = d.failed
          /\ e.bus = d.bus /\ e.end = d.end
      BY <1>4, <2>4 DEF Sound, DispatchFields
    <2>8. RecordedTell' /\ Len(recorded') = Len(recorded) /\ Len(recorded) <= Len(recorded')
      BY <1>3, SameRecord
    <2>9. Says(StampsOf(g), e, f.dispatch, Len(recorded'))
      <3>1. StampsOf(g) = StampsOf(f)
        BY <1>3, <2>6 DEF StampsOf
      <3>2. Says(StampsOf(f), e, f.dispatch, Len(recorded))
        BY <1>8, <2>7, SaysSame
      <3> QED BY <2>8, <3>1, <3>2
    <2>10. RecordedTell' /\ Len(recorded) <= Len(recorded')
      BY <2>8
    <2>11. g.dispatch = f.dispatch /\ e.envelope = d.envelope /\ e.bus = d.bus /\ e.end = d.end /\ frames[t] # <<>>
      BY <1>3, <2>6, <2>7
    <2> QED BY ONLY Inv, TellInv, t \in Tasks, <1>1, <1>2, <2>5, <2>9, <2>10, <2>11, TopTells
  <1>10. CASE f.offset = 1 /\ f.bus = "publishing"
    <2>1. f.offset # Len(Chain(f.bus)) /\ Chain(f.bus)[f.offset + 1] = "send"
      BY <1>10, ChainIs
    <2>2. PICK g : g = [[f EXCEPT !.offset = @ + 1] EXCEPT !.step = "sending", !.todo = SendersFor(f.envelope)]
      OBVIOUS
    <2>3. Fits(g, d) /\ ~Received(f.envelope)
      BY <1>3, <1>4, <1>10, <2>2, ComesToSend
    <2>4. Becomes(t, g) /\ dispatches' = dispatches
      <3>1. "send" # "unit"
        OBVIOUS
      <3>2. /\ Becomes(t, IF Received(f.envelope) THEN [f EXCEPT !.offset = @ + 1]
                          ELSE [[f EXCEPT !.offset = @ + 1]
                                  EXCEPT !.step = "sending", !.todo = SendersFor(f.envelope)])
            /\ UNCHANGED <<dispatches, units>>
        BY <1>7, <2>1, <3>1, Zenon
      <3> QED BY <2>2, <2>3, <3>2
    <2>5. g.dispatch = f.dispatch /\ g.step = "sending" /\ g.added = f.added /\ g.envelope = f.envelope
      BY <1>5, <2>2 DEF FrameFields
    <2>6. f.added = <<>>
      BY <1>3, <1>4, <1>10 DEF Fits, Starts, Sends, Arrives, Handles
    <2>7. f.envelope.stamps \o <<>> = f.envelope.stamps
      <3>1. IsSequence(f.envelope.stamps)
        BY <1>4 DEF Fits, WellFormed
      <3> QED BY <3>1, JoinedNothing
    <2>8. StampsOf(g) = StampsOf(f)
      BY <1>8, <2>5, <2>6, <2>7 DEF StampsOf
    <2>9. g.dispatch = f.dispatch
      BY <2>5
    <2> QED BY <1>1, <1>2, <1>3, <2>4, <2>8, <2>9, FrameTells
  <1>11. CASE f.offset = IF f.bus = "publishing" THEN 2 ELSE 1
    <2>1. /\ f.offset # Len(Chain(f.bus)) /\ Chain(f.bus)[f.offset + 1] # "send"
          /\ Chain(f.bus)[f.offset + 1] # "unit"
      <3>1. CASE f.bus = "publishing"
        BY <1>11, <3>1, ChainIs
      <3>2. CASE f.bus = "working"
        BY <1>11, <3>2, ChainIs
      <3> QED BY <1>5, <3>1, <3>2
    <2>2. PICK g : g = [[f EXCEPT !.offset = @ + 1] EXCEPT !.step = "handling",
                                                          !.todo = HandlersFor(f.envelope.message.type)]
      OBVIOUS
    <2>3. \/ Ends(t, "raised", f.envelope)
          \/ Becomes(t, g) /\ dispatches' = dispatches
      BY <1>7, <2>1, <2>2, Zenon
    <2>4. CASE Ends(t, "raised", f.envelope)
      BY <1>1, <1>2, <1>3, <2>4, FinishesTells
    <2>5. CASE Becomes(t, g) /\ dispatches' = dispatches
      <3>1. g.dispatch = f.dispatch /\ g.step = "handling" /\ g.envelope = f.envelope
        BY <1>5, <2>2 DEF FrameFields
      <3>2. StampsOf(g) = StampsOf(f) /\ g.dispatch = f.dispatch
        BY <1>8, <3>1 DEF StampsOf
      <3> QED BY <1>1, <1>2, <1>3, <2>5, <3>2, FrameTells
    <2> QED BY <2>3, <2>4, <2>5
  <1>12. CASE f.offset = IF f.bus = "publishing" THEN 3 ELSE 2
    <2>1. f.offset = Len(Chain(f.bus))
      BY <1>5, <1>12, ChainIs
    <2>2. Ends(t, "returned", f.envelope)
      BY <1>7, <2>1, Zenon
    <2>3. Says(f.envelope.stamps, d, f.dispatch, Len(recorded))
      BY <1>8
    <2> QED BY <1>1, <1>2, <1>3, <2>2, <2>3, FinishesTells
  <1> QED BY <1>6, <1>9, <1>10, <1>11, <1>12

\* A handler that returns or raises.
LEMMA HandlerReturnsTells ==
  ASSUME Inv, TellInv, NEW t \in Tasks, HandlerReturns(t)
  PROVE  TellInv'
  <1>1. PICK f : f = Top(t)
    OBVIOUS
  <1>2. PICK d : d = dispatches[f.dispatch]
    OBVIOUS
  <1>3. frames[t] # <<>> /\ f.step = "handling" /\ f.todo # <<>> /\ recorded' = recorded
    BY <1>1 DEF HandlerReturns, Handling, At
  <1>4. PICK ok \in BOOLEAN :
          /\ Becomes(t, HandlerEnds(f, ok))
          /\ dispatches' = [dispatches EXCEPT ![f.dispatch].ran = Append(@, Head(f.todo)),
               ![f.dispatch].failed = IF ok THEN @ ELSE @ \cup {Head(f.todo)}]
    BY <1>1, Zenon DEF HandlerReturns
  <1>5. PICK g : g = HandlerEnds(f, ok)
    OBVIOUS
  <1>6. PICK e : e = RanOne(d, Head(f.todo), ok)
    OBVIOUS
  <1>7. f.dispatch \in DOMAIN dispatches /\ Sound(d) /\ Fits(f, d) /\ settings \in Settings
    BY <1>1, <1>2, <1>3, TopIs DEF Inv, Shape
  <1>8. g.dispatch = f.dispatch
    <2>1. f.step \in {"handling", "awaiting"} /\ f.todo # <<>>
      BY <1>3
    <2> QED BY <1>5, <1>6, <1>7, <2>1, HandlesOne
  <1>9. Becomes(t, g)
    BY <1>4, <1>5
  <1>10. dispatches' = [dispatches EXCEPT ![f.dispatch] = e]
    <2>1. PICK h : h = Head(f.todo)
      OBVIOUS
    <2>2. CASE ok
      BY <1>2, <1>4, <1>6, <1>7, <2>1, <2>2 DEF Sound, DispatchFields, RanOne
    <2>3. CASE ~ok
      BY <1>2, <1>4, <1>6, <1>7, <2>1, <2>3 DEF Sound, DispatchFields, RanOne
    <2> QED BY <2>2, <2>3
  <1>11. e.envelope = d.envelope /\ e.bus = d.bus /\ e.end = d.end
    BY <1>6, <1>7 DEF Sound, DispatchFields, RanOne
  <1>12. RecordedTell' /\ Len(recorded') = Len(recorded) /\ Len(recorded) <= Len(recorded')
    BY <1>3, SameRecord
  <1>13. Says(StampsOf(g), e, f.dispatch, Len(recorded'))
    <2>1. Says(StampsOf(f), d, f.dispatch, Len(recorded'))
      BY <1>1, <1>2, <1>3, <1>12, TopSays
    <2>2. f.step \in {"handling", "awaiting"}
      BY <1>3
    <2> QED BY <1>5, <1>6, <1>7, <2>1, <2>2, HandlerTells
  <1>14. RecordedTell' /\ Len(recorded) <= Len(recorded') /\ frames[t] # <<>>
    BY <1>3, <1>12
  <1> QED BY ONLY Inv, TellInv, t \in Tasks, <1>1, <1>2, <1>8, <1>9, <1>10, <1>11, <1>13, <1>14, TopTells

\* Once all handlers ran, the dispatch returns if none failed, and raises otherwise.
LEMMA HandlersRanTells ==
  ASSUME Inv, TellInv, NEW t \in Tasks, HandlersRan(t)
  PROVE  TellInv'
  <1>1. PICK f : f = Top(t)
    OBVIOUS
  <1>2. PICK d : d = dispatches[f.dispatch]
    OBVIOUS
  <1>3. PICK g : g = [f EXCEPT !.step = "next"]
    OBVIOUS
  <1>4. /\ frames[t] # <<>> /\ f.step = "handling" /\ recorded' = recorded
        /\ \/ Ends(t, "raised", f.envelope)
           \/ Becomes(t, g) /\ dispatches' = dispatches
    BY <1>1, <1>3 DEF HandlersRan, At
  <1>5. DOMAIN f = FrameFields
    BY <1>1, <1>2, <1>4, TopIs DEF Fits
  <1>6. g.dispatch = f.dispatch /\ g.step = "next" /\ g.envelope = f.envelope
    BY <1>3, <1>5 DEF FrameFields
  <1>7. StampsOf(g) = StampsOf(f) /\ g.dispatch = f.dispatch
    BY <1>4, <1>6 DEF StampsOf
  <1>8. CASE Ends(t, "raised", f.envelope)
    BY <1>1, <1>2, <1>4, <1>8, FinishesTells
  <1>9. CASE Becomes(t, g) /\ dispatches' = dispatches
    BY <1>1, <1>2, <1>4, <1>7, <1>9, FrameTells
  <1> QED BY <1>4, <1>8, <1>9

\* A handler dispatches a message of its own and waits for it.
LEMMA HandlerDispatchesTells ==
  ASSUME Inv, TellInv, Fresh, NEW t \in Tasks, HandlerDispatches(t)
  PROVE  TellInv'
  <1>1. Top(t).step = "handling" /\ Top(t).todo # <<>> /\ recorded' = recorded
    BY DEF HandlerDispatches, Handling, At
  <1>2. PICK x \in Nested : Dispatches(t, "publishing", x)
    BY DEF HandlerDispatches
  <1>3. WellFormed(x)
    BY <1>2, EnvelopesAssumption
  <1>4. ~Carries(x, "Handled")
    BY <1>2 DEF Fresh
  <1> QED BY <1>1, <1>2, <1>3, <1>4, BeginsTells

\* Redispatched, an envelope has lost what told of it being handled.
LEMMA RedispatchedFresh ==
  ASSUME NEW m \in Messages, m.type = "redispatch"
  PROVE  ~Carries(Redispatched(m), "Handled")
  <1> DEFINE e == m.envelope
             places == {i \in DOMAIN e.stamps : ~IsA(e.stamps[i], "NonSendable")}
             kept == Picked(e.stamps, places)
             bare == WithoutStamps(e, "NonSendable")
             more == IF m.names = <<>> THEN <<>> ELSE <<Stamp("TransportNames", m.names)>>
  <1>1. WellFormed(e)
    BY EnvelopesAssumption
  <1>2. places \subseteq DOMAIN e.stamps /\ \A i \in places : e.stamps[i].type # "Handled"
    BY DEF IsA, NonSendable
  <1>3. bare = Envelope(e.message, kept)
    <2>1. e = Envelope(e.message, e.stamps)
      BY <1>1 DEF WellFormed
    <2>2. bare = [e EXCEPT !.stamps = kept]
      BY Zenon DEF WithoutStamps
    <2> HIDE DEF e, kept, bare
    <2> QED BY <2>1, <2>2, Restamped
  <1> HIDE DEF places
  <1>4. IsSequence(kept) /\ ToSet(kept) = {e.stamps[i] : i \in places}
    BY <1>1, <1>2, PickedOf DEF WellFormed
  <1> HIDE DEF kept
  <1>5. bare.message = e.message /\ bare.stamps = kept
    BY <1>3 DEF Envelope
  <1>6. WellFormed(bare)
    BY <1>1, <1>3, <1>4, <1>5 DEF WellFormed
  <1>7. IsSequence(more) /\ \A x \in ToSet(more) : x.type # "Handled"
    <2>1. CASE m.names = <<>>
      BY <2>1, Nothing
    <2>2. CASE m.names # <<>>
      BY <2>2, OneStamp DEF Stamp
    <2> QED BY <2>1, <2>2
  <1>8. Redispatched(m) = WithStamps(bare, more)
    BY DEF Redispatched
  <1> HIDE DEF bare, more
  <1>9. ToSet(WithStamps(bare, more).stamps) = ToSet(bare.stamps) \cup ToSet(more)
    BY <1>6, <1>7, Stamping
  <1>10. \A x \in ToSet(Redispatched(m).stamps) : x.type # "Handled"
    BY <1>2, <1>4, <1>5, <1>7, <1>8, <1>9
  <1> QED BY <1>10, CarriesIs

\* A redispatch begins a dispatch of the envelope it carries.
LEMMA RedispatchTells ==
  ASSUME Inv, TellInv, NEW t \in Tasks, Redispatch(t)
  PROVE  TellInv'
  <1>1. PICK f : f = Top(t)
    OBVIOUS
  <1>2. PICK d : d = dispatches[f.dispatch]
    OBVIOUS
  <1>3. PICK m : m = f.envelope.message
    OBVIOUS
  <1>4. /\ frames[t] # <<>> /\ f.step = "handling" /\ f.todo # <<>> /\ Head(f.todo) = "redispatching"
        /\ Dispatches(t, "publishing", Redispatched(m)) /\ recorded' = recorded
    BY <1>1, <1>3 DEF Redispatch, Handling, At
  <1>5. Sound(d) /\ Fits(f, d) /\ settings \in Settings
    BY <1>1, <1>2, <1>4, TopIs DEF Inv, Shape
  <1>6. /\ d.ran \in Seq(Names) /\ f.todo \in Seq(Names)
        /\ "redispatching" \in ToSet(d.ran \o f.todo) => d.envelope.message.type = "redispatch"
    BY <1>4, <1>5, HandlersLeft
  <1>7. Head(f.todo) \in ToSet(d.ran \o f.todo)
    BY <1>4, <1>6, OneOn
  <1>8. m \in Messages /\ m.type = "redispatch"
    BY <1>3, <1>4, <1>5, <1>6, <1>7 DEF Fits, WellFormed
  <1>9. WellFormed(Redispatched(m)) /\ ~Carries(Redispatched(m), "Handled")
    BY <1>8, RedispatchedIs, RedispatchedFresh
  <1> QED BY <1>1, <1>4, <1>9, BeginsTells

\* The application publishes.
LEMMA PublishTells ==
  ASSUME Inv, TellInv, Fresh, Publish
  PROVE  TellInv'
  <1>1. "application" \in Tasks /\ frames["application"] = <<>> /\ recorded' = recorded
    BY DEF Publish, Tasks
  <1>2. PICK x \in Inputs : Dispatches("application", "publishing", x)
    BY DEF Publish
  <1>3. WellFormed(x)
    BY <1>2, EnvelopesAssumption
  <1>4. ~Carries(x, "Handled")
    BY <1>2 DEF Fresh
  <1> QED BY <1>1, <1>2, <1>3, <1>4, BeginsTells

\* A worker takes what waits in the in-memory transport.
LEMMA CollectTells ==
  ASSUME Inv, TellInv, NEW t \in Tasks, Collect(t)
  PROVE  TellInv'
  <1>1. PICK a : a = Stamp("Received", "in-memory")
    OBVIOUS
  <1>2. PICK b : b = Stamp("AckReceipt", 1)
    OBVIOUS
  <1>3. PICK x : x = WithStamps(Head(queue), <<a, b>>)
    OBVIOUS
  <1>4. /\ frames[t] = <<>> \/ (Top(t).step = "handling" /\ Top(t).todo # <<>>)
        /\ queue # <<>> /\ Dispatches(t, "working", x) /\ recorded' = recorded
    BY <1>1, <1>2, <1>3 DEF Collect, Handling, At
  <1>5. IsSequence(queue) /\ \A y \in ToSet(queue) : WellFormed(y)
    BY DEF Inv, Shape
  <1>6. Head(queue) \in ToSet(queue)
    BY <1>4, <1>5, HeadTailProperties DEF IsSequence
  <1>7. IsSequence(<<a, b>>)
    <2>1. <<a, b>> \in Seq({a, b})
      OBVIOUS
    <2> QED BY <2>1, IsSequenceOf
  <1>8. WellFormed(Head(queue))
    BY <1>5, <1>6
  <1>9. WellFormed(x)
    BY <1>3, <1>7, <1>8, Stamping
  <1>10. "working" # "publishing"
    OBVIOUS
  <1> QED BY <1>4, <1>9, <1>10, BeginsTells

\* The scheduler generates a message.
LEMMA GenerateTells ==
  ASSUME Inv, TellInv, Generate
  PROVE  TellInv'
  <1>1. PICK a : a = Stamp("Received", "scheduler")
    OBVIOUS
  <1>2. "worker" \in Tasks /\ frames["worker"] = <<>> /\ recorded' = recorded
    BY DEF Generate, Tasks
  <1>3. PICK m \in Generated : Dispatches("worker", "working", Envelope(m, <<a>>))
    BY <1>1 DEF Generate
  <1>4. PICK x : x = Envelope(m, <<a>>)
    OBVIOUS
  <1>5. x.message = m /\ x.stamps = <<a>>
    BY <1>4 DEF Envelope
  <1>6. IsSequence(<<a>>)
    BY OneStamp
  <1>7. m \in Messages
    BY <1>3, EnvelopesAssumption
  <1>8. WellFormed(x)
    BY <1>4, <1>5, <1>6, <1>7 DEF WellFormed
  <1>9. "working" # "publishing"
    OBVIOUS
  <1> QED BY <1>2, <1>3, <1>4, <1>8, <1>9, BeginsTells

\* Nothing was dispatched yet.
LEMMA InitTells ==
  ASSUME Init
  PROVE  TellInv
  <1>1. /\ dispatches = <<>> /\ recorded = <<>> /\ \A t \in Tasks : frames[t] = <<>>
    BY DEF Init
  <1>2. DOMAIN <<>> = {}
    OBVIOUS
  <1>3. FramesTell
    BY <1>1, <1>2 DEF FramesTell
  <1>4. DispatchesTell
    BY <1>1, <1>2 DEF DispatchesTell
  <1>5. RecordedTell
    BY <1>1, <1>2, Nothing DEF RecordedTell
  <1>6. PublishedFresh
    BY <1>1, <1>2 DEF PublishedFresh
  <1> QED BY <1>3, <1>4, <1>5, <1>6 DEF TellInv

\* Every step keeps what is told.
LEMMA NextTells ==
  ASSUME Inv, TellInv, Fresh, [Next]_vars
  PROVE  TellInv'
  <1>1. CASE Publish
    BY <1>1, PublishTells
  <1>2. CASE Generate
    BY <1>2, GenerateTells
  <1>3. ASSUME NEW t \in Tasks, Collect(t) PROVE TellInv'
    BY <1>3, CollectTells
  <1>4. ASSUME NEW t \in Tasks, Step(t) PROVE TellInv'
    <2>1. CASE Advance(t)
      BY <2>1, AdvanceTells
    <2>2. CASE SendToMemory(t)
      BY <2>2, SendToMemoryTells
    <2>3. CASE SendDirectly(t)
      BY <2>3, SendDirectlyTells
    <2>4. CASE SendAway(t)
      BY <2>4, SendAwayTells
    <2>5. CASE SendFails(t)
      BY <2>5, SendFailsTells
    <2>6. CASE Routed(t)
      BY <2>6, RoutedTells
    <2>7. CASE HandlerReturns(t)
      BY <2>7, HandlerReturnsTells
    <2>8. CASE HandlerDispatches(t)
      BY <2>8, HandlerDispatchesTells
    <2>9. CASE Redispatch(t)
      BY <2>9, RedispatchTells
    <2>10. CASE HandlersRan(t)
      BY <2>10, HandlersRanTells
    <2> QED BY <1>4, <2>1, <2>2, <2>3, <2>4, <2>5, <2>6, <2>7, <2>8, <2>9, <2>10 DEF Step
  <1>5. CASE UNCHANGED vars
    <2>1. frames' = frames /\ dispatches' = dispatches /\ recorded' = recorded
      BY <1>5 DEF vars
    <2> QED BY <2>1 DEF TellInv, FramesTell, DispatchesTell, RecordedTell, PublishedFresh, Carries
  <1> QED BY <1>1, <1>2, <1>3, <1>4, <1>5 DEF Next

-----------------------------------------------------------------------------
(***************************************************************************)
(* What is told is what StampsTell asks for.                               *)
(***************************************************************************)

\* What is told of dispatch i as StampsTell says it: the values of its stamps of a type.
LEMMA ToldValues ==
  ASSUME NEW e, NEW type, type # "NonSendable"
  PROVE  [k \in DOMAIN AllStamps(e, type) |-> AllStamps(e, type)[k].value] = Told(e.stamps, type)
  <1>1. PICK s : s = e.stamps
    OBVIOUS
  <1>2. {i \in DOMAIN s : IsA(s[i], type)} = {i \in DOMAIN s : s[i].type = type}
    BY DEF IsA
  <1>3. AllStamps(e, type) = Picked(s, {i \in DOMAIN s : s[i].type = type})
    BY <1>1, <1>2 DEF AllStamps
  <1> QED BY <1>1, <1>3 DEF Told

\* A sequence contains its elements.
LEMMA ContainsIs ==
  ASSUME NEW s, IsSequence(s), NEW x
  PROVE  Contains(s, x) <=> x \in ToSet(s)
  <1>1. DOMAIN s = 1..Len(s)
    BY PlacesOf
  <1> QED BY <1>1 DEF Contains, ToSet

\* What StampsTell says of dispatch i, once its stamps of a type are spelt as what they tell.
Accounts(d, i) ==
  /\ Told(d.stamps, "Sent") = Told(d.envelope.stamps, "Sent") \o d.sentTo
  /\ Told(d.stamps, "Handled") = Told(d.envelope.stamps, "Handled") \o NamesOf(d.ran)
  /\ IsPrefix(d.envelope.stamps, d.stamps)
  /\ Contains(d.sentTo, "remote") => Contains(d.stamps, RemoteId(i))
  /\ Contains(d.sentTo, "memory") => \E k \in DOMAIN recorded : Contains(d.stamps, MemoryId(k))

\* A dispatch that returned tells what became of it.
LEMMA ReturnedTells ==
  ASSUME Inv, TellInv, NEW i \in DOMAIN dispatches, NEW d, d = dispatches[i], d.end = "returned"
  PROVE  Accounts(d, i)
  <1>1. PICK s : s = d.stamps
    OBVIOUS
  <1>2. PICK before : before = d.envelope.stamps
    OBVIOUS
  <1>3. Says(s, d, i, Len(recorded))
    BY <1>1 DEF TellInv, DispatchesTell
  <1>4. Sound(d)
    BY DEF Inv, DispatchesSound
  <1>5. d.failed = {} /\ IsSequence(before) /\ d.sentTo \in Seq(Names)
    BY <1>2, <1>4 DEF Sound, HandledWell, WellFormed
  <1>6. IsSequence(d.sentTo)
    BY <1>5, IsSequenceOf
  <1>7. Follows(before, s) /\ IsSequence(s)
    BY <1>2, <1>3 DEF Says, Follows
  <1>8. IsPrefix(before, s)
    BY <1>5, <1>7, PrefixIs DEF Follows
  <1>10. Told(s, "Sent") = Told(before, "Sent") \o d.sentTo
    BY <1>2, <1>3 DEF Says
  <1>11. Told(s, "Handled") = Told(before, "Handled") \o NamesOf(d.ran)
    BY <1>2, <1>3, <1>5 DEF Says
  <1>12. Contains(d.sentTo, "remote") => Contains(s, RemoteId(i))
    <2>1. "remote" \in ToSet(d.sentTo) => RemoteId(i) \in ToSet(s)
      BY <1>3 DEF Says
    <2>2. Contains(d.sentTo, "remote") <=> "remote" \in ToSet(d.sentTo)
      BY <1>6, ContainsIs
    <2>3. Contains(s, RemoteId(i)) <=> RemoteId(i) \in ToSet(s)
      BY <1>7, ContainsIs
    <2> QED BY <2>1, <2>2, <2>3
  <1>13. Contains(d.sentTo, "memory") => \E k \in DOMAIN recorded : Contains(s, MemoryId(k))
    <2>1. "memory" \in ToSet(d.sentTo) => \E k \in 1..Len(recorded) : MemoryId(k) \in ToSet(s)
      BY <1>3 DEF Says
    <2>2. Contains(d.sentTo, "memory") <=> "memory" \in ToSet(d.sentTo)
      BY <1>6, ContainsIs
    <2>3. \A k : Contains(s, MemoryId(k)) <=> MemoryId(k) \in ToSet(s)
      BY <1>7, ContainsIs
    <2>4. DOMAIN recorded = 1..Len(recorded)
      BY PlacesOf DEF TellInv, RecordedTell
    <2> QED BY <2>1, <2>2, <2>3, <2>4
  <1> QED BY <1>1, <1>2, <1>8, <1>10, <1>11, <1>12, <1>13 DEF Accounts

\* Dispatches that tell so far, and a record that tells of itself: that is StampsTell.
LEMMA StampsTold ==
  ASSUME Inv, TellInv
  PROVE  StampsTell
  <1>1. ASSUME NEW i \in DOMAIN dispatches
        PROVE  LET d == dispatches[i]
                   Values(stamps, type) == [k \in DOMAIN AllStamps(stamps, type) |-> AllStamps(stamps, type)[k].value]
                   result == Envelope(d.envelope.message, d.stamps)
               IN  d.end = "returned" =>
                     /\ Values(result, "Sent") = Values(d.envelope, "Sent") \o d.sentTo
                     /\ Values(result, "Handled") = Values(d.envelope, "Handled") \o [k \in DOMAIN d.ran |-> NameOf(d.ran[k])]
                     /\ IsPrefix(d.envelope.stamps, d.stamps)
                     /\ Contains(d.sentTo, "remote") => Contains(d.stamps, Stamp("MessageId", <<"remote", i>>))
                     /\ Contains(d.sentTo, "memory") =>
                          \E k \in DOMAIN recorded : Contains(d.stamps, Stamp("MessageId", <<"memory", k>>))
    <2> DEFINE d == dispatches[i]
               Values(stamps, type) == [k \in DOMAIN AllStamps(stamps, type) |-> AllStamps(stamps, type)[k].value]
               result == Envelope(d.envelope.message, d.stamps)
    <2> SUFFICES ASSUME d.end = "returned"
                 PROVE  /\ Values(result, "Sent") = Values(d.envelope, "Sent") \o d.sentTo
                        /\ Values(result, "Handled") = Values(d.envelope, "Handled") \o [k \in DOMAIN d.ran |-> NameOf(d.ran[k])]
                        /\ IsPrefix(d.envelope.stamps, d.stamps)
                        /\ Contains(d.sentTo, "remote") => Contains(d.stamps, Stamp("MessageId", <<"remote", i>>))
                        /\ Contains(d.sentTo, "memory") =>
                             \E k \in DOMAIN recorded : Contains(d.stamps, Stamp("MessageId", <<"memory", k>>))
      BY Zenon
    <2>1. "Sent" # "NonSendable" /\ "Handled" # "NonSendable"
      OBVIOUS
    <2>2. \A e : Values(e, "Sent") = Told(e.stamps, "Sent")
      BY <2>1, ToldValues
    <2>3. \A e : Values(e, "Handled") = Told(e.stamps, "Handled")
      BY <2>1, ToldValues
    <2>4. NamesOf(d.ran) = [k \in DOMAIN d.ran |-> NameOf(d.ran[k])]
      BY DEF NamesOf
    <2>5. Accounts(d, i)
      BY ReturnedTells
    <2>6. result.stamps = d.stamps
      BY DEF Envelope
    <2> HIDE DEF Values, result, d
    <2> QED BY <2>2, <2>3, <2>4, <2>5, <2>6 DEF Accounts, RemoteId, MemoryId
  <1>2. \A k \in DOMAIN recorded :
           /\ LastOf(recorded[k], "MessageId") = <<"memory", k>>
           /\ ~Received(recorded[k]) /\ ~Carries(recorded[k], "Handled")
           /\ Carries(recorded[k], "Sent") => LastOf(recorded[k], "Sent") = "memory"
    BY DEF TellInv, RecordedTell, Tells
  <1> QED BY <1>1, <1>2 DEF StampsTell

-----------------------------------------------------------------------------
(***************************************************************************)
(* Theorems.                                                               *)
(***************************************************************************)

\* Whatever the tasks, the senders and the handlers do, in whatever order, each dispatch and its
\* frame are at one of the stages of the chain (StackMiddleware, SendMessageMiddleware,
\* HandleMessageMiddleware), and the units of work are told apart (UnitOfWorkMiddleware).
THEOREM Invariant == Spec => []Inv
  <1>1. Init => Inv
    BY InitHolds
  <1>2. Inv /\ [Next]_vars => Inv'
    BY NextKeeps
  <1> QED BY <1>1, <1>2, PTL DEF Spec

\* Each dispatch sends to every one of its destinations once, and to no other, whatever is
\* configured and however many dispatches there are (SendersLocator, SendMessageMiddleware).
THEOREM SentAsRoutedHolds == Spec => []SentAsRouted
  <1>1. Inv => SentAsRouted
    BY DEF Inv, DispatchesSound, Sound, RoutedWell, SentAsRouted
  <1> QED BY <1>1, Invariant, PTL

\* A message to be handled here runs each of its handlers exactly once, whichever raise, and the
\* dispatch raises exactly if one of them did (HandlersLocator, HandleMessageMiddleware).
THEOREM EveryHandlerRunsHolds == Spec => []EveryHandlerRuns
  <1>1. Inv => EveryHandlerRuns
    BY DEF Inv, DispatchesSound, Sound, HandledWell, EveryHandlerRuns
  <1> QED BY <1>1, Invariant, PTL

\* No error of a handler is lost to another of the same name (HandleMessageMiddleware); a message
\* a worker received, or one the application dispatched, is in a unit of work no other such message
\* is in, and what a handler dispatches is in that of the message handled (UnitOfWorkMiddleware).
THEOREM UnitsAndErrorsApartHolds == Spec => []UnitsAndErrorsApart
  <1>1. ASSUME Inv PROVE UnitsAndErrorsApart
    <2>1. ASSUME NEW t \in Tasks, NEW k \in DOMAIN frames[t]
          PROVE  LET f == frames[t][k]
                 IN  Len(f.errors) = Cardinality(dispatches[f.dispatch].failed) /\ IsInjective(f.errors)
      BY <1>1 DEF Inv, FramesFit, Fits
    <2>2. ASSUME NEW i \in DOMAIN dispatches
          PROVE  LET d == dispatches[i]
                 IN  /\ d.unit # 0 /\ Own(d) =>
                          \A j \in DOMAIN dispatches :
                            j # i /\ Own(dispatches[j]) => dispatches[j].unit # d.unit
                     /\ d.unit # 0 /\ ~Own(d) =>
                          d.within \in DOMAIN dispatches /\ dispatches[d.within].unit = d.unit
      BY <1>1 DEF Inv, UnitsApart, UnitsTold
    <2> QED BY <2>1, <2>2 DEF UnitsAndErrorsApart
  <1> QED BY <1>1, Invariant, PTL

\* An envelope comes back with a stamp for each sender and each handler, in order, with the ids the
\* transports gave it, and with all it came with; and an in-memory transport records nothing but what
\* it was sent, whether or not it serializes (SendMessageMiddleware, HandleMessageMiddleware, Envelope,
\* InMemoryTransport), provided nobody dispatches an envelope that carries a HandledStamp.
THEOREM StampsTellHolds ==
  ASSUME Fresh
  PROVE  Spec => []StampsTell
  <1>1. Init => Inv /\ TellInv
    BY InitHolds, InitTells
  <1>2. (Inv /\ TellInv) /\ [Next]_vars => (Inv /\ TellInv)'
    BY NextKeeps, NextTells
  <1>3. Inv /\ TellInv => StampsTell
    BY StampsTold
  <1> QED BY <1>1, <1>2, <1>3, PTL DEF Spec
=============================================================================
