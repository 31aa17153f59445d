-------------------------------- MODULE Lists --------------------------------
(***************************************************************************)
(* Lists made of the elements of another list: a comprehension with a      *)
(* condition, a grouping by key, a list without duplicates.                *)
(***************************************************************************)
EXTENDS Naturals, Sequences, FiniteSets, SequencesExt

IsSequence(s) == s \in Seq(ToSet(s))

\* The elements of s at some places; `before` has, for each of these, those that come before it.
Listed(s, before) ==
  [n \in 1..Cardinality(DOMAIN before) |->
     s[CHOOSE i \in DOMAIN before : Cardinality(before[i]) = n - 1]]

\* The elements of s at some places, as they come.
Picked(s, places) == Listed(s, [i \in places |-> {j \in places : j < i}])

\* The elements of s, each once, as they are first met.
Once(s) == Picked(s, {i \in DOMAIN s : \A j \in 1..i - 1 : s[j] # s[i]})
=============================================================================
