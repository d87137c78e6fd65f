----------------------------- MODULE ListLemmas -----------------------------
(***************************************************************************)
(* Lemmas about the lists that the programs keep in files and in views,    *)
(* for the proofs of the modules that remove entries from them.            *)
(***************************************************************************)
EXTENDS SequencesExt, SequenceTheorems, WellFoundedInduction,
        NaturalsInduction, TLAPS

(* The natural numbers are well-founded: with a relation that is a set,    *)
(* the library's theorem needs no operator as its argument.                *)
LEMMA NatLess == IsWellFoundedOn({p \in Nat \X Nat : p[1] < p[2]}, Nat)
  BY NatLessThanWellFounded DEF OpToRel

(* A non-empty set of natural numbers has a least element, which is what   *)
(* Min denotes.                                                            *)
LEMMA MinIn ==
    ASSUME NEW S \in SUBSET Nat, S # {}
    PROVE  /\ Min(S) \in S
           /\ \A y \in S : Min(S) <= y
<1> DEFINE R == {p \in Nat \X Nat : p[1] < p[2]}
<1>1. \E x \in S : \A y \in S : ~(<<y, x>> \in R)
  <2> HIDE DEF R
  <2> QED BY NatLess, WFMin DEF R
<1>2. \A x, y \in S : ~(<<y, x>> \in R) => x <= y
  OBVIOUS
<1>3. \E x \in S : \A y \in S : x <= y
  <2> HIDE DEF R
  <2> QED BY <1>1, <1>2
<1> QED BY <1>3 DEF Min

(* Taking one entry out of a list moves the later ones up and leaves no    *)
(* entry twice if there was none before.                                   *)
LEMMA RemoveAtSeq ==
    ASSUME NEW S, NEW s \in Seq(S), NEW n \in 1..Len(s)
    PROVE  /\ RemoveAt(s, n) \in Seq(S) /\ Len(RemoveAt(s, n)) = Len(s) - 1
           /\ \A k \in 1 .. Len(s) - 1 :
                 RemoveAt(s, n)[k] = IF k < n THEN s[k] ELSE s[k + 1]
           /\ IsInjective(s) => IsInjective(RemoveAt(s, n))
<1> DEFINE front == SubSeq(s, 1, n - 1)
           back == SubSeq(s, n + 1, Len(s))
<1>1. /\ front \in Seq(S) /\ Len(front) = n - 1
      /\ \A k \in 1 .. n - 1 : front[k] = s[k]
  BY SubSeqProperties
<1>2. /\ back \in Seq(S) /\ Len(back) = Len(s) - n
      /\ \A k \in 1 .. Len(s) - n : back[k] = s[n + k]
  BY SubSeqProperties
<1> HIDE DEF front, back
<1>3. RemoveAt(s, n) = front \o back
  BY DEF RemoveAt, front, back
<1>4. /\ RemoveAt(s, n) \in Seq(S) /\ Len(RemoveAt(s, n)) = Len(s) - 1
      /\ \A k \in 1 .. Len(s) - 1 :
            RemoveAt(s, n)[k] = IF k < n THEN s[k] ELSE s[k + 1]
  <2> DEFINE both == front \o back
  <2>1. /\ both \in Seq(S) /\ Len(both) = Len(front) + Len(back)
        /\ \A k \in 1 .. Len(front) + Len(back) :
              both[k] = IF k <= Len(front) THEN front[k] ELSE back[k - Len(front)]
    BY <1>1, <1>2, ConcatProperties
  <2> HIDE DEF both
  <2>2. Len(both) = Len(s) - 1
    BY <1>1, <1>2, <2>1
  <2>3. ASSUME NEW k \in 1 .. Len(s) - 1
        PROVE  both[k] = IF k < n THEN s[k] ELSE s[k + 1]
    <3>1. both[k] = IF k <= n - 1 THEN front[k] ELSE back[k - (n - 1)]
      BY <1>1, <1>2, <2>1
    <3>2. CASE k < n
      BY <3>1, <3>2, <1>1
    <3>3. CASE k >= n
      <4>1. k - (n - 1) \in 1 .. Len(s) - n /\ n + (k - (n - 1)) = k + 1
        BY <3>3
      <4>2. back[k - (n - 1)] = s[n + (k - (n - 1))]
        BY <4>1, <1>2
      <4>3. ~(k <= n - 1) /\ ~(k < n)
        BY <3>3
      <4> QED BY <3>1, <4>1, <4>2, <4>3
    <3> QED BY <3>2, <3>3
  <2> QED BY <1>3, <2>1, <2>2, <2>3 DEF both
<1>5. DOMAIN RemoveAt(s, n) = 1 .. Len(s) - 1 /\ DOMAIN s = 1 .. Len(s)
  BY <1>4
<1> QED BY <1>4, <1>5 DEF IsInjective
=============================================================================
