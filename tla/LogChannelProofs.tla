-------------------------- MODULE LogChannelProofs --------------------------
(***************************************************************************)
(* What LogChannel promises, spelled out as invariants: that is what the   *)
(* sinks that implement it inherit.                                        *)
(***************************************************************************)
EXTENDS LogChannel, SequenceTheorems, TLAPS

\* f finds each entry of part in whole, later ones at later places.
Picks(f, part, whole) ==
    /\ \A i \in 1 .. Len(part) : part[i] = whole[f[i]]
    /\ \A i, j \in 1 .. Len(part) : i < j => f[i] < f[j]

PickedFrom(part, whole) ==
    \E f \in [1 .. Len(part) -> 1 .. Len(whole)] : Picks(f, part, whole)

\* Entries are settled in the order they were accepted, none twice and none left out.
SettledInOrder ==
    /\ Len(settled) <= Len(accepted)
    /\ \A i \in 1 .. Len(settled) : settled[i] = accepted[i]

\* No entry is stored twice, nor before one that was accepted earlier, nor unless it is
\* settled: what failed is never sent again.
StoredOnce == PickedFrom(stored, settled)

\* A channel that was asked to close is closed only when it has settled all that it had
\* accepted until then.
ClosedIsDrained == status = "closed" => Len(settled) >= mark

Promises == SettledInOrder /\ StoredOnce /\ ClosedIsDrained

ChannelTypeOK ==
    /\ accepted \in Seq(Entry) /\ settled \in Seq(Entry) /\ stored \in Seq(Entry)
    /\ mark \in Nat
    /\ status = "open" => mark = 0

----------------------------------------------------------------------------
\* What a sub-sequence inside of a sequence holds.
LEMMA Inside ==
    ASSUME NEW S, NEW q \in Seq(S), NEW k \in Nat, NEW n \in Nat, n >= 1, k + n <= Len(q)
    PROVE  LET next == SubSeq(q, k + 1, k + n)
           IN  /\ next \in Seq(S) /\ Len(next) = n
               /\ \A i \in 1 .. n : next[i] = q[k + i]
<1> DEFINE next == SubSeq(q, k + 1, k + n)
<1>1. k + 1 \in Int /\ k + n \in Int /\ Len(q) \in Nat
  BY LenProperties
<1>2. \A i \in (k + 1) .. (k + n) : q[i] \in S
  BY <1>1, ElementOfSeq
<1>3. /\ next \in Seq(S)
      /\ Len(next) = IF k + 1 <= k + n THEN k + n - (k + 1) + 1 ELSE 0
      /\ \A i \in 1 .. k + n - (k + 1) + 1 : next[i] = q[k + 1 + i - 1]
  BY <1>1, <1>2, SubSeqProperties
<1> HIDE DEF next
<1>4. next \in Seq(S) /\ Len(next) = n /\ \A i \in 1 .. n : next[i] = q[k + i]
  BY <1>1, <1>3
<1> QED
  BY <1>4 DEF next

\* The entries that are settled next.
LEMMA NextSettled ==
    ASSUME ChannelTypeOK, NEW n \in 1 .. (Len(accepted) - Len(settled))
    PROVE  LET next == SubSeq(accepted, Len(settled) + 1, Len(settled) + n)
           IN  /\ next \in Seq(Entry) /\ Len(next) = n
               /\ \A i \in 1 .. n : next[i] = accepted[Len(settled) + i]
<1>1. /\ Len(settled) \in Nat /\ Len(accepted) \in Nat /\ n \in Nat /\ n >= 1
      /\ Len(settled) + n <= Len(accepted)
  BY LenProperties DEF ChannelTypeOK
<1> QED
  BY <1>1, Inside DEF ChannelTypeOK

\* What is picked stays so when both grow by the same entries, or only the whole does.
LEMMA PickMore ==
    ASSUME NEW p \in Seq(Entry), NEW w \in Seq(Entry), NEW g \in Seq(Entry), PickedFrom(p, w)
    PROVE  PickedFrom(p, w \o g) /\ PickedFrom(p \o g, w \o g)
<1> DEFINE lp == Len(p)
           lw == Len(w)
           lg == Len(g)
           pg == p \o g
           wg == w \o g
<1>1. PICK f \in [1 .. lp -> 1 .. lw] :
          /\ \A i \in 1 .. lp : p[i] = w[f[i]]
          /\ \A i, j \in 1 .. lp : i < j => f[i] < f[j]
  BY DEF PickedFrom, Picks
<1>2. lp \in Nat /\ lw \in Nat /\ lg \in Nat
  BY LenProperties
<1>3. /\ Len(pg) = lp + lg /\ Len(wg) = lw + lg
      /\ \A i \in 1 .. lp + lg : pg[i] = IF i <= lp THEN p[i] ELSE g[i - lp]
      /\ \A i \in 1 .. lw + lg : wg[i] = IF i <= lw THEN w[i] ELSE g[i - lw]
  BY ConcatProperties
<1> HIDE DEF lp, lw, lg, pg, wg
<1>4. \A i \in 1 .. lp : f[i] \in 1 .. lw + lg /\ wg[f[i]] = w[f[i]]
  BY <1>1, <1>2, <1>3
<1>5. PickedFrom(p, wg)
  <2>1. f \in [1 .. lp -> 1 .. lw + lg]
    BY <1>1, <1>2
  <2>2. Picks(f, p, wg)
    BY <1>1, <1>4 DEF Picks, lp
  <2> QED
    BY <1>3, <2>1, <2>2 DEF PickedFrom, lp
<1> DEFINE h == [i \in 1 .. lp + lg |-> IF i <= lp THEN f[i] ELSE i - lp + lw]
<1>6. /\ h \in [1 .. lp + lg -> 1 .. lw + lg]
      /\ \A i \in 1 .. lp : h[i] = f[i]
      /\ \A i \in 1 .. lp + lg : i \notin 1 .. lp => h[i] = i - lp + lw
  BY <1>1, <1>2
<1> HIDE DEF h
<1>7. ASSUME NEW i \in 1 .. lp + lg PROVE pg[i] = wg[h[i]]
  <2>1. CASE i \in 1 .. lp
    <3>1. i <= lp /\ pg[i] = p[i]
      BY <1>2, <1>3, <2>1
    <3>2. p[i] = w[f[i]] /\ wg[f[i]] = w[f[i]] /\ h[i] = f[i]
      BY <1>1, <1>4, <1>6, <2>1
    <3> QED
      BY <3>1, <3>2
  <2>2. CASE i \notin 1 .. lp
    <3>1. /\ i > lp /\ h[i] = i - lp + lw
          /\ h[i] \in 1 .. lw + lg /\ h[i] > lw /\ h[i] - lw = i - lp
      BY <1>2, <1>6, <2>2
    <3>2. pg[i] = g[i - lp]
      BY <1>2, <1>3, <3>1
    <3>3. wg[h[i]] = g[h[i] - lw]
      <4> DEFINE k == h[i]
      <4>1. k \in 1 .. lw + lg /\ k > lw
        BY <3>1
      <4> HIDE DEF k
      <4>2. wg[k] = g[k - lw]
        BY <1>2, <1>3, <4>1
      <4> QED
        BY <4>2 DEF k
    <3> QED
      BY <3>1, <3>2, <3>3
  <2> QED
    BY <2>1, <2>2
<1>8. ASSUME NEW i \in 1 .. lp + lg, NEW j \in 1 .. lp + lg, i < j PROVE h[i] < h[j]
  <2>1. CASE i \in 1 .. lp /\ j \in 1 .. lp
    BY <1>1, <1>6, <1>8, <2>1
  <2>2. CASE i \in 1 .. lp /\ j \notin 1 .. lp
    <3>1. f[i] \in 1 .. lw /\ h[j] = j - lp + lw /\ j > lp
      BY <1>1, <1>2, <1>6, <2>2
    <3> QED
      BY <1>2, <1>6, <2>2, <3>1
  <2>3. CASE i \notin 1 .. lp
    <3>1. j \notin 1 .. lp
      BY <1>2, <1>8, <2>3
    <3> QED
      BY <1>2, <1>6, <1>8, <2>3, <3>1
  <2> QED
    BY <2>1, <2>2, <2>3
<1>9. PickedFrom(pg, wg)
  <2>1. Picks(h, pg, wg)
    BY <1>3, <1>7, <1>8 DEF Picks
  <2> QED
    BY <1>3, <1>6, <2>1 DEF PickedFrom
<1> QED
  BY <1>5, <1>9 DEF pg, wg

LEMMA SettleStep ==
    ASSUME ChannelTypeOK, Promises, NEW n \in 1 .. (Len(accepted) - Len(settled)), Settle(n)
    PROVE  (ChannelTypeOK /\ Promises)'
<1> DEFINE next == SubSeq(accepted, Len(settled) + 1, Len(settled) + n)
           a == Len(settled)
<1>1. /\ status # "closed" /\ settled' = settled \o next
      /\ stored' = stored \/ stored' = stored \o next
      /\ UNCHANGED <<accepted, status, mark>>
  BY DEF Settle
<1>2. next \in Seq(Entry) /\ Len(next) = n /\ \A i \in 1 .. n : next[i] = accepted[a + i]
  BY NextSettled
<1>3. a \in Nat /\ Len(accepted) \in Nat /\ n \in Nat /\ a + n <= Len(accepted)
  BY LenProperties DEF ChannelTypeOK
<1> HIDE DEF next
<1>4. settled' \in Seq(Entry) /\ stored' \in Seq(Entry)
  BY <1>1, <1>2, ConcatProperties DEF ChannelTypeOK
<1>5. SettledInOrder'
  <2>1. /\ Len(settled') = a + n
        /\ \A i \in 1 .. a + n : settled'[i] = IF i <= a THEN settled[i] ELSE next[i - a]
    BY <1>1, <1>2, ConcatProperties DEF ChannelTypeOK
  <2>2. \A i \in 1 .. a + n : settled'[i] = accepted[i]
    <3> SUFFICES ASSUME NEW i \in 1 .. a + n PROVE settled'[i] = accepted[i]
      OBVIOUS
    <3>1. CASE i <= a
      BY <1>3, <2>1, <3>1 DEF Promises, SettledInOrder
    <3>2. CASE ~(i <= a)
      <4>1. i - a \in 1 .. n /\ a + (i - a) = i
        BY <1>3, <3>2
      <4> QED
        BY <1>2, <2>1, <3>2, <4>1
    <3> QED
      BY <3>1, <3>2
  <2> HIDE DEF a
  <2> QED
    BY <1>1, <1>3, <2>1, <2>2 DEF SettledInOrder
<1>6. StoredOnce'
  <2>1. PickedFrom(stored, settled)
    BY DEF Promises, StoredOnce
  <2> QED
    BY <1>1, <1>2, <2>1, PickMore DEF StoredOnce, ChannelTypeOK
<1> QED
  BY <1>1, <1>4, <1>5, <1>6 DEF Promises, ClosedIsDrained, ChannelTypeOK

\* A channel keeps its promises: entries are settled in order, stored at most once, and
\* a close request is answered when all that came before it is settled.
THEOREM PromisesKept == Spec => []Promises
<1>1. Init => ChannelTypeOK /\ Promises
  <2> SUFFICES ASSUME Init PROVE ChannelTypeOK /\ Promises
    OBVIOUS
  <2>1. ChannelTypeOK /\ Len(settled) = 0 /\ Len(accepted) = 0 /\ Len(stored) = 0
    BY EmptySeq DEF Init, ChannelTypeOK
  <2>2. [i \in 1 .. 0 |-> i] \in [1 .. 0 -> 1 .. 0]
    OBVIOUS
  <2>3. Picks([i \in 1 .. 0 |-> i], stored, settled)
    BY <2>1 DEF Picks
  <2>4. StoredOnce
    BY <2>1, <2>2, <2>3 DEF StoredOnce, PickedFrom
  <2> QED
    BY <2>1, <2>4 DEF Init, Promises, SettledInOrder, ClosedIsDrained
<1>2. ChannelTypeOK /\ Promises /\ [Next]_vars => (ChannelTypeOK /\ Promises)'
  <2> SUFFICES ASSUME ChannelTypeOK, Promises, [Next]_vars
               PROVE  (ChannelTypeOK /\ Promises)'
    OBVIOUS
  <2>1. ASSUME NEW e \in Entry, Accept(e) PROVE (ChannelTypeOK /\ Promises)'
    <3>1. /\ accepted' \in Seq(Entry) /\ Len(accepted') = Len(accepted) + 1
          /\ \A i \in 1 .. Len(accepted) : accepted'[i] = accepted[i]
      BY <2>1, AppendProperties DEF Accept, ChannelTypeOK
    <3>2. Len(settled) \in Nat /\ Len(accepted) \in Nat
      BY LenProperties DEF ChannelTypeOK
    <3>3. SettledInOrder'
      BY <2>1, <3>1, <3>2 DEF Accept, Promises, SettledInOrder
    <3> QED
      BY <2>1, <3>1, <3>3 DEF Accept, Promises, StoredOnce, ClosedIsDrained, ChannelTypeOK
  <2>2. ASSUME NEW n \in 1 .. (Len(accepted) - Len(settled)), Settle(n)
        PROVE  (ChannelTypeOK /\ Promises)'
    BY <2>2, SettleStep
  <2>3. CASE RequestClose
    BY <2>3, LenProperties
    DEF RequestClose, Promises, SettledInOrder, StoredOnce, ClosedIsDrained, ChannelTypeOK
  <2>4. CASE Close
    <3>1. Len(settled) \in Nat /\ Len(settled) >= mark
      BY <2>4, LenProperties DEF Close, ChannelTypeOK
    <3> QED
      BY <2>4, <3>1
      DEF Close, Promises, SettledInOrder, StoredOnce, ClosedIsDrained, ChannelTypeOK
  <2>5. CASE UNCHANGED vars
    BY <2>5 DEF vars, Promises, SettledInOrder, StoredOnce, ClosedIsDrained, ChannelTypeOK
  <2> QED
    BY <2>1, <2>2, <2>3, <2>4, <2>5 DEF Next
<1> QED
  BY <1>1, <1>2, PTL DEF Spec
=============================================================================
