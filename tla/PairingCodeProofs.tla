-------------------------- MODULE PairingCodeProofs --------------------------
(***************************************************************************)
(* What the filter computes, for every sequence, and with it: a pairing      *)
(* code comes back from the terminal's screen as it was drawn.              *)
(*                                                                         *)
(* A recursive function is reasoned about by the least number for which a    *)
(* statement would be false.                                                *)
(***************************************************************************)
EXTENDS PairingCode, SequenceTheorems, WellFoundedInduction, TLAPS

\* A set of natural numbers that is not empty has a least element.
LEMMA LeastNumber ==
  ASSUME NEW T \in SUBSET Nat, T # {}
  PROVE  \E m \in T : \A k \in T : m <= k
<1> DEFINE R == {pair \in Nat \X Nat : pair[1] < pair[2]}
<1>1. IsWellFoundedOn(R, Nat)
  BY NatLessThanWellFounded DEF OpToRel
<1>2. PICK m \in T : \A k \in T : <<k, m>> \notin R
  <2> HIDE DEF R
  <2> QED BY <1>1, WFMin
<1>3. \A k \in T : ~(k < m)
  BY <1>2
<1> QED BY <1>2, <1>3

\* A set that has 0 and with a number the next one has them all.
LEMMA NumbersFollow ==
  ASSUME NEW n \in Nat, NEW T, 0 \in T,
         \A k \in 1..n : k - 1 \in T => k \in T
  PROVE  \A k \in 0..n : k \in T
<1> DEFINE U == {k \in 0..n : k \notin T}
<1> SUFFICES ASSUME U # {} PROVE FALSE
  OBVIOUS
<1>1. U \in SUBSET Nat
  OBVIOUS
<1>2. PICK m \in U : \A k \in U : m <= k
  <2> HIDE DEF U
  <2> QED BY <1>1, LeastNumber
<1>3. m \in 1..n
  OBVIOUS
<1>4. m - 1 \in 0..n /\ m - 1 \notin U
  BY <1>2, <1>3
<1> QED BY <1>3, <1>4

-----------------------------------------------------------------------------
(* The filter *)

\* f is the loop up to its nth round.
IsLoop(f, s, S, T, n) ==
  /\ f \in [0..n -> Seq(T)]
  /\ f[0] = << >>
  /\ \A k \in 1..n : f[k] = IF s[k] \in S THEN Append(f[k - 1], s[k])
                            ELSE f[k - 1]

\* The loop can go on from what it has kept.
LEMMA LoopExists ==
  ASSUME NEW T, NEW s \in Seq(T), NEW S
  PROVE  \E f : IsLoop(f, s, S, T, Len(s))
<1> DEFINE Done == {n \in 0..Len(s) : \E f : IsLoop(f, s, S, T, n)}
<1>1. 0 \in Done
  <2>1. IsLoop([k \in 0..0 |-> << >>], s, S, T, 0)
    BY DEF IsLoop
  <2> QED BY <2>1
<1>2. ASSUME NEW k \in 1..Len(s), k - 1 \in Done PROVE k \in Done
  <2>1. PICK f : IsLoop(f, s, S, T, k - 1)
    BY <1>2
  <2>2. f[k - 1] \in Seq(T) /\ s[k] \in T
    BY <2>1 DEF IsLoop
  <2>3. PICK next \in Seq(T) :
          next = IF s[k] \in S THEN Append(f[k - 1], s[k]) ELSE f[k - 1]
    <3>1. Append(f[k - 1], s[k]) \in Seq(T)
      BY <2>2
    <3>2. CASE s[k] \in S
      BY <3>1, <3>2
    <3>3. CASE s[k] \notin S
      BY <2>2, <3>3
    <3> QED BY <3>2, <3>3
  <2>4. PICK g : g = [i \in 0..k |-> IF i = k THEN next ELSE f[i]]
    OBVIOUS
  <2>5. g[k] = next /\ \A i \in 0..k - 1 : g[i] = f[i]
    BY <2>4
  <2>6. g \in [0..k -> Seq(T)]
    BY <2>1, <2>4 DEF IsLoop
  <2>7. ASSUME NEW i \in 1..k
        PROVE  g[i] = IF s[i] \in S THEN Append(g[i - 1], s[i]) ELSE g[i - 1]
    <3>1. CASE i = k
      BY <2>3, <2>5, <3>1
    <3>2. CASE i # k
      <4>1. i \in 1..k - 1 /\ i \in 0..k - 1 /\ i - 1 \in 0..k - 1
        BY <3>2
      <4>2. g[i] = f[i] /\ g[i - 1] = f[i - 1]
        BY <2>5, <4>1
      <4> QED BY <2>1, <4>1, <4>2 DEF IsLoop
    <3> QED BY <3>1, <3>2
  <2>8. g[0] = << >>
    BY <2>1, <2>5 DEF IsLoop
  <2>9. IsLoop(g, s, S, T, k)
    BY <2>6, <2>7, <2>8 DEF IsLoop
  <2> QED BY <2>9
<1>3. Len(s) \in Done
  <2> HIDE DEF Done
  <2>1. PICK n \in Nat : n = Len(s)
    OBVIOUS
  <2>2. \A k \in 1..n : k - 1 \in Done => k \in Done
    BY <1>2, <2>1
  <2>3. \A k \in 0..n : k \in Done
    BY <1>1, <2>2, NumbersFollow
  <2> QED BY <2>1, <2>3
<1> QED BY <1>3

\* What the rounds of the loop keep.
LEMMA KeptIsLoop ==
  ASSUME NEW T, NEW s \in Seq(T), NEW S
  PROVE  IsLoop(Kept(s, S), s, S, T, Len(s))
<1> DEFINE Loop(f) ==
      f = [n \in 0..Len(s) |->
             IF n = 0 THEN << >>
             ELSE IF s[n] \in S THEN Append(f[n - 1], s[n]) ELSE f[n - 1]]
<1>1. PICK f : IsLoop(f, s, S, T, Len(s))
  BY LoopExists
<1>2. Loop(f)
  <2>1. PICK g : g = [n \in 0..Len(s) |->
                        IF n = 0 THEN << >>
                        ELSE IF s[n] \in S THEN Append(f[n - 1], s[n])
                        ELSE f[n - 1]]
    OBVIOUS
  <2>2. ASSUME NEW n \in 0..Len(s) PROVE f[n] = g[n]
    <3>1. CASE n = 0
      BY <1>1, <2>1, <3>1 DEF IsLoop
    <3>2. CASE n \in 1..Len(s)
      BY <1>1, <2>1, <3>2 DEF IsLoop
    <3> QED BY <3>1, <3>2
  <2>3. DOMAIN f = 0..Len(s) /\ f = [n \in 0..Len(s) |-> f[n]]
    BY <1>1 DEF IsLoop
  <2>4. DOMAIN g = 0..Len(s) /\ g = [n \in 0..Len(s) |-> g[n]]
    BY <2>1
  <2>5. f = g
    BY <2>2, <2>3, <2>4
  <2> QED BY <2>1, <2>5
<1>3. Kept(s, S) = CHOOSE g : Loop(g)
  BY DEF Kept
<1>4. Loop(Kept(s, S))
  <2> HIDE DEF Loop
  <2> QED BY <1>2, <1>3
<1>5. PICK kept : kept = Kept(s, S)
  OBVIOUS
<1>6. kept = [n \in 0..Len(s) |-> kept[n]] /\ kept[0] = << >>
  BY <1>4, <1>5
<1>7. ASSUME NEW k \in 1..Len(s)
      PROVE  kept[k] = IF s[k] \in S THEN Append(kept[k - 1], s[k])
                       ELSE kept[k - 1]
  <2>1. k # 0 /\ k \in 0..Len(s)
    OBVIOUS
  <2>2. Loop(kept)
    BY <1>4, <1>5
  <2> QED BY <2>1, <2>2
<1>8. \A n \in 0..Len(s) : kept[n] \in Seq(T)
  <2> DEFINE Typed == {n \in 0..Len(s) : kept[n] \in Seq(T)}
  <2>1. 0 \in Typed
    BY <1>6
  <2>2. ASSUME NEW k \in 1..Len(s), k - 1 \in Typed PROVE k \in Typed
    <3>1. Append(kept[k - 1], s[k]) \in Seq(T) /\ kept[k - 1] \in Seq(T)
      BY <2>2
    <3>2. kept[k] \in Seq(T)
      <4>1. CASE s[k] \in S
        BY <1>7, <3>1, <4>1
      <4>2. CASE s[k] \notin S
        BY <1>7, <3>1, <4>2
      <4> QED BY <4>1, <4>2
    <3> QED BY <3>2
  <2>3. PICK m \in Nat : m = Len(s)
    OBVIOUS
  <2> HIDE DEF Typed
  <2>4. \A k \in 1..m : k - 1 \in Typed => k \in Typed
    BY <2>2, <2>3
  <2>5. \A n \in 0..m : n \in Typed
    BY <2>1, <2>4, NumbersFollow
  <2> QED BY <2>3, <2>5 DEF Typed
<1> HIDE DEF Loop
<1> QED BY <1>5, <1>6, <1>7, <1>8 DEF IsLoop

\* The filter is where the loop ends.
LEMMA FilterIsLoop ==
  ASSUME NEW T, NEW s \in Seq(T), NEW S
  PROVE  \E f : IsLoop(f, s, S, T, Len(s)) /\ Filter(s, S) = f[Len(s)]
<1>1. IsLoop(Kept(s, S), s, S, T, Len(s))
  BY KeptIsLoop
<1>2. Filter(s, S) = Kept(s, S)[Len(s)]
  BY DEF Filter
<1> QED BY <1>1, <1>2

\* A sequence that has nothing else is kept as it is.
LEMMA FilterKeepsAll ==
  ASSUME NEW S, NEW U, S \subseteq U, NEW s \in Seq(S)
  PROVE  Filter(s, U) = s
<1>1. PICK n \in Nat : n = Len(s)
  OBVIOUS
<1>2. PICK f : IsLoop(f, s, U, S, n) /\ Filter(s, U) = f[n]
  BY <1>1, FilterIsLoop
<1> DEFINE Good == {k \in 0..n : /\ Len(f[k]) = k
                                 /\ \A i \in 1..k : f[k][i] = s[i]}
<1>3. 0 \in Good
  BY <1>2 DEF IsLoop
<1>4. ASSUME NEW k \in 1..n, k - 1 \in Good PROVE k \in Good
  <2>1. s[k] \in S /\ s[k] \in U
    BY <1>1
  <2>2. f[k] = Append(f[k - 1], s[k])
    BY <1>2, <2>1 DEF IsLoop
  <2>3. PICK before \in Seq(S) : before = f[k - 1]
    BY <1>2 DEF IsLoop
  <2>4. /\ Len(before) = k - 1
        /\ \A i \in 1..k - 1 : before[i] = s[i]
    BY <1>4, <2>3
  <2>5. PICK after : after = f[k]
    OBVIOUS
  <2>6. /\ Len(after) = k /\ after[k] = s[k]
        /\ \A i \in 1..k - 1 : after[i] = s[i]
    BY <2>1, <2>2, <2>3, <2>4, <2>5
  <2> QED BY <2>5, <2>6
<1>5. n \in Good
  <2> HIDE DEF Good
  <2>1. \A k \in 1..n : k - 1 \in Good => k \in Good
    BY <1>4
  <2>2. \A k \in 0..n : k \in Good
    BY <1>3, <2>1, NumbersFollow
  <2> QED BY <2>2
<1>6. f[n] \in Seq(S) /\ Len(f[n]) = Len(s) /\ \A i \in 1..Len(s) : f[n][i] = s[i]
  BY <1>1, <1>2, <1>5 DEF IsLoop
<1>7. PICK r \in Seq(S) : r = f[n]
  BY <1>6
<1>8. r = s
  BY <1>6, <1>7, SeqEqual
<1> QED BY <1>2, <1>7, <1>8

\* Of a sequence that has nothing of it nothing is kept.
LEMMA FilterDropsAll ==
  ASSUME NEW S, NEW U, S \cap U = {}, NEW s \in Seq(S)
  PROVE  Filter(s, U) = << >>
<1>1. PICK n \in Nat : n = Len(s)
  OBVIOUS
<1>2. PICK f : IsLoop(f, s, U, S, n) /\ Filter(s, U) = f[n]
  BY <1>1, FilterIsLoop
<1> DEFINE Good == {k \in 0..n : f[k] = << >>}
<1>3. 0 \in Good
  BY <1>2 DEF IsLoop
<1>4. ASSUME NEW k \in 1..n, k - 1 \in Good PROVE k \in Good
  <2>1. s[k] \in S /\ s[k] \notin U
    BY <1>1
  <2>2. f[k] = f[k - 1]
    BY <1>2, <2>1 DEF IsLoop
  <2> QED BY <1>4, <2>2
<1>5. n \in Good
  <2> HIDE DEF Good
  <2>1. \A k \in 1..n : k - 1 \in Good => k \in Good
    BY <1>4
  <2>2. \A k \in 0..n : k \in Good
    BY <1>3, <2>1, NumbersFollow
  <2> QED BY <2>2
<1> QED BY <1>2, <1>5

\* One more element behind two pieces is one more behind the second.
LEMMA ConcatAppend ==
  ASSUME NEW T, NEW a \in Seq(T), NEW b \in Seq(T), NEW e \in T,
         NEW both \in Seq(T), both = a \o b,
         NEW more \in Seq(T), more = Append(b, e)
  PROVE  Append(both, e) = a \o more
<1>3. PICK m \in Nat : m = Len(a)
  OBVIOUS
<1>4. PICK n \in Nat : n = Len(b)
  OBVIOUS
<1>5. PICK c \in Seq(T) : c = Append(both, e)
  <2>1. Append(both, e) \in Seq(T)
    BY AppendProperties
  <2> QED BY <2>1
<1>6. PICK d \in Seq(T) : d = a \o more
  <2>1. a \o more \in Seq(T)
    BY ConcatProperties
  <2> QED BY <2>1
<1>7. /\ Len(both) = m + n
      /\ \A i \in 1..m + n : both[i] = IF i <= m THEN a[i] ELSE b[i - m]
  BY <1>3, <1>4, ConcatProperties
<1>8. /\ Len(more) = n + 1 /\ more[n + 1] = e
      /\ \A i \in 1..n : more[i] = b[i]
  BY <1>4, AppendProperties
<1>9. /\ Len(d) = m + (n + 1)
      /\ \A i \in 1..m + (n + 1) : d[i] = IF i <= m THEN a[i] ELSE more[i - m]
  <2>1. /\ Len(a \o more) = Len(a) + Len(more)
        /\ \A i \in 1..Len(a) + Len(more) :
             (a \o more)[i] = IF i <= Len(a) THEN a[i] ELSE more[i - Len(a)]
    BY ConcatProperties
  <2>2. Len(a) = m /\ Len(more) = n + 1
    BY <1>3, <1>8
  <2> QED BY <1>6, <2>1, <2>2
<1>10. /\ Len(c) = m + n + 1 /\ c[m + n + 1] = e
       /\ \A i \in 1..m + n : c[i] = both[i]
  BY <1>5, <1>7, AppendProperties
<1>11. ASSUME NEW i \in 1..m + n + 1 PROVE c[i] = d[i]
  <2>1. CASE i \in 1..m
    <3>1. i <= m /\ i \in 1..m + n /\ i \in 1..m + (n + 1)
      BY <2>1
    <3>2. c[i] = a[i]
      BY <1>7, <1>10, <3>1
    <3>3. d[i] = a[i]
      BY <1>9, <3>1
    <3> QED BY <3>2, <3>3
  <2>2. CASE i \in m + 1..m + n
    <3>1. PICK l : l = i - m
      OBVIOUS
    <3>2. l \in 1..n /\ ~(i <= m) /\ i \in 1..m + n /\ i \in 1..m + (n + 1)
      BY <2>2, <3>1
    <3>3. c[i] = b[l]
      BY <1>7, <1>10, <3>1, <3>2
    <3>4. d[i] = more[l]
      BY <1>9, <3>1, <3>2
    <3> QED BY <1>8, <3>2, <3>3, <3>4
  <2>3. CASE i = m + n + 1
    <3>1. PICK l : l = i - m
      OBVIOUS
    <3>2. l = n + 1 /\ ~(i <= m) /\ i \in 1..m + (n + 1)
      BY <2>3, <3>1
    <3>3. d[i] = more[l]
      BY <1>9, <3>1, <3>2
    <3> QED BY <1>8, <1>10, <2>3, <3>2, <3>3
  <2> QED BY <2>1, <2>2, <2>3
<1>12. Len(c) = Len(d) /\ \A i \in 1..Len(c) : c[i] = d[i]
  BY <1>9, <1>10, <1>11
<1>13. c = d
  BY <1>12, SeqEqual
<1> QED BY <1>5, <1>6, <1>13

\* What is kept of two pieces is what is kept of each.
LEMMA FilterOfConcat ==
  ASSUME NEW T, NEW U, NEW a \in Seq(T), NEW b \in Seq(T)
  PROVE  Filter(a \o b, U) = Filter(a, U) \o Filter(b, U)
<1>1. PICK s \in Seq(T) : s = a \o b
  <2>1. a \o b \in Seq(T)
    BY ConcatProperties
  <2> QED BY <2>1
<1>2. PICK m \in Nat : m = Len(a)
  OBVIOUS
<1>3. PICK n \in Nat : n = Len(b)
  OBVIOUS
<1>4. /\ Len(s) = m + n
      /\ \A i \in 1..m : s[i] = a[i]
      /\ \A i \in 1..n : s[m + i] = b[i]
  BY <1>1, <1>2, <1>3, ConcatProperties
<1>5. PICK f : IsLoop(f, a, U, T, m) /\ Filter(a, U) = f[m]
  BY <1>2, FilterIsLoop
<1>6. PICK g : IsLoop(g, b, U, T, n) /\ Filter(b, U) = g[n]
  BY <1>3, FilterIsLoop
<1>7. PICK h : IsLoop(h, s, U, T, m + n) /\ Filter(s, U) = h[m + n]
  <2>1. Len(s) = m + n
    BY <1>4
  <2>2. \E h : IsLoop(h, s, U, T, Len(s)) /\ Filter(s, U) = h[Len(s)]
    BY FilterIsLoop
  <2> QED BY <2>1, <2>2
<1>8. PICK start \in Seq(T) : start = f[m]
  BY <1>5 DEF IsLoop
<1>9. PICK cat : cat = [k \in 0..n |-> start \o g[k]]
  OBVIOUS
<1> DEFINE First == {k \in 0..m : h[k] = f[k]}
           Second == {k \in 0..n : h[m + k] = cat[k]}
<1>10. h[m] = f[m]
  <2>1. 0 \in First
    BY <1>5, <1>7 DEF IsLoop
  <2>2. ASSUME NEW k \in 1..m, k - 1 \in First PROVE k \in First
    <3>1. k \in 1..m + n /\ s[k] = a[k]
      BY <1>4
    <3>2. h[k] = IF s[k] \in U THEN Append(h[k - 1], s[k]) ELSE h[k - 1]
      BY <1>7, <3>1 DEF IsLoop
    <3>3. f[k] = IF a[k] \in U THEN Append(f[k - 1], a[k]) ELSE f[k - 1]
      BY <1>5 DEF IsLoop
    <3>4. h[k - 1] = f[k - 1]
      BY <2>2
    <3>5. h[k] = f[k]
      BY <3>1, <3>2, <3>3, <3>4
    <3> QED BY <3>5
  <2>3. m \in First
    <3> HIDE DEF First
    <3>1. \A k \in 1..m : k - 1 \in First => k \in First
      BY <2>2
    <3>2. \A k \in 0..m : k \in First
      BY <2>1, <3>1, NumbersFollow
    <3> QED BY <3>2
  <2> QED BY <2>3
<1>11. h[m + n] = start \o g[n]
  <2>1. 0 \in Second
    <3>1. g[0] = << >>
      BY <1>6 DEF IsLoop
    <3>2. start \o << >> = start
      BY ConcatEmptySeq
    <3>3. cat[0] = start
      BY <1>9, <3>1, <3>2
    <3> QED BY <1>10, <1>8, <3>3
  <2>2. ASSUME NEW k \in 1..n, k - 1 \in Second PROVE k \in Second
    <3>1. PICK j : j = m + k
      OBVIOUS
    <3>2. j \in 1..m + n /\ s[j] = b[k] /\ j - 1 = m + (k - 1) /\ b[k] \in T
      BY <1>3, <1>4, <3>1, SMTT(30)
    <3>3. h[j] = IF s[j] \in U THEN Append(h[j - 1], s[j]) ELSE h[j - 1]
      BY <1>7, <3>2 DEF IsLoop
    <3>4. g[k] = IF b[k] \in U THEN Append(g[k - 1], b[k]) ELSE g[k - 1]
      BY <1>6 DEF IsLoop
    <3>5. PICK before \in Seq(T) : before = g[k - 1]
      BY <1>6, SMTT(30) DEF IsLoop
    <3>6. h[j - 1] = start \o before
      BY <1>9, <2>2, <3>2, <3>5
    <3>7. PICK e \in T : e = b[k]
      BY <3>2
    <3>8. PICK both \in Seq(T) : both = start \o before
      <4>1. start \o before \in Seq(T)
        BY ConcatProperties
      <4> QED BY <4>1
    <3>9. PICK more \in Seq(T) : more = Append(before, e)
      <4>1. Append(before, e) \in Seq(T)
        BY AppendProperties
      <4> QED BY <4>1
    <3>10. Append(both, e) = start \o more
      BY <3>8, <3>9, ConcatAppend, SMTT(30)
    <3>11. h[j] = start \o g[k]
      BY <3>2, <3>3, <3>4, <3>5, <3>6, <3>7, <3>8, <3>9, <3>10
    <3>12. h[m + k] = cat[k]
      BY <1>9, <3>1, <3>11, SMTT(30)
    <3> QED BY <3>12
  <2>3. n \in Second
    <3> HIDE DEF Second
    <3>1. \A k \in 1..n : k - 1 \in Second => k \in Second
      BY <2>2
    <3>2. \A k \in 0..n : k \in Second
      BY <2>1, <3>1, NumbersFollow
    <3> QED BY <3>2
  <2> QED BY <1>9, <2>3
<1> QED BY <1>1, <1>5, <1>6, <1>7, <1>8, <1>11

-----------------------------------------------------------------------------
(* Pairing codes *)

\* What stands between the first three and the last three is not kept.
LEMMA GapIsFiltered ==
  ASSUME NEW S, NEW U, S \subseteq U, NEW e, e \notin U,
         NEW code \in Seq(S), Len(code) = 6
  PROVE  Filter(SubSeq(code, 1, 3) \o <<e>> \o SubSeq(code, 4, 6), U) = code
<1>1. \A i \in 1..6 : code[i] \in S
  BY ElementOfSeq
<1>2. PICK left \in Seq(S) : left = SubSeq(code, 1, 3)
  <2>1. \A i \in 1..3 : code[i] \in S
    BY <1>1
  <2>2. SubSeq(code, 1, 3) \in Seq(S)
    BY <2>1, SubSeqProperties
  <2> QED BY <2>2
<1>3. PICK right \in Seq(S) : right = SubSeq(code, 4, 6)
  <2>1. \A i \in 4..6 : code[i] \in S
    BY <1>1
  <2>2. SubSeq(code, 4, 6) \in Seq(S)
    BY <2>1, SubSeqProperties
  <2> QED BY <2>2
<1>4. PICK gap \in Seq({e}) : gap = <<e>>
  <2>1. <<e>> \in Seq({e})
    OBVIOUS
  <2> QED BY <2>1
<1>5. PICK T : T = S \cup {e}
  OBVIOUS
<1>6. left \in Seq(T) /\ right \in Seq(T) /\ gap \in Seq(T)
  <2>1. S \subseteq T /\ {e} \subseteq T
    BY <1>5
  <2>2. left \in Seq(T)
    BY <2>1, SeqMonotonic
  <2>3. right \in Seq(T)
    BY <2>1, SeqMonotonic
  <2>4. gap \in Seq(T)
    BY <2>1, SeqMonotonic
  <2> QED BY <2>2, <2>3, <2>4
<1>Pieces. \A a, b \in Seq(T) : Filter(a \o b, U) = Filter(a, U) \o Filter(b, U)
  BY FilterOfConcat, Zenon
<1>7. Filter(left, U) = left
  BY FilterKeepsAll
<1>8. Filter(right, U) = right
  BY FilterKeepsAll
<1>9. Filter(gap, U) = << >>
  <2>1. {e} \cap U = {}
    OBVIOUS
  <2> QED BY <2>1, FilterDropsAll
<1>10. Filter(left \o gap, U) = left
  <2>1. Filter(left \o gap, U) = Filter(left, U) \o Filter(gap, U)
    BY <1>6, <1>Pieces, Zenon
  <2> QED BY <1>7, <1>9, <2>1, ConcatEmptySeq
<1>11. PICK shown \in Seq(T) : shown = left \o gap
  <2>1. left \o gap \in Seq(T)
    BY <1>6, ConcatProperties
  <2> QED BY <2>1
<1>12. Filter(shown \o right, U) = left \o right
  <2>1. Filter(shown \o right, U) = Filter(shown, U) \o Filter(right, U)
    BY <1>6, <1>Pieces, Zenon
  <2> QED BY <1>8, <1>10, <1>11, <2>1
<1>13. left \o right = code
  <2>1. SubSeq(code, 1, 3) \o SubSeq(code, 4, 6) = SubSeq(code, 1, 6)
    <3>1. PICK k \in Nat : k = 3
      OBVIOUS
    <3>2. k \in 1 - 1..Len(code) /\ 1 \in 1..Len(code) + 1 /\ 6 \in k..Len(code)
      BY <3>1
    <3>3. SubSeq(code, 1, k) \o SubSeq(code, k + 1, 6) = SubSeq(code, 1, 6)
      BY <3>2, ConcatAdjacentSubSeq
    <3> QED BY <3>1, <3>3
  <2>2. SubSeq(code, 1, 6) = code
    BY SubSeqFull
  <2> QED BY <1>2, <1>3, <2>1, <2>2
<1> QED BY <1>2, <1>3, <1>4, <1>11, <1>12, <1>13

\* What the screen shows of a code, and what every reader keeps of that.
LEMMA ShownCodeIsRead ==
  ASSUME NEW code \in PairCodes, NEW U, Digits \subseteq U, " " \notin U
  PROVE  Filter(FormatPairCode(code), U) = code
<1>1. code \in Seq(Digits) /\ Len(code) = 6
  BY DEF PairCodes
<1>2. FormatPairCode(code) = SubSeq(code, 1, 3) \o <<" ">> \o SubSeq(code, 4, 6)
  BY <1>1 DEF FormatPairCode
<1> HIDE DEF Digits
<1>3. Filter(SubSeq(code, 1, 3) \o <<" ">> \o SubSeq(code, 4, 6), U) = code
  BY <1>1, GapIsFiltered
<1> QED BY <1>2, <1>3

\* A code that is typed from the terminal's screen, with its gap or without,
\* reaches the gateway's table as the code it was drawn as: app and gateway
\* each keep what they take for digits, and agree on a code's
\* (FormatPairCode and NormalizePairCode, types.go:106-122; PairingCode of the
\* app).
THEOREM TypedCodesComeBack ==
  ASSUME NEW code \in PairCodes,
         NEW typed \in {code, FormatPairCode(code)}
  PROVE  /\ AppNormalize(typed) = code
         /\ NormalizePairCode(AppNormalize(typed)) = code
<1>1. code \in Seq(Digits) /\ Len(code) = 6
  BY DEF PairCodes
<1>2. PICK U : U = Digits \cup OtherNumbers
  OBVIOUS
<1>3. Digits \subseteq U /\ " " \notin U /\ " " \notin Digits
  BY <1>2 DEF Digits, OtherNumbers
<1>4. Filter(code, U) = code /\ Filter(code, Digits) = code
  <2>1. Filter(code, U) = code
    BY <1>1, <1>3, FilterKeepsAll
  <2>2. Filter(code, Digits) = code
    BY <1>1, FilterKeepsAll
  <2> QED BY <2>1, <2>2
<1>5. Filter(FormatPairCode(code), U) = code
  BY <1>3, ShownCodeIsRead
<1>6. Filter(typed, U) = code
  BY <1>4, <1>5
<1>7. AppNormalize(typed) = code
  BY <1>1, <1>2, <1>6 DEF AppNormalize
<1> QED BY <1>4, <1>7 DEF NormalizePairCode

\* A code that is scanned from the terminal's QR code is the code it was drawn
\* as, too: PairingPayload has taken the gap out before.
THEOREM ScannedCodesComeBack ==
  ASSUME NEW code \in PairCodes
  PROVE  ParseQR(PairingPayload(FormatPairCode(code))) = code
<1>1. " " \notin Digits
  BY DEF Digits
<1>2. NormalizePairCode(FormatPairCode(code)) = code
  BY <1>1, ShownCodeIsRead DEF NormalizePairCode
<1>3. PICK qr : qr = PairingPayload(FormatPairCode(code))
  OBVIOUS
<1>4. /\ qr.scheme = "dsremote" /\ qr.host = "pair" /\ qr.path = ""
      /\ DOMAIN qr.params = {"v", "code"} /\ qr.params.v = "1"
      /\ qr.params.code = code
  BY <1>2, <1>3 DEF PairingPayload
<1>5. AppNormalize(qr.params.code) = code
  BY <1>4, TypedCodesComeBack
<1> QED BY <1>3, <1>4, <1>5 DEF ParseQR

=============================================================================
