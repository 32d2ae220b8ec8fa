------------------------ MODULE GatewayProcessProofs -------------------------
(***************************************************************************)
(* The life of dsgateway, for every environment, number of creators and size *)
(* of the window: the limiter slides, and neither a crash nor a restart is   *)
(* seen in the life of a session.                                           *)
(***************************************************************************)
EXTENDS GatewayProcess, LifecycleProofs, PairingCodeProofs

-----------------------------------------------------------------------------
(* The environment *)

Environments == [Numbers -> NumberType]

\* What is read for a number is positive when the default is.
LEMMA NumberOrIsPositive ==
  ASSUME NEW raw \in NumberType, NEW def \in Nat \ {0}
  PROVE  NumberOr(raw, def) \in Nat \ {0}
BY DEF NumberOr, NumberType

\* main passes session.New nothing that New would replace: config.Duration and
\* config.Int have already done so, with the same defaults.
THEOREM DefaultsAgree ==
  ASSUME NEW number \in Environments
  PROVE  ManagerConfig(number) =
           [pair |-> Duration(number, "DS_PAIR_TIMEOUT", 120),
            idle |-> Duration(number, "DS_IDLE_TIMEOUT", 300),
            gen  |-> Duration(number, "DS_GEN_TIMEOUT", 60),
            max  |-> IntOf(number, "DS_MAX_SESSIONS", 8)]
<1>1. /\ Duration(number, "DS_PAIR_TIMEOUT", 120) \in Nat \ {0}
      /\ Duration(number, "DS_IDLE_TIMEOUT", 300) \in Nat \ {0}
      /\ Duration(number, "DS_GEN_TIMEOUT", 60) \in Nat \ {0}
      /\ IntOf(number, "DS_MAX_SESSIONS", 8) \in Nat \ {0}
  BY NumberOrIsPositive DEF Environments, Numbers, Duration, IntOf
<1>2. \A n \in Nat \ {0}, def \in Nat : Positive(n, def) = n
  BY DEF Positive
<1> QED BY <1>1, <1>2 DEF ManagerConfig, NewManagerConfig

\* Whatever the environment says, the manager runs with positive timeouts and
\* room for at least one session: what SessionManager assumes of its constants.
THEOREM ConfigurationIsUsable ==
  ASSUME NEW number \in Environments
  PROVE  ManagerConfig(number) \in
           [pair: Nat \ {0}, idle: Nat \ {0}, gen: Nat \ {0}, max: Nat \ {0}]
<1>1. /\ Duration(number, "DS_PAIR_TIMEOUT", 120) \in Nat \ {0}
      /\ Duration(number, "DS_IDLE_TIMEOUT", 300) \in Nat \ {0}
      /\ Duration(number, "DS_GEN_TIMEOUT", 60) \in Nat \ {0}
      /\ IntOf(number, "DS_MAX_SESSIONS", 8) \in Nat \ {0}
  BY NumberOrIsPositive DEF Environments, Numbers, Duration, IntOf
<1> QED BY <1>1, DefaultsAgree

\* The handlers time a generation with the timeout the manager was given, and
\* there is always a model to fall back to.
THEOREM GatewayFollowsManager ==
  ASSUME NEW number \in Environments, NEW text \in [Texts -> STRING]
  PROVE  /\ GatewayConfig(number, text).gen = ManagerConfig(number).gen
         /\ GatewayConfig(number, text).model # ""
<1>1. GatewayConfig(number, text).gen = ManagerConfig(number).gen
  BY DEF GatewayConfig, ManagerConfig, NewManagerConfig
<1>2. GatewayConfig(number, text).model # ""
  BY DEF GatewayConfig, TextOr, ModelV4Flash
<1> QED BY <1>1, <1>2

USE NoneIsNoValue

-----------------------------------------------------------------------------
(* The limiter's window *)

Ages == 0..Window + 1

Sorted(s) == \A i, j \in 1..Len(s) : i <= j => s[i] >= s[j]

\* What the limiter remembers is the end of the history: nothing that still
\* counts has been forgotten.
IsTheEndOf(s, g, forgotten) ==
  /\ Len(g) = forgotten + Len(s)
  /\ \A i \in 1..Len(s) : s[i] = g[forgotten + i]
  /\ \A i \in 1..forgotten : g[i] >= Window

WindowInv ==
  /\ stamps \in Seq(Ages) /\ granted \in Seq(Ages)
  /\ Len(granted) <= Limit
  /\ Sorted(granted)
  /\ \E forgotten \in Nat : IsTheEndOf(stamps, granted, forgotten)

\* Of stamps in order the filter keeps the end.
LEMMA RecentIsTheEnd ==
  ASSUME stamps \in Seq(Ages), Sorted(stamps)
  PROVE  \E m \in 0..Len(stamps) :
           /\ \A i \in 1..m : stamps[i] >= Window
           /\ \A i \in m + 1..Len(stamps) : stamps[i] < Window
           /\ Recent = SubSeq(stamps, m + 1, Len(stamps))
<1>1. Window \in Nat \ {0}
  BY LimiterConfigured
<1>2. PICK s \in Seq(Ages) : s = stamps
  OBVIOUS
<1>3. PICK n \in Nat : n = Len(s)
  OBVIOUS
<1>4. \A i \in 1..n : s[i] \in 0..Window + 1
  BY <1>3, ElementOfSeq DEF Ages
<1> DEFINE Ends == {k \in 0..n : \A i \in k + 1..n : s[i] < Window}
<1>5. n \in Ends
  OBVIOUS
<1>6. PICK m \in Ends : \A k \in Ends : m <= k
  <2>1. Ends \in SUBSET Nat
    OBVIOUS
  <2> HIDE DEF Ends
  <2>2. Ends # {}
    BY <1>5
  <2> QED BY <2>1, <2>2, LeastNumber
<1>7. m \in 0..n /\ \A i \in m + 1..n : s[i] < Window
  OBVIOUS
<1>8. \A i \in 1..m : s[i] >= Window
  <2>1. CASE m = 0
    BY <2>1
  <2>2. CASE m > 0
    <3>1. m - 1 \in 0..n /\ m - 1 \notin Ends
      BY <1>6, <1>7, <2>2
    <3>2. PICK i \in (m - 1) + 1..n : ~(s[i] < Window)
      BY <3>1
    <3>3. i = m
      BY <1>7, <3>2
    <3>4. m \in 1..n /\ s[m] >= Window
      <4>1. m \in 1..n /\ ~(s[m] < Window)
        <5> HIDE DEF Ends
        <5> QED BY <1>7, <2>2, <3>2, <3>3
      <4>2. s[m] \in 0..Window + 1
        BY <1>4, <4>1
      <4> QED BY <1>1, <4>1, <4>2
    <3>5. \A j \in 1..m : s[j] >= s[m]
      BY <1>2, <1>3, <3>4 DEF Sorted
    <3> QED BY <1>1, <1>4, <1>7, <3>4, <3>5, SMTT(30)
  <2> QED BY <1>7, <2>1, <2>2
<1>9. PICK old \in Seq(Window..Window + 1) : old = SubSeq(s, 1, m)
  <2>1. \A i \in 1..m : s[i] \in Window..Window + 1
    BY <1>1, <1>4, <1>7, <1>8 DEF Ages
  <2>2. SubSeq(s, 1, m) \in Seq(Window..Window + 1)
    BY <1>7, <2>1, SubSeqProperties
  <2> QED BY <2>2
<1>10. PICK fresh \in Seq(0..Window - 1) : fresh = SubSeq(s, m + 1, n)
  <2>1. \A i \in m + 1..n : s[i] \in 0..Window - 1
    BY <1>1, <1>4, <1>7, SMTT(30) DEF Ages
  <2>2. SubSeq(s, m + 1, n) \in Seq(0..Window - 1)
    BY <1>7, <2>1, SubSeqProperties
  <2> QED BY <2>2
<1>11. old \o fresh = s
  <2>1. SubSeq(s, 1, m) \o SubSeq(s, m + 1, n) = SubSeq(s, 1, n)
    <3>1. 1 \in 1..Len(s) + 1 /\ m \in 1 - 1..Len(s) /\ n \in m..Len(s)
      BY <1>3, <1>7
    <3> QED BY <3>1, ConcatAdjacentSubSeq
  <2>2. SubSeq(s, 1, n) = s
    BY <1>3, SubSeqFull
  <2> QED BY <1>9, <1>10, <2>1, <2>2
<1>12. PICK U : U = 0..Window - 1
  OBVIOUS
<1>13. Filter(old, U) = << >>
  <2>1. (Window..Window + 1) \cap U = {}
    BY <1>1, <1>12
  <2> QED BY <2>1, FilterDropsAll
<1>14. Filter(fresh, U) = fresh
  BY <1>12, FilterKeepsAll
<1>15. Filter(s, U) = fresh
  <2>1. old \in Seq(Ages) /\ fresh \in Seq(Ages)
    <3>1. Window..Window + 1 \subseteq Ages /\ 0..Window - 1 \subseteq Ages
      BY <1>1 DEF Ages
    <3>2. old \in Seq(Ages)
      BY <3>1, SeqMonotonic
    <3>3. fresh \in Seq(Ages)
      BY <3>1, SeqMonotonic, ZenonT(30)
    <3> QED BY <3>2, <3>3
  <2>2. Filter(old \o fresh, U) = Filter(old, U) \o Filter(fresh, U)
    <3>1. \A a, b \in Seq(Ages) : Filter(a \o b, U) = Filter(a, U) \o Filter(b, U)
      BY FilterOfConcat, ZenonT(30)
    <3> QED BY <2>1, <3>1, Zenon
  <2>3. << >> \o fresh = fresh
    BY ConcatEmptySeq
  <2> QED BY <1>11, <1>13, <1>14, <2>2, <2>3
<1>16. Recent = SubSeq(stamps, m + 1, Len(stamps))
  BY <1>2, <1>3, <1>10, <1>12, <1>15 DEF Recent
<1> QED BY <1>2, <1>3, <1>7, <1>8, <1>16

\* The stamps that count are the end of the history, too, and the rest of it
\* has left the window.
LEMMA RecentFacts ==
  ASSUME WindowInv
  PROVE  /\ Recent \in Seq(Ages)
         /\ \E forgotten \in Nat :
              /\ IsTheEndOf(Recent, granted, forgotten)
              /\ \A i \in 1..Len(granted) : i > forgotten => granted[i] < Window
<1>1. Window \in Nat \ {0}
  BY LimiterConfigured
<1>2. PICK s \in Seq(Ages) : s = stamps
  BY DEF WindowInv
<1>3. PICK g \in Seq(Ages) : g = granted
  BY DEF WindowInv
<1>4. PICK n \in Nat : n = Len(s)
  OBVIOUS
<1>5. PICK f \in Nat : IsTheEndOf(s, g, f)
  BY <1>2, <1>3 DEF WindowInv
<1>6. /\ Len(g) = f + n
      /\ \A i \in 1..n : s[i] = g[f + i]
      /\ \A i \in 1..f : g[i] >= Window
  BY <1>4, <1>5 DEF IsTheEndOf
<1>7. Sorted(s)
  <2>1. \A i, j \in 1..f + n : i <= j => g[i] >= g[j]
    BY <1>3, <1>6 DEF WindowInv, Sorted
  <2> SUFFICES ASSUME NEW i \in 1..n, NEW j \in 1..n, i <= j
               PROVE  s[i] >= s[j]
    BY <1>4 DEF Sorted
  <2>2. f + i \in 1..f + n /\ f + j \in 1..f + n /\ f + i <= f + j
    OBVIOUS
  <2>3. g[f + i] >= g[f + j]
    BY <2>1, <2>2
  <2> QED BY <1>6, <2>3
<1>8. PICK m \in 0..n : /\ \A i \in 1..m : s[i] >= Window
                        /\ \A i \in m + 1..n : s[i] < Window
                        /\ Recent = SubSeq(s, m + 1, n)
  BY <1>2, <1>4, <1>7, RecentIsTheEnd
<1>9. PICK r \in Seq(Ages) : r = Recent
  <2>1. \A i \in m + 1..n : s[i] \in Ages
    BY <1>4, ElementOfSeq
  <2>2. SubSeq(s, m + 1, n) \in Seq(Ages)
    BY <2>1, SubSeqProperties
  <2> QED BY <1>8, <2>2
<1>10. Len(r) = n - m /\ \A i \in 1..n - m : r[i] = s[m + i]
  <2>1. \A i \in m + 1..n : s[i] \in Ages
    BY <1>4, ElementOfSeq
  <2>2. /\ Len(SubSeq(s, m + 1, n)) = IF m + 1 <= n THEN n - (m + 1) + 1 ELSE 0
        /\ \A i \in 1..n - (m + 1) + 1 : SubSeq(s, m + 1, n)[i] = s[(m + 1) + i - 1]
    BY <2>1, SubSeqProperties
  <2> QED BY <1>8, <1>9, <2>2
<1>11. PICK l \in Nat : l = f + m
  OBVIOUS
<1>12. Len(g) = l + Len(r)
  BY <1>6, <1>10, <1>11
<1>13. \A i \in 1..Len(r) : r[i] = g[l + i]
  <2> SUFFICES ASSUME NEW i \in 1..n - m PROVE r[i] = g[l + i]
    BY <1>10
  <2>1. m + i \in 1..n /\ f + (m + i) = l + i
    BY <1>11
  <2> QED BY <1>6, <1>10, <2>1
<1>14. \A i \in 1..l : g[i] >= Window
  <2> SUFFICES ASSUME NEW i \in 1..l PROVE g[i] >= Window
    OBVIOUS
  <2>1. CASE i <= f
    BY <1>6, <2>1
  <2>2. CASE i > f
    <3>1. i - f \in 1..m /\ i - f \in 1..n /\ f + (i - f) = i
      BY <1>11, <2>2
    <3>2. s[i - f] = g[i]
      BY <1>6, <3>1
    <3> QED BY <1>8, <3>1, <3>2
  <2> QED BY <2>1, <2>2
<1>15. \A i \in 1..Len(g) : i > l => g[i] < Window
  <2> SUFFICES ASSUME NEW i \in 1..f + n, i > l PROVE g[i] < Window
    BY <1>6
  <2>1. i - f \in m + 1..n /\ i - f \in 1..n /\ f + (i - f) = i
    BY <1>11
  <2>2. s[i - f] = g[i]
    BY <1>6, <2>1
  <2> QED BY <1>8, <2>1, <2>2
<1>16. IsTheEndOf(r, g, l)
  BY <1>12, <1>13, <1>14 DEF IsTheEndOf
<1> QED BY <1>3, <1>9, <1>15, <1>16

LEMMA EmptyWindow ==
  /\ << >> \in Seq(Ages) /\ Len(<< >>) <= Limit
  /\ Sorted(<< >>)
  /\ \E forgotten \in Nat : IsTheEndOf(<< >>, << >>, forgotten)
<1>1. << >> \in Seq(Ages) /\ Len(<< >>) = 0
  OBVIOUS
<1>2. IsTheEndOf(<< >>, << >>, 0)
  BY <1>1 DEF IsTheEndOf
<1> QED BY <1>1, <1>2, LimiterConfigured DEF Sorted

\* The history without its oldest when it is full: where a creation goes.
LEMMA HistoryHasRoom ==
  ASSUME WindowInv, Len(Recent) < Limit
  PROVE  \E base \in Seq(Ages), forgotten \in Nat :
           /\ base = IF Len(granted) < Limit THEN granted ELSE Tail(granted)
           /\ Len(base) < Limit /\ Sorted(base)
           /\ IsTheEndOf(Recent, base, forgotten)
<1>1. Limit \in Nat \ {0}
  BY LimiterConfigured
<1>2. PICK g \in Seq(Ages) : g = granted
  BY DEF WindowInv
<1>3. PICK r \in Seq(Ages) : r = Recent
  BY RecentFacts
<1>4. PICK b \in Nat : b = Len(g)
  OBVIOUS
<1>5. PICK n \in Nat : n = Len(r)
  OBVIOUS
<1>6. PICK f \in Nat : IsTheEndOf(r, g, f)
  BY <1>2, <1>3, RecentFacts
<1>7. /\ b = f + n /\ n < Limit /\ b <= Limit
      /\ \A i \in 1..n : r[i] = g[f + i]
      /\ \A i \in 1..f : g[i] >= Window
      /\ \A i, j \in 1..b : i <= j => g[i] >= g[j]
  BY <1>2, <1>3, <1>4, <1>5, <1>6 DEF IsTheEndOf, WindowInv, Sorted
<1>8. CASE b < Limit
  BY <1>2, <1>3, <1>4, <1>6, <1>8 DEF WindowInv
<1>9. CASE ~(b < Limit)
  <2>1. b = Limit /\ f >= 1
    BY <1>1, <1>7, <1>9
  <2>2. PICK t \in Seq(Ages) : t = Tail(g)
    <3>1. g # << >>
      BY <1>1, <1>4, <2>1
    <3>2. Tail(g) \in Seq(Ages)
      BY <3>1, HeadTailProperties
    <3> QED BY <3>2
  <2>3. Len(t) = b - 1 /\ \A i \in 1..b - 1 : t[i] = g[i + 1]
    <3>1. g # << >>
      BY <1>1, <1>4, <2>1
    <3> QED BY <1>4, <2>2, <3>1, HeadTailProperties
  <2>4. PICK l \in Nat : l = f - 1
    BY <2>1
  <2>5. Len(t) = l + n
    BY <1>7, <2>3, <2>4
  <2>6. \A i \in 1..n : r[i] = t[l + i]
    <3> SUFFICES ASSUME NEW i \in 1..n PROVE r[i] = t[l + i]
      OBVIOUS
    <3>1. l + i \in 1..b - 1 /\ (l + i) + 1 = f + i
      BY <1>7, <2>4
    <3> QED BY <1>7, <2>3, <3>1
  <2>7. \A i \in 1..l : t[i] >= Window
    <3> SUFFICES ASSUME NEW i \in 1..l PROVE t[i] >= Window
      OBVIOUS
    <3>1. i \in 1..b - 1 /\ i + 1 \in 1..f
      BY <1>7, <2>4
    <3> QED BY <1>7, <2>3, <3>1
  <2>8. Sorted(t)
    <3> SUFFICES ASSUME NEW i \in 1..b - 1, NEW j \in 1..b - 1, i <= j
                 PROVE  t[i] >= t[j]
      BY <2>3 DEF Sorted
    <3>1. i + 1 \in 1..b /\ j + 1 \in 1..b /\ i + 1 <= j + 1
      OBVIOUS
    <3>2. g[i + 1] >= g[j + 1]
      BY <1>7, <3>1
    <3> QED BY <2>3, <3>2
  <2>9. IsTheEndOf(r, t, l)
    BY <1>5, <2>5, <2>6, <2>7 DEF IsTheEndOf
  <2>10. Len(t) < Limit
    BY <1>1, <2>1, <2>3
  <2> QED BY <1>2, <1>3, <1>4, <1>9, <2>2, <2>8, <2>9, <2>10
<1> QED BY <1>8, <1>9

LEMMA GrantKeepsWindow ==
  ASSUME WindowInv, Grant
  PROVE  WindowInv'
<1>1. Limit \in Nat \ {0} /\ Window \in Nat \ {0}
  BY LimiterConfigured
<1>2. PICK base \in Seq(Ages), f \in Nat :
        /\ base = IF Len(granted) < Limit THEN granted ELSE Tail(granted)
        /\ Len(base) < Limit /\ Sorted(base)
        /\ IsTheEndOf(Recent, base, f)
  BY HistoryHasRoom DEF Grant
<1>3. PICK r \in Seq(Ages) : r = Recent
  BY RecentFacts
<1>4. 0 \in Ages
  BY <1>1 DEF Ages
<1>5. PICK s2 \in Seq(Ages) : s2 = Append(r, 0)
  <2>1. Append(r, 0) \in Seq(Ages)
    BY <1>4, AppendProperties
  <2> QED BY <2>1
<1>6. PICK g2 \in Seq(Ages) : g2 = Append(base, 0)
  <2>1. Append(base, 0) \in Seq(Ages)
    BY <1>4, AppendProperties
  <2> QED BY <2>1
<1>7. stamps' = s2 /\ granted' = g2
  BY <1>2, <1>3, <1>5, <1>6 DEF Grant
<1>8. PICK n \in Nat : n = Len(r)
  OBVIOUS
<1>9. PICK b \in Nat : b = Len(base)
  OBVIOUS
<1>10. /\ b = f + n /\ b < Limit
       /\ \A i \in 1..n : r[i] = base[f + i]
       /\ \A i \in 1..f : base[i] >= Window
       /\ \A i, j \in 1..b : i <= j => base[i] >= base[j]
  BY <1>2, <1>3, <1>8, <1>9 DEF IsTheEndOf, Sorted
<1>11. Len(s2) = n + 1 /\ s2[n + 1] = 0 /\ \A i \in 1..n : s2[i] = r[i]
  BY <1>4, <1>5, <1>8, AppendProperties
<1>12. Len(g2) = b + 1 /\ g2[b + 1] = 0 /\ \A i \in 1..b : g2[i] = base[i]
  BY <1>4, <1>6, <1>9, AppendProperties
<1>13. \A i \in 1..n + 1 : s2[i] = g2[f + i]
  <2> SUFFICES ASSUME NEW i \in 1..n + 1 PROVE s2[i] = g2[f + i]
    OBVIOUS
  <2>1. CASE i \in 1..n
    <3>1. f + i \in 1..b
      BY <1>10, <2>1
    <3> QED BY <1>10, <1>11, <1>12, <2>1, <3>1
  <2>2. CASE i = n + 1
    <3>1. f + i = b + 1
      BY <1>10, <2>2
    <3> QED BY <1>11, <1>12, <2>2, <3>1
  <2> QED BY <2>1, <2>2
<1>14. \A i \in 1..f : g2[i] >= Window
  <2>1. \A i \in 1..f : i \in 1..b
    BY <1>10
  <2> QED BY <1>10, <1>12, <2>1
<1>15. IsTheEndOf(s2, g2, f)
  <2>1. Len(g2) = f + Len(s2)
    BY <1>10, <1>11, <1>12
  <2> QED BY <1>11, <1>13, <1>14, <2>1 DEF IsTheEndOf
<1>16. Sorted(g2)
  <2> SUFFICES ASSUME NEW i \in 1..b + 1, NEW j \in 1..b + 1, i <= j
               PROVE  g2[i] >= g2[j]
    BY <1>12 DEF Sorted
  <2>1. g2[i] \in 0..Window + 1
    <3>1. i \in 1..Len(g2)
      BY <1>12
    <3> QED BY <3>1, ElementOfSeq DEF Ages
  <2>2. CASE j \in 1..b
    <3>1. i \in 1..b
      BY <2>2
    <3> QED BY <1>10, <1>12, <2>2, <3>1
  <2>3. CASE j = b + 1
    BY <1>1, <1>12, <2>1, <2>3
  <2> QED BY <2>2, <2>3
<1>17. Len(g2) <= Limit
  BY <1>1, <1>10, <1>12
<1> QED BY <1>7, <1>15, <1>16, <1>17 DEF WindowInv, Ages, Sorted, IsTheEndOf

LEMMA DenyKeepsWindow ==
  ASSUME WindowInv, Deny
  PROVE  WindowInv'
<1>1. stamps' = Recent /\ granted' = granted
  BY DEF Deny
<1> QED BY <1>1, RecentFacts DEF WindowInv, Ages, Sorted, IsTheEndOf

LEMMA OlderFacts ==
  ASSUME NEW x \in Ages, NEW y \in Ages
  PROVE  /\ Older(x) \in Ages
         /\ x >= y => Older(x) >= Older(y)
         /\ x >= Window => Older(x) >= Window
BY LimiterConfigured DEF Older, Ages

LEMMA TickKeepsWindow ==
  ASSUME WindowInv, LimiterTick
  PROVE  WindowInv'
<1>1. PICK s \in Seq(Ages) : s = stamps
  BY DEF WindowInv
<1>2. PICK g \in Seq(Ages) : g = granted
  BY DEF WindowInv
<1>3. PICK n \in Nat : n = Len(s)
  OBVIOUS
<1>4. PICK b \in Nat : b = Len(g)
  OBVIOUS
<1>5. PICK f \in Nat : IsTheEndOf(s, g, f)
  BY <1>1, <1>2 DEF WindowInv
<1>6. /\ b = f + n /\ b <= Limit
      /\ \A i \in 1..n : s[i] = g[f + i]
      /\ \A i \in 1..f : g[i] >= Window
      /\ \A i, j \in 1..b : i <= j => g[i] >= g[j]
  BY <1>1, <1>2, <1>3, <1>4, <1>5 DEF IsTheEndOf, WindowInv, Sorted
<1>7. (\A i \in 1..n : s[i] \in Ages) /\ (\A i \in 1..b : g[i] \in Ages)
  BY <1>3, <1>4, ElementOfSeq
<1>8. PICK s2 : s2 = [i \in 1..n |-> Older(s[i])]
  OBVIOUS
<1>9. PICK g2 : g2 = [i \in 1..b |-> Older(g[i])]
  OBVIOUS
<1>10. stamps' = s2 /\ granted' = g2
  <2>1. DOMAIN s = 1..n /\ DOMAIN g = 1..b
    BY <1>3, <1>4
  <2> QED BY <1>1, <1>2, <1>8, <1>9, <2>1 DEF LimiterTick
<1>11. s2 \in Seq(Ages) /\ g2 \in Seq(Ages)
  <2>1. s2 \in [1..n -> Ages] /\ g2 \in [1..b -> Ages]
    BY <1>7, <1>8, <1>9, OlderFacts
  <2> QED BY <2>1, SeqDef
<1>12. Len(s2) = n /\ Len(g2) = b
  BY <1>8, <1>9, <1>11
<1>13. IsTheEndOf(s2, g2, f)
  <2>1. \A i \in 1..n : s2[i] = g2[f + i]
    <3> SUFFICES ASSUME NEW i \in 1..n PROVE s2[i] = g2[f + i]
      OBVIOUS
    <3>1. f + i \in 1..b
      BY <1>6
    <3> QED BY <1>6, <1>8, <1>9, <3>1
  <2>2. \A i \in 1..f : g2[i] >= Window
    <3> SUFFICES ASSUME NEW i \in 1..f PROVE g2[i] >= Window
      OBVIOUS
    <3>1. i \in 1..b
      BY <1>6
    <3> QED BY <1>6, <1>7, <1>9, <3>1, OlderFacts
  <2> QED BY <1>6, <1>12, <2>1, <2>2 DEF IsTheEndOf
<1>14. Sorted(g2)
  <2> SUFFICES ASSUME NEW i \in 1..b, NEW j \in 1..b, i <= j
               PROVE  g2[i] >= g2[j]
    BY <1>12 DEF Sorted
  <2> QED BY <1>6, <1>7, <1>9, OlderFacts
<1> QED BY <1>6, <1>10, <1>11, <1>12, <1>13, <1>14
        DEF WindowInv, Ages, Sorted, IsTheEndOf

\* A full window is the whole history: a place is free exactly when the oldest
\* of the last Limit creations has left it.
LEMMA FreePlace ==
  ASSUME WindowInv
  PROVE  Len(Recent) < Limit <=> Len(granted) < Limit \/ granted[1] >= Window
<1>1. Limit \in Nat \ {0} /\ Window \in Nat \ {0}
  BY LimiterConfigured
<1>2. PICK g \in Seq(Ages) : g = granted
  BY DEF WindowInv
<1>3. PICK r \in Seq(Ages) : r = Recent
  BY RecentFacts
<1>4. PICK f \in Nat : /\ IsTheEndOf(r, g, f)
                       /\ \A i \in 1..Len(g) : i > f => g[i] < Window
  BY <1>2, <1>3, RecentFacts
<1>5. PICK b \in Nat : b = Len(g)
  OBVIOUS
<1>6. PICK n \in Nat : n = Len(r)
  OBVIOUS
<1>7. b = f + n /\ b <= Limit
  BY <1>2, <1>4, <1>5, <1>6 DEF IsTheEndOf, WindowInv
<1>8. CASE f = 0
  <2>1. b >= 1 => g[1] < Window /\ g[1] \in 0..Window + 1
    <3>1. b >= 1 => 1 \in 1..Len(g) /\ 1 > f
      BY <1>5, <1>8
    <3> QED BY <1>4, <3>1, ElementOfSeq DEF Ages
  <2>2. b >= 1 => ~(g[1] >= Window)
    BY <1>1, <2>1
  <2> QED BY <1>1, <1>2, <1>3, <1>5, <1>6, <1>7, <1>8, <2>2
<1>9. CASE f >= 1
  <2>1. g[1] >= Window
    BY <1>4, <1>9 DEF IsTheEndOf
  <2> QED BY <1>1, <1>2, <1>3, <1>6, <1>7, <1>9, <2>1
<1> QED BY <1>8, <1>9

-----------------------------------------------------------------------------
(* The process *)

\* Where the process is, and what a process that is down has.
ProcessInv ==
  /\ process \in {"down", "serving", "draining"}
  /\ drainLeft \in -1..DrainTime
  /\ creator \in [Creators -> {"idle", "allowed", "refused", "replying"}]
  /\ process = "down" => /\ live = {} /\ HandlersDone
                         /\ stamps = << >> /\ granted = << >>

PInv ==
  /\ Inv
  /\ WindowInv
  /\ ProcessInv

LEMMA PInitInv == PInit => PInv
<1> SUFFICES ASSUME PInit PROVE PInv
  OBVIOUS
<1>1. Inv
  BY InitInv DEF PInit
<1>2. WindowInv
  BY EmptyWindow DEF PInit, LimiterInit, WindowInv
<1>3. ProcessInv
  BY DrainTimeIsNatural
     DEF PInit, LimiterInit, MInit, ProcessInv, HandlersDone
<1> QED BY <1>1, <1>2, <1>3 DEF PInv

\* What a step does to the manager is a step of the manager, or its end.
LEMMA ProcessDrivesManager ==
  ASSUME [PNext]_pvars
  PROVE  [MNext]_mvars \/ ManagerDies
<1>1. CASE UNCHANGED mvars
  BY <1>1
<1>2. CASE ManagerDies
  BY <1>2
<1>3. CASE MNext
  BY <1>3
<1>4. ASSUME NEW mock \in BOOLEAN, StartServing(mock) PROVE UNCHANGED mvars
  BY <1>4 DEF StartServing
<1>5. CASE Stop
  BY <1>1, <1>5 DEF Stop
<1>6. CASE Exit \/ Crash
  BY <1>2, <1>6 DEF Exit, Crash, Die
<1>7. ASSUME NEW c \in Creators, Allow(c) \/ CreateAllowed(c) \/ ReplyCreated(c)
      PROVE  [MNext]_mvars
  BY <1>7 DEF Allow, CreateAllowed, ReplyCreated, MNext
<1>8. CASE Served(Request)
  BY <1>3, <1>8 DEF Served, Request, MNext
<1>9. CASE GoesOn(HandlerContinues \/ Sweep)
  BY <1>3, <1>9 DEF GoesOn, HandlerContinues, MNext
<1>10. CASE ProcessTick
  BY <1>3, <1>10 DEF ProcessTick, MNext
<1>11. CASE UNCHANGED pvars
  BY <1>1, <1>11 DEF pvars
<1> QED BY <1>4, <1>1, <1>5, <1>6, <1>7, <1>8, <1>9, <1>10, <1>11 DEF PNext

LEMMA ProcessKeepsInv ==
  ASSUME PInv, [PNext]_pvars
  PROVE  Inv'
BY ProcessDrivesManager, NextInv, ManagerDiesInv DEF PInv

LEMMA ProcessKeepsWindow ==
  ASSUME PInv, [PNext]_pvars
  PROVE  WindowInv'
<1> USE DEF PInv
<1>1. CASE UNCHANGED limiterVars
  BY <1>1 DEF limiterVars, WindowInv, Ages, Sorted, IsTheEndOf
<1>2. CASE Die
  <2>1. stamps' = << >> /\ granted' = << >>
    BY <1>2 DEF Die
  <2> QED BY <2>1, EmptyWindow DEF WindowInv, Ages, Sorted, IsTheEndOf
<1>3. ASSUME NEW mock \in BOOLEAN, StartServing(mock)
      PROVE  UNCHANGED limiterVars
  BY <1>3 DEF StartServing
<1>4. CASE Stop
  BY <1>1, <1>4 DEF Stop
<1>5. CASE Exit \/ Crash
  BY <1>2, <1>5 DEF Exit, Crash
<1>6. ASSUME NEW c \in Creators, Allow(c) PROVE WindowInv'
  BY <1>6, GrantKeepsWindow, DenyKeepsWindow DEF Allow
<1>7. ASSUME NEW c \in Creators, CreateAllowed(c) \/ ReplyCreated(c)
      PROVE  UNCHANGED limiterVars
  BY <1>7 DEF CreateAllowed, ReplyCreated
<1>8. CASE Served(Request) \/ GoesOn(HandlerContinues \/ Sweep)
  BY <1>1, <1>8 DEF Served, GoesOn
<1>9. CASE ProcessTick
  BY <1>9, TickKeepsWindow DEF ProcessTick
<1>10. CASE UNCHANGED pvars
  BY <1>1, <1>10 DEF pvars
<1> QED BY <1>1, <1>3, <1>4, <1>5, <1>6, <1>7, <1>8, <1>9, <1>10 DEF PNext

LEMMA ProcessKeepsItself ==
  ASSUME PInv, [PNext]_pvars
  PROVE  ProcessInv'
<1> USE DrainTimeIsNatural DEF PInv, ProcessInv
<1>1. CASE UNCHANGED pvars
  BY <1>1 DEF pvars, mvars, limiterVars, HandlersDone
<1>2. CASE Exit \/ Crash
  BY <1>2 DEF Exit, Crash, Die, ManagerDies, HandlersDone
<1>3. ASSUME NEW mock \in BOOLEAN, StartServing(mock) PROVE ProcessInv'
  BY <1>3 DEF StartServing
<1>4. CASE Stop
  BY <1>4 DEF Stop
<1>5. ASSUME NEW c \in Creators, Allow(c) PROVE ProcessInv'
  BY <1>5 DEF Allow
<1>6. ASSUME NEW c \in Creators, CreateAllowed(c) PROVE ProcessInv'
  BY <1>6 DEF CreateAllowed
<1>7. ASSUME NEW c \in Creators, ReplyCreated(c) PROVE ProcessInv'
  BY <1>7 DEF ReplyCreated
<1>8. CASE Served(Request)
  BY <1>8 DEF Served
<1>9. CASE GoesOn(HandlerContinues \/ Sweep)
  BY <1>9 DEF GoesOn
<1>10. CASE ProcessTick
  <2>1. drainLeft' \in -1..DrainTime
    BY <1>10 DEF ProcessTick, Less
  <2>2. process' = process /\ creator' = creator
        /\ live' = live /\ promptOf' = promptOf
    BY <1>10 DEF ProcessTick, Tick
  <2>3. process = "down" => stamps' = << >> /\ granted' = << >>
    BY <1>10 DEF ProcessTick, LimiterTick
  <2> QED BY <2>1, <2>2, <2>3 DEF HandlersDone
<1> QED BY <1>1, <1>2, <1>3, <1>4, <1>5, <1>6, <1>7, <1>8, <1>9, <1>10 DEF PNext

LEMMA PNextInv == PInv /\ [PNext]_pvars => PInv'
BY ProcessKeepsInv, ProcessKeepsWindow, ProcessKeepsItself DEF PInv

-----------------------------------------------------------------------------
(* The theorems *)

\* The manager's invariant, the window's and the process's hold together,
\* through every crash, drain and restart (cmd/dsgateway/main.go).
THEOREM ProcessInvariance == PSpec => []PInv
<1> QED BY PInitInv, PNextInv, PTL DEF PSpec

\* Every variable has its type, the limiter never remembers more than Limit
\* creations, and a process that is down has nothing.
THEOREM ProcessTypeCorrectness == PSpec => []PTypeOK
<1>1. ASSUME PInv PROVE PTypeOK
  <2>1. Len(stamps) <= Len(granted)
    BY <1>1, LimiterConfigured DEF PInv, WindowInv, IsTheEndOf
  <2> QED BY <1>1, <2>1, LimiterConfigured
          DEF PInv, Inv, WindowInv, ProcessInv, Ages, PTypeOK
<1> QED BY <1>1, ProcessInvariance, PTL

\* What may follow a creator that asks the limiter.
LEMMA AllowMoves ==
  ASSUME [PNext]_pvars, PInv, NEW c \in Creators, creator[c] = "idle",
         creator'[c] # "idle"
  PROVE  \/ Grant /\ creator'[c] = "allowed"
         \/ Deny /\ creator'[c] = "refused"
<1> USE DEF PInv, ProcessInv
<1>1. CASE UNCHANGED creator
  BY <1>1
<1>2. CASE Exit \/ Crash
  BY <1>2 DEF Exit, Crash, Die
<1>3. ASSUME NEW mock \in BOOLEAN, StartServing(mock) PROVE UNCHANGED creator
  BY <1>3 DEF StartServing
<1>4. CASE Stop
  BY <1>1, <1>4 DEF Stop
<1>5. ASSUME NEW d \in Creators, Allow(d)
      PROVE  \/ Grant /\ creator'[c] = "allowed"
             \/ Deny /\ creator'[c] = "refused"
  BY <1>5 DEF Allow
<1>6. ASSUME NEW d \in Creators, CreateAllowed(d) PROVE FALSE
  BY <1>6 DEF CreateAllowed
<1>7. ASSUME NEW d \in Creators, ReplyCreated(d) PROVE FALSE
  BY <1>7 DEF ReplyCreated
<1>8. CASE Served(Request) \/ GoesOn(HandlerContinues \/ Sweep)
  BY <1>1, <1>8 DEF Served, GoesOn
<1>9. CASE ProcessTick
  BY <1>1, <1>9 DEF ProcessTick
<1>10. CASE UNCHANGED pvars
  BY <1>1, <1>10 DEF pvars
<1> QED BY <1>1, <1>2, <1>3, <1>4, <1>5, <1>6, <1>7, <1>8, <1>9, <1>10 DEF PNext

\* No window of the limiter's, wherever it begins, holds more than Limit
\* creations (Allow, ratelimit.go).
THEOREM WindowSlides == PSpec => NoBurst
<1>1. ASSUME PInv, [PNext]_pvars, NEW c \in Creators,
             creator[c] = "idle", creator'[c] = "allowed"
      PROVE  Len(granted) < Limit \/ granted[1] >= Window
  <2>1. Grant
    BY <1>1, AllowMoves
  <2> QED BY <1>1, <2>1, FreePlace DEF Grant, PInv
<1>2. PInv /\ [PNext]_pvars =>
        [\A c \in Creators :
           creator[c] = "idle" /\ creator'[c] = "allowed" =>
             Len(granted) < Limit \/ granted[1] >= Window]_pvars
  BY <1>1
<1> QED BY <1>2, ProcessInvariance, PTL DEF PSpec, NoBurst

\* A creation is refused only for the Limit ones of the last Window ticks.
THEOREM RefusalsAreDeserved == PSpec => RefusedOnlyWhenFull
<1>1. ASSUME PInv, [PNext]_pvars, NEW c \in Creators,
             creator[c] = "idle", creator'[c] = "refused"
      PROVE  Len(granted) = Limit /\ granted[1] < Window
  <2>1. Deny
    BY <1>1, AllowMoves
  <2>2. ~(Len(Recent) < Limit)
    <3>1. Recent \in Seq(Ages)
      BY <1>1, RecentFacts DEF PInv
    <3> QED BY <2>1, <3>1, LimiterConfigured DEF Deny
  <2>3. ~(Len(granted) < Limit) /\ ~(granted[1] >= Window)
    BY <1>1, <2>2, FreePlace DEF PInv
  <2>4. PICK g \in Seq(Ages) : g = granted
    BY <1>1 DEF PInv, WindowInv
  <2>5. Len(g) = Limit
    BY <1>1, <2>3, <2>4, LimiterConfigured DEF PInv, WindowInv
  <2>6. g[1] \in 0..Window + 1
    <3>1. 1 \in 1..Len(g)
      BY <2>5, LimiterConfigured
    <3> QED BY <3>1, ElementOfSeq DEF Ages
  <2> QED BY <2>3, <2>4, <2>5, <2>6, LimiterConfigured
<1>2. PInv /\ [PNext]_pvars =>
        [\A c \in Creators :
           creator[c] = "idle" /\ creator'[c] = "refused" =>
             Len(granted) = Limit /\ granted[1] < Window]_pvars
  BY <1>1
<1> QED BY <1>2, ProcessInvariance, PTL DEF PSpec, RefusedOnlyWhenFull

\* Whatever crashes, drains or restarts, the sessions live the life
\* SessionLifecycle specifies.
THEOREM RestartsKeepLifecycle == PSpec => LifecycleAcrossRestarts
<1>1. PInit => Lifecycle!Init
  BY LifecycleInit DEF PInit
<1>2. PInv /\ [PNext]_pvars => [Lifecycle!Next]_(Lifecycle!lifecycleVars)
  BY ProcessDrivesManager, LifecycleNext, ManagerDiesRetires DEF PInv
<1> QED BY <1>1, <1>2, ProcessInvariance, PTL
        DEF PSpec, LifecycleAcrossRestarts, ImplementsLifecycle, Lifecycle!Spec

\* No approval is undone by a restart: a session of an earlier life is
\* destroyed, never waiting again.
THEOREM RestartsKeepApprovals == PSpec => ApprovalIsFinal
<1>1. PInv /\ [PNext]_pvars => [KeepsApproval]_mvars
  BY ProcessDrivesManager, StepKeepsApproval, ManagerDiesKeepsApproval DEF PInv
<1> QED BY <1>1, ProcessInvariance, PTL DEF PSpec, ApprovalIsFinal

=============================================================================
