------------------------- MODULE HappyEyeballsProofs -------------------------
(***************************************************************************)
(* The safety of HappyEyeballConnector (core/src/core/connector/tcp.rs),   *)
(* for all addresses and all answers of the resolver.                      *)
(***************************************************************************)
EXTENDS HappyEyeballs, FiniteSetTheorems, TLAPS

TakeTurns(s) ==
    \A i, j \in DOMAIN s :
      i + 1 < j /\ FamilyOf(s[i]) = FamilyOf(s[i + 1]) => FamilyOf(s[j]) = FamilyOf(s[i])

AddrOf(f) == IF f = "v4" THEN Ipv4Addr ELSE Ipv6Addr

\* The addresses that poll() has taken from the query of family f, and those
\* it is going to take.
Taken(f) == IF dns[f] = "terminated" THEN answer[f] ELSE <<>>
Ready(f) == IF dns[f] = "ready" THEN answer[f] ELSE <<>>

\* The list has no address of a family.
Without(list, f) == \A i \in DOMAIN list : FamilyOf(list[i]) # f

(***************************************************************************)
(* The inductive invariant, in two parts.  The addresses: those that were  *)
(* tried and those that are left are the ones taken from the queries, they *)
(* are counted, and an answer meets a list without addresses of its family *)
(* (which is why the interleaving lets the families take turns).           *)
(***************************************************************************)
Addresses ==
    /\ dns \in [Family -> {"pending", "ready", "terminated"}]
    /\ answer \in [Family -> Seq(IpAddr)]
    /\ ips \in Seq(IpAddr)
    /\ ip_count \in Nat
    /\ tried \in Seq(IpAddr)
    /\ \A f \in Family : answer[f] \in Answers(f) /\ (dns[f] = "pending" => answer[f] = <<>>)
    /\ Range(tried) \cup Range(ips) = Range(Taken("v4")) \cup Range(Taken("v6"))
    /\ Len(tried) + Len(ips) = ip_count
    /\ ip_count = Len(Taken("v4")) + Len(Taken("v6"))
    /\ \A f \in Family : dns[f] # "terminated" => Without(ips, f)
    /\ TakeTurns(ips)

(***************************************************************************)
(* The attempts: no more than the addresses tried, paced by the timer,     *)
(* with the wakers where they are needed, and an end that has a cause.     *)
(***************************************************************************)
Attempts ==
    /\ connections \in Seq({"pending", "connected", "failed", "terminated"})
    /\ timer \in {"armed", "elapsed"}
    /\ timer_waker \in BOOLEAN
    /\ woken \in BOOLEAN
    /\ result \in {"pending", "connected", "resolve_error", "connect_error"}
    /\ fires \in 0 .. MaxFires
    /\ Len(connections) <= Len(tried)
    /\ Staggered
    /\ NoLostWakeup
    /\ ErrorsOnlyForCause

Inv == Addresses /\ Attempts

-----------------------------------------------------------------------------
(* Itertools::interleave *)

\* Interleaving lists gives a list, as long as both together.
LEMMA InterleavedType ==
    ASSUME NEW S, NEW s \in Seq(S), NEW t \in Seq(S)
    PROVE  /\ Interleaved(s, t) \in Seq(S)
           /\ Len(Interleaved(s, t)) = Len(s) + Len(t)
           /\ DOMAIN Interleaved(s, t) = 1 .. Len(s) + Len(t)
<1> DEFINE both == 2 * (IF Len(s) < Len(t) THEN Len(s) ELSE Len(t))
           at(i) == IF i <= both THEN IF i % 2 = 1 THEN s[(i + 1) \div 2] ELSE t[i \div 2]
                    ELSE IF Len(s) > Len(t) THEN s[i - Len(t)] ELSE t[i - Len(s)]
<1>1. Len(s) \in Nat /\ Len(t) \in Nat /\ both \in Nat
  OBVIOUS
<1>2. ASSUME NEW i \in 1 .. Len(s) + Len(t) PROVE at(i) \in S
  <2>1. CASE i <= both /\ i % 2 = 1
    <3>1. (i + 1) \div 2 \in 1 .. Len(s)
      BY <1>1, <2>1
    <3> QED  BY <2>1, <3>1
  <2>2. CASE i <= both /\ i % 2 # 1
    <3>1. i \div 2 \in 1 .. Len(t)
      BY <1>1, <2>2
    <3> QED  BY <2>2, <3>1
  <2>3. CASE i > both
    BY <1>1, <2>3
  <2> QED  BY <1>1, <2>1, <2>2, <2>3
<1>3. Interleaved(s, t) = [i \in 1 .. Len(s) + Len(t) |-> at(i)]
  BY DEF Interleaved
<1> HIDE DEF at
<1>4. Interleaved(s, t) \in [1 .. Len(s) + Len(t) -> S]
  BY <1>2, <1>3
<1> QED  BY <1>1, <1>4

\* Interleaving loses no address and makes up none.
LEMMA InterleavedRange ==
    ASSUME NEW S, NEW s \in Seq(S), NEW t \in Seq(S)
    PROVE  Range(Interleaved(s, t)) = Range(s) \cup Range(t)
<1> DEFINE m == IF Len(s) < Len(t) THEN Len(s) ELSE Len(t)
           u == Interleaved(s, t)
<1>0. DOMAIN u = 1 .. Len(s) + Len(t)
  BY InterleavedType
<1>1. /\ Len(s) \in Nat /\ Len(t) \in Nat /\ m \in Nat /\ m <= Len(s) /\ m <= Len(t)
      /\ DOMAIN s = 1 .. Len(s) /\ DOMAIN t = 1 .. Len(t)
      /\ DOMAIN u = 1 .. Len(s) + Len(t)
  <2> HIDE DEF u
  <2> QED  BY <1>0
<1>2. ASSUME NEW i \in DOMAIN u PROVE u[i] \in Range(s) \cup Range(t)
  <2>1. CASE i <= 2 * m /\ i % 2 = 1
    <3>1. (i + 1) \div 2 \in DOMAIN s /\ u[i] = s[(i + 1) \div 2]
      BY <1>1, <2>1 DEF Interleaved
    <3> QED  BY <3>1 DEF Range
  <2>2. CASE i <= 2 * m /\ i % 2 # 1
    <3>1. i \div 2 \in DOMAIN t /\ u[i] = t[i \div 2]
      BY <1>1, <2>2 DEF Interleaved
    <3> QED  BY <3>1 DEF Range
  <2>3. CASE i > 2 * m /\ Len(s) > Len(t)
    <3>1. i - Len(t) \in DOMAIN s /\ u[i] = s[i - Len(t)]
      BY <1>1, <2>3 DEF Interleaved
    <3> QED  BY <3>1 DEF Range
  <2>4. CASE i > 2 * m /\ ~(Len(s) > Len(t))
    <3>1. i - Len(s) \in DOMAIN t /\ u[i] = t[i - Len(s)]
      BY <1>1, <2>4 DEF Interleaved
    <3> QED  BY <3>1 DEF Range
  <2> QED  BY <1>1, <2>1, <2>2, <2>3, <2>4
<1>3. ASSUME NEW k \in DOMAIN s PROVE s[k] \in Range(u)
  <2>1. CASE k <= m
    <3>0. k \in Nat /\ 1 <= k /\ k <= Len(s) /\ k <= Len(t)
      BY <1>1, <2>1
    <3>1. PICK i \in Int : i = 2 * k - 1
      BY <3>0
    <3>2. i \in 1 .. Len(s) + Len(t) /\ i <= 2 * m /\ i % 2 = 1 /\ (i + 1) \div 2 = k
      <4>1. i \in 1 .. Len(s) + Len(t)
        BY <1>1, <3>0, <3>1
      <4>2. i <= 2 * m
        BY <1>1, <2>1, <3>0, <3>1
      <4>3. i % 2 = 1 /\ (i + 1) \div 2 = k
        BY <3>0, <3>1
      <4> QED  BY <4>1, <4>2, <4>3
    <3>3. u[i] = s[k]
      BY <3>2 DEF Interleaved
    <3> HIDE DEF u
    <3> QED  BY <1>1, <3>2, <3>3 DEF Range
  <2>2. CASE k > m
    <3>1. k + Len(t) \in DOMAIN u /\ u[k + Len(t)] = s[k]
      BY <1>1, <2>2 DEF Interleaved
    <3> QED  BY <3>1 DEF Range
  <2> QED  BY <1>1, <2>1, <2>2
<1>4. ASSUME NEW k \in DOMAIN t PROVE t[k] \in Range(u)
  <2>1. CASE k <= m
    <3>1. 2 * k \in DOMAIN u /\ (2 * k) % 2 # 1 /\ (2 * k) \div 2 = k
      BY <1>1, <2>1
    <3>2. u[2 * k] = t[k]
      BY <1>1, <2>1, <3>1 DEF Interleaved
    <3> QED  BY <3>1, <3>2 DEF Range
  <2>2. CASE k > m
    <3>1. k + Len(s) \in DOMAIN u /\ u[k + Len(s)] = t[k]
      BY <1>1, <2>2 DEF Interleaved
    <3> QED  BY <3>1 DEF Range
  <2> QED  BY <1>1, <2>1, <2>2
<1> HIDE DEF u, m
<1>5. Range(u) \subseteq Range(s) \cup Range(t)
  BY <1>2 DEF Range
<1>6. Range(s) \cup Range(t) \subseteq Range(u)
  BY <1>3, <1>4, Zenon DEF Range
<1> QED  BY <1>5, <1>6 DEF u

\* Lists of two families, interleaved, take turns: two neighbours of the same
\* family are in the part where only one list is left.
LEMMA InterleavedTakesTurns ==
    ASSUME NEW A, NEW B, NEW s \in Seq(A), NEW t \in Seq(B), A \cup B \subseteq IpAddr,
           NEW g, NEW h, g # h, \A a \in A : FamilyOf(a) = g, \A b \in B : FamilyOf(b) = h
    PROVE  TakeTurns(Interleaved(s, t))
<1> DEFINE m == IF Len(s) < Len(t) THEN Len(s) ELSE Len(t)
           u == Interleaved(s, t)
<1>0. s \in Seq(A \cup B) /\ t \in Seq(A \cup B)
  OBVIOUS
<1>1. DOMAIN u = 1 .. Len(s) + Len(t)
  BY <1>0, InterleavedType
<1>2. ASSUME NEW i \in DOMAIN u, i <= 2 * m PROVE FamilyOf(u[i]) = IF i % 2 = 1 THEN g ELSE h
  <2>1. CASE i % 2 = 1
    <3>1. (i + 1) \div 2 \in 1 .. Len(s) /\ u[i] = s[(i + 1) \div 2]
      BY <1>1, <1>2, <2>1 DEF Interleaved
    <3>2. u[i] \in A
      BY <3>1
    <3> QED  BY <2>1, <3>2
  <2>2. CASE i % 2 # 1
    <3>1. i \div 2 \in 1 .. Len(t) /\ u[i] = t[i \div 2]
      BY <1>1, <1>2, <2>2 DEF Interleaved
    <3>2. u[i] \in B
      BY <3>1
    <3> QED  BY <2>2, <3>2
  <2> QED  BY <2>1, <2>2
<1>3. ASSUME NEW i \in DOMAIN u, i > 2 * m
      PROVE  FamilyOf(u[i]) = IF Len(s) > Len(t) THEN g ELSE h
  <2>1. CASE Len(s) > Len(t)
    <3>1. i - Len(t) \in 1 .. Len(s) /\ u[i] = s[i - Len(t)]
      BY <1>1, <1>3, <2>1 DEF Interleaved
    <3>2. u[i] \in A
      BY <3>1
    <3> QED  BY <2>1, <3>2
  <2>2. CASE ~(Len(s) > Len(t))
    <3>1. i - Len(s) \in 1 .. Len(t) /\ u[i] = t[i - Len(s)]
      BY <1>1, <1>3, <2>2 DEF Interleaved
    <3>2. u[i] \in B
      BY <3>1
    <3> QED  BY <2>2, <3>2
  <2> QED  BY <2>1, <2>2
<1>4. m \in Nat /\ Len(s) + Len(t) \in Nat
  OBVIOUS
<1> HIDE DEF u, m
<1> SUFFICES ASSUME NEW i \in DOMAIN u, NEW j \in DOMAIN u, i + 1 < j,
                    FamilyOf(u[i]) = FamilyOf(u[i + 1])
             PROVE  FamilyOf(u[j]) = FamilyOf(u[i])
  BY DEF TakeTurns, u
<1>5. i \in Int /\ j \in Int /\ i + 1 \in DOMAIN u
  BY <1>1, <1>4
<1>6. ~(i + 1 <= 2 * m)
  <2> SUFFICES ASSUME i + 1 <= 2 * m PROVE FALSE
    OBVIOUS
  <2>1. i <= 2 * m /\ (i % 2 = 1 <=> (i + 1) % 2 # 1)
    BY <1>4, <1>5
  <2> QED  BY <1>2, <1>5, <2>1
<1>7. i + 1 > 2 * m /\ j > 2 * m
  BY <1>4, <1>5, <1>6
<1> QED  BY <1>3, <1>5, <1>7

\* What is left of a list that takes turns takes turns.
LEMMA RestTakesTurns ==
    ASSUME NEW s \in Seq(IpAddr), TakeTurns(s), NEW n \in 1 .. Len(s) + 1
    PROVE  TakeTurns(SubSeq(s, n, Len(s)))
<1> DEFINE u == SubSeq(s, n, Len(s))
<1>1. DOMAIN u = 1 .. Len(s) + 1 - n /\ \A i \in DOMAIN u : u[i] = s[i + n - 1]
  OBVIOUS
<1> HIDE DEF u
<1> SUFFICES ASSUME NEW i \in DOMAIN u, NEW j \in DOMAIN u, i + 1 < j,
                    FamilyOf(u[i]) = FamilyOf(u[i + 1])
             PROVE  FamilyOf(u[j]) = FamilyOf(u[i])
  BY ZenonT(30) DEF TakeTurns, u
<1>2. PICK k \in Int, l \in Int : k = i + n - 1 /\ l = j + n - 1
  BY <1>1
<1>3. /\ k \in DOMAIN s /\ l \in DOMAIN s /\ k + 1 < l
      /\ i + 1 \in DOMAIN u /\ (i + 1) + n - 1 = k + 1
  BY SMTT(30), <1>1, <1>2
<1>4. u[i] = s[k] /\ u[j] = s[l] /\ u[i + 1] = s[k + 1]
  BY ZenonT(30), <1>1, <1>2, <1>3
<1> QED  BY <1>3, <1>4 DEF TakeTurns

-----------------------------------------------------------------------------
(* The addresses *)

\* The addresses of an answer are of the family of its query.
LEMMA Families ==
    ASSUME NEW f \in Family
    PROVE  /\ Answers(f) \subseteq Seq(AddrOf(f))
           /\ AddrOf(f) \subseteq IpAddr
           /\ \A a \in IpAddr : FamilyOf(a) = f <=> a \in AddrOf(f)
           /\ \A a \in IpAddr : FamilyOf(a) \in Family
  BY AnswerAssumption DEF Family, Answers, AddrOf, IpAddr, FamilyOf

\* An answer is merged into a list without addresses of its family.
LEMMA Merged ==
    ASSUME NEW list \in Seq(IpAddr), NEW f \in Family, NEW a \in Seq(AddrOf(f)),
           Without(list, f)
    PROVE  LET u == Interleaved(list, a)
           IN  /\ u \in Seq(IpAddr)
               /\ Len(u) = Len(list) + Len(a)
               /\ Range(u) = Range(list) \cup Range(a)
               /\ TakeTurns(u)
               /\ \A g \in Family : g # f /\ Without(list, g) => Without(u, g)
<1> DEFINE u == Interleaved(list, a)
           B == AddrOf(f)
           A == IpAddr \ B
<1>1. a \in Seq(IpAddr)
  BY Families
<1>2. u \in Seq(IpAddr) /\ Len(u) = Len(list) + Len(a) /\ Range(u) = Range(list) \cup Range(a)
  BY <1>1, InterleavedType, InterleavedRange
<1>3. \A i \in DOMAIN list : list[i] \in A
  BY Families DEF Without
<1>4. list \in Seq(A)
  BY <1>3
<1>5. PICK g \in Family : g # f /\ \A x \in A : FamilyOf(x) = g
  BY Families DEF Family, FamilyOf
<1>6. TakeTurns(u)
  <2>1. A \cup B \subseteq IpAddr /\ \A b \in B : FamilyOf(b) = f
    BY Families
  <2> HIDE DEF A, B
  <2> QED  BY ZenonT(30), <1>4, <1>5, <2>1, InterleavedTakesTurns DEF B
<1>7. ASSUME NEW h \in Family, h # f, Without(list, h) PROVE Without(u, h)
  <2> SUFFICES ASSUME NEW i \in DOMAIN u PROVE FamilyOf(u[i]) # h
    BY DEF Without
  <2>1. u[i] \in Range(list) \cup Range(a)
    BY ZenonT(30), <1>2 DEF Range
  <2>2. CASE u[i] \in Range(list)
    BY <1>7, <2>2 DEF Without, Range
  <2>3. CASE u[i] \in Range(a)
    <3>1. u[i] \in AddrOf(f)
      <4> HIDE DEF u
      <4> QED  BY <2>3 DEF Range
    <3> QED  BY <1>7, <3>1, Families
  <2> QED  BY <2>1, <2>2, <2>3
<1> QED  BY <1>2, <1>6, <1>7

\* Nothing is in the empty list.
LEMMA Empty == Range(<<>>) = {} /\ Len(<<>>) = 0
  BY DEF Range

\* poll() takes one answer.
LEMMA WithAnswerMerged ==
    ASSUME Addresses, NEW list \in Seq(IpAddr), NEW f \in Family, TakeTurns(list),
           dns[f] # "terminated" => Without(list, f)
    PROVE  LET u == WithAnswer(list, f)
           IN  /\ u \in Seq(IpAddr)
               /\ Len(u) = Len(list) + Len(Ready(f))
               /\ Range(u) = Range(list) \cup Range(Ready(f))
               /\ TakeTurns(u)
               /\ \A g \in Family : g # f /\ Without(list, g) => Without(u, g)
<1>1. CASE dns[f] = "ready"
  <2>1. answer[f] \in Seq(AddrOf(f)) /\ Without(list, f)
    BY <1>1, Families DEF Addresses
  <2> QED  BY <1>1, <2>1, Merged DEF WithAnswer, Ready
<1>2. CASE dns[f] # "ready"
  BY <1>2, Empty DEF WithAnswer, Ready
<1> QED  BY <1>1, <1>2

\* poll() takes the answers that are there: the list and the count it goes on with.
LEMMA Polled ==
    ASSUME Addresses, Poll
    PROVE  /\ dns' \in [Family -> {"pending", "terminated"}]
           /\ \A f \in Family : dns'[f] = "pending" <=> dns[f] = "pending"
           /\ polled_ips \in Seq(IpAddr)
           /\ Len(tried) + Len(polled_ips) = ip_count'
           /\ ip_count' = Len(Taken("v4")') + Len(Taken("v6")')
           /\ Range(tried) \cup Range(polled_ips) = Range(Taken("v4")') \cup Range(Taken("v6")')
           /\ TakeTurns(polled_ips)
           /\ \A f \in Family : dns'[f] # "terminated" => Without(polled_ips, f)
<1> DEFINE list == WithAnswer(ips, "v4")
<1>1. /\ dns' = [f \in Family |-> IF dns[f] = "ready" THEN "terminated" ELSE dns[f]]
      /\ ip_count' = ip_count + Len(polled_ips) - Len(ips)
      /\ answer' = answer
  BY DEF Poll
<1>2. /\ dns' \in [Family -> {"pending", "terminated"}]
      /\ \A f \in Family : dns'[f] = "pending" <=> dns[f] = "pending"
  BY <1>1 DEF Addresses
<1>3. /\ list \in Seq(IpAddr)
      /\ Len(list) = Len(ips) + Len(Ready("v4"))
      /\ Range(list) = Range(ips) \cup Range(Ready("v4"))
      /\ TakeTurns(list)
      /\ Without(ips, "v6") => Without(list, "v6")
      /\ dns["v4"] = "pending" => list = ips
  BY WithAnswerMerged DEF Addresses, Family, WithAnswer
<1>4. /\ polled_ips \in Seq(IpAddr)
      /\ Len(polled_ips) = Len(list) + Len(Ready("v6"))
      /\ Range(polled_ips) = Range(list) \cup Range(Ready("v6"))
      /\ TakeTurns(polled_ips)
      /\ Without(list, "v4") => Without(polled_ips, "v4")
      /\ dns["v6"] = "pending" => polled_ips = list
  <2>1. dns["v6"] # "terminated" => Without(list, "v6")
    BY <1>3 DEF Addresses, Family
  <2> HIDE DEF list
  <2>2. polled_ips = WithAnswer(list, "v6")
    BY DEF polled_ips, list
  <2> QED  BY ZenonT(30), <1>3, <2>1, <2>2, WithAnswerMerged DEF Family, WithAnswer
<1>5. ASSUME NEW f \in Family
      PROVE  /\ Len(Taken(f)') = Len(Taken(f)) + Len(Ready(f))
             /\ Len(Taken(f)) \in Nat /\ Len(Ready(f)) \in Nat
             /\ Range(Taken(f)') = Range(Taken(f)) \cup Range(Ready(f))
  <2>1. answer[f] \in Seq(IpAddr) /\ dns[f] \in {"pending", "ready", "terminated"}
    BY DEF Addresses
  <2>2. dns'[f] = IF dns[f] = "ready" THEN "terminated" ELSE dns[f]
    BY <1>1
  <2>3. CASE dns[f] = "ready"
    <3>1. Taken(f)' = answer[f] /\ Ready(f) = answer[f] /\ Taken(f) = <<>>
      BY <1>1, <2>2, <2>3 DEF Taken, Ready
    <3> QED  BY <2>1, <3>1, Empty
  <2>4. CASE dns[f] # "ready"
    <3>1. Taken(f)' = Taken(f) /\ Ready(f) = <<>> /\ Taken(f) \in Seq(IpAddr)
      BY <1>1, <2>1, <2>2, <2>4 DEF Taken, Ready
    <3> QED  BY <3>1, Empty
  <2> QED  BY <2>3, <2>4
<1>6. /\ Len(tried) + Len(polled_ips) = ip_count'
      /\ ip_count' = Len(Taken("v4")') + Len(Taken("v6")')
  <2>1. /\ Len(tried) + Len(ips) = ip_count
        /\ ip_count = Len(Taken("v4")) + Len(Taken("v6"))
        /\ Len(tried) \in Nat /\ Len(ips) \in Nat
    BY DEF Addresses
  <2>2. /\ Len(Taken("v4")') = Len(Taken("v4")) + Len(Ready("v4"))
        /\ Len(Taken("v6")') = Len(Taken("v6")) + Len(Ready("v6"))
        /\ Len(Taken("v4")) \in Nat /\ Len(Taken("v6")) \in Nat
        /\ Len(Ready("v4")) \in Nat /\ Len(Ready("v6")) \in Nat
    BY <1>5 DEF Family
  <2>3. Len(polled_ips) = Len(ips) + Len(Ready("v4")) + Len(Ready("v6"))
    BY <1>3, <1>4
  <2>4. PICK t \in Nat, i \in Nat, a \in Nat, b \in Nat, c \in Nat, d \in Nat :
          /\ t = Len(tried) /\ i = Len(ips)
          /\ a = Len(Taken("v4")) /\ b = Len(Taken("v6"))
          /\ c = Len(Ready("v4")) /\ d = Len(Ready("v6"))
    BY <2>1, <2>2, Zenon
  <2>5. t + i = a + b /\ ip_count' = (a + b) + (i + c + d) - i
    BY <1>1, <2>1, <2>3, <2>4, Zenon
  <2>6. t + (i + c + d) = ip_count' /\ ip_count' = (a + c) + (b + d)
    BY <2>5
  <2> QED  BY <2>2, <2>3, <2>4, <2>6, Zenon
<1>7. Range(tried) \cup Range(polled_ips) = Range(Taken("v4")') \cup Range(Taken("v6")')
  <2>1. Range(tried) \cup Range(ips) = Range(Taken("v4")) \cup Range(Taken("v6"))
    BY DEF Addresses
  <2>2. /\ Range(Taken("v4")') = Range(Taken("v4")) \cup Range(Ready("v4"))
        /\ Range(Taken("v6")') = Range(Taken("v6")) \cup Range(Ready("v6"))
    BY <1>5 DEF Family
  <2> QED  BY <1>3, <1>4, <2>1, <2>2, Zenon
<1>8. ASSUME NEW f \in Family, dns'[f] # "terminated" PROVE Without(polled_ips, f)
  <2>1. dns[f] = "pending" /\ Without(ips, f)
    BY <1>2, <1>8 DEF Addresses
  <2>2. CASE f = "v4"
    BY <1>3, <1>4, <2>1, <2>2
  <2>3. CASE f = "v6"
    BY <1>3, <1>4, <2>1, <2>3
  <2> QED  BY <2>2, <2>3 DEF Family
<1> QED  BY <1>2, <1>4, <1>6, <1>7, <1>8

\* The loop of poll() takes the first k addresses of the list s, and adds them
\* to those it has tried, t.
Rest(s, k) == SubSeq(s, k + 1, Len(s))
Done(t, s, k) == t \o SubSeq(s, 1, k)

\* The first k addresses of a list are tried and the rest is kept.
LEMMA Cut ==
    ASSUME NEW S, NEW s \in Seq(S), NEW t \in Seq(S), NEW k \in 0 .. Len(s)
    PROVE  /\ Rest(s, k) \in Seq(S) /\ Done(t, s, k) \in Seq(S)
           /\ Len(Done(t, s, k)) = Len(t) + k
           /\ Len(Done(t, s, k)) + Len(Rest(s, k)) = Len(t) + Len(s)
           /\ Range(Done(t, s, k)) \cup Range(Rest(s, k)) = Range(t) \cup Range(s)
           /\ Range(Rest(s, k)) \subseteq Range(s)
<1> DEFINE rest == Rest(s, k)
           done == Done(t, s, k)
<1>1. /\ rest \in Seq(S) /\ Len(rest) = Len(s) - k
      /\ \A i \in 1 .. Len(s) - k : rest[i] = s[i + k]
  BY DEF Rest
<1>2. /\ done \in Seq(S) /\ Len(done) = Len(t) + k
      /\ \A i \in 1 .. Len(t) : done[i] = t[i]
      /\ \A i \in Len(t) + 1 .. Len(t) + k : done[i] = s[i - Len(t)]
  BY DEF Done
<1> HIDE DEF rest, done
<1>3. /\ DOMAIN rest = 1 .. Len(s) - k /\ DOMAIN done = 1 .. Len(t) + k
      /\ DOMAIN s = 1 .. Len(s) /\ DOMAIN t = 1 .. Len(t)
      /\ Len(s) \in Nat /\ Len(t) \in Nat
  BY <1>1, <1>2
<1>4. Range(rest) \subseteq Range(s)
  <2> SUFFICES ASSUME NEW i \in DOMAIN rest PROVE rest[i] \in Range(s)
    BY Zenon DEF Range
  <2>1. i + k \in DOMAIN s /\ rest[i] = s[i + k]
    BY <1>1, <1>3
  <2> QED  BY <2>1 DEF Range
<1>5. Range(done) \subseteq Range(t) \cup Range(s)
  <2> SUFFICES ASSUME NEW i \in DOMAIN done PROVE done[i] \in Range(t) \cup Range(s)
    BY DEF Range
  <2>1. CASE i <= Len(t)
    BY <1>2, <1>3, <2>1 DEF Range
  <2>2. CASE i > Len(t)
    <3>1. i - Len(t) \in DOMAIN s /\ i \in Len(t) + 1 .. Len(t) + k
      BY <1>3, <2>2
    <3>2. done[i] = s[i - Len(t)]
      BY <1>2, <3>1
    <3> QED  BY <3>1, <3>2 DEF Range
  <2> QED  BY <1>3, <2>1, <2>2
<1>6. ASSUME NEW i \in DOMAIN t PROVE t[i] \in Range(done)
  BY <1>2, <1>3 DEF Range
<1>7. ASSUME NEW i \in DOMAIN s PROVE s[i] \in Range(done) \cup Range(rest)
  <2>1. CASE i <= k
    <3>1. Len(t) + i \in DOMAIN done /\ done[Len(t) + i] = s[i]
      BY <1>2, <1>3, <2>1
    <3> QED  BY <3>1 DEF Range
  <2>2. CASE i > k
    <3>1. i - k \in DOMAIN rest /\ rest[i - k] = s[i]
      BY <1>1, <1>3, <2>2
    <3> QED  BY <3>1 DEF Range
  <2> QED  BY <1>3, <2>1, <2>2
<1>8. Range(t) \cup Range(s) \subseteq Range(done) \cup Range(rest)
  BY <1>6, <1>7, Zenon DEF Range
<1>9. Range(done) \cup Range(rest) = Range(t) \cup Range(s)
  BY <1>4, <1>5, <1>8, Zenon
<1>10. Len(done) + Len(rest) = Len(t) + Len(s)
  BY <1>1, <1>2, <1>3
<1> QED  BY <1>1, <1>2, <1>4, <1>9, <1>10 DEF rest, done

\* poll() takes the answers and tries the first k addresses of the list.
LEMMA PollAddresses ==
    ASSUME Addresses, Poll, NEW k \in 0 .. Len(polled_ips),
           ips' = Rest(polled_ips, k), tried' = Done(tried, polled_ips, k)
    PROVE  Addresses' /\ Len(tried') = Len(tried) + k
<1>1. /\ polled_ips \in Seq(IpAddr) /\ tried \in Seq(IpAddr)
      /\ TakeTurns(polled_ips)
      /\ Len(polled_ips) \in Nat
  BY Polled DEF Addresses
<1>2. /\ ips' \in Seq(IpAddr) /\ tried' \in Seq(IpAddr)
      /\ Len(tried') = Len(tried) + k
      /\ Len(tried') + Len(ips') = Len(tried) + Len(polled_ips)
      /\ Range(tried') \cup Range(ips') = Range(tried) \cup Range(polled_ips)
      /\ Range(ips') \subseteq Range(polled_ips)
  <2> DEFINE rest == Rest(polled_ips, k)
             done == Done(tried, polled_ips, k)
  <2>1. /\ rest \in Seq(IpAddr) /\ done \in Seq(IpAddr)
        /\ Len(done) = Len(tried) + k
        /\ Len(done) + Len(rest) = Len(tried) + Len(polled_ips)
        /\ Range(done) \cup Range(rest) = Range(tried) \cup Range(polled_ips)
        /\ Range(rest) \subseteq Range(polled_ips)
    BY ZenonT(30), <1>1, Cut
  <2>2. ips' = rest /\ tried' = done
    OBVIOUS
  <2> HIDE DEF rest, done
  <2> QED  BY <2>1, <2>2
<1>3. TakeTurns(ips')
  <2>1. k + 1 \in 1 .. Len(polled_ips) + 1
    BY <1>1
  <2> QED  BY <1>1, <2>1, RestTakesTurns DEF Rest
<1>4. TakeTurns(ips)'
  BY <1>3 DEF TakeTurns, FamilyOf
<1>5. ASSUME NEW f \in Family, dns'[f] # "terminated" PROVE Without(ips, f)'
  <2>1. Without(polled_ips, f)
    BY <1>5, Polled
  <2>2. ASSUME NEW i \in DOMAIN ips' PROVE FamilyOf(ips'[i]) # f
    <3>1. ips'[i] \in Range(polled_ips)
      BY ZenonT(30), <1>2 DEF Range
    <3> QED  BY <2>1, <3>1 DEF Without, Range
  <2> QED  BY <2>2 DEF Without, FamilyOf
<1>6. /\ dns' \in [Family -> {"pending", "ready", "terminated"}]
      /\ answer' = answer
      /\ ip_count' = Len(Taken("v4")') + Len(Taken("v6")')
      /\ Len(tried') + Len(ips') = ip_count'
      /\ Range(tried') \cup Range(ips') = Range(Taken("v4")') \cup Range(Taken("v6")')
  BY ZenonT(30), <1>2, Polled DEF Poll
<1>7. ip_count' \in Nat
  BY <1>2, <1>6
<1>8. \A f \in Family : answer'[f] \in Answers(f) /\ (dns'[f] = "pending" => answer'[f] = <<>>)
  BY <1>6, Polled DEF Addresses
<1>9. answer' \in [Family -> Seq(IpAddr)]
  BY <1>6 DEF Addresses
<1> QED
  BY ZenonT(30), <1>2, <1>4, <1>5, <1>6, <1>7, <1>8, <1>9 DEF Addresses, Answers, IpAddr, Range

\* A poll that takes the answers and tries no address.
LEMMA PollKeepsAll ==
    ASSUME Addresses, Poll, ips' = polled_ips, tried' = tried
    PROVE  Addresses'
<1>1. polled_ips \in Seq(IpAddr) /\ tried \in Seq(IpAddr)
  BY Polled DEF Addresses
<1>2. /\ Rest(polled_ips, 0) = polled_ips
      /\ Done(tried, polled_ips, 0) = tried
      /\ 0 \in 0 .. Len(polled_ips)
  BY <1>1 DEF Rest, Done
<1> QED  BY <1>2, PollAddresses

\* A poll that tries all addresses.
LEMMA PollTriesAll ==
    ASSUME Addresses, Poll, ips' = <<>>, tried' = tried \o polled_ips
    PROVE  Addresses' /\ Len(tried') >= Len(tried)
<1>1. polled_ips \in Seq(IpAddr) /\ tried \in Seq(IpAddr)
  BY Polled DEF Addresses
<1> DEFINE k == Len(polled_ips)
<1>2. /\ Rest(polled_ips, k) = <<>>
      /\ Done(tried, polled_ips, k) = tried \o polled_ips
      /\ k \in 0 .. Len(polled_ips) /\ k \in Nat /\ Len(tried) \in Nat
  BY <1>1 DEF Rest, Done
<1> HIDE DEF k
<1>3. Addresses' /\ Len(tried') = Len(tried) + k
  BY ZenonT(30), <1>2, PollAddresses
<1> QED  BY <1>2, <1>3

-----------------------------------------------------------------------------
(* The attempts *)

\* The timer's firings are counted as far as there are addresses.
LEMMA Counted == ASSUME Addresses PROVE Len(tried) <= MaxFires
<1>1. Taken("v4") \in Ipv4Answers /\ Taken("v6") \in Ipv6Answers
  BY AnswerAssumption DEF Addresses, Taken, Answers, Family
<1>2. ip_count <= MaxFires
  BY <1>1, AnswerAssumption DEF Addresses
<1> QED  BY <1>2, AnswerAssumption DEF Addresses

\* No more attempts are in flight than were started.
LEMMA InFlightFinite ==
    ASSUME Attempts
    PROVE  /\ IsFiniteSet(InFlight)
           /\ Cardinality(InFlight) \in Nat
           /\ Cardinality(InFlight) <= Len(connections)
<1>1. DOMAIN connections = 1 .. Len(connections) /\ Len(connections) \in Nat
  BY DEF Attempts
<1>2. /\ IsFiniteSet(1 .. Len(connections))
      /\ Cardinality(1 .. Len(connections)) = Len(connections)
  <2>1. PICK n \in Nat : n = Len(connections)
    BY ZenonT(30), <1>1
  <2>2. IsFiniteSet(1 .. n) /\ Cardinality(1 .. n) = IF 1 > n THEN 0 ELSE n - 1 + 1
    BY FS_Interval
  <2>3. IsFiniteSet(1 .. n) /\ Cardinality(1 .. n) = n
    BY <2>2
  <2> QED  BY <2>1, <2>3
<1>3. InFlight \in SUBSET (1 .. Len(connections))
  BY <1>1 DEF InFlight
<1> QED  BY ZenonT(30), <1>2, <1>3, FS_Subset, FS_CardinalityType

\* What poll() leaves of the attempts when none has a stream.
LEMMA PolledConnections ==
    ASSUME Attempts
    PROVE  /\ polled_connections \in Seq({"pending", "connected", "failed", "terminated"})
           /\ Len(polled_connections) = Len(connections)
           /\ DOMAIN polled_connections = DOMAIN connections
           /\ ~has_stream => \A i \in DOMAIN connections :
                               polled_connections[i] \in {"pending", "terminated"}
           /\ \A i \in DOMAIN connections :
                polled_connections[i] # "terminated" <=>
                  connections[i] \notin {"failed", "terminated"}
           /\ \A i \in DOMAIN connections :
                polled_connections[i] = "pending" <=> connections[i] = "pending"
  BY DEF Attempts, polled_connections, has_stream

\* An error, and a connection, are returned for the cause that the queries gave.
LEMMA Causes ==
    ASSUME Addresses, Addresses', Poll,
           \/ result' = "pending"
           \/ result' = "resolve_error" /\ NothingResolved
           \/ result' = "connected" /\ ~NothingResolved
           \/ (result' = "connect_error" /\ ~NothingResolved /\ ~StillResolving /\ ips' = <<>>)
    PROVE  ErrorsOnlyForCause'
<1> DEFINE ended == \A f \in Family : dns'[f] = "terminated"
           empty == \A f \in Family : answer'[f] = <<>>
<1>1. /\ \A f \in Family : answer'[f] \in Seq(IpAddr)
      /\ ip_count' = Len(Taken("v4")') + Len(Taken("v6")')
      /\ Range(tried') \cup Range(ips') = Range(Taken("v4")') \cup Range(Taken("v6")')
  BY DEF Addresses
<1>2. NothingResolved <=> ~StillResolving /\ ip_count' = 0
  BY DEF NothingResolved, Poll
<1>3. ~StillResolving <=> ended
  BY Polled DEF StillResolving
<1>4. ASSUME ended
      PROVE  /\ Taken("v4")' = answer'["v4"] /\ Taken("v6")' = answer'["v6"]
             /\ ip_count' = 0 <=> empty
             /\ ips' = <<>> => Range(tried') = UNION {Range(answer'[f]) : f \in Family}
  <2>1. Taken("v4")' = answer'["v4"] /\ Taken("v6")' = answer'["v6"]
    BY <1>4 DEF Taken, Family
  <2>2. ip_count' = Len(answer'["v4"]) + Len(answer'["v6"])
    BY ZenonT(30), <1>1, <2>1
  <2>3. ASSUME NEW f \in Family
        PROVE Len(answer'[f]) \in Nat /\ (Len(answer'[f]) = 0 <=> answer'[f] = <<>>)
    BY <1>1
  <2>4. ip_count' = 0 <=> empty
    <3>1. ip_count' = 0 <=> Len(answer'["v4"]) = 0 /\ Len(answer'["v6"]) = 0
      <4>1. PICK m \in Nat, n \in Nat : m = Len(answer'["v4"]) /\ n = Len(answer'["v6"])
        BY <2>3 DEF Family
      <4>2. m + n = 0 <=> m = 0 /\ n = 0
        OBVIOUS
      <4> QED  BY ZenonT(30), <2>2, <4>1, <4>2
    <3>2. empty <=> answer'["v4"] = <<>> /\ answer'["v6"] = <<>>
      BY DEF Family
    <3>3. /\ Len(answer'["v4"]) = 0 <=> answer'["v4"] = <<>>
          /\ Len(answer'["v6"]) = 0 <=> answer'["v6"] = <<>>
      BY <2>3 DEF Family
    <3> QED  BY <3>1, <3>2, <3>3
  <2>5. UNION {Range(answer'[f]) : f \in Family} = Range(answer'["v4"]) \cup Range(answer'["v6"])
    BY DEF Family
  <2>6. ips' = <<>> => Range(ips') = {}
    BY Empty
  <2> QED  BY <1>1, <2>1, <2>4, <2>5, <2>6
<1>5. result' = "connect_error" =>
        ended /\ Range(tried') = UNION {Range(answer'[f]) : f \in Family}
  BY <1>3, <1>4
<1>6. result' = "resolve_error" <=> result' # "pending" /\ ended /\ empty
  BY <1>2, <1>3, <1>4
<1> QED  BY ZenonT(30), <1>5, <1>6 DEF ErrorsOnlyForCause, Range

\* Attempts in flight that have not failed.
Going == {i \in InFlight : connections[i] # "failed"}

\* The attempts that go on after a poll without a stream are no more than before,
\* and fewer if one had failed.
LEMMA GoingFewer ==
    ASSUME Attempts
    PROVE  /\ IsFiniteSet(Going) /\ Cardinality(Going) \in Nat
           /\ Cardinality(Going) <= Cardinality(InFlight)
           /\ has_error => Cardinality(Going) + 1 <= Cardinality(InFlight)
           /\ ~has_stream /\ ~has_pending => Going = {}
<1>1. Going \in SUBSET InFlight
  BY DEF Going
<1>2. IsFiniteSet(InFlight) /\ Cardinality(InFlight) \in Nat
  BY InFlightFinite
<1>3. /\ IsFiniteSet(Going) /\ Cardinality(Going) \in Nat
      /\ Cardinality(Going) <= Cardinality(InFlight)
      /\ Cardinality(InFlight) = Cardinality(Going) => InFlight = Going
  BY <1>1, <1>2, FS_Subset, FS_CardinalityType
<1>4. has_error => InFlight # Going
  BY DEF has_error, InFlight, Going
<1>5. ~has_stream /\ ~has_pending => Going = {}
  BY DEF Attempts, has_stream, has_pending, InFlight, Going
<1> QED  BY <1>2, <1>3, <1>4, <1>5

\* A poll that starts no attempt paces as before.
LEMMA PacedWithoutStart ==
    ASSUME Attempts, connections' \in {connections, polled_connections},
           UNCHANGED <<timer, fires>>
    PROVE  Staggered'
<1>1. InFlight' \in {InFlight, Going}
  <2>1. CASE connections' = connections
    BY <2>1 DEF InFlight
  <2>2. CASE connections' = polled_connections
    BY <2>2, PolledConnections DEF InFlight, Going
  <2> QED  BY <2>1, <2>2
<1>2. PICK c \in Nat : c = Cardinality(InFlight') /\ c <= Cardinality(InFlight)
  BY <1>1, GoingFewer, InFlightFinite
<1>3. /\ Cardinality(InFlight) \in Nat /\ fires \in Nat
      /\ Cardinality(InFlight) + (IF timer = "elapsed" THEN 1 ELSE 0) <= 1 + fires
  BY InFlightFinite DEF Attempts, Staggered
<1>4. c + (IF timer = "elapsed" THEN 1 ELSE 0) <= 1 + fires
  BY <1>2, <1>3
<1> QED  BY <1>2, <1>4 DEF Staggered

\* A poll that starts an attempt: the first, one for one that failed, or one for
\* the timer that had elapsed.
LEMMA PacedWithStart ==
    ASSUME Attempts, ~has_stream, ShouldConnect,
           connections' = Append(polled_connections, "pending"),
           timer' = "armed", UNCHANGED fires
    PROVE  Staggered'
<1> DEFINE new == Len(connections) + 1
<1>1. Len(connections) \in Nat /\ DOMAIN connections = 1 .. Len(connections)
  BY DEF Attempts
<1>2. InFlight' = Going \cup {new}
  <2>1. DOMAIN connections' = 1 .. Len(connections) + 1
    BY <1>1, PolledConnections
  <2>2. connections'[new] = "pending"
    BY <1>1, PolledConnections
  <2>3. ASSUME NEW i \in 1 .. Len(connections) PROVE connections'[i] = polled_connections[i]
    BY <1>1, PolledConnections
  <2>4. ASSUME NEW i \in 1 .. Len(connections) PROVE i \in InFlight' <=> i \in Going
    BY <1>1, <2>1, <2>3, PolledConnections DEF InFlight, Going
  <2>5. InFlight' \subseteq 1 .. Len(connections) + 1 /\ Going \subseteq 1 .. Len(connections)
    BY <1>1, <2>1 DEF InFlight, Going
  <2>6. new \in InFlight'
    BY <1>1, <2>1, <2>2 DEF InFlight
  <2>7. 1 .. Len(connections) + 1 = 1 .. Len(connections) \cup {new}
    BY <1>1
  <2> HIDE DEF new
  <2> QED  BY <2>4, <2>5, <2>6, <2>7, Zenon
<1>3. new \notin Going
  BY <1>1 DEF Going, InFlight
<1> HIDE DEF new
<1>4. Cardinality(InFlight') = Cardinality(Going) + 1
  BY <1>2, <1>3, GoingFewer, FS_AddElement
<1>5. PICK g \in Nat, c \in Nat : g = Cardinality(Going) /\ c = Cardinality(InFlight)
  BY GoingFewer, InFlightFinite
<1>6. /\ fires \in Nat /\ g <= c /\ (has_error => g + 1 <= c)
      /\ c + (IF timer = "elapsed" THEN 1 ELSE 0) <= 1 + fires
  BY <1>5, GoingFewer DEF Attempts, Staggered
<1>7. g + 1 <= 1 + fires
  <2>1. CASE ~has_pending
    BY <1>5, <1>6, <2>1, GoingFewer, FS_EmptySet
  <2>2. CASE has_error
    BY <1>6, <2>2
  <2>3. CASE timer = "elapsed"
    BY <1>6, <2>3
  <2> QED  BY <2>1, <2>2, <2>3 DEF ShouldConnect
<1> QED  BY <1>4, <1>5, <1>6, <1>7 DEF Staggered

-----------------------------------------------------------------------------
(* The steps *)

\* The invariant holds when the future is made.
LEMMA InitInv == Init => Inv
<1> SUFFICES ASSUME Init PROVE Inv
  OBVIOUS
<1>1. /\ Taken("v4") = <<>> /\ Taken("v6") = <<>>
      /\ \A f \in Family : answer[f] \in Answers(f) /\ answer[f] = <<>>
  BY AnswerAssumption DEF Init, Taken, Family, Answers
<1>2. Addresses
  BY <1>1, Empty DEF Init, Addresses, Without, TakeTurns, Family
<1>3. InFlight = {}
  BY DEF Init, InFlight
<1>4. Staggered
  BY <1>3, FS_EmptySet DEF Init, Staggered
<1>5. NoLostWakeup
  BY DEF Init, NoLostWakeup
<1>6. ErrorsOnlyForCause
  BY DEF Init, ErrorsOnlyForCause
<1>7. Attempts
  <2>1. connections \in Seq({"pending", "connected", "failed", "terminated"})
    BY DEF Init
  <2>2. Len(connections) <= Len(tried) /\ fires \in 0 .. MaxFires
    BY AnswerAssumption DEF Init
  <2> QED  BY ZenonT(30), <1>4, <1>5, <1>6, <2>1, <2>2 DEF Init, Attempts
<1> QED  BY <1>2, <1>7 DEF Inv

\* poll() returns, with what the queries and the attempts gave.
LEMMA ReturnInv ==
    ASSUME Inv, Addresses', Poll, UNCHANGED timer,
           connections' \in {connections, polled_connections},
           Len(tried) <= Len(tried'), timer_waker' \in BOOLEAN,
           \/ result' = "resolve_error" /\ NothingResolved
           \/ result' = "connected" /\ ~NothingResolved
           \/ (result' = "connect_error" /\ ~NothingResolved /\ ~StillResolving /\ ips' = <<>>)
    PROVE  Inv'
<1>1. /\ connections' \in Seq({"pending", "connected", "failed", "terminated"})
      /\ Len(connections') = Len(connections)
  BY PolledConnections DEF Inv, Attempts
<1>2. Len(connections') <= Len(tried')
  BY <1>1 DEF Inv, Attempts, Addresses
<1>3. Staggered'
  BY PacedWithoutStart DEF Inv, Poll
<1>4. ErrorsOnlyForCause'
  BY Causes DEF Inv
<1>5. NoLostWakeup' /\ result' \in {"connected", "resolve_error", "connect_error"}
  BY DEF NoLostWakeup
<1>6. timer' \in {"armed", "elapsed"} /\ woken' \in BOOLEAN /\ fires' \in 0 .. MaxFires
  BY ZenonT(30) DEF Inv, Attempts, Poll
<1> QED  BY <1>1, <1>2, <1>3, <1>4, <1>5, <1>6 DEF Inv, Attempts

\* poll() returns Pending, and leaves its waker where it has to.
LEMMA PendingInv ==
    ASSUME Inv, Addresses', Poll, result' = "pending",
           connections' \in Seq({"pending", "terminated"}),
           Len(connections') <= Len(tried'), Staggered',
           timer' \in {"armed", "elapsed"}, timer_waker' \in BOOLEAN,
           StillResolving \/ \E i \in DOMAIN connections' : connections'[i] = "pending",
           ips' # <<>> => timer' = "armed" /\ timer_waker'
    PROVE  Inv'
<1>1. connections' \in Seq({"pending", "connected", "failed", "terminated"})
  OBVIOUS
<1>2. ErrorsOnlyForCause'
  BY Causes DEF Inv
<1>3. NoLostWakeup'
  <2>1. \A f \in Family : dns'[f] # "ready"
    BY Polled DEF Inv
  <2>2. StillResolving' <=> StillResolving
    BY Polled DEF Inv, StillResolving
  <2>3. \A i \in DOMAIN connections' : connections'[i] \in {"pending", "terminated"}
    OBVIOUS
  <2> QED  BY <2>1, <2>2, <2>3 DEF NoLostWakeup, has_pending
<1>4. woken' \in BOOLEAN /\ fires' \in 0 .. MaxFires
  BY ZenonT(30) DEF Inv, Attempts, Poll
<1> QED  BY <1>1, <1>2, <1>3, <1>4 DEF Inv, Attempts

\* A query ends: what it yields is not taken yet.
LEMMA DnsReadyInv ==
    ASSUME Inv, NEW f \in Family, NEW addrs \in Answers(f), DnsReady(f, addrs)
    PROVE  Inv'
<1>1. /\ dns' = [dns EXCEPT ![f] = "ready"] /\ answer' = [answer EXCEPT ![f] = addrs]
      /\ dns[f] = "pending" /\ dns \in [Family -> {"pending", "ready", "terminated"}]
      /\ answer \in [Family -> Seq(IpAddr)]
      /\ UNCHANGED <<ips, ip_count, tried>>
  BY DEF DnsReady, Inv, Addresses
<1>2. ASSUME NEW g \in Family PROVE Taken(g)' = Taken(g)
  BY <1>1 DEF Taken
<1>3. addrs \in Seq(IpAddr)
  BY Families
<1>4. Addresses'
  <2>1. dns' \in [Family -> {"pending", "ready", "terminated"}] /\ answer' \in [Family -> Seq(IpAddr)]
    BY <1>1, <1>3
  <2>2. \A g \in Family : answer'[g] \in Answers(g) /\ (dns'[g] = "pending" => answer'[g] = <<>>)
    BY <1>1 DEF Inv, Addresses
  <2>3. \A g \in Family : dns'[g] # "terminated" => dns[g] # "terminated"
    BY <1>1
  <2>4. /\ \A g \in Family : Without(ips, g)' <=> Without(ips, g)
        /\ TakeTurns(ips)' <=> TakeTurns(ips)
    BY <1>1 DEF Without, TakeTurns, FamilyOf
  <2>5. Taken("v4")' = Taken("v4") /\ Taken("v6")' = Taken("v6")
    BY <1>2 DEF Family
  <2> QED
    BY <1>1, <2>1, <2>2, <2>3, <2>4, <2>5 DEF Inv, Addresses
<1>5. result = "pending" /\ result' = result /\ woken' = TRUE
  BY DEF DnsReady
<1>6. NoLostWakeup' /\ ErrorsOnlyForCause'
  BY <1>5 DEF NoLostWakeup, ErrorsOnlyForCause
<1>7. Staggered'
  BY DEF DnsReady, Inv, Attempts, Staggered, InFlight
<1> QED  BY <1>4, <1>5, <1>6, <1>7 DEF Inv, Attempts, DnsReady

\* The addresses stay as they are when the variables that hold them do.
LEMMA SameAddresses ==
    ASSUME Addresses, UNCHANGED <<dns, answer, ips, ip_count, tried>>
    PROVE  Addresses'
<1>1. Taken("v4")' = Taken("v4") /\ Taken("v6")' = Taken("v6")
  BY DEF Taken
<1>2. /\ \A g \in Family : Without(ips, g)' <=> Without(ips, g)
      /\ TakeTurns(ips)' <=> TakeTurns(ips)
  BY DEF Without, TakeTurns, FamilyOf
<1> QED  BY <1>1, <1>2 DEF Addresses

\* An attempt ends: it is in flight until poll() sees it.
LEMMA ConnectionReadyInv ==
    ASSUME Inv, NEW i \in DOMAIN connections, NEW outcome \in {"connected", "failed"},
           ConnectionReady(i, outcome)
    PROVE  Inv'
<1>1. /\ connections' = [connections EXCEPT ![i] = outcome]
      /\ connections[i] = "pending"
      /\ connections \in Seq({"pending", "connected", "failed", "terminated"})
  BY DEF ConnectionReady, Inv, Attempts
<1>2. /\ connections' \in Seq({"pending", "connected", "failed", "terminated"})
      /\ Len(connections') = Len(connections)
      /\ InFlight' = InFlight
  BY <1>1 DEF InFlight
<1>3. Addresses'
  BY SameAddresses DEF ConnectionReady, Inv
<1>4. result = "pending" /\ result' = result /\ woken' = TRUE
  BY DEF ConnectionReady
<1>5. NoLostWakeup' /\ ErrorsOnlyForCause'
  BY <1>4 DEF NoLostWakeup, ErrorsOnlyForCause
<1>6. Staggered'
  BY <1>2 DEF ConnectionReady, Inv, Attempts, Staggered
<1> QED  BY <1>2, <1>3, <1>4, <1>5, <1>6 DEF Inv, Attempts, ConnectionReady

\* The timer fires: one more attempt may start, and the task is woken if it left
\* its waker there.
LEMMA TimerFiresInv == ASSUME Inv, TimerFires PROVE Inv'
<1>1. Addresses'
  BY SameAddresses DEF TimerFires, Inv
<1>2. /\ result = "pending" /\ result' = result /\ timer = "armed" /\ timer' = "elapsed"
      /\ connections' = connections /\ timer_waker' = FALSE
      /\ woken' = (woken \/ timer_waker)
  BY DEF TimerFires
<1>3. ErrorsOnlyForCause'
  BY <1>2 DEF ErrorsOnlyForCause
<1>4. NoLostWakeup'
  <2> SUFFICES ASSUME ~woken' PROVE NoLostWakeup'
    BY DEF NoLostWakeup
  <2>1. ~woken /\ ~timer_waker
    BY ZenonT(30), <1>2
  <2> QED
    BY <1>2, <2>1 DEF TimerFires, Inv, Attempts, NoLostWakeup, StillResolving, has_pending
<1>5. fires' \in 0 .. MaxFires /\ (fires' = fires + 1 \/ (fires' = fires /\ fires = MaxFires))
  BY AnswerAssumption DEF TimerFires, Inv, Attempts
<1>6. Staggered'
  <2>1. PICK c \in Nat : c = Cardinality(InFlight) /\ c <= Len(connections)
    BY InFlightFinite DEF Inv
  <2>2. c <= MaxFires
    BY <2>1, Counted, AnswerAssumption DEF Inv, Attempts, Addresses
  <2>3. c <= 1 + fires /\ fires \in Nat
    BY <1>2, <2>1 DEF Inv, Attempts, Staggered
  <2>4. c + 1 <= 1 + fires'
    <3>1. CASE fires' = fires + 1
      BY <2>3, <3>1
    <3>2. CASE fires' = fires /\ fires = MaxFires
      BY <2>2, <2>3, <3>2
    <3> QED  BY ZenonT(30), <1>5, <3>1, <3>2
  <2>5. InFlight' = InFlight
    BY <1>2 DEF InFlight
  <2> QED  BY <1>2, <2>1, <2>4, <2>5 DEF Staggered
<1>7. woken' \in BOOLEAN
  BY <1>2
<1> QED  BY ZenonT(30), <1>1, <1>2, <1>3, <1>4, <1>5, <1>6, <1>7 DEF Inv, Attempts, TimerFires

\* The attempts that a poll without a stream leaves are pending or terminated.
LEMMA NoStream ==
    ASSUME Attempts, ~has_stream
    PROVE  polled_connections \in Seq({"pending", "terminated"})
<1>1. /\ DOMAIN polled_connections = 1 .. Len(connections) /\ Len(connections) \in Nat
      /\ \A i \in 1 .. Len(connections) : polled_connections[i] \in {"pending", "terminated"}
  BY PolledConnections DEF Attempts
<1>2. polled_connections \in [1 .. Len(connections) -> {"pending", "terminated"}]
  BY <1>1 DEF polled_connections
<1> QED  BY <1>1, <1>2

\* The address behind n that failed at once is tried, with or without success.
LEMMA TriesNext ==
    ASSUME Addresses, Poll, NEW n \in 0 .. Len(polled_ips), n < Len(polled_ips),
           ips' = SubSeq(polled_ips, n + 2, Len(polled_ips)),
           tried' = tried \o SubSeq(polled_ips, 1, n + 1)
    PROVE  Addresses' /\ Len(tried') = Len(tried) + n + 1
<1>1. PICK k \in 0 .. Len(polled_ips) : k = n + 1 /\ k + 1 = n + 2
  BY Polled
<1>2. ips' = Rest(polled_ips, k) /\ tried' = Done(tried, polled_ips, k)
  BY <1>1 DEF Rest, Done
<1>3. Addresses' /\ Len(tried') = Len(tried) + k
  BY ZenonT(30), <1>2, PollAddresses
<1>4. n \in Nat /\ Len(tried) \in Nat
  BY DEF Addresses
<1> QED  BY <1>1, <1>3, <1>4

\* Wait.
LEMMA WaitInv == ASSUME Inv, Wait PROVE Inv'
<1>1. Addresses'
  BY PollKeepsAll DEF Wait, Inv
<1>2. /\ Poll /\ ~has_stream /\ has_pending /\ ~has_error /\ timer # "elapsed"
      /\ connections' = connections /\ timer' = timer /\ result' = result
      /\ tried' = tried /\ timer_waker' = TRUE
  BY DEF Wait, ShouldConnect
<1>3. connections \in Seq({"pending", "terminated"})
  <2>1. \A i \in DOMAIN connections : connections[i] \in {"pending", "terminated"}
    BY <1>2 DEF Inv, Attempts, has_stream, has_error
  <2> QED  BY <2>1 DEF Inv, Attempts
<1>4. Staggered'
  BY <1>2, PacedWithoutStart DEF Inv, Poll
<1>5. timer = "armed" /\ result = "pending" /\ Len(connections) <= Len(tried)
  BY <1>2 DEF Inv, Attempts, Poll
<1>6. \E i \in DOMAIN connections' : connections'[i] = "pending"
  BY <1>2 DEF has_pending
<1> QED  BY <1>1, <1>2, <1>3, <1>4, <1>5, <1>6, PendingInv

\* StartConnection.
LEMMA StartConnectionInv ==
    ASSUME Inv, NEW n \in 0 .. Len(polled_ips), StartConnection(n)
    PROVE  Inv'
<1>1. /\ Poll /\ ~has_stream /\ ShouldConnect /\ n < Len(polled_ips)
      /\ ips' = SubSeq(polled_ips, n + 2, Len(polled_ips))
      /\ tried' = tried \o SubSeq(polled_ips, 1, n + 1)
      /\ timer' = "armed" /\ timer_waker' = TRUE /\ result' = result /\ fires' = fires
      /\ connections' = Append(polled_connections, "pending")
  BY DEF StartConnection, ConnectLoop, Poll
<1>2. Addresses' /\ Len(tried') = Len(tried) + n + 1
  BY <1>1, TriesNext DEF Inv
<1>3. polled_connections \in Seq({"pending", "terminated"})
  BY <1>1, NoStream DEF Inv
<1>4. /\ connections' \in Seq({"pending", "terminated"})
      /\ Len(connections') = Len(polled_connections) + 1
      /\ Len(connections') \in DOMAIN connections'
      /\ connections'[Len(connections')] = "pending"
  BY <1>1, <1>3
<1>5. Len(connections') <= Len(tried')
  <2>1. /\ Len(polled_connections) <= Len(tried) /\ n \in Nat
        /\ Len(tried) \in Nat /\ Len(polled_connections) \in Nat
    BY <1>3, PolledConnections DEF Inv, Attempts, Addresses
  <2> QED  BY <1>2, <1>4, <2>1
<1>6. Staggered'
  BY <1>1, PacedWithStart DEF Inv
<1>7. result' = "pending"
  BY <1>1 DEF Poll
<1> QED  BY <1>1, <1>2, <1>4, <1>5, <1>6, <1>7, PendingInv

\* AwaitAddresses.
LEMMA AwaitAddressesInv ==
    ASSUME Inv, NEW n \in 0 .. Len(polled_ips), AwaitAddresses(n)
    PROVE  Inv'
<1>1. /\ Poll /\ ~has_stream /\ StillResolving
      /\ ips' = <<>> /\ tried' = tried \o polled_ips
      /\ timer' = timer /\ timer_waker' = timer_waker /\ result' = result /\ fires' = fires
      /\ connections' = polled_connections
  BY DEF AwaitAddresses, ConnectLoop, Poll
<1>2. Addresses' /\ Len(tried') >= Len(tried)
  BY <1>1, PollTriesAll DEF Inv
<1>3. connections' \in Seq({"pending", "terminated"})
  BY <1>1, NoStream DEF Inv
<1>4. Len(connections') <= Len(tried')
  <2>1. /\ Len(connections') <= Len(tried) /\ Len(connections') \in Nat
        /\ Len(tried) \in Nat /\ Len(tried') \in Nat
    BY <1>1, <1>2, <1>3, PolledConnections DEF Inv, Attempts, Addresses
  <2> QED  BY <1>2, <2>1
<1>5. Staggered'
  BY <1>1, PacedWithoutStart DEF Inv
<1>6. result' = "pending" /\ timer' \in {"armed", "elapsed"} /\ timer_waker' \in BOOLEAN
  BY <1>1 DEF Poll, Inv, Attempts
<1> QED  BY <1>1, <1>2, <1>3, <1>4, <1>5, <1>6, PendingInv

\* poll() that returns a result: ResolveError, Connected, ConnectedAtOnce, ConnectError.
LEMMA ReturnsInv ==
    ASSUME Inv,
           \/ ResolveError
           \/ Connected
           \/ \E n \in 0 .. Len(polled_ips) : ConnectedAtOnce(n) \/ ConnectError(n)
    PROVE  Inv'
<1>1. tried \in Seq(IpAddr) /\ Len(tried) \in Nat /\ timer_waker \in BOOLEAN
  BY DEF Inv, Addresses, Attempts
<1>2. CASE ResolveError
  <2>1. Addresses'
    BY <1>2, PollKeepsAll DEF ResolveError, Inv
  <2> QED  BY <1>1, <1>2, <2>1, ReturnInv DEF ResolveError
<1>3. CASE Connected
  <2>1. Addresses'
    BY <1>3, PollKeepsAll DEF Connected, Inv
  <2> QED  BY <1>1, <1>3, <2>1, ReturnInv DEF Connected
<1>4. ASSUME NEW n \in 0 .. Len(polled_ips), ConnectedAtOnce(n) PROVE Inv'
  <2>1. /\ Poll /\ ~NothingResolved /\ n < Len(polled_ips)
        /\ ips' = SubSeq(polled_ips, n + 2, Len(polled_ips))
        /\ tried' = tried \o SubSeq(polled_ips, 1, n + 1)
        /\ result' = "connected" /\ connections' = polled_connections
        /\ UNCHANGED <<timer, timer_waker>>
    BY <1>4 DEF ConnectedAtOnce, ConnectLoop
  <2>2. Addresses' /\ Len(tried') = Len(tried) + n + 1
    BY <2>1, TriesNext DEF Inv
  <2>3. n \in Nat /\ Len(tried) <= Len(tried')
    BY <1>1, <2>2
  <2> QED  BY <1>1, <2>1, <2>2, <2>3, ReturnInv
<1>5. ASSUME NEW n \in 0 .. Len(polled_ips), ConnectError(n) PROVE Inv'
  <2>1. /\ Poll /\ ~NothingResolved /\ ~StillResolving
        /\ ips' = <<>> /\ tried' = tried \o polled_ips
        /\ result' = "connect_error" /\ connections' = polled_connections
        /\ UNCHANGED <<timer, timer_waker>>
    BY <1>5 DEF ConnectError, ConnectLoop
  <2>2. Addresses' /\ Len(tried') >= Len(tried)
    BY <2>1, PollTriesAll DEF Inv
  <2>3. Len(tried) <= Len(tried')
    BY <1>1, <2>2 DEF Addresses
  <2> QED  BY <1>1, <2>1, <2>2, <2>3, ReturnInv
<1> QED  BY <1>2, <1>3, <1>4, <1>5

\* A step that changes nothing.
LEMMA StutterInv == ASSUME Inv, UNCHANGED vars PROVE Inv'
<1>1. Addresses'
  BY SameAddresses DEF Inv, vars
<1>2. Staggered'
  BY DEF Inv, Attempts, vars, Staggered, InFlight
<1>3. NoLostWakeup'
  BY DEF Inv, Attempts, vars, NoLostWakeup, StillResolving, has_pending
<1>4. ErrorsOnlyForCause'
  BY DEF Inv, Attempts, vars, ErrorsOnlyForCause
<1>5. Attempts'
  BY <1>2, <1>3, <1>4 DEF Inv, Attempts, vars
<1> QED  BY <1>1, <1>5 DEF Inv

(***************************************************************************)
(* The invariant holds for all addresses and answers: no address is lost   *)
(* and none is made up, attempts are paced and no wakeup is missed.        *)
(***************************************************************************)
THEOREM InvAlways == Spec => []Inv
<1>1. Inv /\ [Next]_vars => Inv'
  <2> SUFFICES ASSUME Inv, [Next]_vars PROVE Inv'
    OBVIOUS
  <2>1. CASE poll
    <3>1. CASE Wait
      BY <3>1, WaitInv
    <3>2. ASSUME NEW n \in 0 .. Len(polled_ips), StartConnection(n) PROVE Inv'
      BY <3>2, StartConnectionInv
    <3>3. ASSUME NEW n \in 0 .. Len(polled_ips), AwaitAddresses(n) PROVE Inv'
      BY <3>3, AwaitAddressesInv
    <3>4. CASE \/ ResolveError
               \/ Connected
               \/ \E n \in 0 .. Len(polled_ips) : ConnectedAtOnce(n) \/ ConnectError(n)
      BY <3>4, ReturnsInv
    <3> QED  BY <2>1, <3>1, <3>2, <3>3, <3>4 DEF poll
  <2>2. ASSUME NEW f \in Family, Resolved(f) PROVE Inv'
    BY <2>2, DnsReadyInv DEF Resolved
  <2>3. ASSUME NEW i \in DOMAIN connections, Attempted(i) PROVE Inv'
    BY <2>3, ConnectionReadyInv DEF Attempted
  <2>4. CASE TimerFires
    BY <2>4, TimerFiresInv
  <2>5. CASE UNCHANGED vars
    BY <2>5, StutterInv
  <2> QED  BY <2>1, <2>2, <2>3, <2>4, <2>5 DEF Next
<1> QED  BY <1>1, InitInv, PTL DEF Spec

(***************************************************************************)
(* The variables keep their types.                                         *)
(***************************************************************************)
THEOREM Typed == Spec => []TypeOK
<1>1. Inv => TypeOK
  BY DEF Inv, Addresses, Attempts, TypeOK
<1> QED  BY <1>1, InvAlways, PTL

(***************************************************************************)
(* "Failed to connect" is returned only when every address of both queries *)
(* was tried, and "Failed to resolve" exactly when there was none.         *)
(***************************************************************************)
THEOREM ErrorsHaveCause == Spec => []ErrorsOnlyForCause
<1>1. Inv => ErrorsOnlyForCause
  BY DEF Inv, Attempts
<1> QED  BY <1>1, InvAlways, PTL

(***************************************************************************)
(* The families take turns in the list of poll(), however long the answers *)
(* are, whichever comes first and however much of it was tried by then.    *)
(***************************************************************************)
THEOREM TakingTurns == Spec => []FamiliesTakeTurns
<1>1. Inv => FamiliesTakeTurns
  BY DEF Inv, Addresses, TakeTurns, FamiliesTakeTurns
<1> QED  BY <1>1, InvAlways, PTL

(***************************************************************************)
(* Beyond the first, another attempt is under way at the same time only    *)
(* for each time that the timer of poll() has fired.                       *)
(***************************************************************************)
THEOREM StaggeredAlways == Spec => []Staggered
<1>1. Inv => Staggered
  BY DEF Inv, Attempts
<1> QED  BY <1>1, InvAlways, PTL

(***************************************************************************)
(* poll() never returns Pending without a waker where the next thing it    *)
(* waits for will come from.                                               *)
(***************************************************************************)
THEOREM WakeupsKept == Spec => []NoLostWakeup
<1>1. Inv => NoLostWakeup
  BY DEF Inv, Attempts
<1> QED  BY <1>1, InvAlways, PTL

=============================================================================
