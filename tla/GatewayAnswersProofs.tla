----------------------- MODULE GatewayAnswersProofs -----------------------
(***************************************************************************)
(* What the clients of the gateway are told, for any number of             *)
(* connections, ids, lines and any limit: the three properties of Gateway  *)
(* that relate the answers to the counters, to each other and to the table *)
(* of the order manager.                                                   *)
(*                                                                         *)
(* Each has its own inductive invariant.  The answers are counted as the   *)
(* counters move (CountInv).  A handler with an order in hand has just     *)
(* said its ACK and has from the manager no more than that order           *)
(* (HandInv), so fills follow their ACK.  The shares executed and          *)
(* withdrawn are those told and those some handler is about to tell        *)
(* (TellInv), and with what the manager promises of the shares of an order *)
(* the clients add up.                                                     *)
(***************************************************************************)
EXTENDS GatewayProofs, Sums, SequenceTheorems

-----------------------------------------------------------------------------
(* What a connection has been told, in numbers *)

\* the places of a sequence at which an answer of P stands
Spots(s, P) == {i \in DOMAIN s : s[i] \in P}

OfKind(k) == {a \in AnyAnswer : a.kind = k}
About(kinds, k) == {a \in AnyAnswer : a.kind \in kinds /\ a.clid = k}

Count(s, k) == Cardinality({i \in DOMAIN s : s[i].kind = k})
Shares(s, kinds, k) ==
    SumFunctionOnSet([i \in DOMAIN s |-> s[i].size],
        {i \in DOMAIN s : s[i].kind \in kinds /\ s[i].clid = k})

LEMMA SequenceShape ==
    ASSUME NEW s \in Seq(AnyAnswer)
    PROVE  /\ Len(s) \in Nat /\ DOMAIN s = 1 .. Len(s) /\ IsFiniteSet(DOMAIN s)
           /\ \A i \in DOMAIN s : s[i] \in AnyAnswer /\ s[i].size \in Nat
<1>1. Len(s) \in Nat /\ DOMAIN s = 1 .. Len(s) /\ \A i \in DOMAIN s : s[i] \in AnyAnswer
  OBVIOUS
<1>2. IsFiniteSet(1 .. Len(s))
  BY <1>1, FS_Interval
<1>3. \A a \in AnyAnswer : a.size \in Nat
  BY SizesAssumption DEF AnyAnswer
<1> QED
  BY <1>1, <1>2, <1>3

LEMMA PlacesConcat ==
    ASSUME NEW s \in Seq(AnyAnswer), NEW t \in Seq(AnyAnswer), NEW P
    PROVE  /\ s \o t \in Seq(AnyAnswer) /\ Len(s \o t) = Len(s) + Len(t)
           /\ \A i \in DOMAIN s : i \in DOMAIN (s \o t) /\ (s \o t)[i] = s[i]
           /\ \A i \in DOMAIN t :
                Len(s) + i \in DOMAIN (s \o t) /\ (s \o t)[Len(s) + i] = t[i]
           /\ Spots(s \o t, P) = Spots(s, P) \cup Shifted(Len(s), Spots(t, P))
<1> DEFINE st == s \o t
           n == Len(s)
           m == Len(t)
<1>1. /\ n \in Nat /\ m \in Nat /\ DOMAIN s = 1 .. n /\ DOMAIN t = 1 .. m
      /\ st \in Seq(AnyAnswer) /\ Len(st) = n + m /\ DOMAIN st = 1 .. n + m
      /\ \A i \in 1 .. n : st[i] = s[i]
      /\ \A i \in 1 .. m : st[n + i] = t[i]
  OBVIOUS
<1> HIDE DEF st, n, m
<1>2. \A i \in 1 .. n + m : i \in 1 .. n \/ (i - n \in 1 .. m /\ i = n + (i - n))
  BY <1>1
<1>3. \A i \in 1 .. n : i \in 1 .. n + m
  BY <1>1
<1>4. \A i \in 1 .. m : n + i \in 1 .. n + m
  BY <1>1
<1>5. Spots(st, P) = Spots(s, P) \cup Shifted(n, Spots(t, P))
  <2>1. ASSUME NEW i \in Spots(st, P) PROVE i \in Spots(s, P) \cup Shifted(n, Spots(t, P))
    <3>1. i \in 1 .. n + m /\ st[i] \in P
      BY <1>1 DEF Spots
    <3>2. CASE i \in 1 .. n
      BY <1>1, <3>1, <3>2 DEF Spots
    <3>3. CASE i - n \in 1 .. m /\ i = n + (i - n)
      <4>1. t[i - n] \in P
        BY <1>1, <3>1, <3>3
      <4>2. i - n \in Spots(t, P)
        BY <1>1, <3>3, <4>1 DEF Spots
      <4> QED
        BY <3>3, <4>2 DEF Shifted
    <3> QED
      BY <1>2, <3>1, <3>2, <3>3
  <2>2. Spots(s, P) \subseteq Spots(st, P)
    BY <1>1, <1>3 DEF Spots
  <2>3. ASSUME NEW i \in Spots(t, P) PROVE n + i \in Spots(st, P)
    BY <1>1, <1>4 DEF Spots
  <2>4. Shifted(n, Spots(t, P)) \subseteq Spots(st, P)
    BY <2>3 DEF Shifted
  <2> QED
    BY <2>1, <2>2, <2>4
<1> QED
  BY <1>1, <1>3, <1>4, <1>5 DEF st, n, m

LEMMA TalliesAdd ==
    ASSUME NEW s \in Seq(AnyAnswer), NEW t \in Seq(AnyAnswer), NEW k, NEW kinds
    PROVE  /\ Count(s, k) \in Nat /\ Count(t, k) \in Nat
           /\ Count(s \o t, k) = Count(s, k) + Count(t, k)
           /\ Shares(s, kinds, k) \in Nat /\ Shares(t, kinds, k) \in Nat
           /\ Shares(s \o t, kinds, k) = Shares(s, kinds, k) + Shares(t, kinds, k)
<1> DEFINE st == s \o t
           n == Len(s)
           Size(q) == [i \in DOMAIN q |-> q[i].size]
<1>1. /\ n \in Nat /\ DOMAIN s = 1 .. n /\ st \in Seq(AnyAnswer)
      /\ \A i \in DOMAIN s : i \in DOMAIN st /\ st[i] = s[i]
      /\ \A i \in DOMAIN t : n + i \in DOMAIN st /\ st[n + i] = t[i]
      /\ \A P : Spots(st, P) = Spots(s, P) \cup Shifted(n, Spots(t, P))
  BY SequenceShape, PlacesConcat
<1> HIDE DEF st, n
<1>2. ASSUME NEW q \in Seq(AnyAnswer)
      PROVE  /\ IsFiniteSet(DOMAIN q) /\ DOMAIN q \subseteq Nat \ {0}
             /\ \A i \in DOMAIN q : Size(q)[i] = q[i].size /\ Size(q)[i] \in Nat
             /\ \A P : IsFiniteSet(Spots(q, P)) /\ Spots(q, P) \subseteq DOMAIN q
             /\ Count(q, k) = Cardinality(Spots(q, OfKind(k)))
             /\ Shares(q, kinds, k) = SumFunctionOnSet(Size(q), Spots(q, About(kinds, k)))
  <2>1. IsFiniteSet(DOMAIN q) /\ DOMAIN q \subseteq Nat \ {0}
    BY SequenceShape
  <2>2. \A i \in DOMAIN q : q[i] \in AnyAnswer /\ q[i].size \in Nat
    BY SequenceShape
  <2>3. \A P : IsFiniteSet(Spots(q, P)) /\ Spots(q, P) \subseteq DOMAIN q
    BY <2>1, FS_Subset DEF Spots
  <2>4. {i \in DOMAIN q : q[i].kind = k} = Spots(q, OfKind(k))
    BY <2>2 DEF Spots, OfKind
  <2>5. {i \in DOMAIN q : q[i].kind \in kinds /\ q[i].clid = k} = Spots(q, About(kinds, k))
    BY <2>2 DEF Spots, About
  <2> QED
    BY <2>1, <2>2, <2>3, <2>4, <2>5 DEF Count, Shares
<1>3. Count(s, k) \in Nat /\ Count(t, k) \in Nat
  BY <1>2, FS_CardinalityType
<1>4. ASSUME NEW q \in Seq(AnyAnswer) PROVE Shares(q, kinds, k) \in Nat
  <2>1. \A i \in Spots(q, About(kinds, k)) : Size(q)[i] \in Nat
    BY <1>2
  <2> HIDE DEF Size
  <2> QED
    BY <1>2, <2>1, SumNat
<1>5. Count(st, k) = Count(s, k) + Count(t, k)
  <2> DEFINE one == [i \in Int |-> 1]
             A  == Spots(s, OfKind(k))
             B  == Spots(t, OfKind(k))
             C  == Spots(st, OfKind(k))
  <2>1. /\ A \in SUBSET (1 .. n) /\ IsFiniteSet(A)
        /\ B \in SUBSET (Nat \ {0}) /\ IsFiniteSet(B)
        /\ C = A \cup Shifted(n, B) /\ IsFiniteSet(C) /\ C \subseteq Int
    <3>1. A \subseteq DOMAIN s /\ B \subseteq DOMAIN t /\ C \subseteq DOMAIN st
      BY <1>1, <1>2
    <3>2. DOMAIN t \subseteq Nat \ {0} /\ DOMAIN st \subseteq Nat \ {0}
      BY <1>1, <1>2
    <3>3. IsFiniteSet(A) /\ IsFiniteSet(B) /\ IsFiniteSet(C)
      BY <1>1, <1>2
    <3> HIDE DEF A, B, C
    <3>4. C = A \cup Shifted(n, B)
      BY <1>1 DEF A, B, C
    <3> QED
      BY <1>1, <3>1, <3>2, <3>3, <3>4
  <2>2. Count(s, k) = Cardinality(A) /\ Count(t, k) = Cardinality(B)
        /\ Count(st, k) = Cardinality(C)
    BY <1>1, <1>2
  <2>3. \A i \in Int : one[i] = 1
    OBVIOUS
  <2> HIDE DEF one, A, B, C
  <2>4. SumFunctionOnSet(one, A \cup Shifted(n, B))
          = SumFunctionOnSet(one, A) + SumFunctionOnSet(one, B)
    <3>1. \A i \in A : one[i] = one[i] /\ one[i] \in Int
      BY <1>1, <2>1, <2>3
    <3>2. \A i \in B : one[n + i] = one[i] /\ one[i] \in Int
      BY <1>1, <2>1, <2>3
    <3> QED
      BY <1>1, <2>1, <3>1, <3>2, SumConcat
  <2>5. SumFunctionOnSet(one, A) = Cardinality(A)
    <3>1. \A x \in A : one[x] = 1
      BY <1>1, <2>1, <2>3
    <3> QED
      BY <2>1, <3>1, SumOnes
  <2>6. SumFunctionOnSet(one, B) = Cardinality(B)
    <3>1. \A x \in B : one[x] = 1
      BY <2>1, <2>3
    <3> QED
      BY <2>1, <3>1, SumOnes
  <2>7. SumFunctionOnSet(one, C) = Cardinality(C)
    <3>1. \A x \in C : one[x] = 1
      BY <2>1, <2>3
    <3> QED
      BY <2>1, <3>1, SumOnes
  <2> QED
    BY <2>1, <2>2, <2>4, <2>5, <2>6, <2>7
<1>6. Shares(st, kinds, k) = Shares(s, kinds, k) + Shares(t, kinds, k)
  <2> DEFINE A == Spots(s, About(kinds, k))
             B == Spots(t, About(kinds, k))
             f == Size(s)
             g == Size(t)
             h == Size(st)
  <2>1. A \subseteq DOMAIN s /\ B \subseteq DOMAIN t /\ IsFiniteSet(B)
    BY <1>2
  <2>2. A \in SUBSET (1 .. n) /\ B \in SUBSET (Nat \ {0})
    BY <1>1, <1>2, <2>1
  <2>3. /\ \A i \in DOMAIN s : f[i] = s[i].size /\ f[i] \in Nat
        /\ \A i \in DOMAIN t : g[i] = t[i].size /\ g[i] \in Nat
        /\ \A i \in DOMAIN st : h[i] = st[i].size
    <3> HIDE DEF Size
    <3> QED
      BY <1>1, <1>2
  <2>4. /\ Shares(s, kinds, k) = SumFunctionOnSet(f, A)
        /\ Shares(t, kinds, k) = SumFunctionOnSet(g, B)
        /\ Shares(st, kinds, k) = SumFunctionOnSet(h, A \cup Shifted(n, B))
    BY <1>1, <1>2
  <2> HIDE DEF A, B, f, g, h
  <2>5. SumFunctionOnSet(h, A \cup Shifted(n, B))
          = SumFunctionOnSet(f, A) + SumFunctionOnSet(g, B)
    <3>1. ASSUME NEW i \in A PROVE h[i] = f[i] /\ f[i] \in Int
      <4>1. i \in DOMAIN s /\ i \in DOMAIN st /\ st[i] = s[i]
        BY <1>1, <2>1
      <4> QED
        BY <2>3, <4>1
    <3>2. \A i \in B : h[n + i] = g[i] /\ g[i] \in Int
      BY <1>1, <2>1, <2>3
    <3> QED
      BY <1>1, <2>1, <2>2, <3>1, <3>2, SumConcat
  <2> QED
    BY <2>4, <2>5
<1> QED
  BY <1>3, <1>4, <1>5, <1>6 DEF st

\* Handler c says texts, having sent all it said before.
Says(c, texts) ==
    outbox[c] = <<>> /\ outbox' = [outbox EXCEPT ![c] = texts] /\ UNCHANGED sent

LEMMA ToldIsTyped ==
    ASSUME AnswerInv, NEW c \in Session PROVE told(c) \in Seq(AnyAnswer)
<1>1. sent[c] \in Seq(AnyAnswer) /\ outbox[c] \in Seq(AnyAnswer)
  BY DEF AnswerInv
<1> QED
  BY <1>1 DEF told

LEMMA SaysAdds ==
    ASSUME AnswerInv, NEW c \in Session, NEW texts \in Seq(AnyAnswer), Says(c, texts)
    PROVE  /\ told(c)' = told(c) \o texts
           /\ \A d \in Session : d # c => told(d)' = told(d)
<1>1. /\ sent[c] \in Seq(AnyAnswer) /\ outbox[c] = <<>>
      /\ sent' = sent /\ outbox'[c] = texts
      /\ \A d \in Session : d # c => outbox'[d] = outbox[d]
  BY DEF AnswerInv, Says
<1>2. told(c) = sent[c]
  BY <1>1 DEF told
<1>3. told(c)' = sent[c] \o texts
  BY <1>1 DEF told
<1>4. ASSUME NEW d \in Session, d # c PROVE told(d)' = told(d)
  BY <1>1, <1>4 DEF told
<1> QED
  BY <1>2, <1>3, <1>4

\* A send moves an answer and changes nothing of what is told.
LEMMA SendTellsNothing ==
    ASSUME AnswerInv, NEW c \in Session, Send(c)
    PROVE  \A d \in Session : told(d)' = told(d)
<1>1. /\ sent[c] \in Seq(AnyAnswer) /\ outbox[c] \in Seq(AnyAnswer) /\ outbox[c] # <<>>
      /\ outbox' = [outbox EXCEPT ![c] = Tail(outbox[c])]
      /\ sent' = [sent EXCEPT ![c] = Append(sent[c], Head(outbox[c]))]
      /\ DOMAIN sent = Session /\ DOMAIN outbox = Session
  BY DEF AnswerInv, Send
<1>2. Append(sent[c], Head(outbox[c])) \o Tail(outbox[c]) = sent[c] \o outbox[c]
  <2> DEFINE s == sent[c]
             q == outbox[c]
  <2>1. s \in Seq(AnyAnswer) /\ q \in Seq(AnyAnswer) /\ q # <<>>
    BY <1>1
  <2> HIDE DEF s, q
  <2>2. /\ Head(q) \in AnyAnswer /\ Tail(q) \in Seq(AnyAnswer)
        /\ Len(q) \in Nat /\ Len(s) \in Nat /\ Len(q) > 0
        /\ Len(Tail(q)) = Len(q) - 1
        /\ Head(q) = q[1]
        /\ \A i \in 1 .. Len(q) - 1 : Tail(q)[i] = q[i + 1]
    BY <2>1
  <2> DEFINE a == Append(s, Head(q))
  <2>3. /\ a \in Seq(AnyAnswer) /\ Len(a) = Len(s) + 1 /\ a[Len(s) + 1] = q[1]
        /\ \A i \in 1 .. Len(s) : a[i] = s[i]
    BY <2>1, <2>2
  <2> HIDE DEF a
  <2>4. Len(a \o Tail(q)) = Len(s \o q) /\ Len(s \o q) = Len(s) + Len(q)
    BY <2>1, <2>2, <2>3
  <2>5. ASSUME NEW i \in 1 .. Len(s) + Len(q) PROVE (a \o Tail(q))[i] = (s \o q)[i]
    BY <2>1, <2>2, <2>3
  <2>6. a \o Tail(q) = s \o q
    <3> DEFINE x == a \o Tail(q)
               y == s \o q
    <3>1. x \in Seq(AnyAnswer) /\ y \in Seq(AnyAnswer)
      BY <2>1, <2>2, <2>3
    <3>2. Len(x) = Len(y) /\ \A i \in 1 .. Len(x) : x[i] = y[i]
      BY <2>4, <2>5
    <3> HIDE DEF x, y
    <3>3. x = y
      BY <3>1, <3>2, SeqEqual
    <3> QED
      BY <3>3 DEF x, y
  <2> QED
    BY <2>6 DEF a, s, q
<1> QED
  BY <1>1, <1>2 DEF told

\* What the answers of all connections add up to, after one more.
LEMMA TalliesMove ==
    ASSUME AnswerInv, NEW c \in Session, NEW texts \in Seq(AnyAnswer), Says(c, texts),
           NEW k, NEW kinds
    PROVE  /\ ToldOf(k) \in Int /\ Count(texts, k) \in Nat
           /\ ToldOf(k)' = ToldOf(k) + Count(texts, k)
           /\ SharesTold(kinds, k) \in Int /\ Shares(texts, kinds, k) \in Nat
           /\ SharesTold(kinds, k)' = SharesTold(kinds, k) + Shares(texts, kinds, k)
<1>0. IsFiniteSet(Session)
  BY FiniteAssumption
<1>1. /\ told(c)' = told(c) \o texts
      /\ \A d \in Session : d # c => told(d)' = told(d)
  BY SaysAdds
<1>2. /\ Count(told(c), k) \in Nat /\ Count(texts, k) \in Nat
      /\ Count(told(c) \o texts, k) = Count(told(c), k) + Count(texts, k)
      /\ Shares(told(c), kinds, k) \in Nat /\ Shares(texts, kinds, k) \in Nat
      /\ Shares(told(c) \o texts, kinds, k)
           = Shares(told(c), kinds, k) + Shares(texts, kinds, k)
  BY ToldIsTyped, TalliesAdd
<1>3. \A d \in Session : Count(told(d), k) \in Nat /\ Shares(told(d), kinds, k) \in Nat
  BY ToldIsTyped, TalliesAdd
<1> DEFINE N == [d \in Session |-> Count(told(d), k)]
           M == [d \in Session |-> Count(told(d)', k)]
           S == [d \in Session |-> Shares(told(d), kinds, k)]
           R == [d \in Session |-> Shares(told(d)', kinds, k)]
<1>4. /\ ToldOf(k) = SumFunctionOnSet(N, Session)
      /\ ToldOf(k)' = SumFunctionOnSet(M, Session)
  BY DEF ToldOf, Count, SumFunction
<1>5. /\ SharesTold(kinds, k) = SumFunctionOnSet(S, Session)
      /\ SharesTold(kinds, k)' = SumFunctionOnSet(R, Session)
  BY DEF SharesTold, Shares, SumFunction
<1>6. \A d \in Session : N[d] \in Int /\ S[d] \in Int
  BY <1>3
<1>7. M[c] = N[c] + Count(texts, k) /\ R[c] = S[c] + Shares(texts, kinds, k)
  BY <1>1, <1>2
<1>8. \A d \in Session : d # c => M[d] = N[d]
  BY <1>1
<1>9. \A d \in Session : d # c => R[d] = S[d]
  BY <1>1
<1> HIDE DEF N, M, S, R
<1>11. SumFunctionOnSet(M, Session) = SumFunctionOnSet(N, Session) + M[c] - N[c]
  <2>1. (\A d \in Session : N[d] \in Int) /\ M[c] \in Int
    BY <1>2, <1>6, <1>7
  <2> QED
    BY <1>0, <1>8, <2>1, SumChange
<1>12. SumFunctionOnSet(R, Session) = SumFunctionOnSet(S, Session) + R[c] - S[c]
  <2>1. (\A d \in Session : S[d] \in Int) /\ R[c] \in Int
    BY <1>2, <1>6, <1>7
  <2> QED
    BY <1>0, <1>9, <2>1, SumChange
<1>10. SumFunctionOnSet(N, Session) \in Int /\ SumFunctionOnSet(S, Session) \in Int
  BY <1>0, <1>6, SumInt
<1>13. /\ N[c] \in Int /\ S[c] \in Int
       /\ Count(texts, k) \in Nat /\ Shares(texts, kinds, k) \in Nat
  BY <1>2, <1>6
<1>14. ToldOf(k) \in Int /\ ToldOf(k)' = ToldOf(k) + Count(texts, k)
  BY ONLY <1>4, <1>7, <1>10, <1>11, <1>13
<1>15. /\ SharesTold(kinds, k) \in Int
       /\ SharesTold(kinds, k)' = SharesTold(kinds, k) + Shares(texts, kinds, k)
  BY ONLY <1>5, <1>7, <1>10, <1>12, <1>13
<1> QED
  BY <1>13, <1>14, <1>15

LEMMA TalliesStay ==
    ASSUME \A d \in Session : told(d)' = told(d)
    PROVE  /\ \A k : ToldOf(k)' = ToldOf(k)
           /\ \A k, kinds : SharesTold(kinds, k)' = SharesTold(kinds, k)
BY DEF ToldOf, SharesTold

\* The tallies of one answer, and of none.
LEMMA NothingTallied ==
    ASSUME NEW k, NEW kinds
    PROVE  Count(<<>>, k) = 0 /\ Shares(<<>>, kinds, k) = 0
<1>1. {i \in DOMAIN <<>> : <<>>[i].kind = k} = {}
  OBVIOUS
<1>2. {i \in DOMAIN <<>> : <<>>[i].kind \in kinds /\ <<>>[i].clid = k} = {}
  OBVIOUS
<1> QED
  BY <1>1, <1>2, FS_EmptySet, SumEmpty DEF Count, Shares

LEMMA OneTallied ==
    ASSUME NEW a \in AnyAnswer, NEW k, NEW kinds
    PROVE  /\ Count(<<a>>, k) = IF a.kind = k THEN 1 ELSE 0
           /\ Shares(<<a>>, kinds, k) = IF a.kind \in kinds /\ a.clid = k THEN a.size ELSE 0
<1>1. DOMAIN <<a>> = {1} /\ <<a>>[1] = a
  OBVIOUS
<1>2. Count(<<a>>, k) = IF a.kind = k THEN 1 ELSE 0
  <2>1. {i \in DOMAIN <<a>> : <<a>>[i].kind = k} = IF a.kind = k THEN {1} ELSE {}
    BY <1>1
  <2> QED
    BY <2>1, FS_EmptySet, FS_Singleton DEF Count
<1>3. Shares(<<a>>, kinds, k) = IF a.kind \in kinds /\ a.clid = k THEN a.size ELSE 0
  <2> DEFINE f == [i \in DOMAIN <<a>> |-> <<a>>[i].size]
  <2>1. {i \in DOMAIN <<a>> : <<a>>[i].kind \in kinds /\ <<a>>[i].clid = k}
          = IF a.kind \in kinds /\ a.clid = k THEN {1} ELSE {}
    BY <1>1
  <2>2. f[1] = a.size /\ a.size \in Int
    BY <1>1, SizesAssumption DEF AnyAnswer
  <2> HIDE DEF f
  <2>3. SumFunctionOnSet(f, {}) = 0
    BY SumEmpty
  <2>4. SumFunctionOnSet(f, {1}) = a.size
    <3>1. SumFunctionOnSet(f, {} \cup {1}) = f[1] + SumFunctionOnSet(f, {})
      BY <2>2, FS_EmptySet, SumAdd
    <3>2. {} \cup {1} = {1}
      OBVIOUS
    <3> QED
      BY <2>2, <2>3, <3>1, <3>2
  <2> QED
    BY <2>1, <2>3, <2>4 DEF Shares, f
<1> QED
  BY <1>2, <1>3

LEMMA FillsTallied ==
    ASSUME NEW c \in Session, NEW n \in Nat, NEW sizes \in [1 .. n -> Nat],
           NEW kind, NEW k, NEW kinds
    PROVE  /\ Count(FillLines(c, sizes), kind) = IF kind = "FILL" THEN n ELSE 0
           /\ Shares(FillLines(c, sizes), kinds, k)
                = IF "FILL" \in kinds /\ line[c].clid = k THEN SumFunction(sizes) ELSE 0
<1> DEFINE t == FillLines(c, sizes)
<1>1. /\ DOMAIN t = 1 .. n
      /\ \A i \in 1 .. n : t[i].kind = "FILL" /\ t[i].clid = line[c].clid /\ t[i].size = sizes[i]
  BY DEF FillLines, Answer
<1>2. IsFiniteSet(1 .. n) /\ Cardinality(1 .. n) = n
  BY FS_Interval
<1> HIDE DEF t
<1>3. Count(t, kind) = IF kind = "FILL" THEN n ELSE 0
  <2>1. {i \in DOMAIN t : t[i].kind = kind} = IF kind = "FILL" THEN 1 .. n ELSE {}
    BY <1>1
  <2> QED
    BY <1>2, <2>1, FS_EmptySet DEF Count
<1>4. Shares(t, kinds, k)
        = IF "FILL" \in kinds /\ line[c].clid = k THEN SumFunction(sizes) ELSE 0
  <2> DEFINE f == [i \in DOMAIN t |-> t[i].size]
  <2>1. {i \in DOMAIN t : t[i].kind \in kinds /\ t[i].clid = k}
          = IF "FILL" \in kinds /\ line[c].clid = k THEN 1 .. n ELSE {}
    BY <1>1
  <2>2. SumFunctionOnSet(f, 1 .. n) = SumFunction(sizes)
    <3>1. \A i \in 1 .. n : f[i] = sizes[i]
      BY <1>1
    <3> HIDE DEF f
    <3>2. SumFunctionOnSet(f, 1 .. n) = SumFunctionOnSet(sizes, 1 .. n)
      BY <1>2, <3>1, SumSame
    <3> QED
      BY <3>2 DEF SumFunction
  <2> HIDE DEF f
  <2>3. SumFunctionOnSet(f, {}) = 0
    BY SumEmpty
  <2> QED
    BY <2>1, <2>2, <2>3 DEF Shares, f
<1> QED
  BY <1>3, <1>4 DEF t

-----------------------------------------------------------------------------
(* The shapes of the handlers' steps *)

\* the places of a handler that has an order in its hand
InHand == {"count", "submit", "call"}

\* what a move away from one place, or to one, means for a set of places
Is(place, places) == IF place \in places THEN 1 ELSE 0

LEMMA BusyMoves ==
    ASSUME GInv, NEW c \in Session, NEW to, hpc' = [hpc EXCEPT ![c] = to], NEW P
    PROVE  /\ Busy(P) \in Nat
           /\ Busy(P)' = Busy(P) - Is(hpc[c], P) + Is(to, P)
<1> DEFINE B == {d \in Session : hpc[d] \in P}
           C == {d \in Session : hpc'[d] \in P}
           R == B \ {c}
<1>1. hpc'[c] = to /\ \A d \in Session : d # c => hpc'[d] = hpc[d]
  BY DEF GInv, StreamInv
<1>2. IsFiniteSet(B) /\ IsFiniteSet(R) /\ c \notin R
  BY FiniteAssumption, FS_Subset
<1>3. B = (IF hpc[c] \in P THEN R \cup {c} ELSE R) /\ C = (IF to \in P THEN R \cup {c} ELSE R)
  BY <1>1
<1>4. Busy(P) = Cardinality(B) /\ Busy(P)' = Cardinality(C)
  BY DEF Busy
<1> HIDE DEF B, C, R
<1>5. /\ Cardinality(R) \in Nat /\ Cardinality(B) \in Nat
      /\ Cardinality(R \cup {c}) = Cardinality(R) + 1
  BY <1>2, FS_AddElement, FS_CardinalityType
<1> QED
  BY <1>3, <1>4, <1>5 DEF Is

\* A step of the outside, the acceptor or a handler between two orders.
QuietShape ==
    /\ \A d \in Session : told(d)' = told(d)
    /\ UNCHANGED <<counts, line>>
    /\ \/ UNCHANGED hpc
       \/ \E c \in Session, p \in Places \ InHand :
            hpc[c] \notin InHand /\ hpc' = [hpc EXCEPT ![c] = p]

LEMMA NextTurnQuiet == NextTurn \in Places \ InHand
BY DEF NextTurn, Places, InHand

LEMMA Quiet ==
    ASSUME GInv, AnswerInv, CallInv,
           \/ RequestStop \/ Exit \/ Acceptor \/ ListenOrAcceptFails \/ SpawnFails
           \/ UNCHANGED vars
           \/ \E c \in Session :
                \/ Connect(c) \/ Write(c) \/ Leave(c)
                \/ Receive(c) \/ ReceiveTimesOut(c) \/ HangUp(c) \/ NoLineLeft(c)
                \/ UseDestroyed(c) \/ Send(c)
    PROVE  QuietShape
<1>1. UNCHANGED answers => \A d \in Session : told(d)' = told(d)
  BY DEF answers, told
<1>2. CASE RequestStop \/ Exit \/ Listen \/ Woken \/ ListenOrAcceptFails \/ SpawnFails
           \/ UNCHANGED vars
  <2>1. UNCHANGED <<answers, counts, line, hpc>>
    BY <1>2 DEF RequestStop, Exit, Listen, Woken, ListenOrAcceptFails, SpawnFails,
                AcceptorFrame, handlers, stream, vars
  <2> QED
    BY <1>1, <2>1 DEF QuietShape
<1>3. CASE Accept
  <2>1. UNCHANGED <<answers, counts, line>>
    BY <1>3 DEF Accept, AcceptorFrame, stream
  <2>2. \E c \in Session : hpc[c] = "backlog" /\ hpc' = [hpc EXCEPT ![c] = NextTurn]
    BY <1>3 DEF Accept
  <2> QED
    BY <1>1, <2>1, <2>2, NextTurnQuiet DEF QuietShape, InHand
<1>4. ASSUME NEW c \in Session, Connect(c) PROVE QuietShape
  <2>1. UNCHANGED <<answers, counts, line>> /\ hpc' = [hpc EXCEPT ![c] = "backlog"]
    BY <1>4 DEF Connect, stream
  <2>2. hpc[c] = "none"
    BY <1>4 DEF Connect, CallInv
  <2> QED
    BY <1>1, <2>1, <2>2 DEF QuietShape, InHand, Places
<1>5. ASSUME NEW c \in Session, Write(c) \/ Leave(c) \/ UseDestroyed(c) PROVE QuietShape
  <2>1. UNCHANGED <<answers, counts, line, hpc>>
    BY <1>5 DEF Write, Leave, UseDestroyed, handlers, stream
  <2> QED
    BY <1>1, <2>1 DEF QuietShape
<1>6. ASSUME NEW c \in Session,
             Receive(c) \/ ReceiveTimesOut(c) \/ HangUp(c) \/ NoLineLeft(c)
      PROVE  QuietShape
  <2>1. UNCHANGED <<answers, counts, line>>
    BY <1>6 DEF Receive, ReceiveTimesOut, HangUp, NoLineLeft, Move, stream
  <2>2. /\ hpc[c] \in {"recv", "lines"}
        /\ \E p \in {"lines", "closed", NextTurn} : hpc' = [hpc EXCEPT ![c] = p]
    BY <1>6 DEF Receive, ReceiveTimesOut, HangUp, NoLineLeft, Move, At, Go
  <2>3. {"lines", "closed", NextTurn} \subseteq Places \ InHand
    BY NextTurnQuiet DEF Places, InHand
  <2> QED
    BY <1>1, <2>1, <2>2, <2>3 DEF QuietShape, InHand
<1>7. ASSUME NEW c \in Session, Send(c) PROVE QuietShape
  <2>1. UNCHANGED <<counts, line, hpc>>
    BY <1>7 DEF Send, stream
  <2> QED
    BY <1>7, <2>1, SendTellsNothing DEF QuietShape
<1> QED
  BY <1>2, <1>3, <1>4, <1>5, <1>6, <1>7 DEF Acceptor

\* A line is taken: where it leads, and what is said about it.
LineShape(c, place, texts) ==
    /\ hpc[c] = "lines" /\ hpc' = [hpc EXCEPT ![c] = place]
    /\ texts \in Seq(AnyAnswer) /\ Says(c, texts)
    /\ nextLine(c) \in AnyLine /\ line' = [line EXCEPT ![c] = nextLine(c)]
    /\ UNCHANGED <<refused, unmanaged>>

LEMMA LineTaken ==
    ASSUME GInv, NEW c \in Session, NEW cmd, NEW place, NEW texts, texts \in Seq(AnyAnswer),
           Handle(c, cmd, place, texts)
    PROVE  LineShape(c, place, texts)
<1>1. got[c] >= 2 /\ got[c] \in Nat /\ got[c] <= 2 * Len(inbox[c]) /\ inbox[c] \in Seq(AnyLine)
  BY DEF Handle, HasLine, GInv, StreamInv
<1>2. Head(inbox[c]) \in AnyLine
  BY <1>1
<1> QED
  BY <1>2 DEF LineShape, Handle, HasLine, At, Go, Says, nextLine

\* A step with an order in hand that says something.
HandShape(c, from, to, texts) ==
    /\ hpc[c] = from /\ hpc' = [hpc EXCEPT ![c] = to]
    /\ texts \in Seq(AnyAnswer) /\ Says(c, texts)
    /\ UNCHANGED line

LEMMA HandMoves ==
    ASSUME NEW c \in Session, NEW from, NEW to, NEW texts, texts \in Seq(AnyAnswer),
           Proceed(c, from, to, texts)
    PROVE  HandShape(c, from, to, texts)
BY DEF HandShape, Proceed, At, Go, Says, stream

LEMMA LineShapes ==
    ASSUME GInv, Manager!TypeOK, NEW c \in Session
    PROVE  /\ SkipBlank(c) => LineShape(c, "lines", <<>>)
           /\ RefuseJunk(c) => LineShape(c, "lines", <<Answer("REJ_CMD", NoOrder, 0)>>)
           /\ RefuseCancel(c) =>
                LineShape(c, "lines", <<Answer("REJ_CMD", nextLine(c).clid, 0)>>)
           /\ RefuseOrder(c) => LineShape(c, "count", <<Answer("REJ", nextLine(c).clid, 0)>>)
           /\ Acknowledge(c) =>
                LineShape(c, "submit",
                          <<Answer("ACK", nextLine(c).clid, nextLine(c).size)>>)
           /\ CancelOrder(c) =>
                /\ LineShape(c, "lines", <<Answer("CAL", nextLine(c).clid,
                                                  orders[nextLine(c).clid].remaining)>>)
                /\ Manager!Cancel(c, nextLine(c).clid)
                /\ orders[nextLine(c).clid].remaining \in 0 .. MaxSize
<1>0. MaxSize \in Nat /\ 0 \in 0 .. MaxSize /\ <<>> \in Seq(AnyAnswer)
  BY SizesAssumption
<1>1. ASSUME NEW cmd, HasLine(c, cmd) PROVE nextLine(c) \in AnyLine
  <2>1. got[c] >= 2 /\ got[c] \in Nat /\ got[c] <= 2 * Len(inbox[c])
        /\ inbox[c] \in Seq(AnyLine)
    BY <1>1 DEF HasLine, GInv, StreamInv
  <2> QED
    BY <2>1 DEF nextLine
<1>2. ASSUME SkipBlank(c) PROVE LineShape(c, "lines", <<>>)
  BY <1>0, <1>2, LineTaken DEF SkipBlank, AfterLine
<1>3. ASSUME RefuseJunk(c)
      PROVE  LineShape(c, "lines", <<Answer("REJ_CMD", NoOrder, 0)>>)
  <2>1. <<Answer("REJ_CMD", NoOrder, 0)>> \in Seq(AnyAnswer)
    BY <1>0, OneAnswer
  <2> QED
    BY <1>3, <2>1, LineTaken DEF RefuseJunk, AfterLine
<1>4. ASSUME RefuseCancel(c)
      PROVE  LineShape(c, "lines", <<Answer("REJ_CMD", nextLine(c).clid, 0)>>)
  <2>1. nextLine(c).clid \in Clid
    BY <1>1, <1>4 DEF RefuseCancel, Handle, AnyLine
  <2>2. <<Answer("REJ_CMD", nextLine(c).clid, 0)>> \in Seq(AnyAnswer)
    BY <1>0, <2>1, OneAnswer
  <2> QED
    BY <1>4, <2>2, LineTaken DEF RefuseCancel, AfterLine
<1>5. ASSUME RefuseOrder(c)
      PROVE  LineShape(c, "count", <<Answer("REJ", nextLine(c).clid, 0)>>)
  <2>1. nextLine(c).clid \in Clid
    BY <1>1, <1>5 DEF RefuseOrder, Handle, AnyLine
  <2>2. <<Answer("REJ", nextLine(c).clid, 0)>> \in Seq(AnyAnswer)
    BY <1>0, <2>1, OneAnswer
  <2> QED
    BY <1>5, <2>2, LineTaken DEF RefuseOrder
<1>6. ASSUME Acknowledge(c)
      PROVE  LineShape(c, "submit", <<Answer("ACK", nextLine(c).clid, nextLine(c).size)>>)
  <2>1. nextLine(c).clid \in Clid /\ nextLine(c).size \in 0 .. MaxSize
    BY <1>1, <1>6 DEF Acknowledge, Handle, AnyLine
  <2>2. <<Answer("ACK", nextLine(c).clid, nextLine(c).size)>> \in Seq(AnyAnswer)
    BY <2>1, OneAnswer
  <2> QED
    BY <1>6, <2>2, LineTaken DEF Acknowledge
<1>7. ASSUME CancelOrder(c)
      PROVE  /\ LineShape(c, "lines", <<Answer("CAL", nextLine(c).clid,
                                               orders[nextLine(c).clid].remaining)>>)
             /\ Manager!Cancel(c, nextLine(c).clid)
             /\ orders[nextLine(c).clid].remaining \in 0 .. MaxSize
  <2> DEFINE k == nextLine(c).clid
  <2>1. k \in Clid /\ Manager!Cancel(c, k)
    BY <1>1, <1>7 DEF CancelOrder, AnyLine
  <2>2. k \in DOMAIN orders
    BY <2>1 DEF Manager!Cancel, Manager!Cancelable
  <2>3. orders[k].remaining \in 0 .. MaxSize
    BY <2>2 DEF Manager!TypeOK, Manager!State
  <2>4. <<Answer("CAL", k, orders[k].remaining)>> \in Seq(AnyAnswer)
    BY <2>1, <2>3, OneAnswer
  <2>5. Handle(c, "cancel", "lines", <<Answer("CAL", k, orders[k].remaining)>>)
    BY <1>7 DEF CancelOrder, AfterLine, CanceledSize
  <2> HIDE DEF k
  <2>6. LineShape(c, "lines", <<Answer("CAL", k, orders[k].remaining)>>)
    BY <2>4, <2>5, LineTaken
  <2> QED
    BY <2>1, <2>3, <2>6 DEF k
<1> QED
  BY <1>2, <1>3, <1>4, <1>5, <1>6, <1>7

LEMMA HandShapes ==
    ASSUME GInv, Manager!TypeOK, NEW c \in Session
    PROVE  /\ CountRefusal(c) => HandShape(c, "count", "lines", <<>>)
           /\ SubmitRejected(c) =>
                HandShape(c, "submit", "lines", <<Answer("REJ", line[c].clid, 0)>>)
           /\ Submit(c) => HandShape(c, "submit", "call", <<>>)
           /\ Fallback(c) => HandShape(c, "submit", "lines", <<>>)
           /\ ReportFills(c) =>
                /\ fills[c].count \in Nat /\ fills[c].consumed \in Nat
                /\ \E sizes \in [1 .. fills[c].count -> 1 .. fills[c].consumed] :
                     /\ SumFunction(sizes) = fills[c].consumed
                     /\ HandShape(c, "call", "lines", FillLines(c, sizes))
<1>0. MaxSize \in Nat /\ 0 \in 0 .. MaxSize /\ <<>> \in Seq(AnyAnswer)
  BY SizesAssumption
<1>1. line[c].clid \in Clid \cup {NoOrder}
  BY LinesAreTyped DEF GInv, StreamInv, AnyLine, NoLine
<1>2. ASSUME CountRefusal(c) PROVE HandShape(c, "count", "lines", <<>>)
  BY <1>0, <1>2, HandMoves DEF CountRefusal, AfterLine
<1>3. ASSUME SubmitRejected(c)
      PROVE  HandShape(c, "submit", "lines", <<Answer("REJ", line[c].clid, 0)>>)
  <2>1. <<Answer("REJ", line[c].clid, 0)>> \in Seq(AnyAnswer)
    BY <1>0, <1>1, OneAnswer
  <2> QED
    BY <1>3, <2>1, HandMoves DEF SubmitRejected, AfterLine
<1>4. ASSUME Submit(c) PROVE HandShape(c, "submit", "call", <<>>)
  BY <1>0, <1>4, HandMoves DEF Submit
<1>5. ASSUME Fallback(c) PROVE HandShape(c, "submit", "lines", <<>>)
  BY <1>0, <1>5, HandMoves DEF Fallback, AfterLine
<1>6. ASSUME ReportFills(c)
      PROVE  /\ fills[c].count \in Nat /\ fills[c].consumed \in Nat
             /\ \E sizes \in [1 .. fills[c].count -> 1 .. fills[c].consumed] :
                  /\ SumFunction(sizes) = fills[c].consumed
                  /\ HandShape(c, "call", "lines", FillLines(c, sizes))
  <2>1. fills[c].count \in Nat /\ fills[c].consumed \in 0 .. MaxSize
    BY <1>0 DEF Manager!TypeOK, Manager!Fills
  <2>2. PICK sizes \in [1 .. fills[c].count -> 1 .. fills[c].consumed] :
          /\ SumFunction(sizes) = fills[c].consumed
          /\ Proceed(c, "call", AfterLine, FillLines(c, sizes))
    BY <1>6 DEF ReportFills
  <2>3. ASSUME NEW i \in 1 .. fills[c].count
        PROVE  Answer("FILL", line[c].clid, sizes[i]) \in AnyAnswer
    <3>1. sizes[i] \in 0 .. MaxSize
      BY <1>0, <2>1
    <3> QED
      BY <1>1, <3>1, OneAnswer
  <2>4. FillLines(c, sizes) \in [1 .. fills[c].count -> AnyAnswer]
    BY <2>3 DEF FillLines
  <2>5. FillLines(c, sizes) \in Seq(AnyAnswer)
    BY <2>1, <2>4
  <2>6. HandShape(c, "call", "lines", FillLines(c, sizes))
    BY <2>2, <2>5, HandMoves DEF AfterLine
  <2> QED
    BY <1>0, <2>1, <2>2, <2>6
<1> QED
  BY <1>2, <1>3, <1>4, <1>5, <1>6

-----------------------------------------------------------------------------
(* The counters and the answers *)

CountInv == refused \in Nat /\ unmanaged \in Nat /\ CountersMatchAnswers

LEMMA InitCountInv == Init => CountInv
<1> SUFFICES ASSUME Init PROVE CountInv
  OBVIOUS
<1>1. \A c \in Session : told(c) = <<>>
  BY DEF Init, told
<1>2. ASSUME NEW k PROVE ToldOf(k) = 0
  <2> DEFINE N == [c \in Session |-> Count(told(c), k)]
  <2>1. \A c \in Session : N[c] = 0
    BY <1>1, NothingTallied
  <2>2. ToldOf(k) = SumFunctionOnSet(N, Session)
    BY DEF ToldOf, Count, SumFunction
  <2> HIDE DEF N
  <2> QED
    BY <2>1, <2>2, FiniteAssumption, SumZeros
<1>3. \A P \in SUBSET InHand : Busy(P) = 0
  <2> SUFFICES ASSUME NEW P \in SUBSET InHand PROVE Busy(P) = 0
    OBVIOUS
  <2>1. {c \in Session : hpc[c] \in P} = {}
    BY DEF Init, InHand
  <2> QED
    BY <2>1, FS_EmptySet DEF Busy
<1>4. Busy({"count"}) = 0 /\ Busy({"submit", "call"}) = 0
  BY <1>3 DEF InHand
<1> QED
  BY <1>2, <1>4 DEF Init, Manager!Init, CountInv, CountersMatchAnswers, orders_rejected,
                    orders_accepted

\* The four equations, before the counters of the step are looked at.
LEMMA TallyOfStep ==
    ASSUME GInv, Manager!TypeOK, AnswerInv, CountInv, NEW c \in Session, NEW to,
           NEW texts, texts \in Seq(AnyAnswer), Says(c, texts),
           hpc' = [hpc EXCEPT ![c] = to]
    PROVE  /\ ToldOf("REJ")' = orders_rejected + Busy({"count"})' + Count(texts, "REJ")
                + Is(hpc[c], {"count"}) - Is(to, {"count"})
           /\ ToldOf("ACK")' = orders_accepted + rejected + Busy({"submit", "call"})'
                + Count(texts, "ACK") + Is(hpc[c], {"submit", "call"})
                - Is(to, {"submit", "call"})
           /\ ToldOf("FILL")' = filled_count + Count(texts, "FILL")
           /\ ToldOf("CAL")' = canceled + Count(texts, "CAL")
           /\ Busy({"count"})' \in Int /\ Busy({"submit", "call"})' \in Int
<1>1. \A k : /\ ToldOf(k) \in Int /\ Count(texts, k) \in Nat
             /\ ToldOf(k)' = ToldOf(k) + Count(texts, k)
  BY TalliesMove
<1>2. \A P : Busy(P) \in Nat /\ Busy(P)' = Busy(P) - Is(hpc[c], P) + Is(to, P)
  BY BusyMoves
<1>3. \A place, P : Is(place, P) \in Int
  BY DEF Is
<1>4. /\ ToldOf("REJ") = orders_rejected + Busy({"count"})
      /\ ToldOf("ACK") = orders_accepted + rejected + Busy({"submit", "call"})
      /\ ToldOf("FILL") = filled_count /\ ToldOf("CAL") = canceled
  BY DEF CountInv, CountersMatchAnswers
<1>5. orders_rejected \in Int /\ orders_accepted + rejected \in Int
  BY DEF CountInv, orders_rejected, orders_accepted, Manager!TypeOK
<1>6. ASSUME NEW P, NEW k, NEW n \in Int, ToldOf(k) = n + Busy(P)
      PROVE  /\ ToldOf(k)' = n + Busy(P)' + Count(texts, k) + Is(hpc[c], P) - Is(to, P)
             /\ Busy(P)' \in Int
  <2>1. /\ Busy(P) \in Int /\ Busy(P)' = Busy(P) - Is(hpc[c], P) + Is(to, P)
        /\ Is(hpc[c], P) \in Int /\ Is(to, P) \in Int
    BY <1>2, <1>3
  <2>2. ToldOf(k) \in Int /\ ToldOf(k)' = ToldOf(k) + Count(texts, k) /\ Count(texts, k) \in Int
    BY <1>1
  <2> QED
    BY <1>6, <2>1, <2>2
<1>7. /\ ToldOf("REJ")' = orders_rejected + Busy({"count"})' + Count(texts, "REJ")
                + Is(hpc[c], {"count"}) - Is(to, {"count"})
      /\ Busy({"count"})' \in Int
  BY <1>4, <1>5, <1>6
<1>8. /\ ToldOf("ACK")' = orders_accepted + rejected + Busy({"submit", "call"})'
                + Count(texts, "ACK") + Is(hpc[c], {"submit", "call"})
                - Is(to, {"submit", "call"})
      /\ Busy({"submit", "call"})' \in Int
  <2>1. ToldOf("ACK") = (orders_accepted + rejected) + Busy({"submit", "call"})
    BY <1>4
  <2> HIDE DEF orders_accepted
  <2> QED
    BY <1>5, <1>6, <2>1
<1> QED
  BY <1>1, <1>4, <1>7, <1>8

LEMMA AnswerTallied ==
    ASSUME NEW kind, NEW clid, NEW size, <<Answer(kind, clid, size)>> \in Seq(AnyAnswer),
           NEW k, NEW kinds
    PROVE  /\ Count(<<Answer(kind, clid, size)>>, k) = IF kind = k THEN 1 ELSE 0
           /\ Shares(<<Answer(kind, clid, size)>>, kinds, k)
                = IF kind \in kinds /\ clid = k THEN size ELSE 0
<1> DEFINE a == Answer(kind, clid, size)
<1>1. a \in AnyAnswer
  <2> HIDE DEF a
  <2> QED
    BY DEF a
<1>2. a.kind = kind /\ a.clid = clid /\ a.size = size
  BY DEF Answer
<1> HIDE DEF a
<1>3. /\ Count(<<a>>, k) = IF a.kind = k THEN 1 ELSE 0
      /\ Shares(<<a>>, kinds, k) = IF a.kind \in kinds /\ a.clid = k THEN a.size ELSE 0
  BY <1>1, OneTallied
<1> QED
  BY <1>2, <1>3 DEF a

\* A step keeps the equations when the counters move as its answer and its
\* handler do.
LEMMA CountersKept ==
    ASSUME GInv, Manager!TypeOK, AnswerInv, CountInv, NEW c \in Session, NEW to,
           NEW texts, texts \in Seq(AnyAnswer), Says(c, texts),
           hpc' = [hpc EXCEPT ![c] = to],
           refused' \in Nat, unmanaged' \in Nat,
           orders_rejected' = orders_rejected + Count(texts, "REJ")
                                + Is(hpc[c], {"count"}) - Is(to, {"count"}),
           orders_accepted' + rejected'
               = orders_accepted + rejected + Count(texts, "ACK")
                   + Is(hpc[c], {"submit", "call"}) - Is(to, {"submit", "call"}),
           filled_count' = filled_count + Count(texts, "FILL"),
           canceled' = canceled + Count(texts, "CAL")
    PROVE  CountInv'
<1>1. /\ ToldOf("REJ")' = orders_rejected + Busy({"count"})' + Count(texts, "REJ")
           + Is(hpc[c], {"count"}) - Is(to, {"count"})
      /\ ToldOf("ACK")' = orders_accepted + rejected + Busy({"submit", "call"})'
           + Count(texts, "ACK") + Is(hpc[c], {"submit", "call"})
           - Is(to, {"submit", "call"})
      /\ ToldOf("FILL")' = filled_count + Count(texts, "FILL")
      /\ ToldOf("CAL")' = canceled + Count(texts, "CAL")
      /\ Busy({"count"})' \in Int /\ Busy({"submit", "call"})' \in Int
  BY TallyOfStep
<1>2. orders_rejected \in Int /\ orders_accepted \in Int /\ rejected \in Int
  <2>1. refused \in Nat /\ unmanaged \in Nat /\ rejected \in Nat /\ accepted \in Nat
    BY DEF CountInv, Manager!TypeOK
  <2> QED
    BY <2>1 DEF orders_rejected, orders_accepted
<1>3. ASSUME NEW k PROVE Count(texts, k) \in Int
  <2>1. Count(texts, k) \in Nat /\ Shares(texts, {}, k) \in Nat
    BY TalliesMove
  <2> QED
    BY <2>1
<1>4. \A place, P : Is(place, P) \in Int
  BY DEF Is
<1>5. ToldOf("REJ")' = orders_rejected' + Busy({"count"})'
  <2>1. /\ Count(texts, "REJ") \in Int /\ Is(hpc[c], {"count"}) \in Int
        /\ Is(to, {"count"}) \in Int
    BY <1>3, <1>4
  <2>2. orders_rejected' = orders_rejected + Count(texts, "REJ")
                             + Is(hpc[c], {"count"}) - Is(to, {"count"})
    OBVIOUS
  <2> QED
    BY ONLY <1>1, <1>2, <2>1, <2>2
<1>6. ToldOf("ACK")' = orders_accepted' + rejected' + Busy({"submit", "call"})'
  <2>1. /\ Count(texts, "ACK") \in Int /\ Is(hpc[c], {"submit", "call"}) \in Int
        /\ Is(to, {"submit", "call"}) \in Int
    BY <1>3, <1>4
  <2>2. orders_accepted' + rejected'
          = orders_accepted + rejected + Count(texts, "ACK")
              + Is(hpc[c], {"submit", "call"}) - Is(to, {"submit", "call"})
    OBVIOUS
  <2> QED
    BY ONLY <1>1, <1>2, <2>1, <2>2
<1> QED
  BY <1>1, <1>5, <1>6 DEF CountInv, CountersMatchAnswers

LEMMA CountStep ==
    ASSUME GInv, Manager!TypeOK, AnswerInv, CallInv, CountInv, [Next]_vars
    PROVE  CountInv'
<1>0. /\ refused \in Nat /\ unmanaged \in Nat /\ rejected \in Nat /\ accepted \in Nat
      /\ filled_count \in Nat /\ canceled \in Nat
  BY DEF CountInv, Manager!TypeOK
<1> DEFINE SC == {"submit", "call"}
<1>1. ASSUME QuietShape PROVE CountInv'
  <2>1. \A k : ToldOf(k)' = ToldOf(k)
    BY <1>1, TalliesStay DEF QuietShape
  <2>2. UNCHANGED <<refused, unmanaged, rejected, accepted, filled_count, canceled>>
    BY <1>1 DEF QuietShape, counts, managed
  <2>3. Busy({"count"})' = Busy({"count"}) /\ Busy(SC)' = Busy(SC)
    <3>1. CASE UNCHANGED hpc
      BY <3>1 DEF Busy
    <3>2. ASSUME NEW c \in Session, NEW p \in Places \ InHand,
                 hpc[c] \notin InHand, hpc' = [hpc EXCEPT ![c] = p]
          PROVE  Busy({"count"})' = Busy({"count"}) /\ Busy(SC)' = Busy(SC)
      <4>1. \A P : Busy(P) \in Nat /\ Busy(P)' = Busy(P) - Is(hpc[c], P) + Is(p, P)
        BY <3>2, BusyMoves
      <4>2. /\ Is(hpc[c], {"count"}) = 0 /\ Is(p, {"count"}) = 0
            /\ Is(hpc[c], SC) = 0 /\ Is(p, SC) = 0
        BY <3>2 DEF Is, InHand
      <4> HIDE DEF SC
      <4>3. /\ Busy({"count"}) \in Nat /\ Busy({"count"})' = Busy({"count"}) - 0 + 0
            /\ Busy(SC) \in Nat /\ Busy(SC)' = Busy(SC) - 0 + 0
        BY <4>1, <4>2
      <4> QED
        BY <4>3
    <3> QED
      BY <1>1, <3>1, <3>2 DEF QuietShape
  <2> QED
    BY <2>1, <2>2, <2>3
    DEF CountInv, CountersMatchAnswers, orders_rejected, orders_accepted
<1>2. ASSUME NEW c \in Session, NEW kind, NEW clid, NEW size, NEW place,
             LineShape(c, place, <<Answer(kind, clid, size)>>),
             UNCHANGED <<rejected, accepted, filled_count>>,
             kind = "CAL" => canceled' = canceled + 1,
             kind # "CAL" => canceled' = canceled,
             \/ kind \in {"REJ_CMD", "CAL"} /\ place = "lines"
             \/ kind = "REJ" /\ place = "count"
             \/ kind = "ACK" /\ place = "submit"
      PROVE  CountInv'
  <2> DEFINE t == <<Answer(kind, clid, size)>>
  <2>1. /\ t \in Seq(AnyAnswer) /\ Says(c, t) /\ hpc[c] = "lines"
        /\ hpc' = [hpc EXCEPT ![c] = place] /\ UNCHANGED <<refused, unmanaged>>
    BY <1>2 DEF LineShape
  <2>2. \A k : Count(t, k) = IF kind = k THEN 1 ELSE 0
    BY <2>1, AnswerTallied
  <2> HIDE DEF t
  <2>3. /\ Is(hpc[c], {"count"}) = 0 /\ Is(hpc[c], SC) = 0
        /\ Is(place, {"count"}) = (IF kind = "REJ" THEN 1 ELSE 0)
        /\ Is(place, SC) = (IF kind = "ACK" THEN 1 ELSE 0)
    BY <1>2, <2>1 DEF Is
  <2>4. orders_rejected' = orders_rejected + Count(t, "REJ") + Is(hpc[c], {"count"})
                             - Is(place, {"count"})
    BY <1>0, <1>2, <2>1, <2>2, <2>3 DEF orders_rejected
  <2>5. orders_accepted' + rejected' = orders_accepted + rejected + Count(t, "ACK")
                                         + Is(hpc[c], SC) - Is(place, SC)
    BY <1>0, <1>2, <2>1, <2>2, <2>3 DEF orders_accepted
  <2>6. filled_count' = filled_count + Count(t, "FILL") /\ canceled' = canceled + Count(t, "CAL")
    BY <1>0, <1>2, <2>2
  <2>7. refused' \in Nat /\ unmanaged' \in Nat
    BY <1>0, <2>1
  <2> QED
    BY <2>1, <2>4, <2>5, <2>6, <2>7, CountersKept
<1>3. ASSUME NEW c \in Session, SkipBlank(c) PROVE CountInv'
  <2>1. LineShape(c, "lines", <<>>) /\ UNCHANGED managed
    BY <1>3, LineShapes DEF SkipBlank
  <2>2. /\ <<>> \in Seq(AnyAnswer) /\ Says(c, <<>>) /\ hpc[c] = "lines"
        /\ hpc' = [hpc EXCEPT ![c] = "lines"]
        /\ UNCHANGED <<refused, unmanaged, rejected, accepted, filled_count, canceled>>
    BY <2>1 DEF LineShape, managed
  <2>3. \A k : Count(<<>>, k) = 0
    BY NothingTallied
  <2>4. Is("lines", {"count"}) = 0 /\ Is("lines", SC) = 0
    BY DEF Is
  <2>5. orders_rejected' = orders_rejected + Count(<<>>, "REJ") + Is(hpc[c], {"count"})
                             - Is("lines", {"count"})
    BY <1>0, <2>2, <2>3, <2>4 DEF orders_rejected
  <2>6. orders_accepted' + rejected' = orders_accepted + rejected + Count(<<>>, "ACK")
                                         + Is(hpc[c], SC) - Is("lines", SC)
    BY <1>0, <2>2, <2>3, <2>4 DEF orders_accepted
  <2>7. filled_count' = filled_count + Count(<<>>, "FILL")
        /\ canceled' = canceled + Count(<<>>, "CAL")
        /\ refused' \in Nat /\ unmanaged' \in Nat
    BY <1>0, <2>2, <2>3
  <2> QED
    BY <2>2, <2>5, <2>6, <2>7, CountersKept
<1>4. ASSUME NEW c \in Session, RefuseJunk(c) \/ RefuseCancel(c) \/ RefuseOrder(c)
                                  \/ Acknowledge(c) \/ CancelOrder(c)
      PROVE  CountInv'
  <2>1. CASE RefuseJunk(c)
    <3>1. LineShape(c, "lines", <<Answer("REJ_CMD", NoOrder, 0)>>)
      BY <2>1, LineShapes
    <3>2. UNCHANGED <<rejected, accepted, filled_count>> /\ canceled' = canceled
      BY <1>0, <2>1 DEF RefuseJunk, managed
    <3> QED
      BY <1>2, <3>1, <3>2
  <2>2. CASE RefuseCancel(c)
    <3>1. LineShape(c, "lines", <<Answer("REJ_CMD", nextLine(c).clid, 0)>>)
      BY <2>2, LineShapes
    <3>2. UNCHANGED <<rejected, accepted, filled_count>> /\ canceled' = canceled
      BY <1>0, <2>2 DEF RefuseCancel, managed
    <3> QED
      BY <1>2, <3>1, <3>2
  <2>3. CASE RefuseOrder(c)
    <3>1. LineShape(c, "count", <<Answer("REJ", nextLine(c).clid, 0)>>)
      BY <2>3, LineShapes
    <3>2. UNCHANGED <<rejected, accepted, filled_count>> /\ canceled' = canceled
      BY <1>0, <2>3 DEF RefuseOrder, managed
    <3> QED
      BY <1>2, <3>1, <3>2
  <2>4. CASE Acknowledge(c)
    <3>1. LineShape(c, "submit",
                    <<Answer("ACK", nextLine(c).clid, nextLine(c).size)>>)
      BY <2>4, LineShapes
    <3>2. UNCHANGED <<rejected, accepted, filled_count>> /\ canceled' = canceled
      BY <1>0, <2>4 DEF Acknowledge, managed
    <3> QED
      BY <1>2, <3>1, <3>2
  <2>5. CASE CancelOrder(c)
    <3>1. /\ LineShape(c, "lines", <<Answer("CAL", nextLine(c).clid,
                                            orders[nextLine(c).clid].remaining)>>)
          /\ Manager!Cancel(c, nextLine(c).clid)
      BY <2>5, LineShapes
    <3>2. UNCHANGED <<rejected, accepted, filled_count>> /\ canceled' = canceled + 1
      BY <3>1 DEF Manager!Cancel
    <3> QED
      BY <1>2, <3>1, <3>2
  <2> QED
    BY <1>4, <2>1, <2>2, <2>3, <2>4, <2>5
<1>5. ASSUME NEW c \in Session, NEW from, NEW to, HandShape(c, from, to, <<>>),
             UNCHANGED <<rejected, filled_count, canceled>>,
             refused' \in Nat, unmanaged' \in Nat,
             refused' = refused + Is(from, {"count"}) - Is(to, {"count"}),
             unmanaged' + accepted' = unmanaged + accepted + Is(from, SC) - Is(to, SC)
      PROVE  CountInv'
  <2>1. /\ <<>> \in Seq(AnyAnswer) /\ Says(c, <<>>) /\ hpc[c] = from
        /\ hpc' = [hpc EXCEPT ![c] = to]
    BY <1>5 DEF HandShape
  <2>2. \A k : Count(<<>>, k) = 0
    BY NothingTallied
  <2>3. \A place, P : Is(place, P) \in Int
    BY DEF Is
  <2>4. orders_rejected' = orders_rejected + Count(<<>>, "REJ") + Is(hpc[c], {"count"})
                             - Is(to, {"count"})
    BY <1>0, <1>5, <2>1, <2>2, <2>3 DEF orders_rejected
  <2>5. orders_accepted' + rejected' = orders_accepted + rejected + Count(<<>>, "ACK")
                                         + Is(hpc[c], SC) - Is(to, SC)
    <3> HIDE DEF SC
    <3>1. orders_accepted' = orders_accepted + Is(from, SC) - Is(to, SC)
      BY <1>5 DEF orders_accepted
    <3>2. orders_accepted \in Int /\ Is(from, SC) \in Int /\ Is(to, SC) \in Int
      BY <1>0, <2>3 DEF orders_accepted
    <3> QED
      BY <1>0, <1>5, <2>1, <2>2, <3>1, <3>2
  <2>6. filled_count' = filled_count + Count(<<>>, "FILL")
        /\ canceled' = canceled + Count(<<>>, "CAL")
    BY <1>0, <1>5, <2>2
  <2> QED
    BY <1>5, <2>1, <2>4, <2>5, <2>6, CountersKept
<1>6. ASSUME NEW c \in Session, CountRefusal(c) PROVE CountInv'
  <2>1. HandShape(c, "count", "lines", <<>>)
    BY <1>6, HandShapes
  <2>2. refused' = refused + 1 /\ UNCHANGED <<unmanaged, rejected, accepted, filled_count, canceled>>
    BY <1>6 DEF CountRefusal, managed
  <2>3. Is("count", {"count"}) = 1 /\ Is("lines", {"count"}) = 0 /\ Is("count", SC) = 0
        /\ Is("lines", SC) = 0
    BY DEF Is
  <2> QED
    BY <1>0, <1>5, <2>1, <2>2, <2>3
<1>7. ASSUME NEW c \in Session, Submit(c) PROVE CountInv'
  <2>1. HandShape(c, "submit", "call", <<>>)
    BY <1>7, HandShapes
  <2>2. UNCHANGED <<refused, unmanaged, rejected, accepted, filled_count, canceled>>
    BY <1>7 DEF Submit, Manager!Check, Manager!metrics
  <2>3. Is("submit", {"count"}) = 0 /\ Is("call", {"count"}) = 0 /\ Is("submit", SC) = 1
        /\ Is("call", SC) = 1
    BY DEF Is
  <2> QED
    BY <1>0, <1>5, <2>1, <2>2, <2>3
<1>8. ASSUME NEW c \in Session, Fallback(c) PROVE CountInv'
  <2>1. HandShape(c, "submit", "lines", <<>>)
    BY <1>8, HandShapes
  <2>2. unmanaged' = unmanaged + 1 /\ UNCHANGED <<refused, rejected, accepted, filled_count, canceled>>
    BY <1>8 DEF Fallback, managed
  <2>3. Is("submit", {"count"}) = 0 /\ Is("lines", {"count"}) = 0 /\ Is("submit", SC) = 1
        /\ Is("lines", SC) = 0
    BY DEF Is
  <2> QED
    BY <1>0, <1>5, <2>1, <2>2, <2>3
<1>9. ASSUME NEW c \in Session, SubmitRejected(c) PROVE CountInv'
  <2> DEFINE t == <<Answer("REJ", line[c].clid, 0)>>
  <2>1. HandShape(c, "submit", "lines", t)
    BY <1>9, HandShapes
  <2>2. /\ rejected' = rejected + 1
        /\ UNCHANGED <<refused, unmanaged, accepted, filled_count, canceled>>
    BY <1>9 DEF SubmitRejected, Manager!Reject
  <2>3. /\ t \in Seq(AnyAnswer) /\ Says(c, t) /\ hpc[c] = "submit"
        /\ hpc' = [hpc EXCEPT ![c] = "lines"]
    BY <2>1 DEF HandShape
  <2>4. \A k : Count(t, k) = IF "REJ" = k THEN 1 ELSE 0
    BY <2>3, AnswerTallied
  <2>5. Is("submit", {"count"}) = 0 /\ Is("lines", {"count"}) = 0 /\ Is("submit", SC) = 1
        /\ Is("lines", SC) = 0
    BY DEF Is
  <2> HIDE DEF t
  <2>6. orders_rejected' = orders_rejected + Count(t, "REJ") + Is(hpc[c], {"count"})
                             - Is("lines", {"count"})
    BY <1>0, <2>2, <2>3, <2>4, <2>5 DEF orders_rejected
  <2>7. orders_accepted' + rejected' = orders_accepted + rejected + Count(t, "ACK")
                                         + Is(hpc[c], SC) - Is("lines", SC)
    BY <1>0, <2>2, <2>3, <2>4, <2>5 DEF orders_accepted
  <2>8. filled_count' = filled_count + Count(t, "FILL") /\ canceled' = canceled + Count(t, "CAL")
        /\ refused' \in Nat /\ unmanaged' \in Nat
    BY <1>0, <2>2, <2>4
  <2> QED
    BY <2>3, <2>6, <2>7, <2>8, CountersKept
<1>10. ASSUME NEW c \in Session, ReportFills(c) PROVE CountInv'
  <2>1. PICK sizes \in [1 .. fills[c].count -> 1 .. fills[c].consumed] :
          HandShape(c, "call", "lines", FillLines(c, sizes))
    BY <1>10, HandShapes
  <2> DEFINE t == FillLines(c, sizes)
  <2>2. fills[c].count \in Nat /\ fills[c].consumed \in Nat
    BY <1>10, HandShapes
  <2>3. /\ accepted' = accepted + 1 /\ filled_count' = filled_count + fills[c].count
        /\ UNCHANGED <<refused, unmanaged, rejected, canceled>>
    BY <1>10 DEF ReportFills, Manager!Return, Manager!Report
  <2>4. /\ t \in Seq(AnyAnswer) /\ Says(c, t) /\ hpc[c] = "call"
        /\ hpc' = [hpc EXCEPT ![c] = "lines"]
    BY <2>1 DEF HandShape
  <2>5. \A k : Count(t, k) = IF k = "FILL" THEN fills[c].count ELSE 0
    <3> DEFINE n == fills[c].count
    <3>1. n \in Nat /\ sizes \in [1 .. n -> Nat]
      BY <2>1, <2>2
    <3> HIDE DEF n
    <3>2. \A k : Count(FillLines(c, sizes), k) = IF k = "FILL" THEN n ELSE 0
      BY <3>1, FillsTallied
    <3> QED
      BY <3>2 DEF n
  <2>6. Is("call", {"count"}) = 0 /\ Is("lines", {"count"}) = 0 /\ Is("call", SC) = 1
        /\ Is("lines", SC) = 0
    BY DEF Is
  <2> HIDE DEF t
  <2>7. orders_rejected' = orders_rejected + Count(t, "REJ") + Is(hpc[c], {"count"})
                             - Is("lines", {"count"})
    BY <1>0, <2>3, <2>4, <2>5, <2>6 DEF orders_rejected
  <2>8. orders_accepted' + rejected' = orders_accepted + rejected + Count(t, "ACK")
                                         + Is(hpc[c], SC) - Is("lines", SC)
    BY <1>0, <2>3, <2>4, <2>5, <2>6 DEF orders_accepted
  <2>9. filled_count' = filled_count + Count(t, "FILL") /\ canceled' = canceled + Count(t, "CAL")
        /\ refused' \in Nat /\ unmanaged' \in Nat
    BY <1>0, <2>3, <2>5
  <2> QED
    BY <2>4, <2>7, <2>8, <2>9, CountersKept
<1>11. ASSUME NEW c \in Session, Work(c) PROVE CountInv'
  <2>1. UNCHANGED <<answers, hpc, refused, unmanaged>>
    BY <1>11 DEF Work, handlers
  <2>2. UNCHANGED <<rejected, accepted, filled_count, canceled>>
    BY <1>11 DEF Work, Manager!Store, Manager!Match, Manager!RecordFills, Manager!MarkOpen,
                 Manager!metrics
  <2>3. \A d \in Session : told(d)' = told(d)
    BY <2>1 DEF answers, told
  <2>4. \A k : ToldOf(k)' = ToldOf(k)
    BY <2>3, TalliesStay
  <2> QED
    BY <2>1, <2>2, <2>4
    DEF CountInv, CountersMatchAnswers, orders_rejected, orders_accepted, Busy
<1> QED
  BY <1>1, <1>3, <1>4, <1>6, <1>7, <1>8, <1>9, <1>10, <1>11, Quiet DEF Next, Handler

LEMMA CountInvHolds == Spec => []CountInv
<1>1. GInv /\ Manager!TypeOK /\ RestInv /\ CountInv /\ [Next]_vars => CountInv'
  BY CountStep DEF RestInv
<1> QED
  BY <1>1, InitCountInv, GInvHolds, ManagerTypes, RestInvHolds, PTL DEF Spec

\* Whatever the connections do at once, the counters of the metrics page and
\* the answers the clients are given never part, but for the orders in hand.
THEOREM CountersAlwaysMatch == Spec => []CountersMatchAnswers
<1>1. CountInv => CountersMatchAnswers
  BY DEF CountInv
<1> QED
  BY <1>1, CountInvHolds, PTL

-----------------------------------------------------------------------------
(* What a connection reads after an ACK *)

\* The fill at place i of s belongs to the ACK before it.
Follows(s, i) ==
    \E k \in 1 .. i - 1 :
      /\ s[k].kind = "ACK" /\ s[k].clid = s[i].clid
      /\ \A j \in k + 1 .. i : s[j].kind = "FILL"
      /\ SumFunctionOnSet([j \in DOMAIN s |-> s[j].size], k + 1 .. i) <= s[k].size

FollowsAck(s) == \A i \in DOMAIN s : s[i].kind = "FILL" => Follows(s, i)

LEMMA FollowsKept ==
    ASSUME NEW s \in Seq(AnyAnswer), NEW t \in Seq(AnyAnswer),
           NEW i \in DOMAIN s, Follows(s, i)
    PROVE  Follows(s \o t, i)
<1> DEFINE st == s \o t
           n  == Len(s)
           Size(q) == [j \in DOMAIN q |-> q[j].size]
<1>1. /\ n \in Nat /\ DOMAIN s = 1 .. n
      /\ \A j \in DOMAIN s : j \in DOMAIN st /\ st[j] = s[j]
  BY SequenceShape, PlacesConcat
<1>2. PICK k \in 1 .. i - 1 :
        /\ s[k].kind = "ACK" /\ s[k].clid = s[i].clid
        /\ \A j \in k + 1 .. i : s[j].kind = "FILL"
        /\ SumFunctionOnSet(Size(s), k + 1 .. i) <= s[k].size
  BY DEF Follows
<1> HIDE DEF st, n
<1>3. k \in DOMAIN s /\ (\A j \in k + 1 .. i : j \in DOMAIN s) /\ IsFiniteSet(k + 1 .. i)
  <2>1. i \in 1 .. n /\ k \in Int /\ k + 1 \in Int /\ i \in Int
    BY <1>1
  <2>2. IsFiniteSet(k + 1 .. i)
    BY <2>1, FS_Interval
  <2> QED
    BY <1>1, <2>1, <2>2
<1>4. \A j \in k + 1 .. i : Size(st)[j] = Size(s)[j]
  BY <1>1, <1>3
<1> HIDE DEF Size
<1>5. SumFunctionOnSet(Size(st), k + 1 .. i) = SumFunctionOnSet(Size(s), k + 1 .. i)
  BY <1>3, <1>4, SumSame
<1>6. /\ st[k].kind = "ACK" /\ st[k].clid = st[i].clid
      /\ \A j \in k + 1 .. i : st[j].kind = "FILL"
      /\ SumFunctionOnSet(Size(st), k + 1 .. i) <= st[k].size
  BY <1>1, <1>2, <1>3, <1>5
<1>7. Follows(st, i)
  BY <1>6 DEF Follows, Size
<1> QED
  BY <1>7 DEF st

\* The fills of one order, told right after its ACK.
LEMMA FillsFollow ==
    ASSUME NEW c \in Session, NEW s \in Seq(AnyAnswer), NEW size \in Nat,
           s # <<>>, s[Len(s)] = Answer("ACK", line[c].clid, size),
           NEW m \in Nat, NEW sizes \in [1 .. m -> Nat],
           FillLines(c, sizes) \in Seq(AnyAnswer),
           SumFunction(sizes) <= size,
           NEW i \in 1 .. m
    PROVE  Follows(s \o FillLines(c, sizes), Len(s) + i)
<1> DEFINE t  == FillLines(c, sizes)
           st == s \o t
<1>1. /\ DOMAIN t = 1 .. m
      /\ \A j \in 1 .. m : t[j].kind = "FILL" /\ t[j].clid = line[c].clid /\ t[j].size = sizes[j]
  BY DEF FillLines, Answer
<1>2. PICK n \in Nat : n = Len(s)
  BY SequenceShape
<1>3. n > 0 /\ n \in DOMAIN s
  BY <1>2, SequenceShape
<1>4. s[n].kind = "ACK" /\ s[n].clid = line[c].clid /\ s[n].size = size
  BY <1>2 DEF Answer
<1>5. t \in Seq(AnyAnswer)
  OBVIOUS
<1> HIDE DEF t
<1>6. /\ \A j \in DOMAIN s : j \in DOMAIN st /\ st[j] = s[j]
      /\ \A j \in DOMAIN t : n + j \in DOMAIN st /\ st[n + j] = t[j]
  BY <1>2, <1>5, PlacesConcat
<1> HIDE DEF st
<1>7. PICK f : f = [j \in DOMAIN st |-> st[j].size]
  OBVIOUS
<1>8. \A j \in 1 .. m : f[n + j] = sizes[j] /\ st[n + j].kind = "FILL"
                        /\ st[n + j].clid = line[c].clid
  BY <1>1, <1>6, <1>7
<1>9. SumFunctionOnSet(f, n + 1 .. n + i) = SumFunctionOnSet(sizes, 1 .. i)
  <2>1. PICK g : g = sizes
    OBVIOUS
  <2>2. PICK I \in SUBSET Nat : I = 1 .. i
    OBVIOUS
  <2>3. IsFiniteSet(I)
    BY <2>2, FS_Interval
  <2>4. \A j \in I : f[n + j] = g[j] /\ g[j] \in Int
    BY <1>8, <2>1, <2>2
  <2>5. SumFunctionOnSet(f, Shifted(n, I)) = SumFunctionOnSet(g, I)
    BY ONLY <2>3, <2>4, SumShift
  <2>6. n + 1 .. n + i = Shifted(n, I)
    BY <2>2, IntervalShifted
  <2> QED
    BY <2>1, <2>2, <2>5, <2>6
<1>10. SumFunctionOnSet(sizes, 1 .. i) <= SumFunction(sizes)
  <2>1. IsFiniteSet(1 .. m) /\ 1 .. i \in SUBSET (1 .. m)
    BY FS_Interval
  <2>2. SumFunction(sizes) = SumFunctionOnSet(sizes, 1 .. m)
    BY DEF SumFunction
  <2>3. \A x \in 1 .. m : sizes[x] \in Nat
    OBVIOUS
  <2> QED
    BY <2>1, <2>2, <2>3, SumOfPart
<1>11. SumFunctionOnSet(f, n + 1 .. n + i) <= size
  <2>1. SumFunction(sizes) \in Nat /\ SumFunctionOnSet(sizes, 1 .. i) \in Nat
    <3>1. SumFunctionOnSet(sizes, 1 .. m) \in Nat
      <4>1. IsFiniteSet(1 .. m)
        BY FS_Interval
      <4>2. \A x \in 1 .. m : sizes[x] \in Nat
        OBVIOUS
      <4> QED
        BY <4>1, <4>2, SumNat
    <3>2. SumFunctionOnSet(sizes, 1 .. i) \in Nat
      <4>1. IsFiniteSet(1 .. i)
        BY FS_Interval
      <4>2. \A x \in 1 .. i : sizes[x] \in Nat
        OBVIOUS
      <4> QED
        BY <4>1, <4>2, SumNat
    <3> QED
      BY <3>1, <3>2 DEF SumFunction
  <2> QED
    BY <1>9, <1>10, <2>1
<1>12. \A j \in n + 1 .. n + i : st[j].kind = "FILL"
  <2>1. ASSUME NEW j \in n + 1 .. n + i PROVE st[j].kind = "FILL"
    <3>1. j - n \in 1 .. m /\ j = n + (j - n)
      BY <1>3
    <3> QED
      BY <1>8, <3>1
  <2> QED
    BY <2>1
<1>13. n \in 1 .. (n + i) - 1
  BY <1>3
<1>14. st[n].kind = "ACK" /\ st[n].clid = st[n + i].clid /\ st[n].size = size
  BY <1>4, <1>3, <1>6, <1>8
<1>15. Follows(st, n + i)
  BY <1>7, <1>11, <1>12, <1>13, <1>14 DEF Follows
<1> QED
  BY <1>2, <1>15 DEF st, t

LEMMA FollowsConcat ==
    ASSUME NEW s \in Seq(AnyAnswer), NEW t \in Seq(AnyAnswer), FollowsAck(s),
           \A i \in DOMAIN t : t[i].kind = "FILL" => Follows(s \o t, Len(s) + i)
    PROVE  FollowsAck(s \o t)
<1> DEFINE st == s \o t
           n  == Len(s)
           m  == Len(t)
<1>1. /\ n \in Nat /\ m \in Nat /\ DOMAIN s = 1 .. n /\ DOMAIN t = 1 .. m
      /\ st \in Seq(AnyAnswer) /\ Len(st) = n + m
      /\ \A i \in DOMAIN s : st[i] = s[i]
      /\ \A i \in DOMAIN t : st[n + i] = t[i]
  BY SequenceShape, PlacesConcat
<1>2. DOMAIN st = 1 .. n + m
  BY <1>1, SequenceShape
<1>3. \A i \in DOMAIN t : t[i].kind = "FILL" => Follows(st, n + i)
  OBVIOUS
<1>4. \A i \in DOMAIN s : s[i].kind = "FILL" => Follows(st, i)
  BY FollowsKept DEF FollowsAck
<1> HIDE DEF st, n, m
<1>5. ASSUME NEW i \in DOMAIN st, st[i].kind = "FILL" PROVE Follows(st, i)
  <2>1. CASE i \in 1 .. n
    BY <1>1, <1>4, <1>5, <2>1
  <2>2. CASE i \notin 1 .. n
    <3>1. i - n \in 1 .. m /\ i = n + (i - n)
      BY <1>1, <1>2, <2>2
    <3> QED
      BY <1>1, <1>3, <1>5, <3>1
  <2> QED
    BY <2>1, <2>2
<1>6. FollowsAck(st)
  BY <1>5 DEF FollowsAck
<1> QED
  BY <1>6 DEF st

\* The last thing a handler has said is the ACK of its order.
Acked(c) ==
    told(c) # <<>> /\ told(c)[Len(told(c))] = Answer("ACK", line[c].clid, line[c].size)

\* What a handler with an order in its hand has said, and what the manager
\* holds for it: the order of its line, and no more executed than its size.
HandOK(c) ==
    /\ hpc[c] \in {"submit", "call"} => Acked(c)
    /\ hpc[c] = "call" => ord[c] = toSubmit(c) /\ fills[c].consumed <= line[c].size
    /\ hpc[c] # "call" => fills[c].consumed = 0
    /\ fills[c].count = 0 => fills[c].consumed = 0

HandInv == \A c \in Session : HandOK(c)

LEMMA HandKept ==
    ASSUME NEW d \in Session, HandOK(d), told(d)' = told(d),
           hpc'[d] = hpc[d], line'[d] = line[d], ord'[d] = ord[d], fills'[d] = fills[d]
    PROVE  HandOK(d)'
BY DEF HandOK, Acked, toSubmit

\* Only the handler of the step has to be looked at.
LEMMA HandOthers ==
    ASSUME GInv, HandInv, NEW c \in Session, HandOK(c)',
           \A d \in Session : d # c =>
              /\ told(d)' = told(d) /\ hpc'[d] = hpc[d] /\ line'[d] = line[d]
              /\ ord'[d] = ord[d] /\ fills'[d] = fills[d]
    PROVE  HandInv'
<1>1. ASSUME NEW d \in Session, d # c PROVE HandOK(d)'
  BY <1>1, HandKept DEF HandInv
<1> QED
  BY <1>1 DEF HandInv

LEMMA InitHandInv == Init => HandInv
BY DEF Init, Manager!Init, Manager!NoFills, HandInv, HandOK

LEMMA HandStepQuiet ==
    ASSUME GInv, HandInv, QuietShape PROVE HandInv'
<1>1. UNCHANGED <<line, ord, fills>> /\ \A d \in Session : told(d)' = told(d)
  BY DEF QuietShape, counts, managed
<1>2. CASE UNCHANGED hpc
  BY <1>1, <1>2, HandKept DEF HandInv
<1>3. ASSUME NEW c \in Session, NEW p \in Places \ InHand,
             hpc[c] \notin InHand, hpc' = [hpc EXCEPT ![c] = p]
      PROVE  HandInv'
  <2>1. hpc'[c] = p /\ \A d \in Session : d # c => hpc'[d] = hpc[d]
    BY <1>3 DEF GInv, StreamInv
  <2>2. HandOK(c)'
    BY <1>1, <1>3, <2>1 DEF HandInv, HandOK, InHand
  <2> QED
    BY <1>1, <2>1, <2>2, HandOthers
<1> QED
  BY <1>2, <1>3 DEF QuietShape

LEMMA HandStepLine ==
    ASSUME GInv, AnswerInv, HandInv, NEW c \in Session, NEW place, NEW texts,
           LineShape(c, place, texts), UNCHANGED <<ord, fills>>,
           \/ place \in {"lines", "count"}
           \/ /\ place = "submit"
              /\ texts = <<Answer("ACK", nextLine(c).clid, nextLine(c).size)>>
    PROVE  HandInv'
<1>1. /\ hpc[c] = "lines" /\ hpc'[c] = place /\ line'[c] = nextLine(c)
      /\ \A d \in Session : d # c => hpc'[d] = hpc[d] /\ line'[d] = line[d]
  BY DEF LineShape, GInv, StreamInv
<1>2. /\ texts \in Seq(AnyAnswer) /\ told(c)' = told(c) \o texts
      /\ \A d \in Session : d # c => told(d)' = told(d)
  BY SaysAdds DEF LineShape
<1>3. ASSUME place = "submit" PROVE Acked(c)'
  <2> DEFINE a == Answer("ACK", nextLine(c).clid, nextLine(c).size)
  <2>1. texts = <<a>> /\ told(c) \in Seq(AnyAnswer)
    BY <1>3, ToldIsTyped
  <2>2. a = Answer("ACK", line'[c].clid, line'[c].size)
    BY <1>1
  <2> HIDE DEF a
  <2> DEFINE s == told(c)
             u == s \o <<a>>
  <2>3. u # <<>> /\ u[Len(u)] = a
    <3> HIDE DEF s
    <3>1. s \in Seq(AnyAnswer)
      BY <2>1 DEF s
    <3>2. Len(u) = Len(s) + 1 /\ Len(s) \in Nat
      BY <3>1
    <3> QED
      BY <3>1, <3>2
  <2>4. told(c)' = u
    BY <1>2, <2>1
  <2> HIDE DEF u
  <2> QED
    BY <2>2, <2>3, <2>4 DEF Acked, Answer
<1>4. HandOK(c)'
  BY <1>1, <1>3 DEF HandInv, HandOK
<1> QED
  BY <1>1, <1>2, <1>4, HandOthers

LEMMA HandStepHand ==
    ASSUME GInv, Manager!TypeOK, AnswerInv, CallInv, HandInv, NEW c \in Session,
           CountRefusal(c) \/ SubmitRejected(c) \/ Submit(c) \/ Fallback(c) \/ ReportFills(c)
    PROVE  HandInv'
<1>1. PICK from \in {"count", "submit", "call"}, to \in {"lines", "call"},
           texts \in Seq(AnyAnswer) :
        /\ HandShape(c, from, to, texts)
        /\ to = "call" => Submit(c) /\ from = "submit" /\ texts = <<>>
  <2>1. <<>> \in Seq(AnyAnswer)
    OBVIOUS
  <2>2. CASE CountRefusal(c)
    BY <2>1, <2>2, HandShapes
  <2>3. CASE Submit(c)
    BY <2>1, <2>3, HandShapes
  <2>4. CASE Fallback(c)
    BY <2>1, <2>4, HandShapes
  <2>5. CASE SubmitRejected(c)
    <3>1. HandShape(c, "submit", "lines", <<Answer("REJ", line[c].clid, 0)>>)
      BY <2>5, HandShapes
    <3> QED
      BY <3>1 DEF HandShape
  <2>6. CASE ReportFills(c)
    <3>1. PICK sizes : HandShape(c, "call", "lines", FillLines(c, sizes))
      BY <2>6, HandShapes
    <3> QED
      BY <3>1 DEF HandShape
  <2> QED
    BY <2>2, <2>3, <2>4, <2>5, <2>6
<1>2. /\ hpc[c] = from /\ hpc'[c] = to /\ line' = line
      /\ \A d \in Session : d # c => hpc'[d] = hpc[d]
  BY <1>1 DEF HandShape, GInv, StreamInv
<1>3. /\ told(c)' = told(c) \o texts
      /\ \A d \in Session : d # c => told(d)' = told(d)
  BY <1>1, SaysAdds DEF HandShape
<1>4. \A d \in Session : d # c => ord'[d] = ord[d] /\ fills'[d] = fills[d]
  BY DEF CountRefusal, SubmitRejected, Submit, Fallback, ReportFills, managed,
         Manager!Reject, Manager!Check, Manager!Return, Manager!Leave, Manager!thread,
         Manager!TypeOK
<1>5. CASE to = "call"
  <2>1. fills' = fills /\ ord'[c] = toSubmit(c)
    BY <1>1, <1>5 DEF Submit, Manager!Check, Manager!TypeOK
  <2>2. HandOK(c) /\ hpc[c] = "submit"
    BY <1>1, <1>2, <1>5 DEF HandInv
  <2>3. told(c)' = told(c)
    <3>1. told(c) \in Seq(AnyAnswer)
      BY ToldIsTyped
    <3>2. told(c)' = told(c) \o <<>>
      BY <1>1, <1>3, <1>5
    <3> QED
      BY <3>1, <3>2
  <2>4. line[c].size \in Nat
    BY <2>2, LinesAreTyped, SizesAssumption DEF GInv, StreamInv, AnyLine
  <2>5. HandOK(c)'
    BY <1>2, <1>5, <2>1, <2>2, <2>3, <2>4 DEF HandOK, Acked, toSubmit
  <2> QED
    BY <1>2, <1>3, <1>4, <2>5, HandOthers
<1>6. CASE to = "lines"
  <2>1. fills'[c].consumed = 0
    <3>1. CASE hpc[c] = "call"
      <4>1. ReportFills(c)
        BY <3>1 DEF CountRefusal, SubmitRejected, Submit, Fallback, Proceed, At
      <4> QED
        BY <4>1 DEF ReportFills, Manager!Return, Manager!Leave, Manager!NoFills,
                    Manager!TypeOK
    <3>2. CASE hpc[c] # "call"
      <4>1. fills' = fills
        BY <3>2 DEF CountRefusal, SubmitRejected, Submit, Fallback, ReportFills, Proceed, At,
                    managed, Manager!Reject, Manager!Check, Manager!thread
      <4> QED
        BY <3>2, <4>1 DEF HandInv, HandOK
    <3> QED
      BY <3>1, <3>2
  <2>2. HandOK(c)'
    BY <1>2, <1>6, <2>1 DEF HandOK
  <2> QED
    BY <1>2, <1>3, <1>4, <2>2, HandOthers
<1> QED
  BY <1>5, <1>6

LEMMA HandStepWork ==
    ASSUME GInv, Manager!TypeOK, CallInv, HandInv, NEW c \in Session, Work(c)
    PROVE  HandInv'
<1>1. /\ UNCHANGED <<hpc, line, answers, ord>> /\ hpc[c] = "call"
      /\ \A d \in Session : told(d)' = told(d)
  <2>1. UNCHANGED <<hpc, line, answers, ord>> /\ hpc[c] = "call"
    BY DEF Work, handlers, stream, At, Manager!Store, Manager!Match, Manager!RecordFills,
           Manager!MarkOpen
  <2> QED
    BY <2>1 DEF answers, told
<1>2. CASE UNCHANGED fills
  BY <1>1, <1>2, HandKept DEF HandInv
<1>3. CASE Manager!Match(c)
  <2>1. PICK f \in Manager!Fills :
          /\ f.consumed <= ord[c].size /\ (f.consumed > 0 => f.count > 0)
          /\ fills' = [fills EXCEPT ![c] = f]
    BY <1>3 DEF Manager!Match
  <2>2. fills'[c] = f /\ \A d \in Session : d # c => fills'[d] = fills[d]
    BY <2>1 DEF Manager!TypeOK
  <2>3. HandOK(c) /\ ord[c] = toSubmit(c)
    BY <1>1 DEF HandInv, HandOK
  <2>4. f.consumed <= line[c].size
    BY <2>1, <2>3 DEF toSubmit
  <2>5. f.count = 0 => f.consumed = 0
    BY <2>1, SizesAssumption DEF Manager!Fills
  <2>6. HandOK(c)'
    BY <1>1, <2>2, <2>3, <2>4, <2>5 DEF HandOK, Acked, toSubmit
  <2> QED
    BY <1>1, <2>2, <2>6, HandOthers
<1> QED
  BY <1>2, <1>3 DEF Work, Manager!Store, Manager!RecordFills, Manager!MarkOpen

LEMMA HandStep ==
    ASSUME GInv, Manager!TypeOK, AnswerInv, CallInv, HandInv, [Next]_vars
    PROVE  HandInv'
<1>1. CASE QuietShape
  BY <1>1, HandStepQuiet
<1>2. ASSUME NEW c \in Session,
             SkipBlank(c) \/ RefuseJunk(c) \/ RefuseCancel(c) \/ RefuseOrder(c)
               \/ CancelOrder(c)
      PROVE  HandInv'
  <2>1. \E place \in {"lines", "count"} : \E texts : LineShape(c, place, texts)
    BY <1>2, LineShapes
  <2>2. UNCHANGED <<ord, fills>>
    BY <1>2 DEF SkipBlank, RefuseJunk, RefuseCancel, RefuseOrder, CancelOrder, managed,
                Manager!Cancel, Manager!thread
  <2>3. PICK place \in {"lines", "count"} : \E texts : LineShape(c, place, texts)
    BY <2>1
  <2>4. PICK texts : LineShape(c, place, texts)
    BY <2>3
  <2> QED
    BY <2>2, <2>4, HandStepLine
<1>3. ASSUME NEW c \in Session, Acknowledge(c) PROVE HandInv'
  <2>1. LineShape(c, "submit", <<Answer("ACK", nextLine(c).clid, nextLine(c).size)>>)
    BY <1>3, LineShapes
  <2>2. UNCHANGED <<ord, fills>>
    BY <1>3 DEF Acknowledge, managed
  <2> QED
    BY <2>1, <2>2, HandStepLine
<1> QED
  BY <1>1, <1>2, <1>3, HandStepHand, HandStepWork, Quiet DEF Next, Handler

LEMMA HandInvHolds == Spec => []HandInv
<1>1. GInv /\ Manager!TypeOK /\ RestInv /\ HandInv /\ [Next]_vars => HandInv'
  BY HandStep DEF RestInv
<1> QED
  BY <1>1, InitHandInv, GInvHolds, ManagerTypes, RestInvHolds, PTL DEF Spec

FollowInv == \A c \in Session : FollowsAck(told(c))

\* A step that says texts, in which each fill follows its ACK.
LEMMA FollowSays ==
    ASSUME AnswerInv, FollowInv, NEW c \in Session, NEW texts \in Seq(AnyAnswer),
           Says(c, texts),
           \A i \in DOMAIN texts : texts[i].kind = "FILL" =>
              Follows(told(c) \o texts, Len(told(c)) + i)
    PROVE  FollowInv'
<1>1. /\ told(c)' = told(c) \o texts
      /\ \A d \in Session : d # c => told(d)' = told(d)
  BY SaysAdds
<1>2. told(c) \in Seq(AnyAnswer) /\ FollowsAck(told(c))
  BY ToldIsTyped DEF FollowInv
<1>3. FollowsAck(told(c) \o texts)
  BY <1>2, FollowsConcat
<1>4. ASSUME NEW d \in Session PROVE FollowsAck(told(d)')
  BY <1>1, <1>3 DEF FollowInv
<1>5. \A d \in Session : FollowsAck(told(d))' = FollowsAck(told(d)')
  BY DEF FollowsAck, Follows
<1> QED
  BY <1>4, <1>5 DEF FollowInv

LEMMA FollowStep ==
    ASSUME GInv, Manager!TypeOK, AnswerInv, CallInv, HandInv, FollowInv, [Next]_vars
    PROVE  FollowInv'
<1>1. ASSUME \A d \in Session : told(d)' = told(d) PROVE FollowInv'
  BY <1>1 DEF FollowInv, FollowsAck, Follows
<1>2. ASSUME NEW c \in Session, NEW texts \in Seq(AnyAnswer), Says(c, texts),
             \A i \in DOMAIN texts : texts[i].kind # "FILL"
      PROVE  FollowInv'
  BY <1>2, FollowSays
<1>3. ASSUME NEW c \in Session, NEW kind, kind # "FILL", NEW clid, NEW size, NEW from, NEW place,
             \/ LineShape(c, place, <<Answer(kind, clid, size)>>)
             \/ HandShape(c, from, place, <<Answer(kind, clid, size)>>)
      PROVE  FollowInv'
  <2> DEFINE texts == <<Answer(kind, clid, size)>>
  <2>1. texts \in Seq(AnyAnswer) /\ Says(c, texts)
    BY <1>3 DEF LineShape, HandShape
  <2>2. \A i \in DOMAIN texts : texts[i].kind # "FILL"
    BY <1>3 DEF Answer
  <2> HIDE DEF texts
  <2> QED
    BY <1>2, <2>1, <2>2
<1>4. ASSUME NEW c \in Session, NEW from, NEW place,
             LineShape(c, place, <<>>) \/ HandShape(c, from, place, <<>>)
      PROVE  FollowInv'
  <2> DEFINE texts == <<>>
  <2>1. texts \in Seq(AnyAnswer) /\ Says(c, texts)
    BY <1>4 DEF LineShape, HandShape
  <2>2. \A i \in DOMAIN texts : texts[i].kind # "FILL"
    OBVIOUS
  <2> HIDE DEF texts
  <2> QED
    BY <1>2, <2>1, <2>2
<1>5. ASSUME NEW c \in Session,
             SkipBlank(c) \/ CountRefusal(c) \/ Submit(c) \/ Fallback(c)
      PROVE  FollowInv'
  BY <1>4, <1>5, LineShapes, HandShapes
<1>6. ASSUME NEW c \in Session,
             RefuseJunk(c) \/ RefuseCancel(c) \/ RefuseOrder(c) \/ Acknowledge(c)
               \/ CancelOrder(c)
      PROVE  FollowInv'
  <2>1. \E kind \in {"REJ_CMD", "REJ", "ACK", "CAL"} : \E clid, size, place :
          LineShape(c, place, <<Answer(kind, clid, size)>>)
    BY <1>6, LineShapes
  <2> QED
    BY <1>3, <2>1
<1>7. ASSUME NEW c \in Session, SubmitRejected(c) PROVE FollowInv'
  <2>1. HandShape(c, "submit", "lines", <<Answer("REJ", line[c].clid, 0)>>)
    BY <1>7, HandShapes
  <2> QED
    BY <1>3, <2>1
<1>8. ASSUME NEW c \in Session, ReportFills(c) PROVE FollowInv'
  <2> DEFINE n == fills[c].count
  <2>1. n \in Nat /\ fills[c].consumed \in Nat
    BY <1>8, HandShapes
  <2>2. PICK sizes \in [1 .. n -> 1 .. fills[c].consumed] :
          /\ SumFunction(sizes) = fills[c].consumed
          /\ HandShape(c, "call", "lines", FillLines(c, sizes))
    BY <1>8, HandShapes
  <2> DEFINE texts == FillLines(c, sizes)
             size  == line[c].size
  <2>3. texts \in Seq(AnyAnswer) /\ Says(c, texts) /\ hpc[c] = "call"
    BY <2>2 DEF HandShape
  <2>4. sizes \in [1 .. n -> Nat]
    BY <2>1, <2>2
  <2>5. Acked(c) /\ fills[c].consumed <= size
    BY <2>3 DEF HandInv, HandOK
  <2>6. size \in Nat
    <3>1. line[c] \in AnyLine \cup {NoLine}
      BY LinesAreTyped DEF GInv, StreamInv
    <3> QED
      BY <3>1, SizesAssumption DEF AnyLine, NoLine
  <2>7. DOMAIN texts = 1 .. n
    BY <2>4 DEF FillLines
  <2>8. told(c) \in Seq(AnyAnswer)
    BY ToldIsTyped
  <2>9. ASSUME NEW i \in 1 .. n PROVE Follows(told(c) \o texts, Len(told(c)) + i)
    <3> DEFINE s == told(c)
    <3>1. /\ s \in Seq(AnyAnswer) /\ s # <<>>
          /\ s[Len(s)] = Answer("ACK", line[c].clid, size)
      BY <2>5, <2>8 DEF Acked
    <3> HIDE DEF s, n, size
    <3>2. SumFunction(sizes) <= size
      BY <2>2, <2>5
    <3>3. Follows(s \o FillLines(c, sizes), Len(s) + i)
      BY <2>1, <2>3, <2>4, <2>6, <2>9, <3>1, <3>2, FillsFollow
    <3> QED
      BY <3>3 DEF s
  <2> HIDE DEF texts, n
  <2> QED
    BY <2>3, <2>7, <2>9, FollowSays
<1>9. ASSUME NEW c \in Session, Work(c) PROVE FollowInv'
  <2>1. UNCHANGED answers
    BY <1>9 DEF Work, handlers
  <2>2. \A d \in Session : told(d)' = told(d)
    BY <2>1 DEF answers, told
  <2> QED
    BY <1>1, <2>2
<1>10. CASE QuietShape
  BY <1>1, <1>10 DEF QuietShape
<1> QED
  BY <1>5, <1>6, <1>7, <1>8, <1>9, <1>10, Quiet DEF Next, Handler

LEMMA InitFollowInv == Init => FollowInv
BY DEF Init, told, FollowInv, FollowsAck

\* After the ACK of an order a client reads the fills of that order and of no
\* other, and they never add up to more than it asked for.
THEOREM FillsAlwaysFollowAck == Spec => []FillsFollowAck
<1>1. GInv /\ Manager!TypeOK /\ RestInv /\ HandInv /\ FollowInv /\ [Next]_vars => FollowInv'
  BY FollowStep DEF RestInv
<1>2. FollowInv => FillsFollowAck
  BY DEF FollowInv, FollowsAck, Follows, FillsFollowAck
<1> QED
  BY <1>1, <1>2, InitFollowInv, GInvHolds, ManagerTypes, RestInvHolds, HandInvHolds, PTL
  DEF Spec

-----------------------------------------------------------------------------
(* The shares of an order and what its clients are told of them *)

\* the answers that tell of shares
TellKinds == {"FILL", "CAL"}

\* the shares of k recorded by handler c and not yet told
Share(c, k) == IF pc[c] = "recorded" /\ line[c].clid = k THEN fills[c].consumed ELSE 0

Pending(k) ==
    SumFunctionOnSet([c \in Session |-> fills[c].consumed],
                     {c \in Session : pc[c] = "recorded" /\ line[c].clid = k})

\* The shares executed and withdrawn are those told, and those about to be.
TellInv ==
    \A k \in Clid :
        executed[k] + withdrawn[k] = SharesTold({"FILL", "CAL"}, k) + Pending(k)

\* A step of handler c moves what is pending by its own share.
LEMMA PendingMoves ==
    ASSUME Manager!TypeOK, Manager!TypeOK', NEW c \in Session, NEW k,
           \A d \in Session : d # c => /\ pc'[d] = pc[d] /\ line'[d] = line[d]
                                       /\ fills'[d] = fills[d]
    PROVE  /\ Pending(k) \in Int /\ Share(c, k) \in Int /\ Share(c, k)' \in Int
           /\ Pending(k)' = Pending(k) - Share(c, k) + Share(c, k)'
<1> DEFINE F == [d \in Session |-> Share(d, k)]
           G == [d \in Session |-> Share(d, k)']
<1>0. IsFiniteSet(Session)
  BY FiniteAssumption
<1>1. /\ \A d \in Session : Share(d, k) \in Nat
      /\ Pending(k) = SumFunctionOnSet(F, Session)
  <2> DEFINE f == [d \in Session |-> fills[d].consumed]
             T == {d \in Session : pc[d] = "recorded" /\ line[d].clid = k}
  <2>1. \A d \in Session : f[d] \in Nat /\ Share(d, k) \in Nat
    BY SizesAssumption DEF Manager!TypeOK, Manager!Fills, Share
  <2>2. T \in SUBSET Session /\ (\A d \in T : f[d] \in Int /\ F[d] = f[d])
        /\ \A d \in Session \ T : F[d] = 0
    BY <2>1 DEF Share
  <2> HIDE DEF F, f, T
  <2>3. SumFunctionOnSet(f, T) = SumFunctionOnSet(F, Session)
    BY <1>0, <2>2, SumWhere
  <2> QED
    BY <2>1, <2>3 DEF Pending, f, T
<1>2. /\ \A d \in Session : Share(d, k)' \in Nat
      /\ Pending(k)' = SumFunctionOnSet(G, Session)
  <2> DEFINE f == [d \in Session |-> fills'[d].consumed]
             T == {d \in Session : pc'[d] = "recorded" /\ line'[d].clid = k}
  <2>1. \A d \in Session : f[d] \in Nat /\ Share(d, k)' \in Nat
    BY SizesAssumption DEF Manager!TypeOK, Manager!Fills, Share
  <2>2. T \in SUBSET Session /\ (\A d \in T : f[d] \in Int /\ G[d] = f[d])
        /\ \A d \in Session \ T : G[d] = 0
    BY <2>1 DEF Share
  <2> HIDE DEF G, f, T
  <2>3. SumFunctionOnSet(f, T) = SumFunctionOnSet(G, Session)
    BY <1>0, <2>2, SumWhere
  <2> QED
    BY <2>1, <2>3 DEF Pending, f, T
<1>3. \A d \in Session : d # c => Share(d, k)' = Share(d, k)
  BY DEF Share
<1>4. /\ \A d \in Session : F[d] \in Int
      /\ F[c] = Share(c, k) /\ G[c] = Share(c, k)' /\ G[c] \in Int
      /\ \A d \in Session : d # c => G[d] = F[d]
  BY <1>1, <1>2, <1>3
<1> HIDE DEF F, G
<1>5. SumFunctionOnSet(G, Session) = SumFunctionOnSet(F, Session) + G[c] - F[c]
  BY <1>0, <1>4, SumChange
<1>6. SumFunctionOnSet(F, Session) \in Int
  BY <1>0, <1>4, SumInt
<1> QED
  BY <1>1, <1>2, <1>4, <1>5, <1>6

\* One step of handler c, seen from the shares of k.
LEMMA TellMoves ==
    ASSUME Manager!TypeOK, Manager!TypeOK', AnswerInv, TellInv, NEW c \in Session,
           NEW texts \in Seq(AnyAnswer), Says(c, texts),
           \A d \in Session : d # c => /\ pc'[d] = pc[d] /\ line'[d] = line[d]
                                       /\ fills'[d] = fills[d],
           \A k \in Clid :
              executed'[k] + withdrawn'[k] + Share(c, k)
                = executed[k] + withdrawn[k] + Shares(texts, TellKinds, k) + Share(c, k)'
    PROVE  TellInv'
<1> SUFFICES ASSUME NEW k \in Clid
             PROVE  executed'[k] + withdrawn'[k] = SharesTold(TellKinds, k)' + Pending(k)'
  BY DEF TellInv, TellKinds
<1>1. /\ SharesTold(TellKinds, k) \in Int /\ Shares(texts, TellKinds, k) \in Nat
      /\ SharesTold(TellKinds, k)' = SharesTold(TellKinds, k) + Shares(texts, TellKinds, k)
  BY TalliesMove
<1>2. /\ Pending(k) \in Int /\ Share(c, k) \in Int /\ Share(c, k)' \in Int
      /\ Pending(k)' = Pending(k) - Share(c, k) + Share(c, k)'
  BY PendingMoves
<1>3. executed[k] + withdrawn[k] = SharesTold(TellKinds, k) + Pending(k)
  BY DEF TellInv, TellKinds
<1>4. executed'[k] \in Int /\ withdrawn'[k] \in Int /\ executed[k] \in Int /\ withdrawn[k] \in Int
  BY DEF Manager!TypeOK
<1>5. executed'[k] + withdrawn'[k] + Share(c, k)
        = executed[k] + withdrawn[k] + Shares(texts, TellKinds, k) + Share(c, k)'
  OBVIOUS
<1>6. executed'[k] + withdrawn'[k]
        = executed[k] + withdrawn[k] + Shares(texts, TellKinds, k) - Share(c, k) + Share(c, k)'
  <2> DEFINE a == executed'[k] + withdrawn'[k]
             b == executed[k] + withdrawn[k]
             h == Share(c, k)
             g == Share(c, k)'
             n == Shares(texts, TellKinds, k)
  <2>1. a \in Int /\ b \in Int
    BY <1>4
  <2>2. h \in Int /\ g \in Int /\ n \in Int
    BY <1>1, <1>2
  <2>3. a + h = b + n + g
    BY <1>5
  <2> HIDE DEF a, b, h, g, n
  <2>4. a = b + n - h + g
    BY ONLY <2>1, <2>2, <2>3
  <2> QED
    BY <2>4 DEF a, b, h, g, n
<1>7. SharesTold(TellKinds, k)' + Pending(k)'
        = SharesTold(TellKinds, k) + Pending(k) + Shares(texts, TellKinds, k)
            - Share(c, k) + Share(c, k)'
  BY <1>1, <1>2
<1> QED
  BY <1>3, <1>6, <1>7

\* A handler that records nothing, tells of no share and is in no call.
LEMMA TellNothing ==
    ASSUME Manager!TypeOK, Manager!TypeOK', AnswerInv, TellInv, NEW c \in Session,
           NEW texts \in Seq(AnyAnswer), Says(c, texts),
           \A d \in Session : d # c => /\ pc'[d] = pc[d] /\ line'[d] = line[d]
                                       /\ fills'[d] = fills[d],
           UNCHANGED <<executed, withdrawn>>,
           pc[c] # "recorded", pc'[c] # "recorded",
           \A k : Shares(texts, TellKinds, k) = 0
    PROVE  TellInv'
<1>1. \A k : Share(c, k) = 0 /\ Share(c, k)' = 0
  BY DEF Share
<1>2. \A k \in Clid : executed[k] \in Int /\ withdrawn[k] \in Int
  BY DEF Manager!TypeOK
<1>3. ASSUME NEW k \in Clid
      PROVE  executed'[k] + withdrawn'[k] + Share(c, k)
               = executed[k] + withdrawn[k] + Shares(texts, TellKinds, k) + Share(c, k)'
  BY <1>1, <1>2
<1> QED
  BY <1>3, TellMoves

LEMMA TellStepLine ==
    ASSUME Manager!TypeOK, Manager!TypeOK', GInv, AnswerInv, CallInv, TellInv, NEW c \in Session,
           NEW place, NEW texts, LineShape(c, place, texts), UNCHANGED <<pc, fills>>
    PROVE  /\ texts \in Seq(AnyAnswer) /\ Says(c, texts)
           /\ pc[c] = "idle" /\ pc'[c] = "idle"
           /\ \A d \in Session : d # c => /\ pc'[d] = pc[d] /\ line'[d] = line[d]
                                          /\ fills'[d] = fills[d]
BY DEF LineShape, CallInv, GInv, StreamInv

LEMMA TellStep ==
    ASSUME GInv, Manager!TypeOK, Manager!TypeOK', AnswerInv, CallInv, HandInv, TellInv,
           [Next]_vars
    PROVE  TellInv'
<1>1. CASE QuietShape
  <2>1. UNCHANGED <<executed, withdrawn, pc, fills, line>>
    BY <1>1 DEF QuietShape, counts, managed
  <2>2. \A k : SharesTold({"FILL", "CAL"}, k)' = SharesTold({"FILL", "CAL"}, k)
    BY <1>1, TalliesStay DEF QuietShape
  <2>3. \A k : Pending(k)' = Pending(k)
    BY <2>1 DEF Pending
  <2> QED
    BY <2>1, <2>2, <2>3 DEF TellInv
<1>2. ASSUME NEW c \in Session, NEW kind, kind \notin TellKinds, NEW clid, NEW size, NEW place,
             LineShape(c, place, <<Answer(kind, clid, size)>>),
             UNCHANGED <<executed, withdrawn, pc, fills>>
      PROVE  TellInv'
  <2> DEFINE texts == <<Answer(kind, clid, size)>>
  <2>1. LineShape(c, place, texts)
    BY <1>2
  <2>2. texts \in Seq(AnyAnswer)
    BY <2>1 DEF LineShape
  <2>3. \A k : Shares(texts, TellKinds, k) = 0
    BY <1>2, <2>2, AnswerTallied
  <2> HIDE DEF texts
  <2> QED
    BY <1>2, <2>1, <2>3, TellStepLine, TellNothing
<1>3. ASSUME NEW c \in Session, SkipBlank(c) PROVE TellInv'
  <2> DEFINE texts == <<>>
  <2>1. LineShape(c, "lines", texts) /\ UNCHANGED <<executed, withdrawn, pc, fills>>
    BY <1>3, LineShapes DEF SkipBlank, managed
  <2>2. \A k : Shares(texts, TellKinds, k) = 0
    BY NothingTallied
  <2> HIDE DEF texts
  <2> QED
    BY <2>1, <2>2, TellStepLine, TellNothing
<1>4. ASSUME NEW c \in Session, RefuseJunk(c) \/ RefuseCancel(c) \/ RefuseOrder(c)
                                  \/ Acknowledge(c)
      PROVE  TellInv'
  <2>1. \E kind \in {"REJ_CMD", "REJ", "ACK"} : \E clid, size, place :
          LineShape(c, place, <<Answer(kind, clid, size)>>)
    BY <1>4, LineShapes
  <2>2. UNCHANGED <<executed, withdrawn, pc, fills>>
    BY <1>4 DEF RefuseJunk, RefuseCancel, RefuseOrder, Acknowledge, managed
  <2>3. \A kind \in {"REJ_CMD", "REJ", "ACK"} : kind \notin TellKinds
    BY DEF TellKinds
  <2> QED
    BY <1>2, <2>1, <2>2, <2>3
<1>5. ASSUME NEW c \in Session, CancelOrder(c) PROVE TellInv'
  <2> DEFINE x     == nextLine(c).clid
             left  == orders[x].remaining
             texts == <<Answer("CAL", x, left)>>
  <2>1. /\ LineShape(c, "lines", texts) /\ Manager!Cancel(c, x) /\ left \in 0 .. MaxSize
    BY <1>5, LineShapes
  <2>2. UNCHANGED <<executed, pc, fills>>
        /\ withdrawn' = [withdrawn EXCEPT ![x] = withdrawn[x] + left]
    BY <2>1 DEF Manager!Cancel, Manager!thread
  <2>3. texts \in Seq(AnyAnswer)
    BY <2>1 DEF LineShape
  <2>4. \A k : Shares(texts, TellKinds, k) = IF x = k THEN left ELSE 0
    BY <2>3, AnswerTallied DEF TellKinds
  <2> HIDE DEF texts, left, x
  <2>5. /\ Says(c, texts) /\ pc[c] = "idle" /\ pc'[c] = "idle"
        /\ \A d \in Session : d # c => /\ pc'[d] = pc[d] /\ line'[d] = line[d]
                                       /\ fills'[d] = fills[d]
    BY <2>1, <2>2, TellStepLine
  <2>6. ASSUME NEW k \in Clid
        PROVE  executed'[k] + withdrawn'[k] + Share(c, k)
                 = executed[k] + withdrawn[k] + Shares(texts, TellKinds, k) + Share(c, k)'
    <3>1. Share(c, k) = 0 /\ Share(c, k)' = 0
      BY <2>5 DEF Share
    <3>2. /\ executed[k] \in Int /\ withdrawn[k] \in Int /\ left \in Int
          /\ withdrawn'[k] = IF x = k THEN withdrawn[k] + left ELSE withdrawn[k]
      BY <2>1, <2>2, SizesAssumption DEF Manager!TypeOK
    <3> QED
      BY <2>2, <2>4, <3>1, <3>2
  <2> QED
    BY <2>3, <2>5, <2>6, TellMoves
<1>6. ASSUME NEW c \in Session, NEW from, NEW to, NEW texts, HandShape(c, from, to, texts),
             UNCHANGED <<executed, withdrawn, fills>>, pc[c] = "idle",
             \A d \in Session : d # c => pc'[d] = pc[d],
             pc'[c] # "recorded",
             \A k : Shares(texts, TellKinds, k) = 0
      PROVE  TellInv'
  BY <1>6, TellNothing DEF HandShape
<1>7. ASSUME NEW c \in Session, CountRefusal(c) \/ Submit(c) \/ Fallback(c) PROVE TellInv'
  <2> DEFINE texts == <<>>
  <2>1. \E from \in {"count", "submit"}, to \in {"lines", "call"} : HandShape(c, from, to, texts)
    BY <1>7, HandShapes
  <2>2. UNCHANGED <<executed, withdrawn, fills>> /\ pc[c] = "idle"
    BY <1>7 DEF CountRefusal, Submit, Fallback, Proceed, At, managed, CallInv, Manager!Check,
                Manager!Begin
  <2>3. pc'[c] # "recorded" /\ \A d \in Session : d # c => pc'[d] = pc[d]
    BY <1>7, <2>2 DEF CountRefusal, Submit, Fallback, managed, Manager!Check, Manager!TypeOK
  <2>4. \A k : Shares(texts, TellKinds, k) = 0
    BY NothingTallied
  <2> HIDE DEF texts
  <2> QED
    BY <1>6, <2>1, <2>2, <2>3, <2>4
<1>8. ASSUME NEW c \in Session, SubmitRejected(c) PROVE TellInv'
  <2> DEFINE texts == <<Answer("REJ", line[c].clid, 0)>>
  <2>1. HandShape(c, "submit", "lines", texts)
    BY <1>8, HandShapes
  <2>2. UNCHANGED <<executed, withdrawn, pc, fills>> /\ pc[c] = "idle"
    BY <1>8 DEF SubmitRejected, Manager!Reject, Manager!Begin, Manager!thread
  <2>3. texts \in Seq(AnyAnswer)
    BY <2>1 DEF HandShape
  <2>4. \A k : Shares(texts, TellKinds, k) = 0
    BY <2>3, AnswerTallied DEF TellKinds
  <2> HIDE DEF texts
  <2> QED
    BY <1>6, <2>1, <2>2, <2>4
<1>9. ASSUME NEW c \in Session, ReportFills(c) PROVE TellInv'
  <2> DEFINE n == fills[c].count
             x == line[c].clid
             y == fills[c].consumed
  <2>1. n \in Nat /\ y \in Nat
    BY <1>9, HandShapes
  <2>2. PICK sizes \in [1 .. n -> 1 .. y] :
          /\ SumFunction(sizes) = y
          /\ HandShape(c, "call", "lines", FillLines(c, sizes))
    BY <1>9, HandShapes
  <2> DEFINE texts == FillLines(c, sizes)
  <2>3. texts \in Seq(AnyAnswer) /\ Says(c, texts) /\ line' = line
    BY <2>2 DEF HandShape
  <2>4. /\ UNCHANGED <<executed, withdrawn>>
        /\ pc[c] = "recorded" /\ pc'[c] = "idle"
        /\ \A d \in Session : d # c => pc'[d] = pc[d] /\ fills'[d] = fills[d]
    BY <1>9 DEF ReportFills, Manager!Return, Manager!Leave, Manager!history, Manager!TypeOK
  <2>5. \A k : Shares(texts, TellKinds, k) = IF x = k THEN y ELSE 0
    <3>1. sizes \in [1 .. n -> Nat]
      BY <2>1, <2>2
    <3> HIDE DEF n, x, y
    <3>2. \A k : Shares(texts, TellKinds, k)
                    = IF "FILL" \in TellKinds /\ line[c].clid = k
                      THEN SumFunction(sizes) ELSE 0
      BY <2>1, <3>1, FillsTallied
    <3> QED
      BY <2>2, <3>2 DEF TellKinds, x
  <2>6. \A k : Share(c, k) = (IF x = k THEN y ELSE 0) /\ Share(c, k)' = 0
    BY <2>4 DEF Share
  <2> HIDE DEF texts, n, x, y
  <2>7. ASSUME NEW k \in Clid
        PROVE  executed'[k] + withdrawn'[k] + Share(c, k)
                 = executed[k] + withdrawn[k] + Shares(texts, TellKinds, k) + Share(c, k)'
    <3>1. executed[k] \in Int /\ withdrawn[k] \in Int
      BY DEF Manager!TypeOK
    <3> QED
      BY <2>1, <2>4, <2>5, <2>6, <3>1
  <2> QED
    BY <2>3, <2>4, <2>7, TellMoves
<1>10. ASSUME NEW c \in Session, Work(c) PROVE TellInv'
  <2> DEFINE texts == <<>>
  <2>1. /\ UNCHANGED <<hpc, line, answers, withdrawn>> /\ hpc[c] = "call" /\ outbox[c] = <<>>
    BY <1>10 DEF Work, handlers, stream, At, Manager!Store, Manager!Match,
                 Manager!RecordFills, Manager!MarkOpen, Manager!history
  <2>2. texts \in Seq(AnyAnswer) /\ Says(c, texts)
    BY <2>1 DEF Says, AnswerInv, answers
  <2>3. \A k : Shares(texts, TellKinds, k) = 0
    BY NothingTallied
  <2>4. \A d \in Session : d # c => /\ pc'[d] = pc[d] /\ line'[d] = line[d]
                                     /\ fills'[d] = fills[d]
    BY <1>10, <2>1 DEF Work, Manager!Store, Manager!Match, Manager!RecordFills,
                       Manager!MarkOpen, Manager!TypeOK
  <2> HIDE DEF texts
  <2>5. CASE Manager!Store(c) \/ Manager!Match(c)
    <3>1. UNCHANGED executed /\ pc[c] # "recorded" /\ pc'[c] # "recorded"
      BY <2>5 DEF Manager!Store, Manager!Match, Manager!history, Manager!TypeOK
    <3> QED
      BY <2>1, <2>2, <2>3, <2>4, <3>1, TellNothing
  <2>6. CASE Manager!RecordFills(c) \/ Manager!MarkOpen(c)
    <3> DEFINE x == line[c].clid
               y == fills[c].consumed
    <3>1. ord[c].clid = x
      <4>1. ord[c] = toSubmit(c)
        BY <2>1 DEF HandInv, HandOK
      <4> QED
        BY <4>1 DEF toSubmit
    <3>2. /\ pc[c] = "matched" /\ pc'[c] = "recorded" /\ fills' = fills /\ line' = line
      BY <2>1, <2>6 DEF Manager!RecordFills, Manager!MarkOpen, Manager!TypeOK
    <3>3. y \in Nat
      BY SizesAssumption DEF Manager!TypeOK, Manager!Fills
    <3>4. ASSUME NEW k \in Clid
          PROVE  executed'[k] = executed[k] + (IF x = k THEN y ELSE 0) /\ executed[k] \in Nat
      <4>1. executed \in [Clid -> Nat]
        BY DEF Manager!TypeOK
      <4>2. CASE Manager!RecordFills(c)
        <5>1. executed' = [executed EXCEPT ![x] = executed[x] + y]
          BY <3>1, <4>2 DEF Manager!RecordFills
        <5> HIDE DEF x, y
        <5> QED
          BY <3>3, <4>1, <5>1
      <4>3. CASE Manager!MarkOpen(c)
        <5>1. executed' = executed /\ y = 0
          BY <4>3 DEF Manager!MarkOpen, Manager!history, HandInv, HandOK
        <5> HIDE DEF x, y
        <5> QED
          BY <4>1, <5>1
      <4> QED
        BY <2>6, <4>2, <4>3
    <3>5. \A k : Share(c, k) = 0 /\ Share(c, k)' = IF x = k THEN y ELSE 0
      BY <3>2 DEF Share
    <3> HIDE DEF x, y
    <3>6. ASSUME NEW k \in Clid
          PROVE  executed'[k] + withdrawn'[k] + Share(c, k)
                   = executed[k] + withdrawn[k] + Shares(texts, TellKinds, k) + Share(c, k)'
      <4>1. withdrawn[k] \in Nat
        BY DEF Manager!TypeOK
      <4> QED
        BY <2>1, <2>3, <3>3, <3>4, <3>5, <4>1
    <3> QED
      BY <2>2, <2>4, <3>6, TellMoves
  <2> QED
    BY <1>10, <2>5, <2>6 DEF Work
<1> QED
  BY <1>1, <1>3, <1>4, <1>5, <1>7, <1>8, <1>9, <1>10, Quiet DEF Next, Handler

LEMMA InitTellInv == Init => TellInv
<1> SUFFICES ASSUME Init, NEW k \in Clid
             PROVE  executed[k] + withdrawn[k]
                      = SharesTold({"FILL", "CAL"}, k) + Pending(k)
  BY DEF TellInv
<1>1. SharesTold({"FILL", "CAL"}, k) = 0
  <2> DEFINE S == [c \in Session |-> Shares(told(c), {"FILL", "CAL"}, k)]
  <2>1. \A c \in Session : told(c) = <<>>
    BY DEF Init, told
  <2>2. \A c \in Session : S[c] = 0
    BY <2>1, NothingTallied
  <2>3. SharesTold({"FILL", "CAL"}, k) = SumFunctionOnSet(S, Session)
    BY DEF SharesTold, Shares, SumFunction
  <2> HIDE DEF S
  <2> QED
    BY <2>2, <2>3, FiniteAssumption, SumZeros
<1>2. Pending(k) = 0
  <2>1. {c \in Session : pc[c] = "recorded" /\ line[c].clid = k} = {}
    BY DEF Init, Manager!Init
  <2> QED
    BY <2>1, SumEmpty DEF Pending
<1> QED
  BY <1>1, <1>2 DEF Init, Manager!Init

LEMMA TellInvHolds == Spec => []TellInv
<1>1. GInv /\ Manager!TypeOK /\ Manager!TypeOK' /\ RestInv /\ HandInv /\ TellInv
        /\ [Next]_vars => TellInv'
  BY TellStep DEF RestInv
<1> QED
  BY <1>1, InitTellInv, GInvHolds, ManagerTypes, RestInvHolds, HandInvHolds, PTL DEF Spec

\* No share of an order is lost between the manager and the connections: what
\* was asked for is what remains, what some client was told of and what a
\* handler is about to tell.
THEOREM ClientsAlwaysAddUp == Spec => []ClientsAddUp
<1>1. ASSUME Manager!TypeOK, TellInv, MP!SharesAccounted, AnswerInv PROVE ClientsAddUp
  <2> SUFFICES ASSUME NEW k \in DOMAIN orders \ disturbed
               PROVE  orders[k].original_size
                        = orders[k].remaining + SharesTold({"FILL", "CAL"}, k) + Pending(k)
    BY DEF ClientsAddUp, Pending
  <2>1. k \in Clid
    BY <1>1 DEF Manager!TypeOK
  <2>2. orders[k].original_size = orders[k].remaining + executed[k] + withdrawn[k]
    BY <1>1 DEF MP!SharesAccounted
  <2>3. executed[k] + withdrawn[k] = SharesTold({"FILL", "CAL"}, k) + Pending(k)
    BY <1>1, <2>1 DEF TellInv
  <2>4. orders[k].remaining \in Int /\ executed[k] \in Int /\ withdrawn[k] \in Int
    BY <1>1, <2>1, SizesAssumption DEF Manager!TypeOK, Manager!State
  <2>5. SharesTold({"FILL", "CAL"}, k) \in Int
    <3> DEFINE S == [c \in Session |-> Shares(told(c), {"FILL", "CAL"}, k)]
    <3>1. \A c \in Session : S[c] \in Int
      BY <1>1, ToldIsTyped, TalliesAdd
    <3>2. SharesTold({"FILL", "CAL"}, k) = SumFunctionOnSet(S, Session)
      BY DEF SharesTold, Shares, SumFunction
    <3> HIDE DEF S
    <3> QED
      BY <3>1, <3>2, FiniteAssumption, SumInt
  <2>6. Pending(k) \in Int
    <3> DEFINE F == [c \in Session |-> fills[c].consumed]
               S == {c \in Session : pc[c] = "recorded" /\ line[c].clid = k}
    <3>1. (\A c \in S : F[c] \in Int) /\ IsFiniteSet(S)
      BY <1>1, SizesAssumption, FiniteAssumption, FS_Subset DEF Manager!TypeOK, Manager!Fills
    <3> HIDE DEF F, S
    <3>2. SumFunctionOnSet(F, S) \in Int
      BY <3>1, SumInt
    <3> QED
      BY <3>2 DEF Pending, F, S
  <2> QED
    BY <2>2, <2>3, <2>4, <2>5, <2>6
<1>2. RestInv => AnswerInv
  BY DEF RestInv
<1>3. Spec => []MP!SharesAccounted
  BY ManagerKeepsItsPromises, PTL
<1> QED
  BY <1>1, <1>2, <1>3, ManagerTypes, RestInvHolds, TellInvHolds, PTL
=============================================================================
