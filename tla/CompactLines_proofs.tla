------------------------ MODULE CompactLines_proofs ------------------------
(***************************************************************************)
(* The theorems about CompactLines, for any number of tags, any uses of    *)
(* them and any length of records.                                         *)
(***************************************************************************)
EXTENDS CompactLines, SequenceTheorems, FunctionTheorems, TLAPS

-----------------------------------------------------------------------------
(* What a record means.  The reader adds its numbers up; the sequence of   *)
(* the sums stands beside the record.                                      *)

End(p) == p[Len(p)]

Decodes(r, p) ==
  /\ r \in Seq(Token) /\ p \in Seq(Nat)
  /\ Len(r) >= 1 /\ Len(p) = Len(r)
  /\ r[1].sep = "head" /\ p[1] = r[1].n /\ p[1] >= 1
  /\ \A j \in 2 .. Len(r) : r[j].sep \in {"comma", "dash"} /\ p[j] = p[j - 1] + r[j].n
  /\ \A j, k \in 1 .. Len(r) : j < k => p[j] < p[k]

(* The lines of a record.                                                  *)
Covers(r, p, x) ==
  \E j \in 1 .. Len(r) :
    x = p[j] \/ (j > 1 /\ r[j].sep = "dash" /\ p[j - 1] < x /\ x <= p[j])

(* The records of a tag, and the sums of each: they follow one another in  *)
(* the file.                                                               *)
Encodes(rs, P) ==
  /\ rs \in Seq(Seq(Token)) /\ P \in Seq(Seq(Nat)) /\ Len(P) = Len(rs)
  /\ \A k \in 1 .. Len(rs) : Decodes(rs[k], P[k])
  /\ \A j, k \in 1 .. Len(rs) : j < k => End(P[j]) < P[k][1]
HasLine(rs, P, x) == \E k \in 1 .. Len(rs) : Covers(rs[k], P[k], x)

LEMMA DecodesHead ==
  ASSUME NEW n \in Nat \ {0}
  PROVE  LET r == <<[sep |-> "head", n |-> n]>>
         IN  /\ Decodes(r, <<n>>)
             /\ End(<<n>>) = n /\ <<n>>[1] = n
             /\ \A x : Covers(r, <<n>>, x) <=> x = n
<1> DEFINE r == <<[sep |-> "head", n |-> n]>>
           p == <<n>>
<1>1. r \in Seq(Token) /\ Len(r) = 1 /\ r[1].sep = "head" /\ r[1].n = n
  BY DEF Token, Seps
<1>2. p \in Seq(Nat) /\ Len(p) = 1 /\ p[1] = n
  OBVIOUS
<1> HIDE DEF r, p
<1>3. Decodes(r, p)
  BY <1>1, <1>2 DEF Decodes
<1>4. End(p) = n
  BY <1>2 DEF End
<1>5. \A x : Covers(r, p, x) <=> x = n
  BY <1>1, <1>2 DEF Covers
<1> QED BY <1>2, <1>3, <1>4, <1>5 DEF r, p

LEMMA DecodesEnd ==
  ASSUME NEW r, NEW p, Decodes(r, p)
  PROVE  /\ End(p) \in Nat /\ p[1] \in Nat \ {0} /\ p[1] <= End(p) /\ Len(r) \in Nat \ {0}
         /\ \A j \in 1 .. Len(r) : p[j] \in Nat /\ p[1] <= p[j] /\ p[j] <= End(p)
         /\ \A x \in Nat : Covers(r, p, x) => p[1] <= x /\ x <= End(p)
<1> DEFINE m == Len(r)
<1>1. /\ m \in Nat \ {0}
      /\ \A j \in 1 .. m : p[j] \in Nat
      /\ \A j, k \in 1 .. m : j < k => p[j] < p[k]
      /\ p[1] >= 1 /\ Len(p) = m
  BY LenProperties, ElementOfSeq DEF Decodes
<1> HIDE DEF m
<1>2. \A j \in 1 .. m : p[1] <= p[j] /\ p[j] <= p[m]
  <2> TAKE j \in 1 .. m
  <2>1. 1 \in 1 .. m /\ m \in 1 .. m /\ (j = 1 \/ 1 < j) /\ (j = m \/ j < m)
    BY <1>1
  <2> QED BY <2>1, <1>1
<1>3. End(p) = p[m]
  BY <1>1 DEF End
<1>4. ASSUME NEW x \in Nat, Covers(r, p, x)
      PROVE  p[1] <= x /\ x <= p[m]
  <2>1. PICK j \in 1 .. m : x = p[j] \/ (j > 1 /\ p[j - 1] < x /\ x <= p[j])
    BY <1>4 DEF Covers, m
  <2>2. CASE x = p[j]
    BY <2>2, <1>2
  <2>3. CASE j > 1 /\ p[j - 1] < x /\ x <= p[j]
    <3>1. j - 1 \in 1 .. m
      BY <2>3, <1>1
    <3>2. p[1] \in Nat /\ p[j - 1] \in Nat /\ p[j] \in Nat /\ p[m] \in Nat /\ p[1] <= p[j - 1] /\ p[j] <= p[m]
      BY <3>1, <1>1, <1>2
    <3> QED BY <3>2, <2>3
  <2> QED BY <2>1, <2>2, <2>3
<1> QED BY <1>1, <1>2, <1>3, <1>4 DEF m

(* A record with one more number means the lines of the record and those   *)
(* that the number adds.                                                   *)
Prolongs(r, p, s, q, c, n) ==
  /\ Decodes(s, q)
  /\ End(q) = End(p) + n /\ q[1] = p[1]
  /\ \A x \in Nat : Covers(s, q, x) <=>
       \/ Covers(r, p, x)
       \/ x = End(q)
       \/ c = "dash" /\ End(p) < x /\ x <= End(q)

LEMMA DecodesMore ==
  ASSUME NEW r, NEW p, Decodes(r, p), NEW sep \in {"comma", "dash"}, NEW n \in Nat \ {0}
  PROVE  Prolongs(r, p, Append(r, [sep |-> sep, n |-> n]), Append(p, End(p) + n), sep, n)
<1> DEFINE m == Len(r)
           t == [sep |-> sep, n |-> n]
           e == End(p)
           s == Append(r, t)
           q == Append(p, e + n)
<1>1. /\ m \in Nat \ {0} /\ Len(p) = m
      /\ e \in Nat /\ e = p[m]
      /\ \A j \in 1 .. m : p[j] \in Nat /\ p[j] <= e
  BY DecodesEnd DEF Decodes, End
<1>2. t \in Token /\ t.sep = sep /\ t.n = n
  BY DEF Token, Seps
<1>3. /\ r \in Seq(Token) /\ p \in Seq(Nat)
      /\ r[1].sep = "head" /\ p[1] = r[1].n /\ p[1] >= 1
      /\ \A j \in 2 .. m : r[j].sep \in {"comma", "dash"} /\ p[j] = p[j - 1] + r[j].n
      /\ \A j, k \in 1 .. m : j < k => p[j] < p[k]
  BY DEF Decodes
<1> HIDE DEF t, e
<1>4. /\ s \in Seq(Token) /\ Len(s) = m + 1 /\ s[m + 1] = t
      /\ \A j \in 1 .. m : s[j] = r[j]
  BY <1>2, <1>3, AppendProperties
<1>5. /\ q \in Seq(Nat) /\ Len(q) = m + 1 /\ q[m + 1] = e + n
      /\ \A j \in 1 .. m : q[j] = p[j]
  BY <1>1, <1>3, AppendProperties
<1> HIDE DEF m, s, q
<1>6. ASSUME NEW j \in 2 .. m + 1
      PROVE  s[j].sep \in {"comma", "dash"} /\ q[j] = q[j - 1] + s[j].n
  <2>1. CASE j = m + 1
    <3>1. q[j - 1] = e /\ j - 1 \in 1 .. m
      BY <2>1, <1>1, <1>5
    <3> QED BY <2>1, <3>1, <1>2, <1>4, <1>5
  <2>2. CASE j # m + 1
    <3>1. j \in 2 .. m /\ j \in 1 .. m /\ j - 1 \in 1 .. m
      BY <2>2, <1>1
    <3> QED BY <3>1, <1>3, <1>4, <1>5
  <2> QED BY <2>1, <2>2
<1>7. ASSUME NEW j \in 1 .. m + 1, NEW k \in 1 .. m + 1, j < k
      PROVE  q[j] < q[k]
  <2>1. j \in 1 .. m
    BY <1>7, <1>1
  <2>2. CASE k = m + 1
    BY <2>1, <2>2, <1>1, <1>5
  <2>3. CASE k # m + 1
    <3>1. k \in 1 .. m
      BY <2>3, <1>1
    <3> QED BY <2>1, <3>1, <1>3, <1>5, <1>7
  <2> QED BY <2>2, <2>3
<1>8. Decodes(s, q) /\ End(q) = e + n /\ q[1] = p[1]
  <2>1. 1 \in 1 .. m
    BY <1>1
  <2>2. q[1] = p[1] /\ s[1] = r[1] /\ m + 1 >= 1
    BY <2>1, <1>1, <1>4, <1>5
  <2> QED BY <2>2, <1>3, <1>4, <1>5, <1>6, <1>7 DEF Decodes, End
<1>9. ASSUME NEW x \in Nat
      PROVE  Covers(s, q, x) <=> Covers(r, p, x) \/ x = e + n \/ (sep = "dash" /\ e < x /\ x <= e + n)
  <2>1. ASSUME Covers(r, p, x)
        PROVE  Covers(s, q, x)
    <3>1. PICK j \in 1 .. m : x = p[j] \/ (j > 1 /\ r[j].sep = "dash" /\ p[j - 1] < x /\ x <= p[j])
      BY <2>1 DEF Covers, m
    <3>2. j \in 1 .. m + 1 /\ s[j] = r[j] /\ q[j] = p[j] /\ (j > 1 => q[j - 1] = p[j - 1])
      <4>1. j \in 1 .. m + 1 /\ (j > 1 => j - 1 \in 1 .. m)
        BY <1>1
      <4> QED BY <4>1, <1>4, <1>5
    <3> QED BY <3>1, <3>2, <1>4 DEF Covers
  <2>2. m + 1 \in 1 .. m + 1 /\ m + 1 > 1 /\ q[(m + 1) - 1] = e
    BY <1>1, <1>5
  <2>3. x = e + n \/ (sep = "dash" /\ e < x /\ x <= e + n) => Covers(s, q, x)
    BY <2>2, <1>2, <1>4, <1>5 DEF Covers
  <2>4. ASSUME Covers(s, q, x)
        PROVE  Covers(r, p, x) \/ x = e + n \/ (sep = "dash" /\ e < x /\ x <= e + n)
    <3>1. PICK j \in 1 .. m + 1 : x = q[j] \/ (j > 1 /\ s[j].sep = "dash" /\ q[j - 1] < x /\ x <= q[j])
      BY <2>4, <1>4 DEF Covers
    <3>2. CASE j = m + 1
      BY <3>1, <3>2, <2>2, <1>2, <1>4, <1>5
    <3>3. CASE j # m + 1
      <4>1. j \in 1 .. m /\ (j > 1 => j - 1 \in 1 .. m)
        BY <3>3, <1>1
      <4>2. s[j] = r[j] /\ q[j] = p[j] /\ (j > 1 => q[j - 1] = p[j - 1])
        BY <4>1, <1>4, <1>5
      <4> QED BY <3>1, <4>1, <4>2 DEF Covers, m
    <3> QED BY <3>2, <3>3
  <2> QED BY <2>1, <2>3, <2>4
<1> QED BY <1>8, <1>9 DEF Prolongs, s, q, t, e

LEMMA EncodesNone == Encodes(<<>>, <<>>) /\ \A x : ~HasLine(<<>>, <<>>, x)
BY EmptySeq DEF Encodes, HasLine

LEMMA EncodesMore ==
  ASSUME NEW rs, NEW P, Encodes(rs, P), NEW r, NEW p, Decodes(r, p),
         \A k \in 1 .. Len(rs) : End(P[k]) < p[1]
  PROVE  /\ Encodes(Append(rs, r), Append(P, p))
         /\ \A x : HasLine(Append(rs, r), Append(P, p), x) <=> HasLine(rs, P, x) \/ Covers(r, p, x)
         /\ \A k \in 1 .. Len(Append(rs, r)) : End(Append(P, p)[k]) <= End(p)
<1> DEFINE m == Len(rs)
           ss == Append(rs, r)
           Q == Append(P, p)
<1>1. /\ rs \in Seq(Seq(Token)) /\ P \in Seq(Seq(Nat)) /\ Len(P) = m /\ m \in Nat
      /\ r \in Seq(Token) /\ p \in Seq(Nat)
      /\ \A k \in 1 .. m : Decodes(rs[k], P[k])
      /\ \A j, k \in 1 .. m : j < k => End(P[j]) < P[k][1]
  BY LenProperties DEF Encodes, Decodes
<1>2. /\ ss \in Seq(Seq(Token)) /\ Len(ss) = m + 1 /\ ss[m + 1] = r
      /\ \A k \in 1 .. m : ss[k] = rs[k]
  BY <1>1, AppendProperties
<1>3. /\ Q \in Seq(Seq(Nat)) /\ Len(Q) = m + 1 /\ Q[m + 1] = p
      /\ \A k \in 1 .. m : Q[k] = P[k]
  BY <1>1, AppendProperties
<1>4. /\ End(p) \in Nat /\ p[1] \in Nat /\ p[1] <= End(p)
      /\ \A k \in 1 .. m : End(P[k]) \in Nat
  BY <1>1, DecodesEnd
<1>5. \A k \in 1 .. m : End(P[k]) < p[1]
  OBVIOUS
<1> HIDE DEF m, ss, Q
<1>6. \A k \in 1 .. m + 1 : k \in 1 .. m \/ k = m + 1
  BY <1>1
<1>7. \A k \in 1 .. m + 1 : Decodes(ss[k], Q[k])
  BY <1>1, <1>2, <1>3, <1>6
<1>8. ASSUME NEW j \in 1 .. m + 1, NEW k \in 1 .. m + 1, j < k
      PROVE  End(Q[j]) < Q[k][1]
  <2>1. j \in 1 .. m
    BY <1>1, <1>8
  <2>2. CASE k = m + 1
    BY <2>1, <2>2, <1>3, <1>5
  <2>3. CASE k \in 1 .. m
    BY <2>1, <2>3, <1>1, <1>3, <1>8
  <2> QED BY <2>2, <2>3, <1>6
<1>9. Encodes(ss, Q)
  BY <1>2, <1>3, <1>7, <1>8 DEF Encodes
<1>10. ASSUME NEW x
       PROVE  HasLine(ss, Q, x) <=> HasLine(rs, P, x) \/ Covers(r, p, x)
  <2>1. m + 1 \in 1 .. m + 1 /\ \A k \in 1 .. m : k \in 1 .. m + 1
    BY <1>1
  <2>2. HasLine(rs, P, x) <=> \E k \in 1 .. m : Covers(rs[k], P[k], x)
    BY DEF HasLine, m
  <2>3. HasLine(ss, Q, x) <=> \E k \in 1 .. m + 1 : Covers(ss[k], Q[k], x)
    BY <1>2 DEF HasLine
  <2> QED BY <2>1, <2>2, <2>3, <1>2, <1>3, <1>6
<1>11. ASSUME NEW k \in 1 .. m + 1
       PROVE  End(Q[k]) <= End(p)
  <2>1. CASE k \in 1 .. m
    BY <2>1, <1>3, <1>4, <1>5
  <2>2. CASE k = m + 1
    BY <2>2, <1>3, <1>4
  <2> QED BY <2>1, <2>2, <1>6
<1> QED BY <1>2, <1>9, <1>10, <1>11 DEF ss, Q

(* What the sort filter makes of the records of a tag.                     *)
LEMMA OrdersAreRecords ==
  ASSUME NEW rs \in Seq(Seq(Token)), NEW r \in Orders(rs)
  PROVE  r \in Seq(Seq(Token))
<1> DEFINE m == Len(rs)
<1>1. m \in Nat /\ \A k \in 1 .. m : rs[k] \in Seq(Token)
  BY LenProperties, ElementOfSeq
<1>2. PICK f \in Bijection(1 .. m, 1 .. m) : r = [j \in 1 .. m |-> rs[f[j]]]
  BY DEF Orders
<1> HIDE DEF m
<1>3. f \in [1 .. m -> 1 .. m]
  BY DEF Bijection, Injection, Surjection
<1>4. r \in [1 .. m -> Seq(Token)]
  BY <1>1, <1>2, <1>3
<1> QED BY <1>1, <1>4

LEMMA SegmentEncodes ==
  ASSUME Filtered, NEW rs, NEW P, Encodes(rs, P), NEW r \in Segment(rs)
  PROVE  \E Q : Encodes(r, Q) /\ \A x : HasLine(r, Q, x) <=> HasLine(rs, P, x)
<1> DEFINE m == Len(rs)
<1>1. /\ rs \in Seq(Seq(Token)) /\ P \in Seq(Seq(Nat)) /\ m \in Nat
      /\ \A k \in 1 .. m : Decodes(rs[k], P[k]) /\ P[k] \in Seq(Nat)
      /\ \A j, k \in 1 .. m : j < k => End(P[j]) < P[k][1]
  BY LenProperties, ElementOfSeq DEF Encodes
<1>2. r \in Orders(rs) /\ ByFirstLine(r)
  BY DEF Segment
<1>3. PICK f \in Bijection(1 .. m, 1 .. m) : r = [j \in 1 .. m |-> rs[f[j]]]
  BY <1>2 DEF Orders
<1>4. r \in Seq(Seq(Token))
  BY <1>1, <1>2, OrdersAreRecords
<1> HIDE DEF m
<1>5. /\ f \in [1 .. m -> 1 .. m]
      /\ \A k \in 1 .. m : \E j \in 1 .. m : f[j] = k
      /\ \A j, k \in 1 .. m : f[j] = f[k] => j = k
  BY DEF Bijection, Injection, Surjection, IsInjective
<1> DEFINE Q == [j \in 1 .. m |-> P[f[j]]]
<1>6. DOMAIN r = 1 .. m /\ Len(r) = m /\ \A j \in 1 .. m : f[j] \in 1 .. m /\ r[j] = rs[f[j]] /\ Q[j] = P[f[j]]
  BY <1>1, <1>3, <1>5
<1>7. Q \in [1 .. m -> Seq(Nat)]
  BY <1>1, <1>5
<1>8. Q \in Seq(Seq(Nat)) /\ Len(Q) = m
  BY <1>1, <1>7
<1> HIDE DEF Q
<1>9. \A j \in 1 .. m : Decodes(r[j], Q[j])
  BY <1>1, <1>6
<1>10. ASSUME NEW j \in 1 .. m, NEW k \in 1 .. m, j < k
       PROVE  End(Q[j]) < Q[k][1]
  <2>1. r[j][1].n <= r[k][1].n /\ f[j] # f[k]
    BY <1>2, <1>5, <1>6, <1>10, <1>1 DEF ByFirstLine
  <2>2. Q[j][1] <= Q[k][1]
    BY <2>1, <1>9 DEF Decodes
  <2>3. /\ f[j] \in Nat /\ f[k] \in Nat
        /\ End(Q[k]) \in Nat /\ Q[j][1] \in Nat /\ Q[k][1] \in Nat /\ Q[k][1] <= End(Q[k])
    <3>1. Decodes(r[j], Q[j]) /\ Decodes(r[k], Q[k]) /\ f[j] \in 1 .. m /\ f[k] \in 1 .. m
      BY <1>6, <1>9
    <3>2. Q[j][1] \in Nat \ {0}
      BY <3>1, DecodesEnd, Zenon
    <3>3. Q[k][1] \in Nat \ {0}
      BY <3>1, DecodesEnd, Zenon
    <3>4. End(Q[k]) \in Nat
      BY <3>1, DecodesEnd, Zenon
    <3>5. Q[k][1] <= End(Q[k])
      BY <3>1, DecodesEnd, Zenon
    <3> QED BY <3>1, <3>2, <3>3, <3>4, <3>5, <1>1
  <2>4. CASE f[j] < f[k]
    BY <2>4, <1>1, <1>6
  <2>5. CASE f[k] < f[j]
    <3>1. End(Q[k]) < Q[j][1]
      BY <2>5, <1>1, <1>6
    <3> QED BY <3>1, <2>2, <2>3
  <2> QED BY <2>1, <2>3, <2>4, <2>5
<1>11. Encodes(r, Q)
  BY <1>4, <1>6, <1>8, <1>9, <1>10 DEF Encodes
<1>12. ASSUME NEW x
       PROVE  HasLine(r, Q, x) <=> HasLine(rs, P, x)
  <2>1. HasLine(rs, P, x) <=> \E k \in 1 .. m : Covers(rs[k], P[k], x)
    BY DEF HasLine, m
  <2>2. HasLine(r, Q, x) <=> \E j \in 1 .. m : Covers(r[j], Q[j], x)
    BY <1>6 DEF HasLine
  <2>3. ASSUME NEW k \in 1 .. m, Covers(rs[k], P[k], x)
        PROVE  \E j \in 1 .. m : Covers(r[j], Q[j], x)
    <3>1. PICK j \in 1 .. m : f[j] = k
      BY <1>5
    <3>2. r[j] = rs[k] /\ Q[j] = P[k]
      BY <3>1, <1>6
    <3> QED BY <3>2, <2>3
  <2>4. ASSUME NEW j \in 1 .. m, Covers(r[j], Q[j], x)
        PROVE  \E k \in 1 .. m : Covers(rs[k], P[k], x)
    <3>1. f[j] \in 1 .. m /\ r[j] = rs[f[j]] /\ Q[j] = P[f[j]]
      BY <1>6
    <3> QED BY <3>1, <2>4
  <2> QED BY <2>1, <2>2, <2>3, <2>4
<1> QED BY <1>11, <1>12

(* Where the lines of the other records are.                               *)
LEMMA Elsewhere ==
  ASSUME NEW rs, NEW P, Encodes(rs, P), NEW k \in 1 .. Len(rs), NEW x \in Nat, HasLine(rs, P, x)
  PROVE  \/ Covers(rs[k], P[k], x)
         \/ k > 1 /\ x <= End(P[k - 1])
         \/ x > End(P[k])
<1> DEFINE m == Len(rs)
<1>1. m \in Nat
  BY LenProperties DEF Encodes
<1>2. PICK j \in 1 .. m : Covers(rs[j], P[j], x)
  BY DEF HasLine
<1>3. \A h \in 1 .. m : Decodes(rs[h], P[h])
  BY DEF Encodes
<1>4. \A h \in 1 .. m : End(P[h]) \in Nat /\ P[h][1] \in Nat /\ P[h][1] <= End(P[h])
  <2> TAKE h \in 1 .. m
  <2> DEFINE r == rs[h]
             p == P[h]
  <2>1. Decodes(r, p)
    BY <1>3
  <2> HIDE DEF r, p
  <2>2. End(p) \in Nat /\ p[1] \in Nat /\ p[1] <= End(p)
    BY <2>1, DecodesEnd
  <2> QED BY <2>2 DEF p
<1>5. P[j][1] <= x /\ x <= End(P[j])
  <2> DEFINE r == rs[j]
             p == P[j]
  <2>1. Decodes(r, p) /\ Covers(r, p, x)
    BY <1>2, <1>3
  <2> HIDE DEF r, p
  <2>2. p[1] <= x /\ x <= End(p)
    BY <2>1, DecodesEnd
  <2> QED BY <2>2 DEF p
<1>6. \A h, l \in 1 .. m : h < l => End(P[h]) < P[l][1]
  BY DEF Encodes
<1>7. k \in 1 .. m
  OBVIOUS
<1> HIDE DEF m
<1>8. CASE j = k
  BY <1>2, <1>8
<1>9. CASE j < k
  <2>1. k - 1 \in 1 .. m /\ k > 1 /\ (j = k - 1 \/ j < k - 1)
    BY <1>1, <1>7, <1>9
  <2>2. End(P[j]) <= End(P[k - 1])
    <3>1. CASE j = k - 1
      BY <3>1, <1>4
    <3>2. CASE j < k - 1
      <4>1. End(P[j]) < P[k - 1][1]
        BY <3>2, <2>1, <1>6
      <4>2. End(P[j]) \in Nat /\ P[k - 1][1] \in Nat /\ End(P[k - 1]) \in Nat /\ P[k - 1][1] <= End(P[k - 1])
        BY <2>1, <1>4
      <4> QED BY <4>1, <4>2
    <3> QED BY <2>1, <3>1, <3>2
  <2>3. End(P[j]) \in Nat /\ End(P[k - 1]) \in Nat
    BY <2>1, <1>4
  <2> QED BY <2>1, <2>2, <2>3, <1>5
<1>10. CASE k < j
  <2>1. End(P[k]) < P[j][1]
    BY <1>6, <1>7, <1>10
  <2>2. End(P[k]) \in Nat /\ P[j][1] \in Nat
    BY <1>4, <1>7
  <2> QED BY <2>1, <2>2, <1>5
<1> QED BY <1>1, <1>7, <1>8, <1>9, <1>10

(* No line lies between two numbers of a record but in a range.            *)
LEMMA Between ==
  ASSUME NEW r, NEW p, Decodes(r, p), NEW j \in 2 .. Len(r), NEW x \in Nat, Covers(r, p, x), x < p[j]
  PROVE  r[j].sep = "dash" \/ x <= p[j - 1]
<1> DEFINE m == Len(r)
<1>1. /\ m \in Nat \ {0} /\ j \in 2 .. m
      /\ \A h \in 1 .. m : p[h] \in Nat
      /\ \A h, l \in 1 .. m : h < l => p[h] < p[l]
  BY DecodesEnd DEF Decodes
<1>2. PICK h \in 1 .. m : x = p[h] \/ (h > 1 /\ r[h].sep = "dash" /\ p[h - 1] < x /\ x <= p[h])
  BY DEF Covers
<1> HIDE DEF m
<1>3. j \in 1 .. m /\ j - 1 \in 1 .. m
  BY <1>1
<1>4. p[j] \in Nat /\ p[j - 1] \in Nat /\ p[h] \in Nat
  BY <1>1, <1>3
<1>5. CASE h < j
  <2>1. h = j - 1 \/ h < j - 1
    BY <1>1, <1>5
  <2>2. p[h] <= p[j - 1]
    BY <2>1, <1>1, <1>3, <1>4
  <2> QED BY <2>2, <1>2, <1>4
<1>6. CASE h = j
  BY <1>2, <1>4, <1>6
<1>7. CASE j < h
  <2>1. h - 1 \in 1 .. m /\ (j = h - 1 \/ j < h - 1) /\ p[j] < p[h]
    BY <1>1, <1>3, <1>7
  <2>2. p[j] <= p[h - 1] /\ p[h - 1] \in Nat
    BY <2>1, <1>1, <1>3, <1>4
  <2> QED BY <2>1, <2>2, <1>2, <1>4
<1> QED BY <1>1, <1>5, <1>6, <1>7

(* A number that ends no range is the next line after the number before.   *)
LEMMA NextNumber ==
  ASSUME NEW rs, NEW P, Encodes(rs, P), NEW k \in 1 .. Len(rs), NEW j \in 1 .. Len(rs[k]),
         rs[k][j].sep # "dash", NEW x \in Nat, HasLine(rs, P, x), x < P[k][j]
  PROVE  /\ j = 1 => k > 1 /\ x <= End(P[k - 1])
         /\ j > 1 => x <= P[k][j - 1]
<1> DEFINE r == rs[k]
           p == P[k]
           m == Len(r)
<1>1. Decodes(r, p) /\ j \in 1 .. m /\ r[j].sep # "dash" /\ x < p[j]
  BY DEF Encodes
<1>2. \/ Covers(r, p, x)
      \/ k > 1 /\ x <= End(P[k - 1])
      \/ x > End(p)
  BY Elsewhere
<1>3. k > 1 => End(P[k - 1]) < p[1] /\ Decodes(rs[k - 1], P[k - 1])
  <2>1. Len(rs) \in Nat
    BY LenProperties DEF Encodes
  <2>2. k > 1 => k - 1 \in 1 .. Len(rs) /\ k - 1 < k
    BY <2>1
  <2> QED BY <2>2 DEF Encodes
<1>4. k > 1 => End(P[k - 1]) \in Nat
  <2> SUFFICES ASSUME k > 1
               PROVE  End(P[k - 1]) \in Nat
    OBVIOUS
  <2> DEFINE q == P[k - 1]
             s == rs[k - 1]
  <2>1. Decodes(s, q)
    BY <1>3
  <2> HIDE DEF q, s
  <2>2. End(q) \in Nat
    BY <2>1, DecodesEnd
  <2> QED BY <2>2 DEF q
<1>5. m = Len(rs[k])
  OBVIOUS
<1> HIDE DEF r, p
<1>6. /\ End(p) \in Nat /\ p[1] \in Nat /\ m \in Nat \ {0}
      /\ \A h \in 1 .. m : p[h] \in Nat /\ p[1] <= p[h] /\ p[h] <= End(p)
      /\ Covers(r, p, x) => p[1] <= x
  BY <1>1, DecodesEnd
<1> HIDE DEF m
<1>7. CASE j = 1
  BY <1>1, <1>2, <1>6, <1>7
<1>8. CASE j > 1
  <2>1. j \in 2 .. m /\ j - 1 \in 1 .. m
    BY <1>1, <1>6, <1>8
  <2>2. CASE Covers(r, p, x)
    BY <1>1, <2>1, <2>2, Between, <1>8 DEF m, p
  <2>3. CASE k > 1 /\ x <= End(P[k - 1])
    <3>1. p[j - 1] \in Nat /\ p[1] <= p[j - 1]
      BY <2>1, <1>6
    <3>2. x <= p[j - 1]
      BY <3>1, <2>3, <1>3, <1>4, <1>6
    <3> QED BY <3>2, <1>8 DEF p
  <2>4. CASE x > End(p)
    BY <2>4, <1>1, <1>6
  <2> QED BY <2>2, <2>3, <2>4, <1>2
<1> QED BY <1>1, <1>6, <1>7, <1>8

-----------------------------------------------------------------------------
(* The inductive invariant: the writer.                                    *)

(* The records of t give back the lines of its pool.                       *)
AsWritten(t) ==
  \E P : /\ Encodes(records[t], P)
         /\ \A x \in Nat : x \in Uses(t) <=> HasLine(records[t], P, x)

InRange(x)    == cont # 0 /\ cont < x /\ x <= last
IsTaken(x)    == \E j \in 1 .. i - 1 : uses[tag][j] = x
IsPending(q, x) == (sb # <<>> /\ Covers(sb, q, x)) \/ InRange(x)

IsPast ==
  /\ i <= Len(uses[tag]) + 1
  /\ i = 1 => last = 0
  /\ i > 1 => last = uses[tag][i - 1]

(* The records that are written, the one under construction and the open   *)
(* range give back the lines before the next; P and q are their sums.      *)
IsAfter(P, q) ==
  /\ Encodes(records[tag], P)
  /\ IsPast
  /\ cont # 0 => sb # <<>> /\ cont < last
  /\ sb = <<>> => \A k \in 1 .. Len(records[tag]) : End(P[k]) <= last
  /\ sb # <<>> => /\ Decodes(sb, q)
                  /\ End(q) = IF cont = 0 THEN last ELSE cont
                  /\ \A k \in 1 .. Len(records[tag]) : End(P[k]) < q[1]

Writing(P, q) ==
  /\ IsAfter(P, q)
  /\ \A x \in Nat : IsTaken(x) <=> HasLine(records[tag], P, x) \/ IsPending(q, x)

Written ==
  /\ uses \in [Tags -> Pools]
  /\ phase = "write" => /\ \A t \in Tags : t > tag => records[t] = <<>>
                        /\ \E P, q : Writing(P, q)
  /\ \A t \in Tags : \/ phase = "write" /\ t < tag
                     \/ phase = "search"
                     \/ phase \in {"read", "done"} /\ Filtered
                     => AsWritten(t)
  /\ phase = "search" => tag = 1
  /\ phase \in {"write", "search"} =>
       /\ rec = 1 /\ at = 0 /\ line = 0 /\ upto = 0 /\ out = <<>>
       /\ curpath = FALSE /\ curtag = 0 /\ cur_lineno = 0 /\ last_lineno = 0 /\ fp = FALSE /\ src = 0

-----------------------------------------------------------------------------
(* The inductive invariant: the reader.                                    *)

(* The reader stays in the records.                                        *)
InRecord ==
  /\ at # 0 => rec <= Len(records[tag]) /\ at <= Len(records[tag][rec]) + 1
  /\ at < 2 => upto = 0

IsShown(t, x) == \E k \in 1 .. Len(out) : out[k].tag = t /\ out[k].line = x

(* The last line that was shown of the tag; P are the sums of its records. *)
Reached(P) == IF at >= 2 THEN line ELSE IF rec = 1 THEN 0 ELSE End(P[rec - 1])

IsAt(P) ==
  /\ Encodes(records[tag], P)
  /\ \A x \in Nat : x \in Uses(tag) <=> HasLine(records[tag], P, x)
  /\ at = 0 /\ rec > 1 => rec <= Len(records[tag]) /\ line = End(P[rec - 1])
  /\ at = 1 => line = 0
  /\ at >= 2 /\ upto = 0 => line = P[rec][at - 1]
  /\ upto > 0 => /\ at >= 3 /\ records[tag][rec][at - 1].sep = "dash"
                 /\ upto = P[rec][at - 1] /\ P[rec][at - 2] < line /\ line <= upto
  /\ \A x \in Nat : IsShown(tag, x) <=> x \in Uses(tag) /\ x <= Reached(P)

(* The lines of the tags before are shown, none of the tags behind.        *)
Printed ==
  /\ \A t \in Tags : t < tag \/ phase = "done" => \A x \in Nat : IsShown(t, x) <=> x \in Uses(t)
  /\ phase = "read" => \A t \in Tags : t > tag => \A x \in Nat : ~IsShown(t, x)
  /\ phase = "read" => \E P : IsAt(P)
  /\ \A j, k \in 1 .. Len(out) : j < k /\ out[j].tag = out[k].tag => out[j].line < out[k].line

(* The source file is read up to the line shown last, unless it has ended. *)
Texts ==
  /\ ~curpath => /\ fp = FALSE /\ cur_lineno = 0 /\ last_lineno = 0 /\ curtag = 0 /\ at = 0
  /\ phase = "read" => curtag <= tag /\ (at = 0 /\ rec = 1 => curtag < tag)
  /\ curpath /\ opened /\ ~fp => src = 0 /\ \E k \in 1 .. Len(out) : out[k].line > fileLen
  /\ fp => cur_lineno <= fileLen /\ (cur_lineno = 0 \/ src = cur_lineno)
  /\ curpath /\ at # 1 => line = last_lineno /\ (fp => cur_lineno = line)
  /\ at = 1 => last_lineno < records[tag][rec][1].n /\ (fp => cur_lineno <= records[tag][rec][1].n)
  /\ OwnText

Inv ==
  /\ TypeOK
  /\ Written
  /\ phase = "read" => InRecord
  /\ Filtered /\ phase \in {"read", "done"} => Printed /\ Texts

-----------------------------------------------------------------------------
LEMMA UsesFacts ==
  ASSUME uses \in [Tags -> Pools], NEW t \in Tags
  PROVE  /\ uses[t] \in Seq(Lines) /\ Len(uses[t]) \in Nat \ {0}
         /\ \A j \in 1 .. Len(uses[t]) : uses[t][j] \in Nat \ {0}
         /\ \A j \in 1 .. Len(uses[t]) - 1 : uses[t][j] <= uses[t][j + 1]
<1>1. PICK n \in 1 .. MaxUses : uses[t] \in [1 .. n -> Lines]
  BY DEF Pools
<1>2. Sorted(uses[t])
  BY DEF Pools
<1>3. uses[t] \in Seq(Lines) /\ Len(uses[t]) = n
  BY <1>1, BoundsAssumption
<1> QED BY <1>1, <1>2, <1>3, BoundsAssumption DEF Sorted, Lines

(* What the next line of the pool adds.                                    *)
LEMMA Consumed ==
  ASSUME TypeOK, uses \in [Tags -> Pools], Consume, IsPast
  PROVE  /\ i \in Nat \ {0} /\ i' = i + 1
         /\ last' \in Nat \ {0} /\ last <= last' /\ last \in Nat
         /\ last = 0 => i = 1
         /\ last # 0 => IsTaken(last)
         /\ IsPast'
         /\ \A x : IsTaken(x)' <=> IsTaken(x) \/ x = last'
<1>1. /\ tag \in Tags /\ i \in Nat \ {0} /\ i <= Len(uses[tag]) /\ i' = i + 1
      /\ last' = uses[tag][i] /\ uses' = uses /\ tag' = tag
  BY DEF TypeOK, Consume
<1> DEFINE m == Len(uses[tag])
<1>2. /\ m \in Nat \ {0}
      /\ \A j \in 1 .. m : uses[tag][j] \in Nat \ {0}
      /\ \A j \in 1 .. m - 1 : uses[tag][j] <= uses[tag][j + 1]
  BY <1>1, UsesFacts
<1>3. i \in Nat \ {0} /\ i <= m /\ (i = 1 => last = 0) /\ (i > 1 => last = uses[tag][i - 1])
  BY <1>1 DEF IsPast
<1> HIDE DEF m
<1>4. last' \in Nat \ {0}
  BY <1>1, <1>2, <1>3
<1>5. last <= last' /\ last \in Nat
  <2>1. CASE i = 1
    BY <2>1, <1>3, <1>4
  <2>2. CASE i # 1
    <3>1. i > 1 /\ i - 1 \in 1 .. m - 1 /\ (i - 1) + 1 = i /\ i - 1 \in 1 .. m
      BY <2>2, <1>2, <1>3
    <3> QED BY <3>1, <1>1, <1>2, <1>3
  <2> QED BY <2>1, <2>2
<1>6. ASSUME NEW x
      PROVE  IsTaken(x)' <=> IsTaken(x) \/ x = last'
  <2>1. \A j \in 1 .. i' - 1 : j \in 1 .. i - 1 \/ j = i
    BY <1>1
  <2>2. i \in 1 .. i' - 1 /\ \A j \in 1 .. i - 1 : j \in 1 .. i' - 1
    BY <1>1
  <2> QED BY <2>1, <2>2, <1>1 DEF IsTaken
<1>7. IsPast'
  <2>1. i' <= m + 1 /\ i' # 1 /\ i' - 1 = i
    BY <1>1, <1>2, <1>3
  <2>2. last' = uses'[tag'][i' - 1] /\ Len(uses'[tag']) = m
    BY <2>1, <1>1 DEF m
  <2> QED BY <2>1, <2>2 DEF IsPast
<1>8. last = 0 => i = 1
  <2>1. i # 1 => i > 1 /\ i - 1 \in 1 .. m
    BY <1>2, <1>3
  <2> QED BY <2>1, <1>2, <1>3
<1>9. ASSUME last # 0
      PROVE  IsTaken(last)
  <2>1. i > 1 /\ i - 1 \in 1 .. i - 1
    BY <1>3, <1>9
  <2> QED BY <2>1, <1>3 DEF IsTaken
<1> QED BY <1>1, <1>4, <1>5, <1>6, <1>7, <1>8, <1>9

(* The range is ended.                                                     *)
LEMMA Closed ==
  ASSUME TypeOK, NEW P, NEW q, IsAfter(P, q)
  PROVE  /\ sb = <<>> => RangeClosed = <<>> /\ cont = 0
         /\ sb # <<>> =>
              \E p : /\ Decodes(RangeClosed, p)
                     /\ End(p) = last /\ p[1] = q[1]
                     /\ \A x \in Nat : Covers(RangeClosed, p, x) <=> Covers(sb, q, x) \/ InRange(x)
<1>1. sb = <<>> => cont = 0
  BY DEF IsAfter
<1>2. CASE cont = 0
  BY <1>2 DEF IsAfter, RangeClosed, InRange
<1>3. CASE cont # 0
  <2>1. Decodes(sb, q) /\ End(q) = cont /\ cont < last /\ cont \in Nat /\ last \in Nat
    BY <1>3 DEF IsAfter, TypeOK
  <2> DEFINE n == last - cont
  <2>2. n \in Nat \ {0} /\ cont + n = last
    BY <2>1
  <2> DEFINE r == Append(sb, [sep |-> "dash", n |-> n])
             p == Append(q, End(q) + n)
  <2> HIDE DEF n
  <2>3. Prolongs(sb, q, r, p, "dash", n)
    BY <2>1, <2>2, DecodesMore
  <2>4. RangeClosed = r
    BY <1>3 DEF RangeClosed, n
  <2> HIDE DEF r, p
  <2>5. End(p) = last /\ \A x \in Nat : Covers(r, p, x) <=> Covers(sb, q, x) \/ InRange(x)
    BY <2>1, <2>2, <2>3, <1>3 DEF InRange, Prolongs
  <2> QED BY <1>1, <1>3, <2>3, <2>4, <2>5 DEF Prolongs
<1> QED BY <1>1, <1>2, <1>3

-----------------------------------------------------------------------------
(* flush_pool()                                                            *)

LEMMA WritingOn ==
  ASSUME Inv, phase = "write", UNCHANGED <<phase, tag, uses, cursor, output, fileLen, out>>,
         i' \in Nat \ {0}, last' \in Nat, cont' \in Nat, sb' \in Seq(Token),
         records' \in [Tags -> Seq(Seq(Token))],
         \A t \in Tags \ {tag} : records'[t] = records[t],
         NEW P, NEW q, Writing(P, q)'
  PROVE  Inv'
<1>1. TypeOK'
  BY DEF Inv, TypeOK, cursor, output
<1>2. phase' = "write" /\ tag' = tag /\ tag \in Tags /\ \A t \in Tags : Uses(t)' = Uses(t)
  BY DEF Inv, TypeOK, Uses
<1>3. ASSUME NEW t \in Tags, t < tag
      PROVE  AsWritten(t)'
  <2>1. AsWritten(t)
    BY <1>3 DEF Inv, Written
  <2>2. t # tag
    BY <1>2, <1>3 DEF Tags
  <2>3. PICK Q : Encodes(records[t], Q) /\ \A x \in Nat : x \in Uses(t) <=> HasLine(records[t], Q, x)
    BY <2>1 DEF AsWritten
  <2>4. records'[t] = records[t] /\ Uses(t)' = Uses(t)
    BY <2>2, <1>2
  <2>5. Encodes(records'[t], Q) /\ \A x \in Nat : x \in Uses(t)' <=> HasLine(records'[t], Q, x)
    BY <2>3, <2>4
  <2> QED BY <2>5 DEF AsWritten
<1>4. ASSUME NEW t \in Tags, t > tag
      PROVE  records'[t] = <<>>
  <2>1. records[t] = <<>>
    BY <1>4 DEF Inv, Written
  <2>2. t # tag
    BY <1>2, <1>4 DEF Tags
  <2> QED BY <2>1, <2>2
<1>5. Written'
  <2>1. uses' \in [Tags -> Pools]
    BY DEF Inv, Written
  <2>2. \E P1, q1 : Writing(P1, q1)'
    OBVIOUS
  <2>3. /\ rec' = 1 /\ at' = 0 /\ line' = 0 /\ upto' = 0 /\ out' = <<>>
        /\ curpath' = FALSE /\ curtag' = 0 /\ cur_lineno' = 0 /\ last_lineno' = 0 /\ fp' = FALSE /\ src' = 0
    BY DEF Inv, Written, cursor, output
  <2> QED BY <2>1, <2>2, <2>3, <1>2, <1>3, <1>4 DEF Written
<1> QED BY <1>1, <1>2, <1>5 DEF Inv

(* What every step that consumes a line starts from.                       *)
LEMMA Consuming ==
  ASSUME Inv, Consume
  PROVE  /\ \E P, q : Writing(P, q)
         /\ tag \in Tags /\ tag' = tag /\ last \in Nat /\ cont \in Nat
         /\ last' \in Nat \ {0} /\ last <= last' /\ (last = 0 => i = 1)
         /\ IsPast' /\ (last # 0 => IsTaken(last))
         /\ \A x : IsTaken(x)' <=> IsTaken(x) \/ x = last'
<1>1. PICK P, q : Writing(P, q)
  BY DEF Inv, Written, Consume
<1>2. TypeOK /\ uses \in [Tags -> Pools] /\ IsPast
  BY <1>1 DEF Inv, Written, Writing, IsAfter
<1> QED BY <1>1, <1>2, Consumed DEF TypeOK, Consume

(* And what it has to come to.                                             *)
LEMMA UseWritten ==
  ASSUME Inv, Consume,
         cont' \in Nat, sb' \in Seq(Token), records' \in [Tags -> Seq(Seq(Token))],
         \A t \in Tags \ {tag} : records'[t] = records[t],
         NEW P, NEW q, Writing(P, q), NEW P2, NEW q2, IsAfter(P2, q2)',
         \A x \in Nat : (HasLine(records[tag], P2, x) \/ IsPending(q2, x))'
                        <=> HasLine(records[tag], P, x) \/ IsPending(q, x) \/ x = last'
  PROVE  Inv'
<1>1. i' \in Nat \ {0} /\ last' \in Nat /\ \A x : IsTaken(x)' <=> IsTaken(x) \/ x = last'
  BY Consuming DEF Inv, TypeOK, Consume
<1>2. phase = "write" /\ UNCHANGED <<phase, tag, uses, cursor, output, fileLen, out>>
  BY DEF Consume
<1>3. ASSUME NEW x \in Nat
      PROVE  (IsTaken(x) <=> HasLine(records[tag], P2, x) \/ IsPending(q2, x))'
  <2>1. IsTaken(x) <=> HasLine(records[tag], P, x) \/ IsPending(q, x)
    BY DEF Writing
  <2> QED BY <2>1, <1>1
<1>4. Writing(P2, q2)'
  BY <1>3 DEF Writing
<1> QED BY <1>1, <1>2, <1>4, WritingOn

LEMMA RepeatStep == Inv /\ Repeat => Inv'
<1> SUFFICES ASSUME Inv, Repeat
             PROVE  Inv'
  OBVIOUS
<1>1. /\ Consume /\ last' = last /\ cont' = cont /\ sb' = sb /\ records' = records
      /\ TypeOK /\ tag' = tag
  BY DEF Repeat, Consume, Inv
<1>2. PICK P, q : Writing(P, q)
  BY <1>1, Consuming
<1>3. last \in Nat \ {0} /\ IsPast' /\ IsTaken(last)
  BY <1>1, Consuming
<1>4. IsAfter(P, q)'
  BY <1>1, <1>2, <1>3 DEF Writing, IsAfter
<1>5. HasLine(records[tag], P, last) \/ IsPending(q, last)
  BY <1>2, <1>3 DEF Writing
<1>6. \A x : /\ HasLine(records[tag], P, x)' <=> HasLine(records[tag], P, x)
             /\ IsPending(q, x)' <=> IsPending(q, x)
  BY <1>1 DEF IsPending, InRange
<1> QED BY <1>1, <1>2, <1>4, <1>5, <1>6, UseWritten DEF TypeOK

LEMMA FollowStep == Inv /\ Follow => Inv'
<1> SUFFICES ASSUME Inv, Follow
             PROVE  Inv'
  OBVIOUS
<1>1. /\ Consume /\ last > 0 /\ last' = last + 1 /\ Prolong /\ records' = records
      /\ TypeOK /\ tag' = tag
  BY DEF Follow, Consume, Inv
<1>2. PICK P, q : Writing(P, q)
  BY <1>1, Consuming
<1>3. /\ last \in Nat /\ last' \in Nat \ {0} /\ IsPast' /\ cont \in Nat
      /\ IsAfter(P, q) /\ Encodes(records[tag], P)
  BY <1>1, <1>2, Consuming DEF Writing, IsAfter
<1>4. CASE cont # 0
  <2>1. cont' = cont /\ sb' = sb /\ cont < last /\ sb # <<>>
    BY <1>1, <1>3, <1>4 DEF Prolong, IsAfter
  <2>2. IsAfter(P, q)'
    BY <1>1, <1>3, <1>4, <2>1 DEF IsAfter
  <2>3. ASSUME NEW x \in Nat
        PROVE  InRange(x)' <=> InRange(x) \/ x = last'
    BY <1>1, <1>3, <1>4, <2>1 DEF InRange
  <2>4. \A x \in Nat : (HasLine(records[tag], P, x) \/ IsPending(q, x))'
                    <=> HasLine(records[tag], P, x) \/ IsPending(q, x) \/ x = last'
    BY <1>1, <2>1, <2>3 DEF IsPending
  <2> QED BY <1>1, <1>2, <2>1, <2>2, <2>4, UseWritten DEF TypeOK
<1>5. CASE cont = 0 /\ sb = <<>>
  <2>1. PICK r, p : /\ sb' = r /\ cont' = 0
                    /\ Decodes(r, p) /\ End(p) = last' /\ p[1] = last'
                    /\ \A x : Covers(r, p, x) <=> x = last'
    <3>1. sb' = <<[sep |-> "head", n |-> last']>> /\ cont' = 0
      BY <1>1, <1>5 DEF Prolong
    <3>2. PICK n \in Nat \ {0} : n = last'
      BY <1>3
    <3> DEFINE r == <<[sep |-> "head", n |-> n]>>
               p == <<n>>
    <3>3. /\ Decodes(r, p) /\ End(p) = n /\ p[1] = n
          /\ \A x : Covers(r, p, x) <=> x = n
      BY DecodesHead
    <3>4. sb' = r
      BY <3>1, <3>2
    <3> HIDE DEF r, p
    <3> QED BY <3>1, <3>2, <3>3, <3>4
  <2>3. r # <<>> /\ r \in Seq(Token)
    BY <2>1, EmptySeq DEF Decodes
  <2>4. \A k \in 1 .. Len(records[tag]) : End(P[k]) < p[1]
    <3> TAKE k \in 1 .. Len(records[tag])
    <3>1. End(P[k]) <= last /\ Decodes(records[tag][k], P[k])
      BY <1>3, <1>5 DEF IsAfter, Encodes
    <3>2. End(P[k]) \in Nat
      BY <3>1, DecodesEnd, Zenon
    <3> QED BY <3>1, <3>2, <1>1, <1>3, <2>1
  <2>5. IsAfter(P, p)'
    BY <1>1, <1>3, <2>1, <2>3, <2>4 DEF IsAfter
  <2>6. \A x \in Nat : (HasLine(records[tag], P, x) \/ IsPending(p, x))'
                    <=> HasLine(records[tag], P, x) \/ IsPending(q, x) \/ x = last'
    BY <1>1, <1>5, <2>1, <2>3 DEF IsPending, InRange
  <2> QED BY <1>1, <1>2, <2>1, <2>3, <2>5, <2>6, UseWritten DEF TypeOK
<1>6. CASE cont = 0 /\ sb # <<>>
  <2>1. sb' = sb /\ cont' = last
    BY <1>1, <1>6 DEF Prolong
  <2>2. IsAfter(P, q)'
    BY <1>1, <1>3, <1>6, <2>1 DEF IsAfter
  <2>3. ASSUME NEW x \in Nat
        PROVE  InRange(x)' <=> InRange(x) \/ x = last'
    BY <1>1, <1>3, <1>6, <2>1 DEF InRange
  <2>4. \A x \in Nat : (HasLine(records[tag], P, x) \/ IsPending(q, x))'
                    <=> HasLine(records[tag], P, x) \/ IsPending(q, x) \/ x = last'
    BY <1>1, <2>1, <2>3 DEF IsPending
  <2> QED BY <1>1, <1>2, <1>3, <2>1, <2>2, <2>4, UseWritten DEF TypeOK
<1> QED BY <1>4, <1>5, <1>6

(* A line that does not follow the last one.                               *)
IsGrown(P, q, n, r, p) ==
  /\ r = IF RangeClosed = <<>>
         THEN <<[sep |-> "head", n |-> n]>>
         ELSE Append(RangeClosed, [sep |-> "comma", n |-> n - last])
  /\ Decodes(r, p) /\ End(p) = n
  /\ \A k \in 1 .. Len(records[tag]) : End(P[k]) < p[1]
  /\ \A x \in Nat : Covers(r, p, x) <=> IsPending(q, x) \/ x = n

LEMMA Growing ==
  ASSUME TypeOK, NEW P, NEW q, IsAfter(P, q), NEW n \in Nat \ {0}, last < n
  PROVE  \E r, p : IsGrown(P, q, n, r, p)
<1>1. last \in Nat /\ Encodes(records[tag], P)
  BY DEF TypeOK, IsAfter
<1>2. CASE sb = <<>>
  <2> DEFINE r == <<[sep |-> "head", n |-> n]>>
             p == <<n>>
  <2>1. /\ Decodes(r, p) /\ End(p) = n /\ p[1] = n
        /\ \A x : Covers(r, p, x) <=> x = n
    BY DecodesHead
  <2>2. RangeClosed = <<>> /\ cont = 0
    BY <1>2, Closed
  <2> HIDE DEF r, p
  <2>3. \A k \in 1 .. Len(records[tag]) : End(P[k]) < p[1]
    <3> TAKE k \in 1 .. Len(records[tag])
    <3>1. End(P[k]) <= last /\ Decodes(records[tag][k], P[k])
      BY <1>1, <1>2 DEF IsAfter, Encodes
    <3>2. End(P[k]) \in Nat
      BY <3>1, DecodesEnd, Zenon
    <3> QED BY <3>1, <3>2, <1>1, <2>1
  <2>4. \A x \in Nat : Covers(r, p, x) <=> IsPending(q, x) \/ x = n
    BY <1>2, <2>1, <2>2 DEF IsPending, InRange
  <2> QED BY <2>1, <2>2, <2>3, <2>4 DEF r, IsGrown
<1>3. CASE sb # <<>>
  <2>1. PICK p : /\ Decodes(RangeClosed, p) /\ End(p) = last /\ p[1] = q[1]
                 /\ \A x \in Nat : Covers(RangeClosed, p, x) <=> Covers(sb, q, x) \/ InRange(x)
    BY <1>3, Closed
  <2>2. PICK d \in Nat \ {0} : d = n - last /\ last + d = n
    BY <1>1
  <2> DEFINE r == Append(RangeClosed, [sep |-> "comma", n |-> d])
             q2 == Append(p, End(p) + d)
  <2>3. Prolongs(RangeClosed, p, r, q2, "comma", d)
    BY <2>1, DecodesMore
  <2>4. RangeClosed # <<>>
    BY <2>1, EmptySeq DEF Decodes
  <2> HIDE DEF r, q2
  <2>5. Decodes(r, q2) /\ End(q2) = n /\ q2[1] = q[1]
    BY <2>1, <2>2, <2>3 DEF Prolongs
  <2>6. \A x \in Nat : Covers(r, q2, x) <=> IsPending(q, x) \/ x = n
    BY <1>3, <2>1, <2>3, <2>5 DEF Prolongs, IsPending
  <2>7. \A k \in 1 .. Len(records[tag]) : End(P[k]) < q2[1]
    BY <1>3, <2>5 DEF IsAfter
  <2>8. r = IF RangeClosed = <<>>
            THEN <<[sep |-> "head", n |-> n]>>
            ELSE Append(RangeClosed, [sep |-> "comma", n |-> n - last])
    BY <2>2, <2>4 DEF r
  <2> QED BY <2>5, <2>6, <2>7, <2>8 DEF IsGrown
<1> QED BY <1>2, <1>3

LEMMA JumpStep == Inv /\ Jump => Inv'
<1> SUFFICES ASSUME Inv, Jump
             PROVE  Inv'
  OBVIOUS
<1>1. /\ Consume /\ last' # last /\ cont' = 0 /\ Split(Grown)
      /\ TypeOK /\ tag' = tag /\ tag \in Tags /\ records \in [Tags -> Seq(Seq(Token))]
  BY DEF Jump, Consume, Inv, TypeOK
<1>2. PICK P, q : Writing(P, q)
  BY <1>1, Consuming
<1>3. /\ last \in Nat /\ last' \in Nat \ {0} /\ last < last' /\ IsPast'
      /\ IsAfter(P, q) /\ Encodes(records[tag], P)
  BY <1>1, <1>2, Consuming DEF Writing, IsAfter
<1>4. PICK n \in Nat \ {0} : n = last' /\ last < n
  BY <1>3
<1>5. PICK r, p : IsGrown(P, q, n, r, p)
  BY <1>1, <1>3, <1>4, Growing
<1>6. Grown = r /\ r \in Seq(Token) /\ r # <<>>
  BY <1>4, <1>5, EmptySeq DEF Grown, Decodes, IsGrown
<1>7. CASE Len(r) > Limit
  <2>1. sb' = <<>> /\ records' = [records EXCEPT ![tag] = Append(@, r)]
    BY <1>1, <1>6, <1>7 DEF Split, PutRecord
  <2>2. records'[tag] = Append(records[tag], r)
    BY <1>1, <2>1
  <2>3. records' \in [Tags -> Seq(Seq(Token))] /\ \A t \in Tags \ {tag} : records'[t] = records[t]
    BY <1>1, <1>6, <2>1
  <2> DEFINE Q == Append(P, p)
  <2>4. /\ Encodes(records'[tag], Q)
        /\ \A x : HasLine(records'[tag], Q, x) <=> HasLine(records[tag], P, x) \/ Covers(r, p, x)
        /\ \A k \in 1 .. Len(records'[tag]) : End(Q[k]) <= n
    <3> DEFINE rs == records[tag]
    <3>1. /\ Encodes(rs, P) /\ Decodes(r, p) /\ End(p) = n
          /\ \A k \in 1 .. Len(rs) : End(P[k]) < p[1]
      BY <1>3, <1>5 DEF IsGrown
    <3> HIDE DEF rs
    <3>2. /\ Encodes(Append(rs, r), Append(P, p))
          /\ \A x : HasLine(Append(rs, r), Append(P, p), x) <=> HasLine(rs, P, x) \/ Covers(r, p, x)
          /\ \A k \in 1 .. Len(Append(rs, r)) : End(Append(P, p)[k]) <= End(p)
      BY <3>1, EncodesMore
    <3>3. records'[tag] = Append(rs, r)
      BY <2>2 DEF rs
    <3> QED BY <3>1, <3>2, <3>3 DEF rs
  <2> HIDE DEF Q
  <2>5. IsAfter(Q, q)'
    BY <1>1, <1>3, <1>4, <2>1, <2>4 DEF IsAfter
  <2>6. \A x \in Nat : (HasLine(records[tag], Q, x) \/ IsPending(q, x))'
                    <=> HasLine(records[tag], P, x) \/ IsPending(q, x) \/ x = last'
    BY <1>1, <1>4, <1>5, <2>1, <2>4 DEF IsGrown, IsPending, InRange
  <2>7. sb' \in Seq(Token)
    BY <2>1
  <2> QED BY <1>1, <1>2, <2>3, <2>5, <2>6, <2>7, UseWritten
<1>8. CASE ~(Len(r) > Limit)
  <2>1. sb' = r /\ records' = records
    BY <1>1, <1>6, <1>8 DEF Split
  <2>2. IsAfter(P, p)'
    BY <1>1, <1>3, <1>4, <1>5, <1>6, <2>1 DEF IsAfter, IsGrown
  <2>3. \A x \in Nat : (HasLine(records[tag], P, x) \/ IsPending(p, x))'
                    <=> HasLine(records[tag], P, x) \/ IsPending(q, x) \/ x = last'
    BY <1>1, <1>4, <1>5, <1>6, <2>1 DEF IsGrown, IsPending, InRange
  <2> QED BY <1>1, <1>2, <1>6, <2>1, <2>2, <2>3, UseWritten
<1> QED BY <1>7, <1>8

(* The records of a tag are complete.                                      *)
LEMMA PoolWritten ==
  ASSUME Inv, EndOfPool
  PROVE  \A t \in Tags : t = tag => AsWritten(t)'
<1>1. /\ TypeOK /\ tag \in Tags /\ i > Len(uses[tag]) /\ uses' = uses
      /\ uses \in [Tags -> Pools] /\ records \in [Tags -> Seq(Seq(Token))] /\ i \in Nat
      /\ IF RangeClosed = <<>> THEN UNCHANGED records ELSE PutRecord(RangeClosed)
  BY DEF Inv, Written, TypeOK, EndOfPool
<1>2. PICK P, q : Writing(P, q)
  BY DEF Inv, Written, EndOfPool
<1>3. IsAfter(P, q) /\ IsPast /\ Encodes(records[tag], P)
  BY <1>2 DEF Writing, IsAfter
<1>4. \A x : IsTaken(x) <=> x \in Uses(tag)
  <2>1. Len(uses[tag]) \in Nat
    BY <1>1, UsesFacts
  <2>2. i - 1 = Len(uses[tag])
    BY <2>1, <1>1, <1>3 DEF IsPast
  <2> QED BY <2>2 DEF IsTaken, Uses
<1>5. \E Q : /\ Encodes(records'[tag], Q)
             /\ \A x \in Nat : HasLine(records'[tag], Q, x) <=> HasLine(records[tag], P, x) \/ IsPending(q, x)
  <2>1. CASE sb = <<>>
    <3>1. RangeClosed = <<>> /\ cont = 0
      BY <1>1, <1>3, <2>1, Closed
    <3> QED BY <1>1, <1>3, <2>1, <3>1 DEF IsPending, InRange
  <2>2. CASE sb # <<>>
    <3>1. PICK p : /\ Decodes(RangeClosed, p) /\ p[1] = q[1]
                   /\ \A x \in Nat : Covers(RangeClosed, p, x) <=> Covers(sb, q, x) \/ InRange(x)
      BY <1>1, <1>3, <2>2, Closed
    <3> DEFINE r == RangeClosed
               rs == records[tag]
               Q == Append(P, p)
    <3>2. r # <<>>
      BY <3>1, EmptySeq DEF Decodes
    <3>3. records'[tag] = Append(rs, r)
      BY <1>1, <3>2 DEF PutRecord
    <3>4. Encodes(rs, P) /\ Decodes(r, p) /\ \A k \in 1 .. Len(rs) : End(P[k]) < p[1]
      BY <1>3, <2>2, <3>1 DEF IsAfter
    <3> HIDE DEF r, rs
    <3>5. /\ Encodes(Append(rs, r), Append(P, p))
          /\ \A x : HasLine(Append(rs, r), Append(P, p), x) <=> HasLine(rs, P, x) \/ Covers(r, p, x)
      BY <3>4, EncodesMore
    <3> HIDE DEF Q
    <3>6. Encodes(records'[tag], Q) /\ \A x : HasLine(records'[tag], Q, x) <=> HasLine(rs, P, x) \/ Covers(r, p, x)
      BY <3>3, <3>5 DEF Q
    <3>7. \A x \in Nat : Covers(r, p, x) <=> IsPending(q, x)
      BY <2>2, <3>1 DEF IsPending, r
    <3> QED BY <3>6, <3>7 DEF rs
  <2> QED BY <2>1, <2>2
<1>6. ASSUME NEW t \in Tags, t = tag
      PROVE  AsWritten(t)'
  <2>1. PICK Q : /\ Encodes(records'[t], Q)
                 /\ \A x \in Nat : HasLine(records'[t], Q, x) <=> HasLine(records[tag], P, x) \/ IsPending(q, x)
    BY <1>5, <1>6
  <2>2. \A x \in Nat : x \in Uses(t)' <=> HasLine(records'[t], Q, x)
    BY <1>1, <1>2, <1>4, <1>6, <2>1 DEF Writing, Uses
  <2> QED BY <2>1, <2>2 DEF AsWritten
<1> QED BY <1>6

LEMMA EndOfPoolStep == Inv /\ EndOfPool => Inv'
<1> SUFFICES ASSUME Inv, EndOfPool
             PROVE  Inv'
  OBVIOUS
<1>1. /\ phase = "write" /\ i' = 1 /\ last' = 0 /\ cont' = 0 /\ sb' = <<>>
      /\ UNCHANGED <<uses, cursor, output, fileLen, out>>
      /\ IF RangeClosed = <<>> THEN UNCHANGED records ELSE PutRecord(RangeClosed)
      /\ \/ tag + 1 \in Tags /\ tag' = tag + 1 /\ phase' = "write"
         \/ tag + 1 \notin Tags /\ tag' = 1 /\ phase' = "search"
  BY DEF EndOfPool
<1>2. TypeOK /\ Written /\ tag \in Tags /\ records \in [Tags -> Seq(Seq(Token))] /\ uses \in [Tags -> Pools]
  BY DEF Inv, TypeOK, Written
<1>3. PICK P, q : IsAfter(P, q)
  BY <1>1, <1>2 DEF Written, Writing
<1>4. RangeClosed # <<>> => RangeClosed \in Seq(Token)
  BY <1>2, <1>3, Closed DEF Decodes
<1>5. records' \in [Tags -> Seq(Seq(Token))] /\ \A t \in Tags \ {tag} : records'[t] = records[t]
  <2>1. CASE RangeClosed = <<>>
    BY <2>1, <1>1, <1>2
  <2>2. CASE RangeClosed # <<>>
    <3> DEFINE r == RangeClosed
    <3>1. r \in Seq(Token) /\ records' = [records EXCEPT ![tag] = Append(@, r)]
      BY <2>2, <1>1, <1>4 DEF PutRecord
    <3> HIDE DEF r
    <3>2. Append(records[tag], r) \in Seq(Seq(Token))
      BY <1>2, <3>1
    <3> QED BY <1>2, <3>1, <3>2
  <2> QED BY <2>1, <2>2
<1>6. TypeOK'
  <2>1. tag' \in Tags
    BY <1>1, TagsAssumption DEF Tags
  <2> QED BY <1>1, <1>2, <1>5, <2>1 DEF TypeOK, cursor, output
<1>7. ASSUME NEW t \in Tags, t <= tag
      PROVE  AsWritten(t)'
  <2>1. CASE t = tag
    BY <2>1, PoolWritten
  <2>2. CASE t # tag
    <3>1. AsWritten(t)
      BY <1>1, <1>2, <1>7, <2>2 DEF Written, Tags
    <3>2. PICK Q : Encodes(records[t], Q) /\ \A x \in Nat : x \in Uses(t) <=> HasLine(records[t], Q, x)
      BY <3>1 DEF AsWritten
    <3>3. records'[t] = records[t] /\ Uses(t)' = Uses(t)
      BY <1>1, <1>5, <2>2 DEF Uses
    <3>4. Encodes(records'[t], Q) /\ \A x \in Nat : x \in Uses(t)' <=> HasLine(records'[t], Q, x)
      BY <3>2, <3>3
    <3> QED BY <3>4 DEF AsWritten
  <2> QED BY <2>1, <2>2
<1>8. Written'
  <2>1. uses' \in [Tags -> Pools]
    BY <1>1, <1>2
  <2>2. phase' = "write" => /\ \A t \in Tags : t > tag' => records'[t] = <<>>
                            /\ \E P1, q1 : Writing(P1, q1)'
    <3> SUFFICES ASSUME tag + 1 \in Tags, tag' = tag + 1
                 PROVE  /\ \A t \in Tags : t > tag' => records'[t] = <<>>
                        /\ \E P1, q1 : Writing(P1, q1)'
      BY <1>1
    <3>1. \A t \in Tags : t > tag => records'[t] = <<>>
      BY <1>1, <1>2, <1>5 DEF Written, Tags
    <3>2. records'[tag'] = <<>>
      BY <1>2, <3>1 DEF Tags
    <3>3. Len(uses'[tag']) \in Nat
      BY <1>1, <1>2, UsesFacts
    <3>4. IsAfter(<<>>, <<>>)'
      BY <1>1, <3>2, <3>3, EncodesNone, EmptySeq DEF IsAfter, IsPast
    <3>5. \A x : ~IsTaken(x)' /\ ~IsPending(<<>>, x)' /\ ~HasLine(records[tag], <<>>, x)'
      BY <1>1, <3>2, EncodesNone DEF IsTaken, IsPending, InRange
    <3>6. Writing(<<>>, <<>>)'
      BY <3>4, <3>5 DEF Writing
    <3> QED BY <1>2, <3>1, <3>6 DEF Tags
  <2>3. \A t \in Tags : (phase' = "write" /\ t < tag') \/ phase' = "search" => AsWritten(t)'
    <3> SUFFICES ASSUME NEW t \in Tags, (phase' = "write" /\ t < tag') \/ phase' = "search"
                 PROVE  t <= tag
      BY <1>7
    <3> QED BY <1>1, <1>2, TagsAssumption DEF Tags
  <2>4. /\ rec' = 1 /\ at' = 0 /\ line' = 0 /\ upto' = 0 /\ out' = <<>>
        /\ curpath' = FALSE /\ curtag' = 0 /\ cur_lineno' = 0 /\ last_lineno' = 0 /\ fp' = FALSE /\ src' = 0
    BY <1>1, <1>2 DEF Written, cursor, output
  <2>5. phase' \in {"write", "search"} /\ (phase' = "search" => tag' = 1)
    BY <1>1
  <2> QED BY <2>1, <2>2, <2>3, <2>4, <2>5 DEF Written
<1> QED BY <1>1, <1>6, <1>8 DEF Inv

-----------------------------------------------------------------------------
(* search()                                                                *)

LEMMA UsesAreLines ==
  ASSUME uses \in [Tags -> Pools], NEW t \in Tags
  PROVE  \A x \in Uses(t) : x \in Nat \ {0}
BY UsesFacts DEF Uses

LEMMA SearchStep == Inv /\ Search => Inv'
<1> SUFFICES ASSUME Inv, Search
             PROVE  Inv'
  OBVIOUS
<1>1. PICK r \in [Tags -> UNION {Segment(records[t]) : t \in Tags}] :
         records' = r /\ \A t \in Tags : r[t] \in Segment(records[t])
  BY DEF Search
<1>2. /\ phase = "search" /\ phase' = "read" /\ TypeOK /\ Written /\ tag' = 1 /\ 1 \in Tags
      /\ UNCHANGED <<tag, uses, i, last, cont, sb, cursor, output, fileLen, out>>
  BY TagsAssumption DEF Search, Inv, Written, Tags
<1>3. /\ rec' = 1 /\ at' = 0 /\ line' = 0 /\ upto' = 0 /\ out' = <<>>
      /\ curpath' = FALSE /\ curtag' = 0 /\ cur_lineno' = 0 /\ last_lineno' = 0 /\ fp' = FALSE /\ src' = 0
      /\ uses' \in [Tags -> Pools]
  BY <1>2 DEF Written, cursor, output
<1>4. TypeOK'
  <2>1. ASSUME NEW t \in Tags
        PROVE  r[t] \in Seq(Seq(Token))
    <3>1. r[t] \in Orders(records[t]) /\ records[t] \in Seq(Seq(Token))
      BY <1>1, <1>2 DEF Segment, TypeOK
    <3> QED BY <3>1, OrdersAreRecords
  <2>2. records' \in [Tags -> Seq(Seq(Token))]
    BY <1>1, <2>1
  <2> QED BY <1>2, <2>2 DEF TypeOK, cursor, output
<1>5. ASSUME Filtered, NEW t \in Tags
      PROVE  AsWritten(t)'
  <2> DEFINE rs == records[t]
             ss == r[t]
  <2>1. PICK P : Encodes(rs, P) /\ \A x \in Nat : x \in Uses(t) <=> HasLine(rs, P, x)
    BY <1>2 DEF Written, AsWritten
  <2>2. ss \in Segment(rs) /\ ss = records'[t]
    BY <1>1
  <2> HIDE DEF rs, ss
  <2>3. PICK Q : Encodes(ss, Q) /\ \A x : HasLine(ss, Q, x) <=> HasLine(rs, P, x)
    BY <1>5, <2>1, <2>2, SegmentEncodes
  <2>4. Uses(t)' = Uses(t)
    BY <1>2 DEF Uses
  <2> QED BY <2>1, <2>2, <2>3, <2>4 DEF AsWritten
<1>6. Written'
  BY <1>2, <1>3, <1>5 DEF Written
<1>7. InRecord'
  BY <1>3 DEF InRecord
<1>8. \A t, x : ~IsShown(t, x)'
  BY <1>3, EmptySeq DEF IsShown
<1>9. ASSUME Filtered
      PROVE  Printed'
  <2>1. PICK P : Encodes(records'[1], P) /\ \A x \in Nat : x \in Uses(1)' <=> HasLine(records'[1], P, x)
    BY <1>2, <1>5, <1>9 DEF AsWritten
  <2>2. \A x \in Uses(1)' : x \in Nat \ {0}
    BY <1>2, <1>3, UsesAreLines DEF Uses
  <2>3. Reached(P)' = 0
    BY <1>3 DEF Reached
  <2>4. Uses(tag)' = Uses(1)'
    BY <1>2 DEF Uses
  <2>5. IsAt(P)'
    BY <1>2, <1>3, <1>8, <2>1, <2>2, <2>3, <2>4 DEF IsAt
  <2>6. \A t \in Tags : ~(t < tag')
    BY <1>2 DEF Tags
  <2> QED BY <1>2, <1>3, <1>8, <2>5, <2>6, EmptySeq DEF Printed
<1>10. Texts'
  BY <1>2, <1>3, EmptySeq DEF Texts, OwnText
<1> QED BY <1>4, <1>6, <1>7, <1>9, <1>10 DEF Inv

-----------------------------------------------------------------------------
(* put_compact_format()                                                    *)

LEMMA WrittenStays ==
  ASSUME Inv, phase = "read", phase' \in {"read", "done"}, UNCHANGED writer
  PROVE  Written' /\ \A t \in Tags : Uses(t)' = Uses(t)
<1>1. uses' = uses /\ records' = records /\ uses \in [Tags -> Pools]
  BY DEF writer, Inv, Written
<1>2. \A t \in Tags : Uses(t)' = Uses(t)
  BY <1>1 DEF Uses
<1>3. ASSUME Filtered, NEW t \in Tags
      PROVE  AsWritten(t)'
  <2>1. PICK P : Encodes(records[t], P) /\ \A x \in Nat : x \in Uses(t) <=> HasLine(records[t], P, x)
    BY <1>3 DEF Inv, Written, AsWritten
  <2>2. Encodes(records'[t], P) /\ \A x \in Nat : x \in Uses(t)' <=> HasLine(records'[t], P, x)
    BY <1>1, <1>2, <2>1
  <2> QED BY <2>2 DEF AsWritten
<1> QED BY <1>1, <1>2, <1>3 DEF Written

(* What is known where a number of a record is read.                       *)
LEMMA Reading ==
  ASSUME Inv, Filtered, phase = "read", NEW P, IsAt(P)
  PROVE  /\ Encodes(records[tag], P) /\ tag \in Tags /\ rec \in 1 .. Len(records[tag])
         /\ Decodes(records[tag][rec], P[rec])
         /\ Reached(P) \in Nat
<1>1. TypeOK /\ InRecord /\ Written /\ tag \in Tags /\ rec \in Nat \ {0} /\ at \in Nat /\ line \in Nat
  BY DEF Inv, TypeOK
<1>2. Encodes(records[tag], P)
  BY DEF IsAt
<1> DEFINE rs == records[tag]
           m == Len(rs)
<1>3. m \in Nat /\ \A k \in 1 .. m : Decodes(rs[k], P[k])
  BY <1>2, LenProperties DEF Encodes
<1>4. m # 0
  <2>1. Len(uses[tag]) \in Nat \ {0} /\ uses[tag][1] \in Nat
    BY <1>1, UsesFacts DEF Written
  <2>2. uses[tag][1] \in Uses(tag)
    BY <2>1 DEF Uses
  <2>3. HasLine(rs, P, uses[tag][1])
    BY <2>1, <2>2 DEF IsAt
  <2> QED BY <2>3, <1>3 DEF HasLine
<1>5. rec <= m
  BY <1>1, <1>3, <1>4 DEF InRecord, IsAt
<1> HIDE DEF m
<1>6. rec \in 1 .. m /\ (rec # 1 => rec - 1 \in 1 .. m)
  BY <1>1, <1>3, <1>5
<1>7. rec # 1 => End(P[rec - 1]) \in Nat
  <2> SUFFICES ASSUME rec # 1
               PROVE  End(P[rec - 1]) \in Nat
    OBVIOUS
  <2> DEFINE q == P[rec - 1]
             s == rs[rec - 1]
  <2>1. Decodes(s, q)
    BY <1>3, <1>6
  <2> HIDE DEF q, s
  <2>2. End(q) \in Nat
    BY <2>1, DecodesEnd
  <2> QED BY <2>2 DEF q
<1>8. Reached(P) \in Nat
  BY <1>1, <1>7 DEF Reached
<1> QED BY <1>1, <1>2, <1>3, <1>6, <1>8 DEF m

(* A line is shown that is the next use of the tag.                        *)
LEMMA ShowNext ==
  ASSUME Inv, Filtered, phase = "read", NEW P, IsAt(P), NEW n \in Nat \ {0}, Show(n),
         n \in Uses(tag), Reached(P) < n,
         \A x \in Nat : x \in Uses(tag) /\ x < n => x <= Reached(P)
  PROVE  /\ \A t \in Tags \ {tag} : \A x : IsShown(t, x)' <=> IsShown(t, x)
         /\ \A x \in Nat : (IsShown(tag, x) <=> x \in Uses(tag) /\ x <= n)'
         /\ (\A j, k \in 1 .. Len(out) : j < k /\ out[j].tag = out[k].tag => out[j].line < out[k].line)'
<1> DEFINE m == Len(out)
           e == [tag |-> tag, line |-> n, text |-> src', open |-> opened]
<1>1. /\ out' = Append(out, e) /\ tag' = tag /\ Uses(tag)' = Uses(tag) /\ tag \in Tags
      /\ out \in Seq(Shown) /\ Reached(P) \in Nat
  BY Reading DEF Show, writer, Inv, TypeOK, Uses
<1>2. e.tag = tag /\ e.line = n
  OBVIOUS
<1> HIDE DEF e
<1>3. m \in Nat /\ Len(out') = m + 1 /\ out'[m + 1] = e /\ \A k \in 1 .. m : out'[k] = out[k]
  BY <1>1, AppendProperties, LenProperties
<1>4. \A k \in 1 .. m : out[k].line \in Nat
  <2>1. \A k \in 1 .. m : out[k] \in Shown
    BY <1>1, ElementOfSeq
  <2> QED BY <2>1 DEF Shown
<1>5. \A k \in 1 .. m + 1 : k \in 1 .. m \/ k = m + 1
  BY <1>3
<1>6. m + 1 \in 1 .. m + 1 /\ \A k \in 1 .. m : k \in 1 .. m + 1
  BY <1>3
<1>7. \A t, x : IsShown(t, x)' <=> IsShown(t, x) \/ (t = tag /\ x = n)
  <2> SUFFICES ASSUME NEW t, NEW x
               PROVE  IsShown(t, x)' <=> IsShown(t, x) \/ (t = tag /\ x = n)
    OBVIOUS
  <2>1. IsShown(t, x) <=> \E k \in 1 .. m : out[k].tag = t /\ out[k].line = x
    BY DEF IsShown
  <2>2. IsShown(t, x)' <=> \E k \in 1 .. m + 1 : out'[k].tag = t /\ out'[k].line = x
    BY <1>3 DEF IsShown
  <2> HIDE DEF m
  <2> QED BY <2>1, <2>2, <1>2, <1>3, <1>5, <1>6
<1>8. \A x \in Nat : IsShown(tag, x) <=> x \in Uses(tag) /\ x <= Reached(P)
  BY DEF IsAt
<1>9. ASSUME NEW x \in Nat
      PROVE  IsShown(tag, x)' <=> x \in Uses(tag) /\ x <= n
  <2>1. IsShown(tag, x)' <=> IsShown(tag, x) \/ x = n
    <3>1. PICK t : t = tag
      OBVIOUS
    <3>2. IsShown(tag, x)' <=> IsShown(t, x)'
      BY <3>1, <1>1 DEF IsShown
    <3> QED BY <3>1, <3>2, <1>7
  <2> QED BY <2>1, <1>1, <1>8
<1>10. ASSUME NEW j \in 1 .. m + 1, NEW k \in 1 .. m + 1, j < k, out'[j].tag = out'[k].tag
       PROVE  out'[j].line < out'[k].line
  <2>1. j \in 1 .. m
    BY <1>3, <1>10
  <2>2. CASE k \in 1 .. m
    BY <2>1, <2>2, <1>3, <1>10 DEF Inv, Printed
  <2>3. CASE k = m + 1
    <3>1. out[j].tag = tag /\ out[j].line \in Nat
      BY <2>1, <2>3, <1>2, <1>3, <1>4, <1>10
    <3>2. IsShown(tag, out[j].line)
      BY <2>1, <3>1 DEF IsShown
    <3>3. out[j].line <= Reached(P)
      BY <3>1, <3>2, <1>8
    <3> QED BY <2>1, <2>3, <3>1, <3>3, <1>1, <1>2, <1>3
  <2> QED BY <2>2, <2>3, <1>5
<1> QED BY <1>1, <1>3, <1>7, <1>9, <1>10

LEMMA ShowPrinted ==
  ASSUME Inv, Filtered, phase = "read", NEW P, IsAt(P), NEW n \in Nat \ {0}, Show(n),
         n \in Uses(tag), Reached(P) < n,
         \A x \in Nat : x \in Uses(tag) /\ x < n => x <= Reached(P),
         at' \in Nat, at' >= 2, upto' \in Nat,
         upto' = 0 => n = P[rec][at' - 1],
         upto' > 0 => /\ at' >= 3 /\ records[tag][rec][at' - 1].sep = "dash"
                      /\ upto' = P[rec][at' - 1] /\ P[rec][at' - 2] < n /\ n <= upto'
  PROVE  Printed'
<1>1. /\ phase' = "read" /\ tag' = tag /\ records' = records /\ rec' = rec /\ line' = n /\ uses' = uses
      /\ \A t : Uses(t)' = Uses(t)
  BY DEF Show, writer, Uses
<1>2. /\ \A t \in Tags \ {tag} : \A x : IsShown(t, x)' <=> IsShown(t, x)
      /\ \A x \in Nat : (IsShown(tag, x) <=> x \in Uses(tag) /\ x <= n)'
      /\ (\A j, k \in 1 .. Len(out) : j < k /\ out[j].tag = out[k].tag => out[j].line < out[k].line)'
  BY ShowNext
<1>3. IsAt(P)'
  <2>1. Encodes(records[tag], P)' /\ \A x \in Nat : (x \in Uses(tag) <=> HasLine(records[tag], P, x))'
    BY <1>1 DEF IsAt, Uses
  <2>2. Reached(P)' = n
    BY <1>1 DEF Reached
  <2>3. \A x \in Nat : (IsShown(tag, x) <=> x \in Uses(tag) /\ x <= Reached(P))'
    BY <1>2, <2>2
  <2>4. (at = 0 /\ rec > 1 => rec <= Len(records[tag]) /\ line = End(P[rec - 1]))' /\ (at = 1 => line = 0)'
    OBVIOUS
  <2>5. (at >= 2 /\ upto = 0 => line = P[rec][at - 1])'
    BY <1>1
  <2>6. (upto > 0 => /\ at >= 3 /\ records[tag][rec][at - 1].sep = "dash"
                     /\ upto = P[rec][at - 1] /\ P[rec][at - 2] < line /\ line <= upto)'
    BY <1>1
  <2> QED BY <2>1, <2>3, <2>4, <2>5, <2>6 DEF IsAt
<1>4. Printed /\ tag \in Tags
  BY DEF Inv, TypeOK
<1>5. ASSUME NEW t \in Tags, t < tag, NEW x \in Nat
      PROVE  IsShown(t, x)' <=> x \in Uses(t)'
  <2>1. t # tag
    BY <1>4, <1>5 DEF Tags
  <2> QED BY <2>1, <1>1, <1>2, <1>4, <1>5 DEF Printed
<1>6. ASSUME NEW t \in Tags, t > tag, NEW x \in Nat
      PROVE  ~IsShown(t, x)'
  <2>1. t # tag
    BY <1>4, <1>6 DEF Tags
  <2> QED BY <2>1, <1>2, <1>4, <1>6 DEF Printed
<1> QED BY <1>1, <1>2, <1>3, <1>5, <1>6 DEF Printed

(* Its text is that of the line, or the source file ends above it.         *)
LEMMA ShowText ==
  ASSUME Inv, Filtered, phase = "read", NEW n \in Nat \ {0}, Show(n),
         at # 0, at' \in Nat, at' >= 2, last_lineno < n, fp => cur_lineno <= n
  PROVE  Texts'
<1> DEFINE m == Len(out)
           e == [tag |-> tag, line |-> n, text |-> src', open |-> opened]
<1>1. /\ phase' = "read" /\ tag' = tag /\ opened' = opened /\ curpath' = curpath /\ curtag' = curtag /\ fileLen' = fileLen
      /\ line' = n /\ last_lineno' = n /\ out' = Append(out, e) /\ out \in Seq(Shown) /\ Texts
      /\ cur_lineno \in Nat /\ last_lineno \in Nat /\ fileLen \in Nat /\ fp \in BOOLEAN
      /\ \/ /\ fp /\ cur_lineno < n
            /\ \/ n <= fileLen /\ cur_lineno' = n /\ src' = n /\ fp' = fp
               \/ n > fileLen /\ cur_lineno' = fileLen /\ src' = 0 /\ fp' = FALSE
         \/ /\ ~(fp /\ cur_lineno < n)
            /\ cur_lineno' = cur_lineno /\ src' = src /\ fp' = fp
  BY DEF Show, Inv, TypeOK
<1>2. e.line = n /\ e.text = src' /\ e.open = opened
  OBVIOUS
<1> HIDE DEF e
<1>3. m \in Nat /\ Len(out') = m + 1 /\ out'[m + 1] = e /\ \A k \in 1 .. m : out'[k] = out[k]
  BY <1>1, AppendProperties, LenProperties
<1>4. m + 1 \in 1 .. m + 1 /\ \A k \in 1 .. m : k \in 1 .. m + 1
  BY <1>3
<1>5. curpath
  BY <1>1 DEF Texts
<1>6. ASSUME \E k \in 1 .. m : out[k].line > fileLen
      PROVE  \E k \in 1 .. m + 1 : out'[k].line > fileLen
  BY <1>6, <1>3, <1>4
<1>7. \/ fp' /\ cur_lineno' = n /\ src' = n /\ n <= fileLen
      \/ ~fp' /\ src' = 0 /\ \E k \in 1 .. m + 1 : out'[k].line > fileLen
      \/ ~fp' /\ ~opened
  <2>1. CASE fp /\ cur_lineno < n /\ n <= fileLen
    <3>1. ~(n > fileLen)
      BY <2>1, <1>1
    <3>2. cur_lineno' = n /\ src' = n /\ fp' = fp
      BY <1>1, <2>1, <3>1, Zenon
    <3>3. fp'
      BY <2>1, <3>2, Zenon
    <3> QED BY <2>1, <3>2, <3>3
  <2>2. CASE fp /\ cur_lineno < n /\ n > fileLen
    BY <1>1, <1>2, <1>3, <1>4, <2>2
  <2>3. CASE fp /\ ~(cur_lineno < n)
    <3>1. cur_lineno = n
      BY <1>1, <2>3
    <3> QED BY <1>1, <2>3, <3>1 DEF Texts
  <2>4. CASE ~fp
    BY <1>1, <1>5, <1>6, <2>4 DEF Texts
  <2> QED BY <1>1, <2>1, <2>2, <2>3, <2>4
<1>8. OwnText'
  <2> SUFFICES ASSUME NEW j \in 1 .. m + 1
               PROVE  \/ out'[j].text = out'[j].line
                      \/ out'[j].text = 0 /\ \E k \in 1 .. j : out'[k].line > fileLen'
                      \/ ~out'[j].open
    BY <1>3 DEF OwnText
  <2>1. CASE j = m + 1
    BY <2>1, <1>1, <1>2, <1>3, <1>7
  <2>2. CASE j # m + 1
    <3>1. j \in 1 .. m /\ \A k \in 1 .. j : k \in 1 .. m
      BY <1>3, <2>2
    <3>2. \/ out[j].text = out[j].line
          \/ out[j].text = 0 /\ \E k \in 1 .. j : out[k].line > fileLen
          \/ ~out[j].open
      BY <1>1, <3>1 DEF Texts, OwnText
    <3> QED BY <1>1, <1>3, <3>1, <3>2
  <2> QED BY <2>1, <2>2
<1>9. curtag' <= tag'
  BY <1>1 DEF Texts
<1> QED BY <1>1, <1>3, <1>5, <1>7, <1>8, <1>9 DEF Texts

LEMMA ShowTyped ==
  ASSUME TypeOK, NEW n \in Nat, Show(n), at' \in Nat, upto' \in Nat
  PROVE  TypeOK'
<1>1. /\ UNCHANGED <<phase, tag, writer, rec, curpath, curtag, opened, fileLen>> /\ line' = n /\ last_lineno' = n
      /\ out' = Append(out, [tag |-> tag, line |-> n, text |-> src', open |-> opened])
      /\ cur_lineno' \in Nat /\ src' \in Nat /\ fp' \in BOOLEAN
  <2>1. cur_lineno \in Nat /\ src \in Nat /\ fileLen \in Nat /\ fp \in BOOLEAN
    BY DEF TypeOK
  <2>2. fp' \in BOOLEAN
    BY <2>1, Zenon DEF Show
  <2>3. cur_lineno' \in Nat /\ src' \in Nat
    BY <2>1 DEF Show
  <2> QED BY <2>2, <2>3 DEF Show
<1>2. [tag |-> tag, line |-> n, text |-> src', open |-> opened] \in Shown
  BY <1>1 DEF Shown, TypeOK
<1>3. out' \in Seq(Shown)
  BY <1>1, <1>2 DEF TypeOK
<1> QED BY <1>1, <1>3 DEF TypeOK, writer

(* What a step that shows a line has to come to.                           *)
LEMMA ShowStep ==
  ASSUME Inv, phase = "read", NEW n \in Nat, Show(n), at' \in Nat, at' >= 2, upto' \in Nat,
         rec <= Len(records[tag]), at' <= Len(records[tag][rec]) + 1,
         Filtered => Printed' /\ Texts'
  PROVE  Inv'
<1>1. TypeOK'
  BY ShowTyped DEF Inv
<1>2. UNCHANGED <<phase, tag, writer, rec>>
  BY DEF Show
<1>3. Written'
  BY <1>2, WrittenStays
<1>4. InRecord'
  BY <1>2 DEF InRecord, writer
<1> QED BY <1>1, <1>2, <1>3, <1>4 DEF Inv

LEMMA Fetched ==
  ASSUME Inv, NEW sep, Fetch(sep)
  PROVE  /\ phase = "read" /\ upto = 0 /\ at \in Nat \ {0} /\ at' = at + 1
         /\ rec \in 1 .. Len(records[tag]) /\ at \in 1 .. Len(records[tag][rec])
         /\ records[tag][rec][at].sep = sep /\ Number \in Nat /\ line \in Nat
         /\ at' <= Len(records[tag][rec]) + 1
<1>1. /\ phase = "read" /\ upto = 0 /\ at \in 1 .. Len(records[tag][rec]) /\ at' = at + 1
      /\ records[tag][rec][at].sep = sep
      /\ TypeOK /\ InRecord
  BY DEF Fetch, Inv
<1>2. at \in Nat /\ rec \in Nat \ {0} /\ records[tag] \in Seq(Seq(Token)) /\ line \in Nat
  BY <1>1 DEF TypeOK
<1>3. rec \in 1 .. Len(records[tag])
  BY <1>1, <1>2, LenProperties DEF InRecord
<1>4. records[tag][rec] \in Seq(Token)
  BY <1>2, <1>3, ElementOfSeq
<1>5. records[tag][rec][at] \in Token /\ Len(records[tag][rec]) \in Nat
  BY <1>1, <1>4, ElementOfSeq, LenProperties
<1>6. Number \in Nat
  BY <1>5 DEF Token, Number
<1> QED BY <1>1, <1>2, <1>3, <1>5, <1>6

LEMMA FetchedLine ==
  ASSUME Inv, Filtered, NEW sep, Fetch(sep), NEW P, IsAt(P)
  PROVE  /\ P[rec][at] \in Nat \ {0} /\ P[rec][at] \in Uses(tag)
         /\ at = 1 => sep = "head" /\ P[rec][at] = Number
         /\ at # 1 => /\ sep # "head" /\ line = P[rec][at - 1] /\ Reached(P) = line
                      /\ P[rec][at] = line + Number
         /\ Reached(P) \in Nat /\ Reached(P) < P[rec][at]
         /\ sep # "dash" => \A x \in Nat : x \in Uses(tag) /\ x < P[rec][at] => x <= Reached(P)
         /\ sep = "dash" => \A x \in Nat : line < x /\ x <= P[rec][at] => x \in Uses(tag)
         /\ last_lineno < P[rec][at]
         /\ at # 1 => last_lineno = line /\ (fp => cur_lineno = line)
         /\ at = 1 /\ fp => cur_lineno <= P[rec][at]
<1> DEFINE rs == records[tag]
           r == rs[rec]
           p == P[rec]
           m == Len(r)
<1>1. /\ phase = "read" /\ upto = 0 /\ at \in Nat \ {0} /\ at \in 1 .. m /\ rec \in 1 .. Len(rs)
      /\ r[at].sep = sep /\ Number = r[at].n /\ Number \in Nat /\ line \in Nat
  BY Fetched DEF Number
<1>2. Encodes(rs, P) /\ Decodes(r, p) /\ Reached(P) \in Nat
  BY <1>1, Reading
<1>3. \A x \in Nat : x \in Uses(tag) <=> HasLine(rs, P, x)
  BY DEF IsAt
<1>4. \A x \in Nat : Covers(r, p, x) => x \in Uses(tag)
  BY <1>1, <1>3 DEF HasLine
<1>5. sep # "dash" => \A x \in Nat : x \in Uses(tag) /\ x < p[at] =>
                         /\ at = 1 => rec > 1 /\ x <= End(P[rec - 1])
                         /\ at > 1 => x <= p[at - 1]
  BY <1>1, <1>2, <1>3, NextNumber
<1>6. at = 1 => Reached(P) = IF rec = 1 THEN 0 ELSE End(P[rec - 1])
  BY DEF Reached
<1>7. rec # 1 => End(P[rec - 1]) < p[1]
  <2>1. Len(rs) \in Nat
    BY <1>2, LenProperties DEF Encodes
  <2>2. rec # 1 => rec - 1 \in 1 .. Len(rs) /\ rec - 1 < rec
    BY <1>1, <2>1
  <2> QED BY <1>1, <1>2, <2>2 DEF Encodes
<1>8. at # 1 => line = p[at - 1] /\ Reached(P) = line
  <2>1. at # 1 => at >= 2
    BY <1>1
  <2> QED BY <2>1, <1>1 DEF IsAt, Reached
<1>9. Texts /\ last_lineno \in Nat /\ cur_lineno \in Nat
  BY <1>1 DEF Inv, TypeOK
<1>10. curpath
  BY <1>1, <1>9 DEF Texts
<1>11. at = 1 => last_lineno < r[1].n /\ (fp => cur_lineno <= r[1].n)
  BY <1>9 DEF Texts
<1>12. at # 1 => last_lineno = line /\ (fp => cur_lineno = line)
  BY <1>9, <1>10 DEF Texts
<1> HIDE DEF rs, r, p
<1>13. /\ m \in Nat \ {0}
       /\ \A j \in 1 .. m : p[j] \in Nat /\ p[1] <= p[j] /\ p[1] \in Nat \ {0}
  BY <1>2, DecodesEnd
<1>14. p[at] \in Nat \ {0} /\ p[at] \in Uses(tag)
  <2>1. p[at] \in Nat \ {0}
    BY <1>1, <1>13
  <2>2. Covers(r, p, p[at])
    BY <1>1 DEF Covers
  <2> QED BY <2>1, <2>2, <1>4
<1>15. at = 1 => sep = "head" /\ p[at] = Number /\ p[1] = r[1].n
  BY <1>1, <1>2 DEF Decodes
<1>16. ASSUME at # 1
       PROVE  /\ sep # "head" /\ p[at] = line + Number /\ line < p[at] /\ at > 1
              /\ sep = "dash" => \A x \in Nat : line < x /\ x <= p[at] => x \in Uses(tag)
  <2>1. at \in 2 .. m /\ at - 1 \in 1 .. m /\ at - 1 < at
    BY <1>1, <1>13, <1>16
  <2>2. /\ r[at].sep \in {"comma", "dash"} /\ p[at] = p[at - 1] + r[at].n
        /\ p[at - 1] < p[at]
    BY <1>1, <1>2, <2>1 DEF Decodes
  <2>3. sep = "dash" => \A x \in Nat : line < x /\ x <= p[at] => Covers(r, p, x)
    BY <1>1, <1>8, <1>16, <2>1 DEF Covers
  <2> QED BY <1>1, <1>4, <1>8, <1>16, <2>1, <2>2, <2>3
<1>17. Reached(P) < p[at]
  <2>1. CASE at = 1
    BY <2>1, <1>6, <1>7, <1>14
  <2>2. CASE at # 1
    BY <2>2, <1>8, <1>16
  <2> QED BY <2>1, <2>2
<1>18. sep # "dash" => \A x \in Nat : x \in Uses(tag) /\ x < p[at] => x <= Reached(P)
  <2>1. CASE at = 1
    BY <2>1, <1>5, <1>6
  <2>2. CASE at # 1
    BY <2>2, <1>5, <1>8, <1>16
  <2> QED BY <2>1, <2>2
<1>19. last_lineno < p[at] /\ (at = 1 /\ fp => cur_lineno <= p[at])
  BY <1>11, <1>12, <1>15, <1>16
<1>20. sep = "dash" => \A x \in Nat : line < x /\ x <= p[at] => x \in Uses(tag)
  BY <1>15, <1>16
<1> QED BY <1>2, <1>8, <1>12, <1>14, <1>15, <1>16, <1>17, <1>18, <1>19, <1>20 DEF p

(* The first number of a record and the number of a line after a gap.      *)
LEMMA NumberStep ==
  ASSUME Inv, NEW sep \in {"head", "comma"}, Fetch(sep), NEW n \in Nat, Show(n), upto' = upto,
         n = IF sep = "head" THEN Number ELSE line + Number
  PROVE  Inv'
<1>1. /\ phase = "read" /\ upto = 0 /\ at \in Nat \ {0} /\ at' = at + 1
      /\ rec \in 1 .. Len(records[tag]) /\ at' <= Len(records[tag][rec]) + 1
      /\ Number \in Nat /\ line \in Nat
  BY Fetched
<1>2. ASSUME Filtered
      PROVE  Printed' /\ Texts'
  <2>1. PICK P : IsAt(P)
    BY <1>1, <1>2 DEF Inv, Printed
  <2>2. /\ P[rec][at] \in Nat \ {0} /\ P[rec][at] \in Uses(tag)
        /\ Reached(P) \in Nat /\ Reached(P) < P[rec][at]
        /\ sep # "dash" => \A x \in Nat : x \in Uses(tag) /\ x < P[rec][at] => x <= Reached(P)
        /\ last_lineno < P[rec][at]
        /\ at = 1 => sep = "head" /\ P[rec][at] = Number
        /\ at # 1 => sep # "head" /\ P[rec][at] = line + Number
        /\ at # 1 => last_lineno = line /\ (fp => cur_lineno = line)
        /\ at = 1 /\ fp => cur_lineno <= P[rec][at]
    BY <1>2, <2>1, FetchedLine
  <2>3. n = P[rec][at]
    BY <2>2
  <2>4. n \in Nat \ {0} /\ n \in Uses(tag) /\ Reached(P) < n /\ last_lineno < n
    BY <2>2, <2>3
  <2>5. \A x \in Nat : x \in Uses(tag) /\ x < n => x <= Reached(P)
    BY <2>2, <2>3
  <2>6. at' \in Nat /\ at' >= 2 /\ at' - 1 = at /\ upto' = 0 /\ at # 0
    BY <1>1
  <2>7. fp => cur_lineno <= n
    BY <2>2, <2>3, <1>1
  <2>8. Printed'
    BY <1>1, <1>2, <2>1, <2>3, <2>4, <2>5, <2>6, ShowPrinted
  <2>9. Texts'
    BY <1>1, <1>2, <2>4, <2>6, <2>7, ShowText
  <2> QED BY <2>8, <2>9
<1> QED BY <1>1, <1>2, ShowStep

LEMMA FirstStep == Inv /\ First => Inv'
<1> SUFFICES ASSUME Inv, First
             PROVE  Inv'
  OBVIOUS
<1>1. Fetch("head") /\ Show(Number) /\ upto' = upto
  BY DEF First
<1>2. PICK n \in Nat : n = Number
  BY <1>1, Fetched
<1> QED BY <1>1, <1>2, NumberStep

LEMMA GapStep == Inv /\ Gap => Inv'
<1> SUFFICES ASSUME Inv, Gap
             PROVE  Inv'
  OBVIOUS
<1>1. Fetch("comma") /\ Show(line + Number) /\ upto' = upto
  BY DEF Gap
<1>2. PICK n \in Nat : n = line + Number
  BY <1>1, Fetched
<1> QED BY <1>1, <1>2, NumberStep

(* The start of a range.                                                   *)
LEMMA StartStep == Inv /\ Start => Inv'
<1> SUFFICES ASSUME Inv, Start
             PROVE  Inv'
  OBVIOUS
<1>1. Fetch("dash") /\ Show(line + 1) /\ upto' = line + Number
  BY DEF Start
<1>2. /\ phase = "read" /\ upto = 0 /\ at \in Nat \ {0} /\ at' = at + 1
      /\ rec \in 1 .. Len(records[tag]) /\ at' <= Len(records[tag][rec]) + 1
      /\ records[tag][rec][at].sep = "dash"
      /\ Number \in Nat /\ line \in Nat
  BY <1>1, Fetched
<1>3. PICK n \in Nat \ {0} : n = line + 1
  BY <1>2
<1>4. ASSUME Filtered
      PROVE  Printed' /\ Texts'
  <2>1. PICK P : IsAt(P)
    BY <1>2, <1>4 DEF Inv, Printed
  <2>2. /\ P[rec][at] \in Nat \ {0}
        /\ Reached(P) \in Nat /\ Reached(P) < P[rec][at]
        /\ \A x \in Nat : line < x /\ x <= P[rec][at] => x \in Uses(tag)
        /\ at # 1
        /\ line = P[rec][at - 1] /\ Reached(P) = line /\ P[rec][at] = line + Number
        /\ last_lineno = line /\ (fp => cur_lineno = line)
    BY <1>1, <1>4, <2>1, FetchedLine
  <2>3. n <= P[rec][at] /\ line < n /\ n \in Uses(tag) /\ Reached(P) < n /\ last_lineno < n
    <3>1. PICK y \in Nat : y = P[rec][at] /\ line < y
      BY <2>2
    <3>2. n <= y /\ line < n
      BY <3>1, <1>2, <1>3
    <3> QED BY <3>1, <3>2, <2>2
  <2>4. \A x \in Nat : x \in Uses(tag) /\ x < n => x <= Reached(P)
    BY <1>2, <1>3, <2>2
  <2>5. at' \in Nat /\ at' >= 3 /\ at' >= 2 /\ at' - 1 = at /\ at' - 2 = at - 1 /\ at # 0
    BY <1>2, <2>2
  <2>6. fp => cur_lineno <= n
    BY <2>2, <1>2, <1>3
  <2>7. upto' \in Nat /\ upto' # 0 /\ upto' = P[rec][at]
    BY <1>1, <1>2, <2>2
  <2>8. Show(n)
    BY <1>1, <1>3
  <2>9. Printed'
    <3>1. upto' > 0 => /\ at' >= 3 /\ records[tag][rec][at' - 1].sep = "dash"
                       /\ upto' = P[rec][at' - 1] /\ P[rec][at' - 2] < n /\ n <= upto'
      BY <1>2, <2>2, <2>3, <2>5, <2>7
    <3> QED BY <1>2, <1>4, <2>1, <2>3, <2>4, <2>5, <2>7, <2>8, <3>1, ShowPrinted
  <2>10. Texts'
    BY <1>2, <1>4, <2>3, <2>5, <2>6, <2>8, ShowText
  <2> QED BY <2>9, <2>10
<1>5. Show(n) /\ upto' \in Nat
  BY <1>1, <1>2, <1>3
<1> QED BY <1>2, <1>4, <1>5, ShowStep

(* Inside a range and at its end.                                          *)
LEMMA UnfoldStep == Inv /\ Unfold => Inv'
<1> SUFFICES ASSUME Inv, Unfold
             PROVE  Inv'
  OBVIOUS
<1>1. /\ phase = "read" /\ upto > 0 /\ at' = at
      /\ TypeOK /\ InRecord /\ at \in Nat /\ line \in Nat /\ upto \in Nat /\ rec \in Nat \ {0}
  BY DEF Unfold, Inv, TypeOK
<1>2. at >= 2 /\ at # 0 /\ rec <= Len(records[tag]) /\ at <= Len(records[tag][rec]) + 1
  BY <1>1 DEF InRecord
<1>3. ASSUME Filtered, NEW P, IsAt(P)
      PROVE  /\ at >= 3 /\ records[tag][rec][at - 1].sep = "dash"
             /\ upto = P[rec][at - 1] /\ P[rec][at - 2] < line /\ line <= upto
             /\ P[rec][at - 2] \in Nat /\ Reached(P) = line
             /\ \A x \in Nat : P[rec][at - 2] < x /\ x <= upto => x \in Uses(tag)
  <2>1. /\ at >= 3 /\ records[tag][rec][at - 1].sep = "dash"
        /\ upto = P[rec][at - 1] /\ P[rec][at - 2] < line /\ line <= upto
        /\ Reached(P) = line
    BY <1>1, <1>2, <1>3 DEF IsAt, Reached
  <2> DEFINE r == records[tag][rec]
             p == P[rec]
             m == Len(r)
  <2>2. Decodes(r, p) /\ rec \in 1 .. Len(records[tag])
    BY <1>1, <1>3, Reading
  <2>3. \A x \in Nat : Covers(r, p, x) => x \in Uses(tag)
    BY <1>3, <2>2 DEF IsAt, HasLine
  <2>4. m \in Nat \ {0} /\ at <= m + 1 /\ r[at - 1].sep = "dash" /\ upto = p[at - 1]
    BY <1>2, <2>1, <2>2, LenProperties DEF Decodes
  <2> HIDE DEF r, p
  <2>5. \A j \in 1 .. m : p[j] \in Nat
    BY <2>2, DecodesEnd
  <2> HIDE DEF m
  <2>6. at - 1 \in 1 .. m /\ at - 1 > 1 /\ at - 2 \in 1 .. m /\ (at - 1) - 1 = at - 2
    BY <1>1, <2>1, <2>4
  <2>7. \A x \in Nat : p[at - 2] < x /\ x <= upto => Covers(r, p, x)
    BY <2>4, <2>6 DEF Covers, m
  <2> QED BY <2>1, <2>3, <2>5, <2>6, <2>7 DEF p
<1>4. CASE line + 1 > upto
  <2>1. upto' = 0 /\ UNCHANGED <<phase, tag, writer, rec, line, output, fileLen, out>>
    BY <1>4 DEF Unfold, LeaveRange
  <2>2. TypeOK'
    BY <1>1, <2>1 DEF TypeOK, writer, output
  <2>3. Written' /\ \A t \in Tags : Uses(t)' = Uses(t)
    BY <1>1, <2>1, WrittenStays
  <2>4. InRecord'
    BY <1>1, <1>2, <2>1 DEF InRecord, writer
  <2>5. ASSUME Filtered
        PROVE  Printed'
    <3>1. PICK P : IsAt(P)
      BY <1>1, <2>5 DEF Inv, Printed
    <3>2. /\ upto = P[rec][at - 1] /\ line <= upto
      BY <1>3, <2>5, <3>1
    <3>3. line = P[rec][at - 1]
      BY <1>1, <1>4, <3>2
    <3>4. records' = records /\ tag' = tag /\ rec' = rec /\ line' = line /\ out' = out /\ uses' = uses
      BY <2>1 DEF writer
    <3>5. Reached(P)' = Reached(P)
      BY <1>1, <1>2, <3>4 DEF Reached
    <3>6. \A t, x : IsShown(t, x)' <=> IsShown(t, x)
      BY <3>4 DEF IsShown
    <3>7. IsAt(P)'
      <4>1. Encodes(records[tag], P)' /\ \A x \in Nat : (x \in Uses(tag) <=> HasLine(records[tag], P, x))'
        BY <3>1, <3>4 DEF IsAt, Uses
      <4>2. ASSUME NEW x \in Nat
            PROVE  (IsShown(tag, x) <=> x \in Uses(tag) /\ x <= Reached(P))'
        BY <3>1, <3>4, <3>5 DEF IsAt, Uses, IsShown
      <4>3. at' >= 2 /\ at' # 0 /\ at' # 1 /\ line' = P[rec'][at' - 1]
        BY <1>1, <1>2, <3>3, <3>4
      <4> QED BY <2>1, <4>1, <4>2, <4>3 DEF IsAt
    <3> QED BY <1>1, <2>1, <2>3, <2>5, <3>4, <3>6, <3>7 DEF Inv, Printed
  <2>6. ASSUME Filtered
        PROVE  Texts'
    BY <1>1, <1>2, <2>1, <2>6 DEF Inv, Texts, OwnText, writer, output
  <2> QED BY <2>1, <2>2, <2>3, <2>4, <2>5, <2>6 DEF Inv
<1>5. CASE ~(line + 1 > upto)
  <2>1. PICK n \in Nat \ {0} : n = line + 1 /\ Show(n) /\ upto' = upto /\ n <= upto /\ line < n
    BY <1>1, <1>5 DEF Unfold
  <2>2. ASSUME Filtered
        PROVE  Printed' /\ Texts'
    <3>1. PICK P : IsAt(P)
      BY <1>1, <2>2 DEF Inv, Printed
    <3>2. /\ at >= 3 /\ records[tag][rec][at - 1].sep = "dash"
          /\ upto = P[rec][at - 1] /\ P[rec][at - 2] < line /\ P[rec][at - 2] \in Nat
          /\ Reached(P) = line
          /\ \A x \in Nat : P[rec][at - 2] < x /\ x <= upto => x \in Uses(tag)
      BY <1>3, <2>2, <3>1
    <3>3. P[rec][at - 2] < n
      BY <1>1, <2>1, <3>2
    <3>4. n \in Uses(tag) /\ Reached(P) < n
      BY <2>1, <3>2, <3>3
    <3>5. \A x \in Nat : x \in Uses(tag) /\ x < n => x <= Reached(P)
      BY <1>1, <2>1, <3>2
    <3>6. Printed'
      <4>1. upto' > 0 => /\ at' >= 3 /\ records[tag][rec][at' - 1].sep = "dash"
                         /\ upto' = P[rec][at' - 1] /\ P[rec][at' - 2] < n /\ n <= upto'
        BY <1>1, <2>1, <3>2, <3>3
      <4>2. upto' # 0 /\ upto' \in Nat /\ at' \in Nat /\ at' >= 2
        BY <1>1, <1>2, <2>1
      <4> QED BY <1>1, <2>1, <2>2, <3>1, <3>4, <3>5, <4>1, <4>2, ShowPrinted
    <3>7. last_lineno = line /\ (fp => cur_lineno = line)
      BY <1>1, <1>2, <2>2 DEF Inv, Texts
    <3>8. last_lineno < n /\ (fp => cur_lineno <= n) /\ at' \in Nat /\ at' >= 2
      BY <1>1, <1>2, <2>1, <3>7
    <3>9. Texts'
      BY <1>1, <1>2, <2>1, <2>2, <3>8, ShowText
    <3> QED BY <3>6, <3>9
  <2>3. at' \in Nat /\ at' >= 2 /\ upto' \in Nat /\ at' <= Len(records[tag][rec]) + 1
    BY <1>1, <1>2, <2>1
  <2> QED BY <1>1, <1>2, <2>1, <2>2, <2>3, ShowStep
<1> QED BY <1>4, <1>5

(* A call of put_compact_format().                                         *)
LEMMA BeginStep == Inv /\ Begin => Inv'
<1> SUFFICES ASSUME Inv, Begin
             PROVE  Inv'
  OBVIOUS
<1> DEFINE first == records[tag][rec][1].n
<1>1. /\ phase = "read" /\ at = 0 /\ rec <= Len(records[tag]) /\ at' = 1 /\ line' = 0 /\ upto' = 0
      /\ UNCHANGED <<phase, tag, writer, rec, src, fileLen, out>>
      /\ TypeOK /\ rec \in Nat \ {0} /\ records[tag] \in Seq(Seq(Token)) /\ tag \in Tags
      /\ cur_lineno \in Nat /\ last_lineno \in Nat /\ curtag \in Tags \cup {0}
  BY DEF Begin, Inv, TypeOK
<1>2. \/ /\ curpath' = TRUE /\ curtag' = 0 /\ cur_lineno' = 0 /\ last_lineno' = 0
         /\ fp' \in BOOLEAN /\ opened' = fp'
      \/ /\ curpath /\ curpath' = curpath /\ fp' = fp /\ opened' = opened
         /\ \/ /\ curtag = tag
               /\ curtag' = curtag /\ cur_lineno' = cur_lineno /\ last_lineno' = last_lineno
            \/ /\ curtag # tag
               /\ curtag' = tag /\ last_lineno' = 0
               /\ cur_lineno' = IF first < last_lineno /\ fp THEN 0 ELSE cur_lineno
  BY Zenon DEF Begin, SeekSource, Rewind
<1> HIDE DEF first
<1>3. TypeOK'
  <2>1. /\ curpath' \in BOOLEAN /\ curtag' \in Tags \cup {0} /\ cur_lineno' \in Nat
        /\ last_lineno' \in Nat /\ fp' \in BOOLEAN /\ opened' \in BOOLEAN
    <3>1. curpath \in BOOLEAN /\ fp \in BOOLEAN /\ opened \in BOOLEAN
      BY <1>1 DEF TypeOK
    <3>2. curpath' \in BOOLEAN /\ fp' \in BOOLEAN /\ opened' \in BOOLEAN
      BY <1>2, <3>1, Zenon
    <3>3. curtag' \in Tags \cup {0} /\ cur_lineno' \in Nat /\ last_lineno' \in Nat
      BY <1>1, <1>2
    <3> QED BY <3>2, <3>3
  <2> QED BY <1>1, <2>1 DEF TypeOK, writer
<1>4. Written' /\ \A t \in Tags : Uses(t)' = Uses(t)
  BY <1>1, WrittenStays
<1>5. InRecord'
  <2>1. Len(records[tag][rec]) \in Nat
    <3>1. records[tag][rec] \in Seq(Token)
      BY <1>1, ElementOfSeq, LenProperties
    <3> QED BY <3>1, LenProperties
  <2> QED BY <1>1, <2>1 DEF InRecord, writer
<1>6. ASSUME Filtered
      PROVE  Printed' /\ Texts'
  <2>1. PICK P : IsAt(P)
    BY <1>1, <1>6 DEF Inv, Printed
  <2>2. records' = records /\ tag' = tag /\ rec' = rec /\ out' = out /\ uses' = uses
    BY <1>1 DEF writer
  <2>3. Printed'
    <3>1. Reached(P)' = Reached(P)
      BY <1>1, <2>2 DEF Reached
    <3>2. \A t, x : IsShown(t, x)' <=> IsShown(t, x)
      BY <2>2 DEF IsShown
    <3>3. IsAt(P)'
      <4>1. Encodes(records[tag], P)' /\ \A x \in Nat : (x \in Uses(tag) <=> HasLine(records[tag], P, x))'
        BY <2>1, <2>2 DEF IsAt, Uses
      <4>2. ASSUME NEW x \in Nat
            PROVE  (IsShown(tag, x) <=> x \in Uses(tag) /\ x <= Reached(P))'
        BY <2>1, <2>2, <3>1 DEF IsAt, Uses, IsShown
      <4> QED BY <1>1, <4>1, <4>2 DEF IsAt
    <3> QED BY <1>1, <1>4, <1>6, <2>2, <3>2, <3>3 DEF Inv, Printed
  <2>4. /\ first \in Nat \ {0}
        /\ rec > 1 => line = End(P[rec - 1]) /\ End(P[rec - 1]) < first
    <3>1. /\ Encodes(records[tag], P) /\ rec \in 1 .. Len(records[tag])
          /\ Decodes(records[tag][rec], P[rec])
      BY <1>1, <1>6, <2>1, Reading
    <3> DEFINE r == records[tag][rec]
               p == P[rec]
    <3>2. Decodes(r, p)
      BY <3>1
    <3> HIDE DEF r, p
    <3>3. p[1] \in Nat \ {0} /\ p[1] = r[1].n
      BY <3>2, DecodesEnd DEF Decodes
    <3>4. first = P[rec][1] /\ first \in Nat \ {0}
      BY <3>3 DEF r, p, first
    <3>5. rec > 1 => line = End(P[rec - 1])
      BY <1>1, <2>1 DEF IsAt
    <3>6. Len(records[tag]) \in Nat
      BY <1>1, LenProperties
    <3>7. rec > 1 => rec - 1 \in 1 .. Len(records[tag]) /\ rec - 1 < rec
      BY <1>1, <3>1, <3>6
    <3> QED BY <3>1, <3>4, <3>5, <3>7 DEF Encodes
  <2>5. Texts /\ fp \in BOOLEAN
    BY <1>1, <1>6 DEF Inv, TypeOK
  <2>6. last_lineno' < first /\ (fp' => cur_lineno' <= first)
    <3>1. CASE curpath' = TRUE /\ curtag' = 0 /\ cur_lineno' = 0 /\ last_lineno' = 0
      BY <2>4, <3>1
    <3>2. CASE /\ curpath /\ curtag = tag /\ fp' = fp /\ cur_lineno' = cur_lineno /\ last_lineno' = last_lineno
      <4>1. rec # 1
        BY <1>1, <2>5, <3>2 DEF Texts, Tags
      <4>2. last_lineno = line /\ (fp => cur_lineno = line) /\ line < first
        BY <1>1, <2>4, <2>5, <3>2, <4>1 DEF Texts
      <4> QED BY <1>1, <2>4, <3>2, <4>2
    <3>3. CASE /\ curpath /\ fp' = fp /\ last_lineno' = 0
               /\ cur_lineno' = IF first < last_lineno /\ fp THEN 0 ELSE cur_lineno
      <4>1. last_lineno = line /\ (fp => cur_lineno = last_lineno)
        BY <1>1, <2>5, <3>3 DEF Texts
      <4> QED BY <1>1, <2>4, <3>3, <4>1
    <3> QED BY <1>2, <3>1, <3>2, <3>3
  <2>7. Texts'
    <3>1. curpath'
      BY <1>2
    <3>2. curtag' <= tag'
      BY <1>1, <1>2, <2>2, <2>5 DEF Texts, Tags
    <3>3. curpath' /\ opened' /\ ~fp' => src' = 0 /\ \E k \in 1 .. Len(out') : out'[k].line > fileLen'
      BY <1>1, <1>2, <2>2, <2>5 DEF Texts
    <3>4. fp' => cur_lineno' <= fileLen' /\ (cur_lineno' = 0 \/ src' = cur_lineno')
      <4>1. fileLen \in Nat
        BY <1>1 DEF TypeOK
      <4>2. fileLen' = fileLen /\ src' = src
        BY <1>1
      <4>3. cur_lineno' = 0 \/ (fp' = fp /\ cur_lineno' = cur_lineno)
        BY <1>2
      <4>4. CASE cur_lineno' = 0
        BY <4>1, <4>2, <4>4
      <4>5. CASE fp' = fp /\ cur_lineno' = cur_lineno
        <5>1. fp => cur_lineno <= fileLen /\ (cur_lineno = 0 \/ src = cur_lineno)
          BY <2>5, Zenon DEF Texts
        <5> QED BY <4>2, <4>5, <5>1
      <4> QED BY <4>3, <4>4, <4>5
    <3>5. OwnText'
      BY <1>1, <2>5 DEF Texts, OwnText
    <3>6. records'[tag'][rec'][1].n = first
      BY <2>2 DEF first
    <3> QED BY <1>1, <2>6, <3>1, <3>2, <3>3, <3>4, <3>5, <3>6 DEF Texts
  <2> QED BY <2>3, <2>7
<1> QED BY <1>1, <1>3, <1>4, <1>5, <1>6 DEF Inv

(* The next record, or the next tag.                                       *)
LEMMA NextRecordStep == Inv /\ NextRecord => Inv'
<1> SUFFICES ASSUME Inv, NextRecord
             PROVE  Inv'
  OBVIOUS
<1>1. /\ phase = "read" /\ upto = 0 /\ at > Len(records[tag][rec]) /\ at' = 0
      /\ UNCHANGED <<writer, line, upto, output, fileLen, out>>
      /\ \/ rec < Len(records[tag]) /\ rec' = rec + 1 /\ tag' = tag /\ phase' = phase
         \/ /\ ~(rec < Len(records[tag])) /\ rec' = 1
            /\ \/ tag + 1 \in Tags /\ tag' = tag + 1 /\ phase' = phase
               \/ tag + 1 \notin Tags /\ phase' = "done" /\ tag' = tag
      /\ TypeOK /\ Written /\ InRecord /\ rec \in Nat \ {0} /\ at \in Nat /\ line \in Nat /\ tag \in Tags
  BY DEF NextRecord, Inv, TypeOK
<1>2. phase' \in {"read", "done"} /\ tag' \in Tags /\ rec' \in Nat \ {0}
  BY <1>1
<1>3. TypeOK'
  BY <1>1, <1>2 DEF TypeOK, writer, output
<1>4. Written' /\ \A t \in Tags : Uses(t)' = Uses(t)
  BY <1>1, <1>2, WrittenStays
<1>5. InRecord'
  BY <1>1 DEF InRecord
<1>6. ASSUME Filtered
      PROVE  Printed' /\ Texts'
  <2>1. PICK P : IsAt(P)
    BY <1>1, <1>6 DEF Inv, Printed
  <2>2. records' = records /\ out' = out /\ uses' = uses /\ line' = line
    BY <1>1 DEF writer
  <2>3. /\ Encodes(records[tag], P) /\ rec \in 1 .. Len(records[tag])
        /\ Decodes(records[tag][rec], P[rec])
    BY <1>1, <1>6, <2>1, Reading
  <2>4. Len(records[tag]) \in Nat
    BY <2>3, LenProperties DEF Encodes
  <2>5. /\ Len(records[tag][rec]) \in Nat \ {0} /\ End(P[rec]) = P[rec][Len(records[tag][rec])]
    BY <2>3, LenProperties DEF Decodes, End
  <2>6. at # 0 /\ at >= 2 /\ at - 1 = Len(records[tag][rec])
    BY <1>1, <2>5 DEF InRecord
  <2>7. line = End(P[rec]) /\ Reached(P) = line
    BY <1>1, <2>1, <2>5, <2>6 DEF IsAt, Reached
  <2>8. \A t, x : IsShown(t, x)' <=> IsShown(t, x)
    BY <2>2 DEF IsShown
  <2>9. \A x \in Nat : IsShown(tag, x) <=> x \in Uses(tag) /\ x <= line
    BY <2>1, <2>7 DEF IsAt
  <2>10. ASSUME ~(rec < Len(records[tag])), NEW x \in Nat
         PROVE  IsShown(tag, x) <=> x \in Uses(tag)
    <3>1. rec = Len(records[tag])
      BY <2>3, <2>4, <2>10
    <3>2. ASSUME x \in Uses(tag)
          PROVE  x <= line
      <4> DEFINE rs == records[tag]
      <4>1. HasLine(rs, P, x)
        BY <2>1, <3>2 DEF IsAt
      <4>2. PICK k \in 1 .. Len(rs) : Covers(rs[k], P[k], x)
        BY <4>1 DEF HasLine
      <4> DEFINE r == rs[k]
                 p == P[k]
      <4>3. Decodes(r, p) /\ Covers(r, p, x)
        BY <2>3, <4>2 DEF Encodes
      <4>4. k = rec \/ (k < rec /\ End(p) < P[rec][1])
        <5>1. k \in 1 .. Len(rs) /\ rec \in 1 .. Len(rs) /\ (k = rec \/ k < rec)
          BY <2>3, <2>4, <3>1
        <5> QED BY <2>3, <5>1 DEF Encodes
      <4> HIDE DEF r, p
      <4>5. x <= End(p) /\ End(p) \in Nat
        BY <4>3, DecodesEnd
      <4>6. P[rec][1] <= End(P[rec]) /\ P[rec][1] \in Nat
        <5> DEFINE s == records[tag][rec]
                   q == P[rec]
        <5>1. Decodes(s, q)
          BY <2>3
        <5> HIDE DEF s, q
        <5>2. q[1] <= End(q) /\ q[1] \in Nat
          BY <5>1, DecodesEnd
        <5> QED BY <5>2 DEF q
      <4>7. CASE k = rec
        BY <4>5, <4>7, <2>7 DEF p
      <4>8. CASE k < rec /\ End(p) < P[rec][1]
        BY <4>5, <4>6, <4>8, <2>7, <1>1
      <4> QED BY <4>4, <4>7, <4>8
    <3> QED BY <2>9, <3>2
  <2>11. Printed
    BY <1>1, <1>6 DEF Inv
  <2>12. (\A j, k \in 1 .. Len(out) : j < k /\ out[j].tag = out[k].tag => out[j].line < out[k].line)'
    BY <2>2, <2>11 DEF Printed
  <2>13. CASE rec < Len(records[tag]) /\ rec' = rec + 1 /\ tag' = tag /\ phase' = phase
    <3>1. Reached(P)' = line
      <4>1. rec' # 1 /\ rec' - 1 = rec
        BY <1>1, <2>13
      <4> QED BY <1>1, <2>7, <4>1 DEF Reached
    <3>2. IsAt(P)'
      <4>1. Encodes(records[tag], P)' /\ \A x \in Nat : (x \in Uses(tag) <=> HasLine(records[tag], P, x))'
        BY <2>1, <2>2, <2>13 DEF IsAt, Uses
      <4>2. ASSUME NEW x \in Nat
            PROVE  (IsShown(tag, x) <=> x \in Uses(tag) /\ x <= Reached(P))'
        BY <2>2, <2>9, <2>13, <3>1 DEF Uses, IsShown
      <4>3. rec' <= Len(records'[tag']) /\ line' = End(P[rec' - 1])
        BY <1>1, <2>2, <2>4, <2>7, <2>13
      <4> QED BY <1>1, <4>1, <4>2, <4>3 DEF IsAt
    <3>3. Printed'
      BY <1>1, <1>4, <2>8, <2>11, <2>12, <2>13, <3>2 DEF Printed
    <3>4. Texts'
      <4>1. rec' # 1
        BY <1>1, <2>13
      <4> QED BY <1>1, <1>6, <2>6, <2>13, <4>1 DEF Inv, Texts, OwnText, output
    <3> QED BY <3>3, <3>4
  <2>14. CASE ~(rec < Len(records[tag])) /\ rec' = 1
    <3>1. \A t \in Tags : t <= tag => \A x \in Nat : IsShown(t, x) <=> x \in Uses(t)
      <4> SUFFICES ASSUME NEW t \in Tags, t <= tag, NEW x \in Nat
                   PROVE  IsShown(t, x) <=> x \in Uses(t)
        OBVIOUS
      <4>1. CASE t = tag
        BY <2>10, <2>14, <4>1
      <4>2. CASE t # tag
        <5>1. t < tag
          BY <1>1, <4>2 DEF Tags
        <5> QED BY <2>11, <5>1 DEF Printed
      <4> QED BY <4>1, <4>2
    <3>2. CASE tag + 1 \in Tags /\ tag' = tag + 1 /\ phase' = phase
      <4>1. PICK s : s = tag + 1 /\ s \in Tags /\ s > tag /\ s = tag'
        BY <1>1, <3>2 DEF Tags
      <4>2. PICK Q : Encodes(records[s], Q) /\ \A x \in Nat : x \in Uses(s) <=> HasLine(records[s], Q, x)
        BY <1>1, <1>6, <4>1 DEF Written, AsWritten
      <4>3. Reached(Q)' = 0
        BY <1>1, <2>14 DEF Reached
      <4>4. \A x \in Uses(s) : x \in Nat \ {0}
        BY <1>1, <4>1, UsesAreLines DEF Written
      <4>5. \A x \in Nat : ~IsShown(s, x)
        BY <1>1, <2>11, <4>1 DEF Printed
      <4>6. IsAt(Q)'
        <5>1. Encodes(records[tag], Q)' /\ \A x \in Nat : (x \in Uses(tag) <=> HasLine(records[tag], Q, x))'
          BY <2>2, <4>1, <4>2 DEF Uses
        <5>2. ASSUME NEW x \in Nat
              PROVE  (IsShown(tag, x) <=> x \in Uses(tag) /\ x <= Reached(Q))'
          <6>1. ~IsShown(s, x)'
            BY <2>8, <4>5
          <6>2. IsShown(tag, x)' <=> IsShown(s, x)'
            BY <4>1 DEF IsShown
          <6>3. Uses(tag)' = Uses(s)
            BY <2>2, <4>1 DEF Uses
          <6>4. ~(x \in Uses(s) /\ x <= 0)
            BY <4>4
          <6> QED BY <4>3, <6>1, <6>2, <6>3, <6>4
        <5> QED BY <1>1, <2>14, <5>1, <5>2 DEF IsAt
      <4>7. /\ \A t \in Tags : t < tag' => t <= tag
            /\ \A t \in Tags : t > tag' => t > tag
        BY <1>1, <3>2 DEF Tags
      <4>8. Printed'
        BY <1>1, <1>4, <2>8, <2>11, <2>12, <3>1, <3>2, <4>6, <4>7 DEF Printed
      <4>9. curtag <= tag /\ curtag \in Nat /\ tag \in Nat
        BY <1>1, <1>6 DEF Inv, Texts, TypeOK, Tags
      <4>10. Texts'
        BY <1>1, <1>6, <2>6, <3>2, <4>9 DEF Inv, Texts, OwnText, output
      <4> QED BY <4>8, <4>10
    <3>3. CASE tag + 1 \notin Tags /\ phase' = "done" /\ tag' = tag
      <4>1. \A t \in Tags : t <= tag
        BY <1>1, <3>3, TagsAssumption DEF Tags
      <4>2. Printed'
        BY <1>4, <2>8, <2>12, <3>1, <3>3, <4>1 DEF Printed
      <4>3. Texts'
        BY <1>1, <1>6, <2>6, <3>3 DEF Inv, Texts, OwnText, output
      <4> QED BY <4>2, <4>3
    <3> QED BY <1>1, <2>14, <3>2, <3>3
  <2> QED BY <1>1, <2>13, <2>14
<1> QED BY <1>1, <1>2, <1>3, <1>4, <1>5, <1>6 DEF Inv

(* Another file is printed.                                                *)
LEMMA VisitStep == Inv /\ Visit => Inv'
<1> SUFFICES ASSUME Inv, Visit
             PROVE  Inv'
  OBVIOUS
<1>1. /\ phase = "read" /\ at = 0 /\ UNCHANGED <<phase, tag, writer, cursor, fileLen, out>>
      /\ curpath' = FALSE /\ curtag' = 0 /\ cur_lineno' = 0 /\ last_lineno' = 0
      /\ fp' = FALSE /\ opened' = FALSE /\ src' \in {src, 0, OtherText}
  BY DEF Visit
<1>2. UNCHANGED <<rec, at, line, upto, uses, i, last, cont, sb, records>>
  BY <1>1 DEF writer, cursor
<1>3. TypeOK'
  <2>1. OtherText \in Nat
    BY BoundsAssumption DEF OtherText
  <2>2. curpath' \in BOOLEAN /\ fp' \in BOOLEAN /\ opened' \in BOOLEAN
    BY <1>1, Zenon
  <2>3. src' \in Nat /\ cur_lineno' \in Nat /\ last_lineno' \in Nat /\ curtag' \in Tags \cup {0}
    BY <1>1, <2>1 DEF Inv, TypeOK
  <2> QED BY <1>1, <1>2, <2>2, <2>3 DEF Inv, TypeOK
<1>4. Written' /\ \A t \in Tags : Uses(t)' = Uses(t)
  BY <1>1, WrittenStays
<1>5. InRecord'
  BY <1>1, <1>2 DEF Inv, InRecord
<1>6. ASSUME Filtered
      PROVE  Printed' /\ Texts'
  <2>1. Printed /\ Texts
    BY <1>1, <1>6 DEF Inv
  <2>2. \A t, x : IsShown(t, x)' <=> IsShown(t, x)
    BY <1>1 DEF IsShown
  <2>3. \A P : IsAt(P) => IsAt(P)'
    <3> SUFFICES ASSUME NEW P, IsAt(P)
                 PROVE  IsAt(P)'
      OBVIOUS
    <3>1. Reached(P)' = Reached(P)
      BY <1>2 DEF Reached
    <3>2. \A x : (x \in Uses(tag)' <=> x \in Uses(tag)) /\ (IsShown(tag, x)' <=> IsShown(tag, x))
      BY <1>1, <1>2 DEF Uses, IsShown
    <3> QED BY <1>1, <1>2, <3>1, <3>2 DEF IsAt
  <2>4. Printed'
    BY <1>1, <1>4, <2>1, <2>2, <2>3 DEF Printed
  <2>5. Texts'
    <3>1. tag \in Nat /\ tag > 0
      BY TagsAssumption DEF Inv, TypeOK, Tags
    <3>2. OwnText'
      BY <1>1, <2>1 DEF Texts, OwnText
    <3> QED BY <1>1, <1>2, <3>1, <3>2 DEF Texts
  <2> QED BY <2>4, <2>5
<1> QED BY <1>1, <1>3, <1>4, <1>5, <1>6 DEF Inv

-----------------------------------------------------------------------------
(* The theorems.                                                           *)

LEMMA InitInv == Init => Inv
<1> SUFFICES ASSUME Init
             PROVE  Inv
  OBVIOUS
<1>1. /\ phase = "write" /\ tag = 1 /\ i = 1 /\ last = 0 /\ cont = 0 /\ sb = <<>>
      /\ uses \in [Tags -> Pools] /\ records = [t \in Tags |-> <<>>] /\ fileLen \in Nat
      /\ rec = 1 /\ at = 0 /\ line = 0 /\ upto = 0 /\ out = <<>>
      /\ curpath = FALSE /\ curtag = 0 /\ cur_lineno = 0 /\ last_lineno = 0 /\ fp = FALSE /\ src = 0
      /\ opened = FALSE /\ 1 \in Tags
  BY TagsAssumption, BoundsAssumption DEF Init, Tags
<1>2. \A t \in Tags : records[t] = <<>> /\ uses[t] \in Seq(Lines) /\ Len(uses[t]) \in Nat
  BY <1>1, UsesFacts
<1>3. TypeOK
  <2>1. uses \in [Tags -> Seq(Lines)] /\ records \in [Tags -> Seq(Seq(Token))]
    BY <1>1, <1>2, EmptySeq
  <2>2. sb \in Seq(Token) /\ out \in Seq(Shown)
    BY <1>1, EmptySeq
  <2>3. curpath \in BOOLEAN /\ fp \in BOOLEAN /\ opened \in BOOLEAN
    BY <1>1, Zenon
  <2>4. /\ phase \in {"write", "search", "read", "done"} /\ tag \in Tags
        /\ i \in Nat \ {0} /\ last \in Nat /\ cont \in Nat /\ rec \in Nat \ {0} /\ at \in Nat
        /\ line \in Nat /\ upto \in Nat /\ curtag \in Tags \cup {0}
        /\ cur_lineno \in Nat /\ last_lineno \in Nat /\ src \in Nat /\ fileLen \in Nat
    BY <1>1
  <2> QED BY <2>1, <2>2, <2>3, <2>4 DEF TypeOK
<1>4. Writing(<<>>, <<>>)
  <2>1. IsAfter(<<>>, <<>>)
    BY <1>1, <1>2, EncodesNone, EmptySeq DEF IsAfter, IsPast
  <2>2. \A x : ~IsTaken(x) /\ ~IsPending(<<>>, x) /\ ~HasLine(records[tag], <<>>, x)
    BY <1>1, <1>2, EncodesNone DEF IsTaken, IsPending, InRange
  <2> QED BY <2>1, <2>2 DEF Writing
<1>5. Written
  <2>1. \A t \in Tags : ~(t < tag)
    BY <1>1 DEF Tags
  <2> QED BY <1>1, <1>2, <1>4, <2>1 DEF Written
<1> QED BY <1>1, <1>3, <1>5 DEF Inv

LEMMA StutterStep == Inv /\ UNCHANGED vars => Inv'
<1> SUFFICES ASSUME Inv, UNCHANGED vars
             PROVE  Inv'
  OBVIOUS
<1>1. UNCHANGED <<phase, tag, uses, i, last, cont, sb, records, rec, at, line, upto>>
  BY DEF vars, writer, cursor
<1>2. UNCHANGED <<curpath, curtag, cur_lineno, last_lineno, fp, src, opened, fileLen, out>>
  BY DEF vars, output
<1>3. TypeOK'
  BY <1>1, <1>2 DEF Inv, TypeOK
<1>4. Written'
  <2>1. \A P, q : IsAfter(P, q)' <=> IsAfter(P, q)
    BY <1>1 DEF IsAfter, IsPast
  <2>2. \A x : IsTaken(x)' <=> IsTaken(x)
    BY <1>1 DEF IsTaken
  <2>3. \A q, x : IsPending(q, x)' <=> IsPending(q, x)
    BY <1>1 DEF IsPending, InRange
  <2>4. \A P, q : Writing(P, q) => Writing(P, q)'
    <3> SUFFICES ASSUME NEW P, NEW q, Writing(P, q)
                 PROVE  Writing(P, q)'
      OBVIOUS
    <3> QED BY <1>1, <2>1, <2>2, <2>3 DEF Writing
  <2>5. \A t : AsWritten(t) => AsWritten(t)'
    <3> SUFFICES ASSUME NEW t, AsWritten(t)
                 PROVE  AsWritten(t)'
      OBVIOUS
    <3>1. records'[t] = records[t] /\ Uses(t)' = Uses(t)
      BY <1>1 DEF Uses
    <3> QED BY <3>1 DEF AsWritten
  <2> QED BY <1>1, <1>2, <2>4, <2>5 DEF Inv, Written
<1>5. phase' = "read" => InRecord'
  BY <1>1 DEF Inv, InRecord
<1>6. ASSUME Filtered, phase' \in {"read", "done"}
      PROVE  Printed' /\ Texts'
  <2>1. Printed /\ Texts
    BY <1>1, <1>6 DEF Inv
  <2>2. \A t, x : IsShown(t, x)' <=> IsShown(t, x)
    BY <1>2 DEF IsShown
  <2>3. \A P : Reached(P)' = Reached(P)
    BY <1>1 DEF Reached
  <2>4. \A t : Uses(t)' = Uses(t)
    BY <1>1 DEF Uses
  <2>5. \A x : x \in Uses(tag)' <=> x \in Uses(tag)
    BY <1>1 DEF Uses
  <2>6. \A x : IsShown(tag, x)' <=> IsShown(tag, x)
    BY <1>1, <1>2 DEF IsShown
  <2>7. \A P : IsAt(P) => IsAt(P)'
    <3> SUFFICES ASSUME NEW P, IsAt(P)
                 PROVE  IsAt(P)'
      OBVIOUS
    <3> QED BY <1>1, <1>2, <2>3, <2>5, <2>6 DEF IsAt
  <2>8. Printed'
    BY <1>1, <1>2, <2>1, <2>2, <2>4, <2>7 DEF Printed
  <2>9. Texts'
    BY <1>1, <1>2, <2>1 DEF Texts, OwnText
  <2> QED BY <2>8, <2>9
<1> QED BY <1>3, <1>4, <1>5, <1>6 DEF Inv

THEOREM Invariance == Spec => []Inv
<1>1. Inv /\ [Next]_vars => Inv'
  BY RepeatStep, FollowStep, JumpStep, EndOfPoolStep, SearchStep, BeginStep, UnfoldStep,
     FirstStep, GapStep, StartStep, NextRecordStep, VisitStep, StutterStep DEF Next
<1> QED BY InitInv, <1>1, PTL DEF Spec

(* Every variable of flush_pool() and of put_compact_format() keeps a value*)
(* of its kind, with the sort filter or without: the reader never leaves   *)
(* its record.                                                             *)
THEOREM TypeInvariant == Spec => []TypeOK
<1>1. Inv => TypeOK
  BY DEF Inv
<1> QED BY Invariance, <1>1, PTL

(* With the sort filter, put_compact_format() prints exactly the lines that*)
(* flush_pool() wrote, each once and in order, wherever the records were   *)
(* split and the ranges ended.                                             *)
THEOREM LinesAlwaysSurvive ==
  ASSUME Filtered
  PROVE  Spec => []LinesSurvive
<1>1. ASSUME Inv
      PROVE  LinesSurvive
  <2> SUFFICES ASSUME phase = "done"
               PROVE  /\ \A j, k \in 1 .. Len(out) : j < k /\ out[j].tag = out[k].tag => out[j].line < out[k].line
                      /\ \A t \in Tags : {out[j].line : j \in {k \in 1 .. Len(out) : out[k].tag = t}} = Uses(t)
    BY DEF LinesSurvive
  <2>1. Printed /\ TypeOK /\ Written
    BY <1>1 DEF Inv
  <2>2. ASSUME NEW t \in Tags
        PROVE  {out[j].line : j \in {k \in 1 .. Len(out) : out[k].tag = t}} = Uses(t)
    <3>1. \A x \in Nat : IsShown(t, x) <=> x \in Uses(t)
      BY <2>1 DEF Printed
    <3>2. \A x \in Uses(t) : x \in Nat
      BY <2>1, UsesAreLines DEF Written
    <3>3. \A k \in 1 .. Len(out) : out[k].line \in Nat
      <4>1. \A k \in 1 .. Len(out) : out[k] \in Shown
        BY <2>1, ElementOfSeq DEF TypeOK
      <4> QED BY <4>1 DEF Shown
    <3> QED BY <3>1, <3>2, <3>3 DEF IsShown
  <2> QED BY <2>1, <2>2 DEF Printed
<1> QED BY Invariance, <1>1, PTL

(* With the sort filter, the text that global shows for a line of a file it*)
(* could open is that of the line, though put_compact_format() reads the   *)
(* source file only forward, and prints other files in between; it is empty*)
(* only once the file has ended above a line shown.                        *)
THEOREM TextIsOwn ==
  ASSUME Filtered
  PROVE  Spec => []OwnText
<1>1. ASSUME Inv
      PROVE  OwnText
  <2>1. phase \in {"write", "search"} => OwnText
    BY <1>1, EmptySeq DEF Inv, Written, OwnText
  <2>2. phase \in {"read", "done"} => OwnText
    BY <1>1 DEF Inv, Texts
  <2> QED BY <1>1, <2>1, <2>2 DEF Inv, TypeOK
<1> QED BY Invariance, <1>1, PTL

=============================================================================
