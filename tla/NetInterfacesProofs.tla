------------------------ MODULE NetInterfacesProofs ------------------------
(***************************************************************************)
(* What TLAPS proves about NetInterfaces for any files, any settings, any  *)
(* number of calls and any crashes: that a call leaves the lines of the    *)
(* other interfaces alone, that what was saved is what is read back, and   *)
(* that the interface has one auto line.                                   *)
(***************************************************************************)
EXTENDS NetInterfaces, Integers, TLAPS, WellFoundedInduction, SequenceTheorems,
        FiniteSetTheorems

---------------------------------------------------------------------------
(* Induction, for sets: the theorems of the library that take a predicate  *)
(* cannot be used.                                                         *)

(* A set of numbers that is not empty has a least element.                 *)
LEMMA LeastNumber ==
    ASSUME NEW T \in SUBSET Nat, T # {}
    PROVE  \E n \in T : \A m \in T : n <= m
<1>1. IsWellFoundedOn(OpToRel(<, Nat), Nat)
  BY NatLessThanWellFounded
<1>2. PICK n \in T : \A m \in T : <<m, n>> \notin OpToRel(<, Nat)
  BY <1>1, WFMin
<1>3. ASSUME NEW m \in T PROVE n <= m
  <2>1. SUFFICES ASSUME m < n PROVE FALSE
    OBVIOUS
  <2>2. <<m, n>> \in OpToRel(<, Nat)
    BY <2>1 DEF OpToRel
  <2>. QED
    BY <1>2, <2>2
<1>. QED
  BY <1>3

(* A set that holds 0 and with n also n + 1 holds every number.            *)
LEMMA NatInduct ==
    ASSUME NEW T, 0 \in T, \A n \in Nat : n \in T => n + 1 \in T
    PROVE  Nat \subseteq T
<1>. DEFINE U == Nat \ T
<1>. SUFFICES ASSUME U # {} PROVE FALSE
  OBVIOUS
<1>1. PICK n \in U : \A m \in U : n <= m
  BY LeastNumber
<1>2. n - 1 \in Nat /\ n - 1 \notin U
  BY <1>1
<1>. QED
  BY <1>2

(* A set that holds the empty sequence and with s also every Append(s, x)  *)
(* holds every sequence.                                                   *)
LEMMA SeqInduct ==
    ASSUME NEW S, NEW T, <<>> \in T,
           \A s \in Seq(S), x \in S : s \in T => Append(s, x) \in T
    PROVE  Seq(S) \subseteq T
<1>. DEFINE N == {n \in Nat : \A s \in Seq(S) : Len(s) = n => s \in T}
<1>1. 0 \in N
  BY EmptySeq
<1>2. ASSUME NEW n \in Nat, n \in N PROVE n + 1 \in N
  <2>. SUFFICES ASSUME NEW s \in Seq(S), Len(s) = n + 1 PROVE s \in T
    OBVIOUS
  <2>1. s # <<>>
    OBVIOUS
  <2>2. PICK t \in Seq(S), x \in S : s = Append(t, x)
    BY <2>1, SequenceEmptyOrAppend
  <2>3. Len(t) = n
    BY <2>2, AppendProperties, LenProperties
  <2>. QED
    BY <1>2, <2>2, <2>3
<1>3. Nat \subseteq N
  <2>. HIDE DEF N
  <2>. QED
    BY <1>1, <1>2, NatInduct
<1>. QED
  BY <1>3, LenProperties

---------------------------------------------------------------------------
(* Pick by its equations.                                                  *)

IsPick(p, d, I) ==
    p = [i \in 0..Len(d) |->
            IF i = 0 THEN <<>>
            ELSE IF i \in I THEN Append(p[i - 1], d[i]) ELSE p[i - 1]]

(* The equation at a line.                                                 *)
LEMMA PickEquation ==
    ASSUME NEW p, NEW d, NEW I, IsPick(p, d, I), NEW i \in 0..Len(d)
    PROVE  /\ i = 0 => p[i] = <<>>
           /\ i # 0 /\ i \in I => p[i] = Append(p[i - 1], d[i])
           /\ i # 0 /\ i \notin I => p[i] = p[i - 1]
<1>. DEFINE f == [j \in 0..Len(d) |->
                    IF j = 0 THEN <<>>
                    ELSE IF j \in I THEN Append(p[j - 1], d[j]) ELSE p[j - 1]]
<1>1. p = f
  BY DEF IsPick
<1>2. f[i] = IF i = 0 THEN <<>>
             ELSE IF i \in I THEN Append(p[i - 1], d[i]) ELSE p[i - 1]
  OBVIOUS
<1>. HIDE DEF f
<1>. QED
  BY <1>1, <1>2

(* Two documents that agree up to a line agree in what is picked up to it. *)
LEMMA PickUnique ==
    ASSUME NEW d \in Seq(Lines), NEW e \in Seq(Lines), NEW I, NEW p, NEW q,
           IsPick(p, d, I), IsPick(q, e, I),
           Len(d) <= Len(e), \A i \in 1..Len(d) : d[i] = e[i]
    PROVE  \A i \in 0..Len(d) : p[i] = q[i]
<1>. DEFINE T == {n \in Nat : n <= Len(d) => p[n] = q[n]}
<1>0. Len(d) \in Nat /\ Len(e) \in Nat
  BY LenProperties
<1>1. 0 \in T
  BY <1>0 DEF IsPick
<1>2. ASSUME NEW n \in Nat, n \in T PROVE n + 1 \in T
  <2>. SUFFICES ASSUME n + 1 <= Len(d) PROVE p[n + 1] = q[n + 1]
    OBVIOUS
  <2>. DEFINE k == n + 1
  <2>1. k \in 1..Len(d) /\ k \in 0..Len(d) /\ k \in 0..Len(e) /\ k # 0 /\ k - 1 = n
    BY <1>0
  <2>. HIDE DEF k
  <2>2. /\ k \in I => p[k] = Append(p[n], d[k])
        /\ k \notin I => p[k] = p[n]
    BY <2>1, PickEquation
  <2>3. /\ k \in I => q[k] = Append(q[n], e[k])
        /\ k \notin I => q[k] = q[n]
    BY <2>1, PickEquation
  <2>4. p[n] = q[n]
    BY <1>0, <1>2, <2>1
  <2>5. p[k] = q[k]
    BY <2>1, <2>2, <2>3, <2>4
  <2>. QED
    BY <2>5 DEF k
<1>3. Nat \subseteq T
  <2>. HIDE DEF T
  <2>. QED
    BY <1>1, <1>2, NatInduct
<1>. QED
  BY <1>0, <1>3

(* For every document there is a function with the equations of Pick, so   *)
(* Pick is not a choice from nothing.                                      *)
LEMMA PickExists ==
    ASSUME NEW d \in Seq(Lines), NEW I
    PROVE  \E p : IsPick(p, d, I)
<1>. DEFINE T == {s \in Seq(Lines) : \E p : IsPick(p, s, I)}
<1>1. <<>> \in T
  <2>. DEFINE p == [i \in 0..0 |-> <<>>]
  <2>1. Len(<<>>) = 0 /\ <<>> \in Seq(Lines)
    BY EmptySeq
  <2>2. IsPick(p, <<>>, I)
    BY <2>1 DEF IsPick
  <2>. HIDE DEF p
  <2>. QED
    BY <2>1, <2>2
<1>2. ASSUME NEW s \in Seq(Lines), NEW x \in Lines, s \in T PROVE Append(s, x) \in T
  <2>1. PICK p : IsPick(p, s, I)
    BY <1>2
  <2>. DEFINE n == Len(s)
              e == Append(s, x)
              q == [i \in 0..(n + 1) |->
                       IF i <= n THEN p[i]
                       ELSE IF n + 1 \in I THEN Append(p[n], x) ELSE p[n]]
              r == [i \in 0..Len(e) |->
                       IF i = 0 THEN <<>>
                       ELSE IF i \in I THEN Append(q[i - 1], e[i]) ELSE q[i - 1]]
  <2>2. /\ n \in Nat /\ Len(e) = n + 1 /\ e \in Seq(Lines) /\ e[n + 1] = x
        /\ \A i \in 1..n : e[i] = s[i]
    BY AppendProperties, LenProperties
  <2>3. ASSUME NEW i \in 0..(n + 1) PROVE q[i] = r[i]
    <3>. HIDE DEF e
    <3>1. CASE i = 0
      BY <2>1, <2>2, <3>1 DEF IsPick
    <3>2. CASE i \in 1..n
      <4>1. p[i] = IF i \in I THEN Append(p[i - 1], s[i]) ELSE p[i - 1]
        <5>1. i \in 0..Len(s) /\ i # 0
          BY <2>2, <3>2
        <5>. QED
          BY <2>1, <5>1, PickEquation
      <4>2. q[i] = p[i] /\ q[i - 1] = p[i - 1] /\ e[i] = s[i]
        BY <2>2, <3>2
      <4>. QED
        BY <2>2, <3>2, <4>1, <4>2
    <3>3. CASE i = n + 1
      <4>1. q[i] = IF n + 1 \in I THEN Append(p[n], x) ELSE p[n]
        BY <2>2, <3>3
      <4>2. q[i - 1] = p[n]
        BY <2>2, <3>3
      <4>. QED
        BY <2>2, <3>3, <4>1, <4>2
    <3>. QED
      BY <2>2, <3>1, <3>2, <3>3
  <2>4. q = r
    BY <2>2, <2>3
  <2>5. IsPick(q, e, I)
    BY <2>4 DEF IsPick
  <2>. HIDE DEF q, e, r
  <2>6. \E f : IsPick(f, e, I)
    BY <2>5
  <2>. QED
    BY <2>2, <2>6 DEF e
<1>3. Seq(Lines) \subseteq T
  <2>. HIDE DEF T
  <2>. QED
    BY <1>1, <1>2, SeqInduct
<1>. QED
  BY <1>3

(* What is picked from a document with one line more.                      *)
LEMMA PickAppend ==
    ASSUME NEW I
    PROVE  /\ Pick(<<>>, I) = <<>>
           /\ \A d \in Seq(Lines), x \in Lines :
                Pick(Append(d, x), I) =
                    IF Len(d) + 1 \in I THEN Append(Pick(d, I), x) ELSE Pick(d, I)
<1>1. ASSUME NEW d \in Seq(Lines)
      PROVE  \E p : IsPick(p, d, I) /\ Pick(d, I) = p[Len(d)]
  <2>. DEFINE p == CHOOSE f : IsPick(f, d, I)
  <2>1. IsPick(p, d, I)
    BY PickExists
  <2>2. Pick(d, I) = p[Len(d)]
    BY DEF Pick, IsPick
  <2>. HIDE DEF p
  <2>. QED
    BY <2>1, <2>2
<1>2. Pick(<<>>, I) = <<>>
  <2>1. <<>> \in Seq(Lines) /\ Len(<<>>) = 0
    BY EmptySeq
  <2>2. PICK p : IsPick(p, <<>>, I) /\ Pick(<<>>, I) = p[0]
    BY <1>1, <2>1
  <2>. QED
    BY <2>1, <2>2, PickEquation
<1>3. ASSUME NEW d \in Seq(Lines), NEW x \in Lines
      PROVE  Pick(Append(d, x), I) =
                 IF Len(d) + 1 \in I THEN Append(Pick(d, I), x) ELSE Pick(d, I)
  <2>. DEFINE e == Append(d, x)
  <2>1. /\ Len(d) \in Nat /\ Len(e) = Len(d) + 1 /\ e \in Seq(Lines)
        /\ e[Len(d) + 1] = x /\ \A i \in 1..Len(d) : e[i] = d[i]
    BY AppendProperties, LenProperties
  <2>. HIDE DEF e
  <2>2. PICK p : IsPick(p, d, I) /\ Pick(d, I) = p[Len(d)]
    BY <1>1
  <2>3. PICK q : IsPick(q, e, I) /\ Pick(e, I) = q[Len(e)]
    BY <1>1, <2>1
  <2>4. p[Len(d)] = q[Len(d)]
    BY <2>1, <2>2, <2>3, PickUnique
  <2>5. q[Len(d) + 1] = IF Len(d) + 1 \in I THEN Append(q[Len(d)], x) ELSE q[Len(d)]
    <3>1. Len(d) + 1 \in 0..Len(e) /\ Len(d) + 1 # 0 /\ (Len(d) + 1) - 1 = Len(d)
      BY <2>1
    <3>. QED
      BY <2>1, <2>3, <3>1 DEF IsPick
  <2>6. Pick(e, I) = IF Len(d) + 1 \in I THEN Append(Pick(d, I), x) ELSE Pick(d, I)
    BY <2>1, <2>2, <2>3, <2>4, <2>5
  <2>. QED
    BY <2>6 DEF e
<1>. QED
  BY <1>2, <1>3

---------------------------------------------------------------------------
(* ScanAll by its equations.                                               *)

IsScan(p, acc, d) ==
    p = [i \in 0..Len(d) |-> IF i = 0 THEN acc ELSE Scan(p[i - 1], d[i])]

(* The equation at a line.                                                 *)
LEMMA ScanEquation ==
    ASSUME NEW p, NEW d, NEW acc, IsScan(p, acc, d), NEW i \in 0..Len(d)
    PROVE  /\ i = 0 => p[i] = acc
           /\ i # 0 => p[i] = Scan(p[i - 1], d[i])
<1>. DEFINE f == [j \in 0..Len(d) |-> IF j = 0 THEN acc ELSE Scan(p[j - 1], d[j])]
<1>1. p = f
  BY DEF IsScan
<1>2. f[i] = IF i = 0 THEN acc ELSE Scan(p[i - 1], d[i])
  OBVIOUS
<1>. HIDE DEF f
<1>. QED
  BY <1>1, <1>2

(* Two documents that agree up to a line agree in how they are scanned     *)
(* up to it.                                                               *)
LEMMA ScanUnique ==
    ASSUME NEW d \in Seq(Lines), NEW e \in Seq(Lines), NEW acc, NEW p, NEW q,
           IsScan(p, acc, d), IsScan(q, acc, e),
           Len(d) <= Len(e), \A i \in 1..Len(d) : d[i] = e[i]
    PROVE  \A i \in 0..Len(d) : p[i] = q[i]
<1>. DEFINE T == {n \in Nat : n <= Len(d) => p[n] = q[n]}
<1>0. Len(d) \in Nat /\ Len(e) \in Nat
  BY LenProperties
<1>1. 0 \in T
  <2>1. 0 \in 0..Len(d) /\ 0 \in 0..Len(e)
    BY <1>0
  <2>2. p[0] = acc /\ q[0] = acc
    BY <2>1, ScanEquation
  <2>. QED
    BY <2>2
<1>2. ASSUME NEW n \in Nat, n \in T PROVE n + 1 \in T
  <2>. SUFFICES ASSUME n + 1 <= Len(d) PROVE p[n + 1] = q[n + 1]
    OBVIOUS
  <2>. DEFINE k == n + 1
  <2>1. k \in 1..Len(d) /\ k \in 0..Len(d) /\ k \in 0..Len(e) /\ k # 0 /\ k - 1 = n
    BY <1>0
  <2>. HIDE DEF k
  <2>2. p[k] = Scan(p[n], d[k]) /\ q[k] = Scan(q[n], e[k])
    BY <2>1, ScanEquation
  <2>3. p[n] = q[n]
    BY <1>0, <1>2, <2>1
  <2>4. p[k] = q[k]
    BY <2>1, <2>2, <2>3
  <2>. QED
    BY <2>4 DEF k
<1>3. Nat \subseteq T
  <2>. HIDE DEF T
  <2>. QED
    BY <1>1, <1>2, NatInduct
<1>. QED
  BY <1>0, <1>3

(* For every document there is a function with the equations of ScanAll.   *)
LEMMA ScanExists ==
    ASSUME NEW d \in Seq(Lines), NEW acc
    PROVE  \E p : IsScan(p, acc, d)
<1>. DEFINE T == {s \in Seq(Lines) : \E p : IsScan(p, acc, s)}
<1>1. <<>> \in T
  <2>. DEFINE p == [i \in 0..0 |-> acc]
  <2>1. Len(<<>>) = 0 /\ <<>> \in Seq(Lines)
    BY EmptySeq
  <2>2. IsScan(p, acc, <<>>)
    BY <2>1 DEF IsScan
  <2>. HIDE DEF p
  <2>. QED
    BY <2>1, <2>2
<1>2. ASSUME NEW s \in Seq(Lines), NEW x \in Lines, s \in T PROVE Append(s, x) \in T
  <2>1. PICK p : IsScan(p, acc, s)
    BY <1>2
  <2>. DEFINE n == Len(s)
              e == Append(s, x)
              q == [i \in 0..(n + 1) |-> IF i <= n THEN p[i] ELSE Scan(p[n], x)]
              r == [i \in 0..Len(e) |-> IF i = 0 THEN acc ELSE Scan(q[i - 1], e[i])]
  <2>2. /\ n \in Nat /\ Len(e) = n + 1 /\ e \in Seq(Lines) /\ e[n + 1] = x
        /\ \A i \in 1..n : e[i] = s[i]
    BY AppendProperties, LenProperties
  <2>3. ASSUME NEW i \in 0..(n + 1) PROVE q[i] = r[i]
    <3>. HIDE DEF e
    <3>1. CASE i = 0
      <4>1. 0 \in 0..Len(s)
        BY <2>2
      <4>2. p[0] = acc
        BY <2>1, <4>1, ScanEquation
      <4>. QED
        BY <2>2, <3>1, <4>2
    <3>2. CASE i \in 1..n
      <4>1. i \in 0..Len(s) /\ i # 0
        BY <2>2, <3>2
      <4>2. p[i] = Scan(p[i - 1], s[i])
        BY <2>1, <4>1, ScanEquation
      <4>3. q[i] = p[i] /\ q[i - 1] = p[i - 1] /\ e[i] = s[i]
        BY <2>2, <3>2
      <4>. QED
        BY <2>2, <3>2, <4>2, <4>3
    <3>3. CASE i = n + 1
      <4>1. q[i] = Scan(p[n], x) /\ q[i - 1] = p[n]
        BY <2>2, <3>3
      <4>. QED
        BY <2>2, <3>3, <4>1
    <3>. QED
      BY <2>2, <3>1, <3>2, <3>3
  <2>4. q = r
    BY <2>2, <2>3
  <2>5. IsScan(q, acc, e)
    BY <2>4 DEF IsScan
  <2>. HIDE DEF q, e, r
  <2>6. \E f : IsScan(f, acc, e)
    BY <2>5
  <2>. QED
    BY <2>2, <2>6 DEF e
<1>3. Seq(Lines) \subseteq T
  <2>. HIDE DEF T
  <2>. QED
    BY <1>1, <1>2, SeqInduct
<1>. QED
  BY <1>3

(* How a document with one line more is scanned.                           *)
LEMMA ScanAppend ==
    ASSUME NEW acc
    PROVE  /\ ScanAll(acc, <<>>) = acc
           /\ \A d \in Seq(Lines), x \in Lines :
                ScanAll(acc, Append(d, x)) = Scan(ScanAll(acc, d), x)
<1>1. ASSUME NEW d \in Seq(Lines)
      PROVE  \E p : IsScan(p, acc, d) /\ ScanAll(acc, d) = p[Len(d)]
  <2>. DEFINE p == CHOOSE f : IsScan(f, acc, d)
  <2>1. IsScan(p, acc, d)
    BY ScanExists
  <2>2. ScanAll(acc, d) = p[Len(d)]
    BY DEF ScanAll, IsScan
  <2>. HIDE DEF p
  <2>. QED
    BY <2>1, <2>2
<1>2. ScanAll(acc, <<>>) = acc
  <2>1. <<>> \in Seq(Lines) /\ Len(<<>>) = 0
    BY EmptySeq
  <2>2. PICK p : IsScan(p, acc, <<>>) /\ ScanAll(acc, <<>>) = p[0]
    BY <1>1, <2>1
  <2>. QED
    BY <2>1, <2>2, ScanEquation
<1>3. ASSUME NEW d \in Seq(Lines), NEW x \in Lines
      PROVE  ScanAll(acc, Append(d, x)) = Scan(ScanAll(acc, d), x)
  <2>. DEFINE e == Append(d, x)
              k == Len(d) + 1
  <2>1. /\ Len(d) \in Nat /\ Len(e) = k /\ e \in Seq(Lines)
        /\ e[k] = x /\ \A i \in 1..Len(d) : e[i] = d[i]
        /\ k \in 0..k /\ k # 0 /\ k - 1 = Len(d) /\ Len(d) <= k
    BY AppendProperties, LenProperties
  <2>. HIDE DEF e, k
  <2>2. PICK p : IsScan(p, acc, d) /\ ScanAll(acc, d) = p[Len(d)]
    BY <1>1
  <2>3. PICK q : IsScan(q, acc, e) /\ ScanAll(acc, e) = q[Len(e)]
    BY <1>1, <2>1
  <2>4. p[Len(d)] = q[Len(d)]
    <3>1. \A i \in 0..Len(d) : p[i] = q[i]
      BY <2>1, <2>2, <2>3, ScanUnique
    <3>. QED
      BY <2>1, <3>1
  <2>5. q[k] = Scan(q[Len(d)], x)
    BY <2>1, <2>3, ScanEquation
  <2>6. ScanAll(acc, e) = Scan(ScanAll(acc, d), x)
    BY <2>1, <2>2, <2>3, <2>4, <2>5
  <2>. QED
    BY <2>6 DEF e
<1>. QED
  BY <1>2, <1>3

---------------------------------------------------------------------------
(* Documents, line by line.                                                *)

(* A longer document is a shorter one with a line more.                    *)
LEMMA ConcatAppend ==
    ASSUME NEW s \in Seq(Lines), NEW t \in Seq(Lines), NEW x \in Lines
    PROVE  s \o Append(t, x) = Append(s \o t, x) /\ s \o t \in Seq(Lines)
<1>1. s \o t \in Seq(Lines) /\ <<x>> \in Seq(Lines)
  BY ConcatProperties
<1>2. Append(t, x) = t \o <<x>> /\ Append(s \o t, x) = (s \o t) \o <<x>>
  BY <1>1, AppendIsConcat
<1>3. (s \o t) \o <<x>> = s \o (t \o <<x>>)
  BY <1>1, ConcatAssociative
<1>. QED
  BY <1>1, <1>2, <1>3

(* Only the indices of the document matter.                                *)
LEMMA PickSame ==
    ASSUME NEW d \in Seq(Lines), NEW I, NEW J,
           \A i \in 1..Len(d) : i \in I <=> i \in J
    PROVE  Pick(d, I) = Pick(d, J)
<1>. DEFINE T == {s \in Seq(Lines) :
                    (\A i \in 1..Len(s) : i \in I <=> i \in J) => Pick(s, I) = Pick(s, J)}
<1>1. <<>> \in T
  BY PickAppend, EmptySeq
<1>2. ASSUME NEW s \in Seq(Lines), NEW x \in Lines, s \in T PROVE Append(s, x) \in T
  <2>. DEFINE e == Append(s, x)
              k == Len(s) + 1
  <2>1. e \in Seq(Lines) /\ Len(e) = k /\ Len(s) \in Nat
    BY AppendProperties, LenProperties
  <2>. SUFFICES ASSUME \A i \in 1..Len(e) : i \in I <=> i \in J
                PROVE  Pick(e, I) = Pick(e, J)
    BY <2>1
  <2>2. Pick(s, I) = Pick(s, J) /\ (k \in I <=> k \in J)
    BY <1>2, <2>1
  <2>3. ASSUME NEW A
        PROVE  Pick(e, A) = IF k \in A THEN Append(Pick(s, A), x) ELSE Pick(s, A)
    BY PickAppend
  <2>. HIDE DEF e, k
  <2>. QED
    BY <2>2, <2>3
<1>3. Seq(Lines) \subseteq T
  <2>. HIDE DEF T
  <2>. QED
    BY <1>1, <1>2, SeqInduct
<1>. QED
  BY <1>3

(* What is picked is a document.                                           *)
LEMMA PickType ==
    ASSUME NEW d \in Seq(Lines), NEW I
    PROVE  Pick(d, I) \in Seq(Lines)
<1>. DEFINE T == {s \in Seq(Lines) : Pick(s, I) \in Seq(Lines)}
<1>1. <<>> \in T
  <2>1. Pick(<<>>, I) = <<>>
    BY PickAppend
  <2>2. <<>> \in Seq(Lines)
    BY EmptySeq
  <2>. QED
    BY <2>1, <2>2
<1>2. ASSUME NEW s \in Seq(Lines), NEW x \in Lines, s \in T PROVE Append(s, x) \in T
  <2>1. Append(s, x) \in Seq(Lines) /\ Append(Pick(s, I), x) \in Seq(Lines)
    BY <1>2, AppendProperties
  <2>2. Pick(Append(s, x), I) =
            IF Len(s) + 1 \in I THEN Append(Pick(s, I), x) ELSE Pick(s, I)
    BY PickAppend
  <2>. QED
    BY <1>2, <2>1, <2>2
<1>3. Seq(Lines) \subseteq T
  <2>. HIDE DEF T
  <2>. QED
    BY <1>1, <1>2, SeqInduct
<1>. QED
  BY <1>3

---------------------------------------------------------------------------
(* The lines of some kinds.                                                *)

Kinded(d, K) == Pick(d, {i \in 1..Len(d) : d[i].kind \in K})
Comments(d) == Kinded(d, {"comment"})
Rest(d) == Kinded(d, Kinds \ {"comment"})

(* A line more is picked when it is of these kinds.                        *)
LEMMA KindedAppend ==
    ASSUME NEW K
    PROVE  /\ Kinded(<<>>, K) = <<>>
           /\ \A d \in Seq(Lines), x \in Lines :
                Kinded(Append(d, x), K) =
                    IF x.kind \in K THEN Append(Kinded(d, K), x) ELSE Kinded(d, K)
<1>1. Kinded(<<>>, K) = <<>>
  BY PickAppend DEF Kinded
<1>2. ASSUME NEW d \in Seq(Lines), NEW x \in Lines
      PROVE  Kinded(Append(d, x), K) =
                 IF x.kind \in K THEN Append(Kinded(d, K), x) ELSE Kinded(d, K)
  <2>. DEFINE e == Append(d, x)
              k == Len(d) + 1
              I == {i \in 1..Len(d) : d[i].kind \in K}
              J == {i \in 1..Len(e) : e[i].kind \in K}
  <2>1. /\ Len(d) \in Nat /\ Len(e) = k /\ e \in Seq(Lines)
        /\ e[k] = x /\ \A i \in 1..Len(d) : e[i] = d[i]
    BY AppendProperties, LenProperties
  <2>. HIDE DEF e
  <2>2. \A i \in 1..Len(d) : i \in I <=> i \in J
    BY <2>1
  <2>3. k \in J <=> x.kind \in K
    BY <2>1
  <2>. HIDE DEF I, J, k
  <2>4. Pick(d, I) = Pick(d, J)
    BY <2>2, PickSame
  <2>5. Pick(e, J) = IF k \in J THEN Append(Pick(d, J), x) ELSE Pick(d, J)
    BY PickAppend DEF e, k
  <2>6. Pick(e, J) = IF x.kind \in K THEN Append(Pick(d, I), x) ELSE Pick(d, I)
    BY <2>3, <2>4, <2>5
  <2>7. Kinded(d, K) = Pick(d, I) /\ Kinded(e, K) = Pick(e, J)
    BY DEF Kinded, I, J
  <2>. QED
    BY <2>6, <2>7 DEF e
<1>. QED
  BY <1>1, <1>2

(* Lines of some kinds are a document.                                     *)
LEMMA KindedType ==
    ASSUME NEW K, NEW d \in Seq(Lines)
    PROVE  Kinded(d, K) \in Seq(Lines)
BY PickType DEF Kinded

(* Line by line, and so part by part.                                      *)
LEMMA KindedConcat ==
    ASSUME NEW K, NEW s \in Seq(Lines), NEW t \in Seq(Lines)
    PROVE  Kinded(s \o t, K) = Kinded(s, K) \o Kinded(t, K)
<1>. DEFINE T == {u \in Seq(Lines) : Kinded(s \o u, K) = Kinded(s, K) \o Kinded(u, K)}
<1>1. <<>> \in T
  BY KindedAppend, KindedType, ConcatEmptySeq, EmptySeq
<1>2. ASSUME NEW u \in Seq(Lines), NEW x \in Lines, u \in T PROVE Append(u, x) \in T
  <2>1. Append(u, x) \in Seq(Lines)
    BY AppendProperties
  <2>2. s \o Append(u, x) = Append(s \o u, x) /\ s \o u \in Seq(Lines)
    BY ConcatAppend
  <2>3. Kinded(s, K) \o Append(Kinded(u, K), x) = Append(Kinded(s, K) \o Kinded(u, K), x)
    BY ConcatAppend, KindedType
  <2>4. Kinded(Append(s \o u, x), K) =
            IF x.kind \in K THEN Append(Kinded(s \o u, K), x) ELSE Kinded(s \o u, K)
    BY <2>2, KindedAppend
  <2>5. Kinded(Append(u, x), K) =
            IF x.kind \in K THEN Append(Kinded(u, K), x) ELSE Kinded(u, K)
    BY KindedAppend
  <2>. QED
    BY <1>2, <2>1, <2>2, <2>3, <2>4, <2>5
<1>3. Seq(Lines) \subseteq T
  <2>. HIDE DEF T
  <2>. QED
    BY <1>1, <1>2, SeqInduct
<1>. QED
  BY <1>3

(* Of a document whose lines are all, or none, of these kinds.             *)
LEMMA KindedAllOrNone ==
    ASSUME NEW K, NEW d \in Seq(Lines)
    PROVE  /\ (\A i \in 1..Len(d) : d[i].kind \in K) => Kinded(d, K) = d
           /\ (\A i \in 1..Len(d) : d[i].kind \notin K) => Kinded(d, K) = <<>>
<1>. DEFINE All(s) == \A i \in 1..Len(s) : s[i].kind \in K
            None(s) == \A i \in 1..Len(s) : s[i].kind \notin K
            T == {s \in Seq(Lines) : /\ All(s) => Kinded(s, K) = s
                                     /\ None(s) => Kinded(s, K) = <<>>}
<1>1. <<>> \in T
  BY KindedAppend, EmptySeq
<1>2. ASSUME NEW s \in Seq(Lines), NEW x \in Lines, s \in T PROVE Append(s, x) \in T
  <2>. DEFINE e == Append(s, x)
  <2>1. /\ Len(s) \in Nat /\ Len(e) = Len(s) + 1 /\ e \in Seq(Lines)
        /\ e[Len(s) + 1] = x /\ \A i \in 1..Len(s) : e[i] = s[i]
    BY AppendProperties, LenProperties
  <2>2. Kinded(e, K) = IF x.kind \in K THEN Append(Kinded(s, K), x) ELSE Kinded(s, K)
    BY KindedAppend
  <2>3. (All(e) => All(s) /\ x.kind \in K) /\ (None(e) => None(s) /\ x.kind \notin K)
    <3>. HIDE DEF e
    <3>. QED
      BY <2>1
  <2>. HIDE DEF All, None
  <2>. QED
    BY <1>2, <2>1, <2>2, <2>3
<1>3. Seq(Lines) \subseteq T
  <2>. HIDE DEF T
  <2>. QED
    BY <1>1, <1>2, SeqInduct
<1>. QED
  BY <1>3

---------------------------------------------------------------------------
(* How the parts of a file are scanned.                                    *)

Start == [started |-> FALSE, pos |-> 0, kept |-> <<>>, node |-> <<>>]
Scans == [started : BOOLEAN, pos : Nat, kept : Seq(Lines), node : Seq(Lines)]

(* Scanning goes on where it stopped.                                      *)
LEMMA ScanConcat ==
    ASSUME NEW acc, NEW s \in Seq(Lines), NEW t \in Seq(Lines)
    PROVE  ScanAll(acc, s \o t) = ScanAll(ScanAll(acc, s), t)
<1>. DEFINE T == {u \in Seq(Lines) : ScanAll(acc, s \o u) = ScanAll(ScanAll(acc, s), u)}
<1>1. <<>> \in T
  <2>1. ScanAll(ScanAll(acc, s), <<>>) = ScanAll(acc, s)
    BY ScanAppend
  <2>2. s \o <<>> = s /\ <<>> \in Seq(Lines)
    BY ConcatEmptySeq, EmptySeq
  <2>. QED
    BY <2>1, <2>2
<1>2. ASSUME NEW u \in Seq(Lines), NEW x \in Lines, u \in T PROVE Append(u, x) \in T
  <2>1. Append(u, x) \in Seq(Lines)
    BY AppendProperties
  <2>2. s \o Append(u, x) = Append(s \o u, x) /\ s \o u \in Seq(Lines)
    BY ConcatAppend
  <2>3. ScanAll(acc, Append(s \o u, x)) = Scan(ScanAll(acc, s \o u), x)
    BY <2>2, ScanAppend
  <2>4. ScanAll(ScanAll(acc, s), Append(u, x)) = Scan(ScanAll(ScanAll(acc, s), u), x)
    BY ScanAppend
  <2>. QED
    BY <1>2, <2>1, <2>2, <2>3, <2>4
<1>3. Seq(Lines) \subseteq T
  <2>. HIDE DEF T
  <2>. QED
    BY <1>1, <1>2, SeqInduct
<1>. QED
  BY <1>3

(* Scanning a single line.                                                 *)
LEMMA ScanOne ==
    ASSUME NEW acc, NEW x \in Lines
    PROVE  ScanAll(acc, <<x>>) = Scan(acc, x)
<1>. DEFINE z == <<>>
<1>1. z \in Seq(Lines) /\ ScanAll(acc, z) = acc
  BY EmptySeq, ScanAppend
<1>2. Append(z, x) = <<x>>
  BY AppendIsConcat, ConcatEmptySeq
<1>. HIDE DEF z
<1>3. ScanAll(acc, Append(z, x)) = Scan(ScanAll(acc, z), x)
  BY <1>1, ScanAppend
<1>. QED
  BY <1>1, <1>2, <1>3

(* Lines that do not start the stanza, before it or behind it, are kept.   *)
LEMMA ScanOutside ==
    ASSUME NEW acc \in Scans, NEW s \in Seq(Lines),
           \A i \in 1..Len(s) : ~Own(s[i]),
           acc.started => s = <<>> \/ s[1].kind = "auto"
    PROVE  ScanAll(acc, s) = [started |-> acc.started /\ s = <<>>, pos |-> acc.pos,
                              kept |-> acc.kept \o s, node |-> acc.node]
<1>. DEFINE Ok(u) == /\ \A i \in 1..Len(u) : ~Own(u[i])
                     /\ acc.started => u = <<>> \/ u[1].kind = "auto"
            Out(u) == [started |-> acc.started /\ u = <<>>, pos |-> acc.pos,
                       kept |-> acc.kept \o u, node |-> acc.node]
            T == {u \in Seq(Lines) : Ok(u) => ScanAll(acc, u) = Out(u)}
<1>0. acc = [started |-> acc.started, pos |-> acc.pos,
             kept |-> acc.kept, node |-> acc.node] /\ acc.kept \in Seq(Lines)
      /\ acc.started \in BOOLEAN
  BY DEF Scans
<1>1. <<>> \in T
  <2>1. ScanAll(acc, <<>>) = acc
    BY ScanAppend
  <2>2. acc.kept \o <<>> = acc.kept /\ <<>> \in Seq(Lines)
    BY <1>0, ConcatEmptySeq, EmptySeq
  <2>3. (acc.started /\ <<>> = <<>>) = acc.started
    BY <1>0
  <2>4. Out(<<>>) = acc
    BY <1>0, <2>2, <2>3, Zenon
  <2>. QED
    BY <2>1, <2>2, <2>4
<1>2. ASSUME NEW u \in Seq(Lines), NEW x \in Lines, u \in T PROVE Append(u, x) \in T
  <2>. DEFINE e == Append(u, x)
  <2>1. /\ Len(u) \in Nat /\ Len(e) = Len(u) + 1 /\ e \in Seq(Lines)
        /\ e[Len(u) + 1] = x /\ (\A i \in 1..Len(u) : e[i] = u[i])
        /\ e # <<>> /\ (u # <<>> => Len(u) > 0) /\ (u = <<>> => Len(u) = 0)
    BY AppendProperties, LenProperties, EmptySeq
  <2>2. acc.kept \o e = Append(acc.kept \o u, x)
    BY <1>0, ConcatAppend
  <2>3. ScanAll(acc, e) = Scan(ScanAll(acc, u), x)
    BY ScanAppend
  <2>. HIDE DEF e
  <2>. SUFFICES ASSUME Ok(e) PROVE ScanAll(acc, e) = Out(e)
    BY <2>1 DEF e
  <2>4. ~Own(x)
    BY <2>1
  <2>5. Ok(u)
    <3>1. \A i \in 1..Len(u) : ~Own(u[i])
      BY <2>1
    <3>2. acc.started => u = <<>> \/ u[1].kind = "auto"
      BY <2>1
    <3>. QED
      BY <3>1, <3>2
  <2>6. x.kind = "auto" \/ ~(acc.started /\ u = <<>>)
    BY <2>1
  <2>7. ScanAll(acc, u) = Out(u)
    BY <1>2, <2>5
  <2>8. ~InStanza(Out(u), x)
    BY <2>6 DEF InStanza
  <2>9. Scan(Out(u), x) =
          [started |-> IF x.kind = "auto" THEN Own(x) ELSE Out(u).started,
           pos     |-> Out(u).pos,
           kept    |-> Append(Out(u).kept, x),
           node    |-> Out(u).node]
    BY <2>4, <2>8 DEF Scan
  <2>10. (IF x.kind = "auto" THEN Own(x) ELSE Out(u).started) = FALSE
    <3>1. CASE x.kind = "auto"
      <4>1. Own(x) = FALSE
        BY <2>4 DEF Own
      <4>. QED
        BY <3>1, <4>1
    <3>2. CASE x.kind # "auto"
      <4>1. (acc.started /\ u = <<>>) = FALSE
        BY <2>6, <3>2
      <4>. QED
        BY <3>2, <4>1
    <3>. QED
      BY <3>1, <3>2
  <2>11. (acc.started /\ e = <<>>) = FALSE
    BY <2>1
  <2>12. Out(u).pos = acc.pos /\ Out(u).kept = acc.kept \o u /\ Out(u).node = acc.node
    OBVIOUS
  <2>. QED
    BY <2>2, <2>3, <2>7, <2>9, <2>10, <2>11, <2>12, Zenon
<1>3. Seq(Lines) \subseteq T
  <2>. HIDE DEF T
  <2>. QED
    BY <1>1, <1>2, SeqInduct
<1>. QED
  BY <1>3

(* In the stanza comments are kept and the other lines move to EthXNode.   *)
LEMMA ScanInside ==
    ASSUME NEW acc \in Scans, acc.started, NEW s \in Seq(Lines),
           \A i \in 1..Len(s) : s[i].kind # "auto"
    PROVE  ScanAll(acc, s) = [started |-> TRUE, pos |-> acc.pos,
                              kept |-> acc.kept \o Comments(s),
                              node |-> acc.node \o Rest(s)]
<1>. DEFINE Ok(u) == \A i \in 1..Len(u) : u[i].kind # "auto"
            In(u) == [started |-> TRUE, pos |-> acc.pos,
                      kept |-> acc.kept \o Comments(u), node |-> acc.node \o Rest(u)]
            T == {u \in Seq(Lines) : Ok(u) => ScanAll(acc, u) = In(u)}
<1>0. acc = [started |-> TRUE, pos |-> acc.pos,
             kept |-> acc.kept, node |-> acc.node]
      /\ acc.kept \in Seq(Lines) /\ acc.node \in Seq(Lines)
  BY DEF Scans
<1>1. <<>> \in T
  <2>1. ScanAll(acc, <<>>) = acc /\ Comments(<<>>) = <<>> /\ Rest(<<>>) = <<>>
    BY ScanAppend, KindedAppend DEF Comments, Rest
  <2>2. acc.kept \o <<>> = acc.kept /\ acc.node \o <<>> = acc.node
        /\ <<>> \in Seq(Lines)
    BY <1>0, ConcatEmptySeq, EmptySeq
  <2>4. In(<<>>) = acc
    BY <1>0, <2>1, <2>2, Zenon
  <2>. QED
    BY <2>1, <2>2, <2>4
<1>2. ASSUME NEW u \in Seq(Lines), NEW x \in Lines, u \in T PROVE Append(u, x) \in T
  <2>. DEFINE e == Append(u, x)
  <2>1. /\ Len(u) \in Nat /\ Len(e) = Len(u) + 1 /\ e \in Seq(Lines)
        /\ e[Len(u) + 1] = x /\ (\A i \in 1..Len(u) : e[i] = u[i])
    BY AppendProperties, LenProperties
  <2>2. /\ Comments(e) = IF x.kind = "comment" THEN Append(Comments(u), x) ELSE Comments(u)
        /\ Rest(e) = IF x.kind = "comment" THEN Rest(u) ELSE Append(Rest(u), x)
    <3>1. x.kind \in Kinds
      BY DEF Lines
    <3>2. ASSUME NEW K
          PROVE  Kinded(e, K) =
                     IF x.kind \in K THEN Append(Kinded(u, K), x) ELSE Kinded(u, K)
      BY KindedAppend
    <3>. HIDE DEF e
    <3>. QED
      BY <3>1, <3>2 DEF Comments, Rest
  <2>3. ScanAll(acc, e) = Scan(ScanAll(acc, u), x)
    BY ScanAppend
  <2>4. /\ acc.kept \o Append(Comments(u), x) = Append(acc.kept \o Comments(u), x)
        /\ acc.node \o Append(Rest(u), x) = Append(acc.node \o Rest(u), x)
    <3>1. Comments(u) \in Seq(Lines) /\ Rest(u) \in Seq(Lines)
      BY KindedType DEF Comments, Rest
    <3>. QED
      BY <1>0, <3>1, ConcatAppend
  <2>. HIDE DEF e
  <2>. SUFFICES ASSUME Ok(e) PROVE ScanAll(acc, e) = In(e)
    BY <2>1 DEF e
  <2>5. x.kind # "auto" /\ Ok(u)
    BY <2>1
  <2>6. ScanAll(acc, u) = In(u)
    BY <1>2, <2>5
  <2>7. ~Own(x) /\ (InStanza(In(u), x) <=> x.kind # "comment")
    BY <2>5 DEF Own, InStanza
  <2>8. CASE x.kind = "comment"
    <3>1. Scan(In(u), x) = [started |-> TRUE, pos |-> acc.pos,
                            kept |-> Append(acc.kept \o Comments(u), x),
                            node |-> acc.node \o Rest(u)]
      BY <2>5, <2>7, <2>8 DEF Scan
    <3>. QED
      BY <2>2, <2>3, <2>4, <2>6, <2>8, <3>1
  <2>9. CASE x.kind # "comment"
    <3>1. Scan(In(u), x) = [started |-> TRUE, pos |-> acc.pos,
                            kept |-> acc.kept \o Comments(u),
                            node |-> Append(acc.node \o Rest(u), x)]
      BY <2>5, <2>7, <2>9 DEF Scan
    <3>. QED
      BY <2>2, <2>3, <2>4, <2>6, <2>9, <3>1
  <2>. QED
    BY <2>8, <2>9
<1>3. Seq(Lines) \subseteq T
  <2>. HIDE DEF T
  <2>. QED
    BY <1>1, <1>2, SeqInduct
<1>. QED
  BY <1>3

---------------------------------------------------------------------------
(* Whose a line is.                                                        *)

(* A set of numbers up to n that is not empty has a greatest element.      *)
LEMMA GreatestNumber ==
    ASSUME NEW n \in Nat, NEW T \in SUBSET (1..n), T # {}
    PROVE  \E m \in T : \A k \in T : k <= m
<1>. DEFINE U == {n - m : m \in T}
<1>1. U \in SUBSET Nat /\ U # {}
  <2>1. ASSUME NEW m \in T PROVE n - m \in Nat
    <3>1. m \in 1..n
      OBVIOUS
    <3>. QED
      BY <3>1
  <2>. QED
    BY <2>1
<1>2. PICK u \in U : \A v \in U : u <= v
  <2>. HIDE DEF U
  <2>. QED
    BY <1>1, LeastNumber
<1>3. PICK m \in T : u = n - m
  BY <1>2
<1>4. ASSUME NEW k \in T PROVE k <= m
  <2>1. n - k \in U
    OBVIOUS
  <2>2. u <= n - k
    BY <1>2, <2>1
  <2>3. n \in Int /\ k \in Int /\ m \in Int
    OBVIOUS
  <2>. QED
    BY <1>3, <2>2, <2>3
<1>. QED
  BY <1>4

(* The nearest auto or iface line at or before line i of d names ethX.     *)
Nearest(d, i) == CHOOSE j \in Heads(d, i) : \A k \in Heads(d, i) : k <= j
Mine(d, i) == Heads(d, i) # {} /\ EthX \in d[Nearest(d, i)].names

(* Where an auto or iface line is at or before a line, there is a nearest  *)
(* one.                                                                    *)
LEMMA NearestExists ==
    ASSUME NEW d, NEW i \in Nat, Heads(d, i) # {}
    PROVE  Nearest(d, i) \in Heads(d, i) /\ \A k \in Heads(d, i) : k <= Nearest(d, i)
<1>1. Heads(d, i) \in SUBSET (1..i)
  BY DEF Heads
<1>2. \E j \in Heads(d, i) : \A k \in Heads(d, i) : k <= j
  <2>. DEFINE H == Heads(d, i)
  <2>1. H \in SUBSET (1..i) /\ H # {}
    BY <1>1
  <2>. HIDE DEF H
  <2>2. \E j \in H : \A k \in H : k <= j
    BY <2>1, GreatestNumber
  <2>. QED
    BY <2>2 DEF H
<1>. QED
  BY <1>2 DEF Nearest

(* IsOther, the reference, in terms of Mine.                               *)
LEMMA OtherIsNotMine ==
    ASSUME NEW d, NEW i
    PROVE  IsOther(d, i) <=> d[i].kind = "comment" \/ ~Mine(d, i)
BY DEF IsOther, Mine, Nearest

(* A line more leaves the lines before it to whom they belonged.           *)
LEMMA MineAppend ==
    ASSUME NEW d \in Seq(Lines), NEW x \in Lines
    PROVE  /\ \A i \in 0..Len(d) : Mine(Append(d, x), i) <=> Mine(d, i)
           /\ Mine(Append(d, x), Len(d) + 1) <=>
                IF x.kind \in {"auto", "iface"} THEN EthX \in x.names
                ELSE Mine(d, Len(d))
<1>. DEFINE e == Append(d, x)
            n == Len(d)
<1>0. /\ n \in Nat /\ Len(e) = n + 1 /\ e[n + 1] = x
      /\ \A i \in 1..n : e[i] = d[i]
  BY AppendProperties, LenProperties
<1>. HIDE DEF e, n
<1>1. ASSUME NEW i \in 0..n PROVE Heads(e, i) = Heads(d, i)
  BY <1>0 DEF Heads
<1>2. ASSUME NEW i \in 0..n PROVE Mine(e, i) <=> Mine(d, i)
  <2>1. Nearest(e, i) = Nearest(d, i)
    BY <1>1 DEF Nearest
  <2>2. CASE Heads(d, i) = {}
    BY <1>1, <2>2 DEF Mine
  <2>3. CASE Heads(d, i) # {}
    <3>1. Nearest(d, i) \in 1..i
      <4>1. i \in Nat
        BY <1>0
      <4>. QED
        BY <2>3, <4>1, NearestExists DEF Heads
    <3>2. e[Nearest(d, i)] = d[Nearest(d, i)]
      BY <1>0, <3>1
    <3>. QED
      BY <1>1, <2>1, <3>2 DEF Mine
  <2>. QED
    BY <2>2, <2>3
<1>3. CASE x.kind \in {"auto", "iface"}
  <2>1. n + 1 \in Heads(e, n + 1) /\ n + 1 \in Nat
    BY <1>0, <1>3 DEF Heads
  <2>2. /\ Nearest(e, n + 1) \in Heads(e, n + 1)
        /\ \A k \in Heads(e, n + 1) : k <= Nearest(e, n + 1)
    BY <2>1, NearestExists
  <2>3. Nearest(e, n + 1) \in 1..(n + 1) /\ n + 1 <= Nearest(e, n + 1)
    <3>1. Nearest(e, n + 1) \in 1..(n + 1)
      BY <2>2 DEF Heads
    <3>2. n + 1 <= Nearest(e, n + 1)
      BY <2>1, <2>2
    <3>. QED
      BY <3>1, <3>2
  <2>4. Nearest(e, n + 1) = n + 1
    BY <1>0, <2>3
  <2>5. Mine(e, n + 1) <=> EthX \in x.names
    BY <1>0, <2>1, <2>4 DEF Mine
  <2>. QED
    BY <1>2, <1>3, <2>5 DEF e, n
<1>4. CASE x.kind \notin {"auto", "iface"}
  <2>1. Heads(e, n + 1) = Heads(e, n)
    BY <1>0, <1>4 DEF Heads
  <2>2. Mine(e, n + 1) <=> Mine(e, n)
    BY <2>1 DEF Mine, Nearest
  <2>3. Mine(e, n) <=> Mine(d, n)
    BY <1>0, <1>2
  <2>. QED
    BY <1>2, <1>4, <2>2, <2>3 DEF e, n
<1>. QED
  BY <1>3, <1>4

(* A line more is another's unless it belongs to ethX; comments are        *)
(* nobody's.                                                               *)
LEMMA OthersAppend ==
    ASSUME NEW d \in Seq(Lines), NEW x \in Lines
    PROVE  Others(Append(d, x)) =
               IF x.kind = "comment" \/ ~Mine(Append(d, x), Len(d) + 1)
               THEN Append(Others(d), x) ELSE Others(d)
<1>. DEFINE e == Append(d, x)
            n == Len(d)
            I == {i \in 1..Len(d) : IsOther(d, i)}
            J == {i \in 1..Len(e) : IsOther(e, i)}
<1>0. /\ n \in Nat /\ Len(e) = n + 1 /\ e[n + 1] = x
      /\ \A i \in 1..n : e[i] = d[i]
  BY AppendProperties, LenProperties
<1>1. \A i \in 0..n : Mine(e, i) <=> Mine(d, i)
  BY MineAppend
<1>2. Pick(e, J) = IF n + 1 \in J THEN Append(Pick(d, J), x) ELSE Pick(d, J)
  <2>. HIDE DEF J
  <2>. QED
    BY PickAppend
<1>. HIDE DEF e
<1>3. ASSUME NEW i \in 1..n PROVE i \in I <=> i \in J
  <2>1. IsOther(d, i) <=> IsOther(e, i)
    BY <1>0, <1>1, OtherIsNotMine
  <2>. QED
    BY <1>0, <2>1
<1>4. n + 1 \in J <=> x.kind = "comment" \/ ~Mine(e, n + 1)
  BY <1>0, OtherIsNotMine
<1>5. Pick(d, I) = Pick(d, J)
  <2>. HIDE DEF I, J
  <2>. QED
    BY <1>3, PickSame
<1>6. Others(d) = Pick(d, I) /\ Others(e) = Pick(e, J)
  BY DEF Others
<1>. HIDE DEF I, J
<1>7. Others(e) = IF x.kind = "comment" \/ ~Mine(e, n + 1)
                  THEN Append(Others(d), x) ELSE Others(d)
  BY <1>2, <1>4, <1>5, <1>6
<1>. QED
  BY <1>7 DEF e

(* The lines of the others are a document.                                 *)
LEMMA OthersType ==
    ASSUME NEW d \in Seq(Lines)
    PROVE  Others(d) \in Seq(Lines)
BY PickType DEF Others

(* The lines of others, in front of the stanza and behind it.              *)
LEMMA OthersOutside ==
    ASSUME NEW d \in Seq(Lines), NEW s \in Seq(Lines), Foreign(s),
           Mine(d, Len(d)) => s = <<>> \/ s[1].kind = "auto"
    PROVE  /\ Others(d \o s) = Others(d) \o s
           /\ s # <<>> => ~Mine(d \o s, Len(d \o s))
<1>. DEFINE Ok(u) == /\ Foreign(u)
                     /\ Mine(d, Len(d)) => u = <<>> \/ u[1].kind = "auto"
            Out(u) == /\ Others(d \o u) = Others(d) \o u
                      /\ u # <<>> => ~Mine(d \o u, Len(d \o u))
            T == {u \in Seq(Lines) : Ok(u) => Out(u)}
<1>1. <<>> \in T
  BY OthersType, ConcatEmptySeq, EmptySeq
<1>2. ASSUME NEW u \in Seq(Lines), NEW x \in Lines, u \in T PROVE Append(u, x) \in T
  <2>. DEFINE e == Append(u, x)
              w == d \o u
  <2>1. /\ Len(u) \in Nat /\ Len(e) = Len(u) + 1 /\ e \in Seq(Lines)
        /\ e[Len(u) + 1] = x /\ (\A i \in 1..Len(u) : e[i] = u[i])
        /\ e # <<>> /\ (u # <<>> => Len(u) > 0) /\ (u = <<>> => Len(u) = 0)
    BY AppendProperties, LenProperties, EmptySeq
  <2>2. w \in Seq(Lines) /\ d \o e = Append(w, x)
    BY ConcatAppend
  <2>3. Others(d) \o e = Append(Others(d) \o u, x)
    BY OthersType, ConcatAppend
  <2>4. Len(w) \in Nat /\ Len(Append(w, x)) = Len(w) + 1
    BY <2>2, LenProperties, AppendProperties
  <2>5. Others(Append(w, x)) = IF x.kind = "comment" \/ ~Mine(Append(w, x), Len(w) + 1)
                               THEN Append(Others(w), x) ELSE Others(w)
    BY <2>2, OthersAppend
  <2>6. Mine(Append(w, x), Len(w) + 1) <=>
            IF x.kind \in {"auto", "iface"} THEN EthX \in x.names ELSE Mine(w, Len(w))
    BY <2>2, MineAppend
  <2>. SUFFICES ASSUME Ok(e) PROVE Out(e)
    BY <2>1
  <2>. HIDE DEF e
  <2>7. x.kind \in {"auto", "iface"} => EthX \notin x.names
    BY <2>1, NameAssumption DEF Foreign, Own
  <2>8. Ok(u)
    <3>1. Foreign(u)
      BY <2>1 DEF Foreign
    <3>2. ASSUME Mine(d, Len(d)), u # <<>> PROVE u[1].kind = "auto"
      <4>1. 1 \in 1..Len(u)
        BY <2>1, <3>2
      <4>2. e[1] = u[1]
        BY <2>1, <4>1
      <4>3. e = <<>> \/ e[1].kind = "auto"
        BY <3>2
      <4>. QED
        BY <2>1, <4>2, <4>3
    <3>. QED
      BY <3>1, <3>2
  <2>9. Out(u)
    BY <1>2, <2>8
  <2>10. x.kind \notin {"auto", "iface"} => ~Mine(w, Len(w))
    <3>1. CASE u # <<>>
      BY <2>9, <3>1
    <3>2. CASE u = <<>>
      <4>1. w = d
        BY <3>2, ConcatEmptySeq
      <4>2. e[1] = x
        BY <2>1, <3>2
      <4>. QED
        BY <2>1, <4>1, <4>2
    <3>. QED
      BY <3>1, <3>2
  <2>. HIDE DEF w
  <2>11. ~Mine(Append(w, x), Len(w) + 1)
    BY <2>6, <2>7, <2>10
  <2>12. Others(w) = Others(d) \o u
    BY <2>9 DEF w
  <2>. QED
    BY <2>1, <2>2, <2>3, <2>4, <2>5, <2>11, <2>12
<1>3. Seq(Lines) \subseteq T
  <2>. HIDE DEF T
  <2>. QED
    BY <1>1, <1>2, SeqInduct
<1>. QED
  BY <1>3

(* The lines of the stanza.                                                *)
LEMMA OthersInside ==
    ASSUME NEW d \in Seq(Lines), Mine(d, Len(d)), NEW s \in Seq(Lines), Body(s)
    PROVE  /\ Others(d \o s) = Others(d) \o Comments(s)
           /\ Mine(d \o s, Len(d \o s))
<1>. DEFINE In(u) == /\ Others(d \o u) = Others(d) \o Comments(u)
                     /\ Mine(d \o u, Len(d \o u))
            T == {u \in Seq(Lines) : Body(u) => In(u)}
<1>1. <<>> \in T
  <2>1. Comments(<<>>) = <<>> /\ <<>> \in Seq(Lines) /\ d \o <<>> = d
        /\ Others(d) \o <<>> = Others(d)
    BY KindedAppend, OthersType, ConcatEmptySeq, EmptySeq DEF Comments
  <2>. QED
    BY <2>1
<1>2. ASSUME NEW u \in Seq(Lines), NEW x \in Lines, u \in T PROVE Append(u, x) \in T
  <2>. DEFINE e == Append(u, x)
              w == d \o u
  <2>1. /\ Len(u) \in Nat /\ Len(e) = Len(u) + 1 /\ e \in Seq(Lines)
        /\ e[Len(u) + 1] = x /\ (\A i \in 1..Len(u) : e[i] = u[i])
    BY AppendProperties, LenProperties
  <2>2. w \in Seq(Lines) /\ d \o e = Append(w, x)
    BY ConcatAppend
  <2>3. Others(d) \o Append(Comments(u), x) = Append(Others(d) \o Comments(u), x)
    BY OthersType, KindedType, ConcatAppend DEF Comments
  <2>4. Len(w) \in Nat /\ Len(Append(w, x)) = Len(w) + 1
    BY <2>2, LenProperties, AppendProperties
  <2>5. Others(Append(w, x)) = IF x.kind = "comment" \/ ~Mine(Append(w, x), Len(w) + 1)
                               THEN Append(Others(w), x) ELSE Others(w)
    BY <2>2, OthersAppend
  <2>6. Mine(Append(w, x), Len(w) + 1) <=>
            IF x.kind \in {"auto", "iface"} THEN EthX \in x.names ELSE Mine(w, Len(w))
    BY <2>2, MineAppend
  <2>7. Comments(e) = IF x.kind = "comment" THEN Append(Comments(u), x) ELSE Comments(u)
    <3>1. ASSUME NEW K
          PROVE  Kinded(e, K) =
                     IF x.kind \in K THEN Append(Kinded(u, K), x) ELSE Kinded(u, K)
      BY KindedAppend
    <3>. HIDE DEF e
    <3>. QED
      BY <3>1 DEF Comments
  <2>. SUFFICES ASSUME Body(e) PROVE In(e)
    BY <2>1
  <2>. HIDE DEF e
  <2>8. x.kind \in {"auto", "iface"} => EthX \in x.names
    BY <2>1 DEF Body
  <2>9. Body(u)
    BY <2>1 DEF Body
  <2>10. Others(w) = Others(d) \o Comments(u) /\ Mine(w, Len(w))
    BY <1>2, <2>9
  <2>. HIDE DEF w
  <2>11. Mine(Append(w, x), Len(w) + 1)
    BY <2>6, <2>8, <2>10
  <2>. QED
    BY <2>2, <2>3, <2>4, <2>5, <2>7, <2>10, <2>11
<1>3. Seq(Lines) \subseteq T
  <2>. HIDE DEF T
  <2>. QED
    BY <1>1, <1>2, SeqInduct
<1>. QED
  BY <1>3

---------------------------------------------------------------------------
(* A file with the stanza of ethX, in parts: what is before it, its auto   *)
(* line, its other lines and the comments among them, and what follows.    *)

NoEnd(d) == \A i \in 1..Len(d) : d[i].kind # "end"
End == Line("end", {}, NoVal)

Parts(P, a, M, R) ==
    /\ P \in Seq(Lines) /\ Foreign(P) /\ NoEnd(P)
    /\ a \in Lines /\ a.kind = "auto" /\ EthX \in a.names
    /\ M \in Seq(Lines) /\ Body(M) /\ NoEnd(M)
    /\ R \in Seq(Lines) /\ Foreign(R) /\ NoEnd(R)
    /\ R = <<>> \/ R[1].kind = "auto"

Whole(P, a, M, R) == ((P \o <<a>>) \o M) \o R

(* The parts of a file and their concatenations are documents.             *)
LEMMA PartsTypes ==
    ASSUME NEW P, NEW a, NEW M, NEW R, Parts(P, a, M, R)
    PROVE  /\ <<a>> \in Seq(Lines)
           /\ P \o <<a>> \in Seq(Lines) /\ P \o <<a>> = Append(P, a)
           /\ Len(P \o <<a>>) = Len(P) + 1 /\ Len(P) \in Nat
           /\ (P \o <<a>>) \o M \in Seq(Lines)
           /\ Whole(P, a, M, R) \in Seq(Lines)
           /\ Comments(M) \in Seq(Lines) /\ Rest(M) \in Seq(Lines)
<1>1. P \in Seq(Lines) /\ a \in Lines /\ M \in Seq(Lines) /\ R \in Seq(Lines)
  BY DEF Parts
<1>2. <<a>> \in Seq(Lines)
  BY <1>1
<1>3. P \o <<a>> \in Seq(Lines) /\ P \o <<a>> = Append(P, a)
      /\ Len(P \o <<a>>) = Len(P) + 1 /\ Len(P) \in Nat
  BY <1>1, <1>2, ConcatProperties, AppendIsConcat, AppendProperties, LenProperties
<1>4. (P \o <<a>>) \o M \in Seq(Lines)
  BY <1>1, <1>3, ConcatProperties
<1>5. Whole(P, a, M, R) \in Seq(Lines)
  BY <1>1, <1>4, ConcatProperties DEF Whole
<1>. QED
  BY <1>1, <1>2, <1>3, <1>4, <1>5, KindedType DEF Comments, Rest

(* The empty line fgets leaves at the end of the file is a line.           *)
LEMMA EndLine == End \in Lines /\ End.kind = "end" /\ <<End>> \in Seq(Lines)
BY DEF End, Line, Lines, Kinds

(* What paraseFile makes of a file.                                        *)
Read(d) == ScanAll(Start, Append(d, End))

(* The state paraseFile starts with.                                       *)
LEMMA StartScan == Start \in Scans /\ ~Start.started
BY EmptySeq DEF Start, Scans

(* A file is read part by part.                                            *)
LEMMA ReadConcat ==
    ASSUME NEW P \in Seq(Lines), NEW A \in Seq(Lines), NEW M \in Seq(Lines),
           NEW R \in Seq(Lines)
    PROVE  Read(((P \o A) \o M) \o R) =
           ScanAll(ScanAll(ScanAll(ScanAll(ScanAll(Start, P), A), M), R), <<End>>)
<1>1. P \o A \in Seq(Lines) /\ (P \o A) \o M \in Seq(Lines)
      /\ ((P \o A) \o M) \o R \in Seq(Lines)
  BY ConcatProperties
<1>. DEFINE V == P \o A
            U == V \o M
            W == U \o R
<1>2. ScanAll(Start, V) = ScanAll(ScanAll(Start, P), A)
  BY ScanConcat
<1>3. V \in Seq(Lines) /\ U \in Seq(Lines) /\ W \in Seq(Lines)
  BY <1>1
<1>. HIDE DEF V
<1>4. ScanAll(Start, U) = ScanAll(ScanAll(Start, V), M)
  BY <1>3, ScanConcat
<1>. HIDE DEF U
<1>5. ScanAll(Start, W) = ScanAll(ScanAll(Start, U), R)
  BY <1>3, ScanConcat
<1>. HIDE DEF W
<1>. DEFINE e == <<End>>
<1>a. e \in Seq(Lines)
  BY EndLine
<1>. HIDE DEF e
<1>6. ScanAll(Start, W \o e) = ScanAll(ScanAll(Start, W), e)
  BY <1>3, <1>a, ScanConcat
<1>7. Append(W, End) = W \o e
  BY <1>3, EndLine, AppendIsConcat DEF e
<1>8. Read(W) = ScanAll(ScanAll(Start, W), e)
  BY <1>6, <1>7 DEF Read
<1>. QED
  BY <1>2, <1>4, <1>5, <1>8 DEF U, V, W, e

(* In a file without a stanza nothing is found and every line is kept.     *)
LEMMA ReadForeign ==
    ASSUME NEW d \in Seq(Lines), Foreign(d)
    PROVE  Read(d).pos = 0 /\ Read(d).kept = Append(d, End)
<1>. DEFINE e == Append(d, End)
<1>1. /\ e \in Seq(Lines) /\ Len(d) \in Nat /\ Len(e) = Len(d) + 1
      /\ e[Len(d) + 1] = End /\ \A i \in 1..Len(d) : e[i] = d[i]
  BY EndLine, AppendProperties, LenProperties
<1>. HIDE DEF e
<1>2. \A i \in 1..Len(e) : ~Own(e[i])
  BY <1>1, EndLine DEF Foreign, Own
<1>3. ScanAll(Start, e) = [started |-> Start.started /\ e = <<>>, pos |-> Start.pos,
                           kept |-> Start.kept \o e, node |-> Start.node]
  BY <1>1, <1>2, StartScan, ScanOutside
<1>4. Start.kept \o e = e /\ Start.pos = 0
  BY <1>1, ConcatEmptySeq DEF Start
<1>. QED
  BY <1>3, <1>4 DEF Read, e

(* The empty last line belongs to what is last.                            *)
KeptEnd(R) == IF R = <<>> THEN <<>> ELSE <<End>>
NodeEnd(R) == IF R = <<>> THEN <<End>> ELSE <<>>

(* The stanza is found, its comments stay and its other lines are taken    *)
(* out.                                                                    *)
LEMMA ReadStanza ==
    ASSUME NEW P, NEW a, NEW M, NEW R, Parts(P, a, M, R)
    PROVE  /\ Read(Whole(P, a, M, R)).pos = Len(P) + 1
           /\ Read(Whole(P, a, M, R)).kept =
                  (((P \o <<a>>) \o Comments(M)) \o R) \o KeptEnd(R)
           /\ Read(Whole(P, a, M, R)).node = Rest(M) \o NodeEnd(R)
<1>. DEFINE A == P \o <<a>>
            C == Comments(M)
            N == Rest(M)
            s1 == ScanAll(Start, P)
            s2 == ScanAll(s1, <<a>>)
            s3 == ScanAll(s2, M)
            s4 == ScanAll(s3, R)
            s5 == ScanAll(s4, <<End>>)
<1>0. /\ P \in Seq(Lines) /\ a \in Lines /\ M \in Seq(Lines) /\ R \in Seq(Lines)
      /\ <<a>> \in Seq(Lines) /\ A \in Seq(Lines) /\ A = Append(P, a)
      /\ Len(A) = Len(P) + 1 /\ Len(P) \in Nat /\ A \o M \in Seq(Lines)
      /\ Whole(P, a, M, R) \in Seq(Lines)
      /\ C \in Seq(Lines) /\ N \in Seq(Lines)
      /\ <<>> \in Seq(Lines)
  BY PartsTypes, EmptySeq DEF Parts
<1>1. s1 = [started |-> FALSE, pos |-> 0, kept |-> P, node |-> <<>>]
  <2>1. \A i \in 1..Len(P) : ~Own(P[i])
    BY DEF Parts, Foreign
  <2>2. s1 = [started |-> Start.started /\ P = <<>>, pos |-> Start.pos,
              kept |-> Start.kept \o P, node |-> Start.node]
    BY <1>0, <2>1, StartScan, ScanOutside
  <2>3. (Start.started /\ P = <<>>) = FALSE /\ Start.pos = 0 /\ Start.node = <<>>
        /\ Start.kept \o P = P
    BY <1>0, ConcatEmptySeq DEF Start
  <2>. QED
    BY <2>2, <2>3, Zenon
<1>2. s2 = [started |-> TRUE, pos |-> Len(P) + 1, kept |-> A, node |-> <<>>]
  <2>1. Own(a) /\ Own(a) = TRUE /\ ~InStanza(s1, a) /\ a.kind = "auto"
    BY NameAssumption DEF Parts, Own, InStanza
  <2>2. s2 = Scan(s1, a)
    <3>. HIDE DEF s1
    <3>. QED
      BY <1>0, ScanOne
  <2>3. s1.pos = 0 /\ s1.kept = P /\ s1.node = <<>>
    BY <1>1
  <2>. HIDE DEF s1, s2
  <2>4. Scan(s1, a) = [started |-> Own(a), pos |-> Len(s1.kept) + 1,
                       kept |-> Append(s1.kept, a), node |-> s1.node]
    BY <2>1 DEF Scan
  <2>. QED
    BY <1>0, <2>1, <2>2, <2>3, <2>4
<1>. DEFINE B == A \o C
<1>3. s3 = [started |-> TRUE, pos |-> Len(P) + 1, kept |-> A \o C, node |-> N]
  <2>1. s2 \in Scans /\ s2.started
    <3>. HIDE DEF s2, A
    <3>. QED
      BY <1>0, <1>2 DEF Scans
  <2>2. \A i \in 1..Len(M) : M[i].kind # "auto"
    BY DEF Parts, Body
  <2>. HIDE DEF s2
  <2>3. s3 = [started |-> TRUE, pos |-> s2.pos, kept |-> s2.kept \o C, node |-> s2.node \o N]
    BY <1>0, <2>1, <2>2, ScanInside
  <2>4. <<>> \o N = N
    BY <1>0, ConcatEmptySeq
  <2>. QED
    BY <1>2, <2>3, <2>4
<1>4. s4 = [started |-> R = <<>>, pos |-> Len(P) + 1, kept |-> (A \o C) \o R, node |-> N]
  <2>1. s3 \in Scans /\ s3.started = TRUE
    <3>1. B \in Seq(Lines)
      BY <1>0, ConcatProperties
    <3>2. s3 = [started |-> TRUE, pos |-> Len(P) + 1, kept |-> B, node |-> N]
      BY <1>3
    <3>. HIDE DEF s3, A, B, C, N
    <3>. QED
      BY <1>0, <3>1, <3>2 DEF Scans
  <2>2. \A i \in 1..Len(R) : ~Own(R[i])
    BY DEF Parts, Foreign
  <2>3. R = <<>> \/ R[1].kind = "auto"
    BY DEF Parts
  <2>. HIDE DEF s3
  <2>4. s4 = [started |-> s3.started /\ R = <<>>, pos |-> s3.pos,
              kept |-> s3.kept \o R, node |-> s3.node]
    BY <1>0, <2>1, <2>2, <2>3, ScanOutside
  <2>5. (s3.started /\ R = <<>>) = (R = <<>>)
    BY <2>1
  <2>. QED
    BY <1>3, <2>4, <2>5
<1>5. Read(Whole(P, a, M, R)) = s5
  <2>. DEFINE b == <<a>>
  <2>1. b \in Seq(Lines)
    BY <1>0
  <2>. HIDE DEF b
  <2>2. Read(((P \o b) \o M) \o R) =
        ScanAll(ScanAll(ScanAll(ScanAll(ScanAll(Start, P), b), M), R), <<End>>)
    BY <1>0, <2>1, ReadConcat, SMTT(60)
  <2>. QED
    BY <2>2 DEF Whole, b
<1>6. s5 = Scan(s4, End)
  <2>. HIDE DEF s4
  <2>. QED
    BY EndLine, ScanOne
<1>. HIDE DEF s1, s2, s3, s4, s5
<1>7. ~Own(End) /\ (InStanza(s4, End) <=> R = <<>>)
  BY <1>4, EndLine DEF Own, InStanza
<1>8. (A \o C) \o R \in Seq(Lines)
  <2>1. A \o C \in Seq(Lines)
    BY <1>0, ConcatProperties
  <2>. QED
    BY <1>0, <2>1, ConcatProperties
<1>. DEFINE K == (A \o C) \o R
<1>9. /\ Append(K, End) = K \o <<End>> /\ Append(N, End) = N \o <<End>>
      /\ K \o <<>> = K /\ N \o <<>> = N
  BY <1>0, <1>8, EndLine, AppendIsConcat, ConcatEmptySeq
<1>. HIDE DEF A, C, N, K
<1>10. s4.pos = Len(P) + 1 /\ s4.kept = K /\ s4.node = N
  BY <1>4 DEF K
<1>. SUFFICES /\ s5.pos = Len(P) + 1
              /\ s5.kept = K \o (IF R = <<>> THEN <<>> ELSE <<End>>)
              /\ s5.node = N \o (IF R = <<>> THEN <<End>> ELSE <<>>)
  BY <1>5 DEF A, C, N, K, KeptEnd, NodeEnd
<1>11. CASE R = <<>>
  <2>1. s5.pos = s4.pos /\ s5.kept = s4.kept /\ s5.node = Append(s4.node, End)
    BY <1>6, <1>7, <1>11 DEF Scan
  <2>. QED
    BY <1>9, <1>10, <1>11, <2>1
<1>12. CASE R # <<>>
  <2>1. s5.pos = s4.pos /\ s5.kept = Append(s4.kept, End) /\ s5.node = s4.node
    BY <1>6, <1>7, <1>12 DEF Scan
  <2>. QED
    BY <1>9, <1>10, <1>12, <2>1
<1>. QED
  BY <1>11, <1>12

InParts(d) == \E P, a, M, R : Parts(P, a, M, R) /\ d = Whole(P, a, M, R)

(* A file with a stanza can be taken apart.                                *)
LEMMA StanzaInParts ==
    ASSUME NEW d \in Seq(Lines), NoEnd(d), HasStanza(d)
    PROVE  InParts(d)
<1>0. PICK p \in 1..Len(d) : \E r \in p..Len(d) :
        /\ Foreign(SubSeq(d, 1, p - 1))
        /\ d[p].kind = "auto" /\ EthX \in d[p].names
        /\ Body(SubSeq(d, p + 1, r))
        /\ Foreign(SubSeq(d, r + 1, Len(d)))
        /\ r < Len(d) => d[r + 1].kind = "auto"
  BY DEF HasStanza
<1>1. PICK q \in p..Len(d) :
        /\ Foreign(SubSeq(d, 1, p - 1))
        /\ d[p].kind = "auto" /\ EthX \in d[p].names
        /\ Body(SubSeq(d, p + 1, q))
        /\ Foreign(SubSeq(d, q + 1, Len(d)))
        /\ q < Len(d) => d[q + 1].kind = "auto"
  BY <1>0
<1>. DEFINE n == Len(d)
            P == SubSeq(d, 1, p - 1)
            M == SubSeq(d, p + 1, q)
            R == SubSeq(d, q + 1, n)
<1>2. n \in Nat /\ p \in Nat /\ q \in Nat /\ 1 <= p /\ p <= q /\ q <= n
  BY LenProperties
<1>3. ASSUME NEW i \in 1..n PROVE d[i] \in Lines /\ d[i].kind # "end"
  BY ElementOfSeq DEF NoEnd
<1>4. ASSUME NEW i \in Int, NEW j \in Int, 1 <= i, j <= n
      PROVE  /\ SubSeq(d, i, j) \in Seq(Lines) /\ NoEnd(SubSeq(d, i, j))
             /\ Len(SubSeq(d, i, j)) = IF i <= j THEN j - i + 1 ELSE 0
             /\ i <= j => SubSeq(d, i, j)[1] = d[i]
  <2>. DEFINE s == SubSeq(d, i, j)
  <2>1. \A k \in i..j : d[k] \in Lines
    BY <1>2, <1>3, <1>4
  <2>2. /\ s \in Seq(Lines) /\ Len(s) = IF i <= j THEN j - i + 1 ELSE 0
        /\ \A k \in 1..(j - i + 1) : s[k] = d[i + k - 1]
    BY <2>1, SubSeqProperties
  <2>. HIDE DEF s
  <2>3. ASSUME NEW k \in 1..Len(s) PROVE s[k].kind # "end"
    <3>1. k \in 1..(j - i + 1) /\ i + k - 1 \in 1..n
      BY <1>2, <1>4, <2>2
    <3>. QED
      BY <1>3, <2>2, <3>1
  <2>4. i <= j => s[1] = d[i]
    <3>. SUFFICES ASSUME i <= j PROVE s[1] = d[i]
      OBVIOUS
    <3>1. 1 \in 1..(j - i + 1) /\ i + 1 - 1 = i
      OBVIOUS
    <3>. QED
      BY <2>2, <3>1
  <2>. QED
    BY <2>2, <2>3, <2>4 DEF s, NoEnd
<1>5. d = Whole(P, d[p], M, R)
  <2>1. SubSeq(d, p, p) = <<d[p]>>
    <3>1. SubSeq(d, p, p) = <<d[p]>> \o SubSeq(d, p + 1, p)
      BY <1>2, SubSeqRecursiveFirst
    <3>2. SubSeq(d, p + 1, p) = <<>> /\ <<d[p]>> \in Seq(Lines)
      BY <1>2, <1>3, SubSeqEmpty
    <3>. QED
      BY <3>1, <3>2, ConcatEmptySeq
  <2>2. P \o SubSeq(d, p, p) = SubSeq(d, 1, p)
    <3>1. 1 \in 1..(n + 1) /\ p - 1 \in 0..n /\ p \in (p - 1)..n /\ (p - 1) + 1 = p
          /\ 1 - 1 = 0
      BY <1>2
    <3>. QED
      BY <3>1, ConcatAdjacentSubSeq
  <2>3. SubSeq(d, 1, p) \o M = SubSeq(d, 1, q)
    <3>1. 1 \in 1..(n + 1) /\ p \in 0..n /\ q \in p..n /\ 1 - 1 = 0
      BY <1>2
    <3>. QED
      BY <3>1, ConcatAdjacentSubSeq
  <2>4. SubSeq(d, 1, q) \o R = SubSeq(d, 1, n)
    <3>1. 1 \in 1..(n + 1) /\ q \in 0..n /\ n \in q..n /\ 1 - 1 = 0
      BY <1>2
    <3>. QED
      BY <3>1, ConcatAdjacentSubSeq
  <2>5. SubSeq(d, 1, n) = d
    BY SubSeqFull
  <2>. HIDE DEF P, M, R
  <2>. QED
    BY <2>1, <2>2, <2>3, <2>4, <2>5 DEF Whole
<1>6. Parts(P, d[p], M, R)
  <2>1. P \in Seq(Lines) /\ NoEnd(P) /\ M \in Seq(Lines) /\ NoEnd(M)
        /\ R \in Seq(Lines) /\ NoEnd(R)
    BY <1>2, <1>4
  <2>2. R = <<>> \/ R[1].kind = "auto"
    <3>1. CASE q = n
      BY <1>2, <3>1, SubSeqEmpty
    <3>2. CASE q < n
      <4>1. q + 1 \in Int /\ n \in Int /\ 1 <= q + 1 /\ q + 1 <= n /\ n <= n
        BY <1>2, <3>2
      <4>2. R[1] = d[q + 1]
        BY <1>4, <4>1
      <4>. QED
        BY <1>1, <3>2, <4>2
    <3>. QED
      BY <1>2, <3>1, <3>2
  <2>3. d[p] \in Lines
    BY <1>2, <1>3
  <2>. QED
    BY <1>1, <2>1, <2>2, <2>3 DEF Parts
<1>. HIDE DEF P, M, R
<1>. QED
  BY <1>5, <1>6 DEF InParts

(* Kinded picks lines of the kinds asked for only.                         *)
LEMMA KindedKinds ==
    ASSUME NEW K, NEW d \in Seq(Lines), NEW i \in 1..Len(Kinded(d, K))
    PROVE  Kinded(d, K)[i].kind \in K
<1>. DEFINE T == {s \in Seq(Lines) :
                    \A j \in 1..Len(Kinded(s, K)) : Kinded(s, K)[j].kind \in K}
<1>1. <<>> \in T
  BY KindedAppend, EmptySeq
<1>2. ASSUME NEW s \in Seq(Lines), NEW x \in Lines, s \in T PROVE Append(s, x) \in T
  <2>. DEFINE w == Kinded(s, K)
              e == Append(s, x)
  <2>1. e \in Seq(Lines) /\ w \in Seq(Lines)
    BY AppendProperties, KindedType
  <2>2. Kinded(e, K) = IF x.kind \in K THEN Append(w, x) ELSE w
    BY KindedAppend
  <2>3. \A j \in 1..Len(w) : w[j].kind \in K
    BY <1>2
  <2>4. /\ Len(w) \in Nat /\ Len(Append(w, x)) = Len(w) + 1 /\ Append(w, x)[Len(w) + 1] = x
        /\ \A j \in 1..Len(w) : Append(w, x)[j] = w[j]
    BY <2>1, AppendProperties, LenProperties
  <2>. HIDE DEF w, e
  <2>5. ASSUME NEW j \in 1..Len(Kinded(e, K)) PROVE Kinded(e, K)[j].kind \in K
    BY <2>2, <2>3, <2>4
  <2>. QED
    BY <2>1, <2>5 DEF e
<1>3. Seq(Lines) \subseteq T
  <2>. HIDE DEF T
  <2>. QED
    BY <1>1, <1>2, SeqInduct
<1>. QED
  BY <1>3

(* The comments of a document are comments.                                *)
LEMMA CommentsOfComments ==
    ASSUME NEW d \in Seq(Lines)
    PROVE  /\ Comments(d) \in Seq(Lines) /\ Body(Comments(d)) /\ NoEnd(Comments(d))
           /\ \A i \in 1..Len(Comments(d)) : Comments(d)[i].kind = "comment"
<1>1. Comments(d) \in Seq(Lines)
  BY KindedType DEF Comments
<1>2. \A i \in 1..Len(Comments(d)) : Comments(d)[i].kind \in {"comment"}
  BY KindedKinds DEF Comments
<1>. QED
  BY <1>1, <1>2 DEF Body, NoEnd

---------------------------------------------------------------------------
(* What is written.                                                        *)

(* A line of a document has a kind.                                        *)
LEMMA LineKind ==
    ASSUME NEW d \in Seq(Lines), NEW i \in 1..Len(d)
    PROVE  d[i] \in Lines /\ d[i].kind \in Kinds
<1>1. d[i] \in Lines
  BY ElementOfSeq
<1>2. \A x \in Lines : x.kind \in Kinds
  BY DEF Lines
<1>. QED
  BY <1>1, <1>2

(* saveFile writes the lines of every kind but the empty last one.         *)
LEMMA WrittenIsKinded ==
    ASSUME NEW d \in Seq(Lines)
    PROVE  Written(d) = Kinded(d, Kinds \ {"end"})
<1>1. ASSUME NEW i \in 1..Len(d) PROVE d[i].kind \in Kinds
  BY LineKind
<1>2. {i \in 1..Len(d) : d[i].kind # "end"} =
      {i \in 1..Len(d) : d[i].kind \in Kinds \ {"end"}}
  BY <1>1
<1>. QED
  BY <1>2 DEF Written, Kinded

(* Writing goes part by part, changes nothing but the empty last line, and *)
(* writes nothing for that.                                                *)
LEMMA WrittenParts ==
    /\ \A s, t \in Seq(Lines) : Written(s \o t) = Written(s) \o Written(t)
    /\ \A s \in Seq(Lines) : NoEnd(s) => Written(s) = s
    /\ Written(<<End>>) = <<>> /\ Written(<<>>) = <<>>
<1>. DEFINE K == Kinds \ {"end"}
<1>1. ASSUME NEW s \in Seq(Lines), NEW t \in Seq(Lines)
      PROVE  Written(s \o t) = Written(s) \o Written(t)
  <2>1. s \o t \in Seq(Lines)
    BY ConcatProperties
  <2>2. Kinded(s \o t, K) = Kinded(s, K) \o Kinded(t, K)
    BY KindedConcat
  <2>. QED
    BY <2>1, <2>2, WrittenIsKinded
<1>2. ASSUME NEW s \in Seq(Lines), NoEnd(s) PROVE Written(s) = s
  <2>1. \A i \in 1..Len(s) : s[i].kind \in K
    BY <1>2, LineKind DEF NoEnd
  <2>. HIDE DEF K
  <2>2. Kinded(s, K) = s
    BY <2>1, KindedAllOrNone
  <2>. QED
    BY <2>2, WrittenIsKinded DEF K
<1>3. Written(<<End>>) = <<>>
  <2>1. \A i \in 1..Len(<<End>>) : <<End>>[i].kind \notin K
    BY EndLine
  <2>. HIDE DEF K
  <2>2. Kinded(<<End>>, K) = <<>>
    BY <2>1, EndLine, KindedAllOrNone
  <2>. QED
    BY <2>2, EndLine, WrittenIsKinded DEF K
<1>4. Written(<<>>) = <<>>
  BY EmptySeq, KindedAppend, WrittenIsKinded
<1>. QED
  BY <1>1, <1>2, <1>3, <1>4

(* The two halves of a concatenation.                                      *)
LEMMA Halves ==
    ASSUME NEW s \in Seq(Lines), NEW t \in Seq(Lines)
    PROVE  /\ SubSeq(s \o t, 1, Len(s)) = s
           /\ SubSeq(s \o t, Len(s) + 1, Len(s \o t)) = t
<1>. DEFINE w == s \o t
            l == Len(s)
            m == Len(t)
<1>1. /\ w \in Seq(Lines) /\ Len(w) = l + m /\ l \in Nat /\ m \in Nat
      /\ \A i \in 1..(l + m) : w[i] = IF i <= l THEN s[i] ELSE t[i - l]
  BY ConcatProperties, LenProperties
<1>2. \A i \in 1..(l + m) : w[i] \in Lines
  BY <1>1, ElementOfSeq
<1>. HIDE DEF w, l, m
<1>3. SubSeq(w, 1, l) = s
  <2>1. \A i \in 1..l : w[i] \in Lines
    BY <1>1, <1>2
  <2>2. /\ SubSeq(w, 1, l) \in Seq(Lines)
        /\ Len(SubSeq(w, 1, l)) = IF 1 <= l THEN l - 1 + 1 ELSE 0
        /\ \A i \in 1..(l - 1 + 1) : SubSeq(w, 1, l)[i] = w[1 + i - 1]
    BY <1>1, <2>1, SubSeqProperties
  <2>3. Len(SubSeq(w, 1, l)) = l
    BY <1>1, <2>2
  <2>4. ASSUME NEW i \in 1..l PROVE SubSeq(w, 1, l)[i] = s[i]
    <3>1. SubSeq(w, 1, l)[i] = w[i]
      BY <1>1, <2>2
    <3>2. w[i] = s[i]
      BY <1>1
    <3>. QED
      BY <3>1, <3>2
  <2>. QED
    BY <2>2, <2>3, <2>4, SeqEqual DEF l
<1>4. SubSeq(w, l + 1, l + m) = t
  <2>. DEFINE u == SubSeq(w, l + 1, l + m)
  <2>1. \A i \in (l + 1)..(l + m) : w[i] \in Lines
    BY <1>1, <1>2
  <2>2. /\ u \in Seq(Lines)
        /\ Len(u) = IF l + 1 <= l + m THEN (l + m) - (l + 1) + 1 ELSE 0
        /\ \A i \in 1..((l + m) - (l + 1) + 1) : u[i] = w[(l + 1) + i - 1]
    BY <1>1, <2>1, SubSeqProperties
  <2>. HIDE DEF u
  <2>3. Len(u) = m
    BY <1>1, <2>2
  <2>4. ASSUME NEW i \in 1..m PROVE u[i] = t[i]
    <3>1. i \in 1..((l + m) - (l + 1) + 1) /\ (l + 1) + i - 1 = l + i
      BY <1>1
    <3>2. u[i] = w[l + i]
      BY <2>2, <3>1
    <3>3. l + i \in 1..(l + m) /\ ~(l + i <= l) /\ (l + i) - l = i
      BY <1>1
    <3>4. w[l + i] = t[i]
      BY <1>1, <3>3
    <3>. QED
      BY <3>2, <3>4
  <2>5. u = t
    BY <2>2, <2>3, <2>4, SeqEqual DEF m
  <2>. QED
    BY <2>5 DEF u
<1>. QED
  BY <1>1, <1>3, <1>4 DEF w, l

(* Concatenation of documents.                                             *)
LEMMA ConcatLines ==
    ASSUME NEW s \in Seq(Lines), NEW t \in Seq(Lines), NEW u \in Seq(Lines)
    PROVE  s \o t \in Seq(Lines) /\ (s \o t) \o u = s \o (t \o u)
BY ConcatProperties, ConcatAssociative, SMTT(30)

(* The stanza is replaced: the document is written with the new lines      *)
(* behind the auto line, and the comments behind them.                     *)
LEMMA WrittenStanza ==
    ASSUME NEW P, NEW a, NEW M, NEW R, Parts(P, a, M, R),
           NEW N \in Seq(Lines), NoEnd(N)
    PROVE  /\ Splice(Read(Whole(P, a, M, R)), N) \in Seq(Lines)
           /\ Written(Splice(Read(Whole(P, a, M, R)), N)) =
                  Whole(P, a, N \o Comments(M), R)
<1>. DEFINE A == P \o <<a>>
            C == Comments(M)
            e == KeptEnd(R)
            U == R \o e
            T == C \o U
            X == C \o R
            r == Read(Whole(P, a, M, R))
<1>0. /\ A \in Seq(Lines) /\ C \in Seq(Lines) /\ R \in Seq(Lines) /\ NoEnd(R)
      /\ P \in Seq(Lines) /\ NoEnd(P) /\ a \in Lines /\ a.kind = "auto"
      /\ Len(A) = Len(P) + 1 /\ Len(P) \in Nat /\ e \in Seq(Lines) /\ NoEnd(C)
      /\ A = Append(P, a)
  BY PartsTypes, CommentsOfComments, EmptySeq, EndLine DEF Parts, KeptEnd
<1>1. r.pos = Len(A) /\ r.kept = ((A \o C) \o R) \o e
  <2>1. /\ r.pos = Len(P) + 1
        /\ r.kept = (((P \o <<a>>) \o Comments(M)) \o R) \o e
    BY ReadStanza, SMTT(30)
  <2>. QED
    BY <1>0, <2>1
<1>a. /\ A \in Seq(Lines) /\ C \in Seq(Lines) /\ R \in Seq(Lines) /\ e \in Seq(Lines)
  BY <1>0
<1>2. NoEnd(A)
  <2>1. /\ Len(A) = Len(P) + 1 /\ A[Len(P) + 1] = a
        /\ \A i \in 1..Len(P) : A[i] = P[i]
    BY <1>0, AppendProperties
  <2>. HIDE DEF A
  <2>. QED
    BY <1>0, <2>1 DEF NoEnd
<1>. HIDE DEF A, C, e, r
<1>3. U \in Seq(Lines) /\ X \in Seq(Lines)
  BY <1>a, ConcatLines
<1>4. ((A \o C) \o R) \o e = A \o T
  <2>. DEFINE V == A \o C
  <2>1. V \in Seq(Lines)
    BY <1>a, ConcatLines
  <2>. HIDE DEF V
  <2>2. (V \o R) \o e = V \o U
    BY <1>a, <2>1, ConcatLines
  <2>. HIDE DEF U
  <2>3. V \o U = A \o (C \o U)
    BY <1>a, <1>3, ConcatLines, SMTT(60) DEF V
  <2>. QED
    BY <2>2, <2>3 DEF V
<1>. HIDE DEF U
<1>b. T \in Seq(Lines)
  BY <1>a, <1>3, ConcatLines
<1>5. Splice(r, N) = (A \o N) \o T
  <2>. HIDE DEF T
  <2>1. SubSeq(A \o T, 1, Len(A)) = A /\ SubSeq(A \o T, Len(A) + 1, Len(A \o T)) = T
    BY <1>a, <1>b, Halves
  <2>2. (IF r.pos = 0 THEN Len(r.kept) ELSE r.pos) = Len(A) /\ r.kept = A \o T
    BY <1>0, <1>1, <1>4
  <2>. QED
    BY <2>1, <2>2 DEF Splice
<1>6. A \o N \in Seq(Lines)
  BY <1>a, ConcatLines
<1>c. (A \o N) \o T \in Seq(Lines)
  <2>. HIDE DEF T
  <2>. QED
    BY <1>6, <1>b, ConcatLines
<1>7. Written((A \o N) \o T) = (A \o N) \o X
  <2>1. Written(A) = A /\ Written(N) = N /\ Written(C) = C /\ Written(R) = R
    BY <1>0, <1>2, WrittenParts
  <2>2. Written(e) = <<>>
    BY WrittenParts DEF e, KeptEnd
  <2>3. Written(U) = Written(R) \o Written(e)
    BY <1>a, WrittenParts DEF U
  <2>4. Written(T) = Written(C) \o Written(U)
    BY <1>a, <1>3, WrittenParts
  <2>5. R \o <<>> = R
    BY <1>a, ConcatEmptySeq
  <2>6. Written(T) = X
    BY <2>1, <2>2, <2>3, <2>4, <2>5
  <2>7. Written(A \o N) = A \o N
    BY <1>a, <2>1, WrittenParts
  <2>. HIDE DEF T
  <2>8. Written((A \o N) \o T) = Written(A \o N) \o Written(T)
    BY <1>6, <1>b, WrittenParts
  <2>. QED
    BY <2>6, <2>7, <2>8
<1>8. (A \o N) \o X = (A \o (N \o C)) \o R
  <2>. DEFINE B == A \o N
  <2>1. B \in Seq(Lines)
    BY <1>6
  <2>. HIDE DEF B
  <2>2. (B \o C) \o R = B \o (C \o R)
    BY <1>a, <2>1, ConcatLines
  <2>3. (A \o N) \o C = A \o (N \o C)
    BY <1>a, ConcatLines, SMTT(30)
  <2>. QED
    BY <2>2, <2>3 DEF B
<1>. HIDE DEF T, X
<1>. QED
  BY <1>5, <1>c, <1>7, <1>8 DEF A, C, r, Whole

(* Without a stanza the new lines go to the end of the file.               *)
LEMMA WrittenForeign ==
    ASSUME NEW d \in Seq(Lines), Foreign(d), NoEnd(d), NEW N \in Seq(Lines), NoEnd(N)
    PROVE  /\ Splice(Read(d), N) \in Seq(Lines)
           /\ Written(Splice(Read(d), N)) = d \o N
<1>. DEFINE k == Append(d, End)
<1>1. Read(d).pos = 0 /\ Read(d).kept = k
  BY ReadForeign
<1>2. k \in Seq(Lines) /\ k = d \o <<End>> /\ Len(k) \in Nat
  BY EndLine, AppendProperties, AppendIsConcat, LenProperties
<1>. HIDE DEF k
<1>3. SubSeq(k, 1, Len(k)) = k /\ SubSeq(k, Len(k) + 1, Len(k)) = <<>>
  BY <1>2, SubSeqFull, SubSeqEmpty
<1>4. Splice(Read(d), N) = (k \o N) \o <<>>
  BY <1>1, <1>3 DEF Splice
<1>5. k \o N \in Seq(Lines) /\ (k \o N) \o <<>> = k \o N
  BY <1>2, ConcatProperties, ConcatEmptySeq
<1>6. Written(k \o N) = d \o N
  <2>1. Written(k \o N) = Written(k) \o Written(N)
    BY <1>2, WrittenParts
  <2>2. Written(k) = Written(d) \o Written(<<End>>)
    BY <1>2, EndLine, WrittenParts
  <2>3. Written(d) = d /\ Written(N) = N /\ Written(<<End>>) = <<>>
    BY WrittenParts
  <2>4. d \o <<>> = d
    BY ConcatEmptySeq
  <2>. QED
    BY <2>1, <2>2, <2>3, <2>4
<1>. QED
  BY <1>4, <1>5, <1>6

(* An empty file has no lines, of ethX or of others.                       *)
LEMMA NoLines == Others(<<>>) = <<>> /\ ~Mine(<<>>, 0)
<1>1. Heads(<<>>, 0) = {}
  BY DEF Heads
<1>. QED
  BY <1>1, PickAppend DEF Others, Mine

(* In a file without a stanza every line is another's.                     *)
LEMMA OthersForeign ==
    ASSUME NEW d \in Seq(Lines), Foreign(d)
    PROVE  Others(d) = d /\ ~Mine(d, Len(d))
<1>1. <<>> \in Seq(Lines) /\ Len(<<>>) = 0 /\ <<>> \o d = d
  BY EmptySeq, ConcatEmptySeq
<1>2. /\ Others(<<>> \o d) = Others(<<>>) \o d
      /\ d # <<>> => ~Mine(<<>> \o d, Len(<<>> \o d))
  BY <1>1, NoLines, OthersOutside
<1>. QED
  BY <1>1, <1>2, NoLines

(* Of a file with a stanza, the stanza and its auto line are ethX's.       *)
LEMMA OthersWhole ==
    ASSUME NEW P, NEW a, NEW M, NEW R, Parts(P, a, M, R)
    PROVE  Others(Whole(P, a, M, R)) = (P \o Comments(M)) \o R
<1>. DEFINE A == P \o <<a>>
<1>0. /\ P \in Seq(Lines) /\ Foreign(P) /\ a \in Lines /\ M \in Seq(Lines) /\ Body(M)
      /\ R \in Seq(Lines) /\ Foreign(R) /\ (R = <<>> \/ R[1].kind = "auto")
      /\ a.kind = "auto" /\ EthX \in a.names
      /\ A \in Seq(Lines) /\ A = Append(P, a) /\ Len(A) = Len(P) + 1
      /\ A \o M \in Seq(Lines)
  BY PartsTypes DEF Parts
<1>1. Others(P) = P
  BY <1>0, OthersForeign
<1>2. Mine(A, Len(A))
  <2>1. Mine(Append(P, a), Len(P) + 1)
    BY <1>0, MineAppend
  <2>. QED
    BY <1>0, <2>1
<1>3. Others(A) = P
  <2>1. Others(Append(P, a)) = IF a.kind = "comment" \/ ~Mine(Append(P, a), Len(P) + 1)
                               THEN Append(Others(P), a) ELSE Others(P)
    BY <1>0, OthersAppend
  <2>. QED
    BY <1>0, <1>1, <1>2, <2>1
<1>. HIDE DEF A
<1>4. Others(A \o M) = P \o Comments(M)
  BY <1>0, <1>2, <1>3, OthersInside
<1>5. Others((A \o M) \o R) = Others(A \o M) \o R
  BY <1>0, OthersOutside
<1>. QED
  BY <1>4, <1>5 DEF Whole, A

---------------------------------------------------------------------------
(* The lines of setEthXNode.                                               *)

NodeLines ==
    {x \in Lines : /\ x.kind \in {"iface", "address", "netmask", "gateway"}
                   /\ x.kind = "iface" => EthX \in x.names}
Stanza(n) == setEthXNode(n, FALSE)
AutoLine == Line("auto", {EthX}, NoVal)
IfaceLine(n) == Line("iface", {EthX}, Word[n.method])
Addresses(n) ==
    (Optional("address", n.ip) \o Optional("netmask", n.netmask))
    \o Optional("gateway", n.gateway)

(* The fields of an argument of setNetWork.                                *)
LEMMA NetworkType ==
    ASSUME NEW n \in Networks
    PROVE  /\ n.method \in Methods
           /\ n.ip \in Values \cup {NoVal} /\ n.netmask \in Values \cup {NoVal}
           /\ n.gateway \in Values \cup {NoVal}
           /\ n = [method |-> n.method, ip |-> n.ip,
                   netmask |-> n.netmask, gateway |-> n.gateway]
BY NetworkAssumption

(* The lines setEthXNode makes are lines, and fit into a stanza.           *)
LEMMA NodeLineType ==
    /\ AutoLine \in Lines /\ AutoLine.kind = "auto" /\ EthX \in AutoLine.names
    /\ \A n \in Networks : IfaceLine(n) \in NodeLines
    /\ \A k \in {"address", "netmask", "gateway"}, v \in Values \cup {NoVal} :
         Line(k, {}, v) \in NodeLines
<1>1. EthX \in Names /\ NoVal \in Values \cup {NoVal}
  BY NameAssumption
<1>2. AutoLine \in Lines /\ AutoLine.kind = "auto" /\ EthX \in AutoLine.names
  BY <1>1 DEF AutoLine, Line, Lines, Kinds
<1>3. ASSUME NEW n \in Networks PROVE IfaceLine(n) \in NodeLines
  <2>1. n.method \in Methods
    BY NetworkType
  <2>2. Word[n.method] \in {Word[x] : x \in Methods}
    BY <2>1
  <2>. HIDE DEF Word
  <2>. QED
    BY <1>1, <2>2 DEF NodeLines, IfaceLine, Line, Lines, Kinds
<1>4. ASSUME NEW k \in {"address", "netmask", "gateway"}, NEW v \in Values \cup {NoVal}
      PROVE  Line(k, {}, v) \in NodeLines
  BY DEF NodeLines, Line, Lines, Kinds
<1>. QED
  BY <1>2, <1>3, <1>4

(* A line for a value, or none where the value is empty.                   *)
LEMMA OptionalType ==
    ASSUME NEW k \in {"address", "netmask", "gateway"}, NEW v \in Values \cup {NoVal}
    PROVE  Optional(k, v) \in Seq(NodeLines)
<1>1. Line(k, {}, v) \in NodeLines
  BY NodeLineType
<1>2. <<Line(k, {}, v)>> \in Seq(NodeLines) /\ <<>> \in Seq(NodeLines)
  BY <1>1
<1>. QED
  BY <1>2 DEF Optional

(* What setEthXNode returns, method by method, without the auto line and   *)
(* with it.                                                                *)
LEMMA StanzaType ==
    ASSUME NEW n \in Networks
    PROVE  /\ Stanza(n) \in Seq(NodeLines) /\ Addresses(n) \in Seq(NodeLines)
           /\ n.method \in {"AUTO", "DHCP"} => Stanza(n) = <<IfaceLine(n)>>
           /\ n.method = "STATIC" => Stanza(n) = <<IfaceLine(n)>> \o Addresses(n)
           /\ setEthXNode(n, TRUE) = <<AutoLine>> \o Stanza(n)
<1>. DEFINE I == IF n.method = "NONE" THEN <<>> ELSE <<IfaceLine(n)>>
            A == IF n.method # "STATIC" THEN <<>> ELSE Addresses(n)
            S == Seq(NodeLines \cup {AutoLine})
<1>1. Addresses(n) \in Seq(NodeLines)
  <2>1. /\ Optional("address", n.ip) \in Seq(NodeLines)
        /\ Optional("netmask", n.netmask) \in Seq(NodeLines)
        /\ Optional("gateway", n.gateway) \in Seq(NodeLines)
    BY NetworkType, OptionalType
  <2>2. Optional("address", n.ip) \o Optional("netmask", n.netmask) \in Seq(NodeLines)
    BY <2>1, ConcatProperties
  <2>. QED
    BY <2>1, <2>2, ConcatProperties DEF Addresses
<1>2. IfaceLine(n) \in NodeLines /\ <<IfaceLine(n)>> \in Seq(NodeLines)
      /\ <<>> \in Seq(NodeLines)
  BY NodeLineType
<1>3. I \in Seq(NodeLines) /\ A \in Seq(NodeLines)
  BY <1>1, <1>2
<1>4. Stanza(n) = (<<>> \o I) \o A /\ setEthXNode(n, TRUE) = (<<AutoLine>> \o I) \o A
  BY DEF Stanza, setEthXNode, AutoLine, IfaceLine, Addresses
<1>5. I \in S /\ A \in S /\ <<AutoLine>> \in S
  <2>1. NodeLines \subseteq NodeLines \cup {AutoLine}
    OBVIOUS
  <2>2. I \in S /\ A \in S
    <3>. HIDE DEF I, A
    <3>. QED
      BY <1>3, <2>1, SeqMonotonic
  <2>. QED
    BY <2>2
<1>6. n.method \in {"AUTO", "DHCP"} => I \o A = <<IfaceLine(n)>>
  BY <1>2, ConcatEmptySeq
<1>7. n.method = "STATIC" => I \o A = <<IfaceLine(n)>> \o Addresses(n)
  OBVIOUS
<1>. HIDE DEF I, A
<1>8. <<>> \o I = I /\ I \o A \in Seq(NodeLines)
  BY <1>3, ConcatEmptySeq, ConcatProperties
<1>9. (<<AutoLine>> \o I) \o A = <<AutoLine>> \o (I \o A)
  BY <1>5, ConcatAssociative
<1>. QED
  BY <1>1, <1>4, <1>6, <1>7, <1>8, <1>9

(* They are lines of a stanza, and no comments.                            *)
LEMMA NodeDocument ==
    ASSUME NEW N \in Seq(NodeLines)
    PROVE  /\ N \in Seq(Lines) /\ Body(N) /\ NoEnd(N)
           /\ Comments(N) = <<>> /\ Rest(N) = N
<1>1. N \in Seq(Lines)
  <2>1. NodeLines \subseteq Lines
    BY DEF NodeLines
  <2>. QED
    BY <2>1, SeqMonotonic
<1>2. ASSUME NEW i \in 1..Len(N)
      PROVE  /\ N[i].kind \in {"iface", "address", "netmask", "gateway"}
             /\ N[i].kind = "iface" => EthX \in N[i].names
  <2>1. N[i] \in NodeLines
    BY ElementOfSeq
  <2>. QED
    BY <2>1 DEF NodeLines
<1>3. Body(N) /\ NoEnd(N)
  BY <1>2 DEF Body, NoEnd
<1>4. Comments(N) = <<>>
  <2>1. \A i \in 1..Len(N) : N[i].kind \notin {"comment"}
    BY <1>2
  <2>. QED
    BY <1>1, <2>1, KindedAllOrNone DEF Comments
<1>5. Rest(N) = N
  <2>1. \A i \in 1..Len(N) : N[i].kind \in Kinds \ {"comment"}
    BY <1>2 DEF Kinds
  <2>. QED
    BY <1>1, <2>1, KindedAllOrNone DEF Rest
<1>. QED
  BY <1>1, <1>3, <1>4, <1>5

(* Documents without the empty last line, and bodies of a stanza, can be   *)
(* concatenated.                                                           *)
LEMMA ConcatKeeps ==
    ASSUME NEW s \in Seq(Lines), NEW t \in Seq(Lines)
    PROVE  /\ NoEnd(s) /\ NoEnd(t) => NoEnd(s \o t)
           /\ Body(s) /\ Body(t) => Body(s \o t)
<1>1. /\ Len(s) \in Nat /\ Len(t) \in Nat /\ Len(s \o t) = Len(s) + Len(t)
      /\ \A i \in 1..(Len(s) + Len(t)) :
            (s \o t)[i] = IF i <= Len(s) THEN s[i] ELSE t[i - Len(s)]
  BY ConcatProperties, LenProperties
<1>2. ASSUME NEW i \in 1..Len(s \o t)
      PROVE  \/ i \in 1..Len(s) /\ (s \o t)[i] = s[i]
             \/ i - Len(s) \in 1..Len(t) /\ (s \o t)[i] = t[i - Len(s)]
  BY <1>1
<1>3. NoEnd(s) /\ NoEnd(t) => NoEnd(s \o t)
  BY <1>2 DEF NoEnd
<1>4. Body(s) /\ Body(t) => Body(s \o t)
  BY <1>2 DEF Body
<1>. QED
  BY <1>3, <1>4

(* A stanza with new lines is a stanza, with the comments it had.          *)
LEMMA NewStanza ==
    ASSUME NEW P, NEW a, NEW M, NEW R, Parts(P, a, M, R), NEW N \in Seq(NodeLines)
    PROVE  /\ Parts(P, a, N \o Comments(M), R)
           /\ Comments(N \o Comments(M)) = Comments(M)
           /\ Rest(N \o Comments(M)) = N
<1>. DEFINE C == Comments(M)
<1>1. /\ M \in Seq(Lines) /\ C \in Seq(Lines) /\ Body(C) /\ NoEnd(C)
      /\ \A i \in 1..Len(C) : C[i].kind = "comment"
  <2>1. M \in Seq(Lines)
    BY DEF Parts
  <2>. QED
    BY <2>1, CommentsOfComments
<1>. HIDE DEF C
<1>2. N \in Seq(Lines) /\ Body(N) /\ NoEnd(N) /\ Comments(N) = <<>> /\ Rest(N) = N
  BY NodeDocument
<1>3. N \o C \in Seq(Lines) /\ Body(N \o C) /\ NoEnd(N \o C)
  BY <1>1, <1>2, ConcatLines, ConcatKeeps
<1>4. Comments(C) = C /\ Rest(C) = <<>>
  <2>1. \A i \in 1..Len(C) : C[i].kind \in {"comment"}
    BY <1>1
  <2>2. \A i \in 1..Len(C) : C[i].kind \notin Kinds \ {"comment"}
    BY <1>1
  <2>3. Kinded(C, {"comment"}) = C
    BY <1>1, <2>1, KindedAllOrNone
  <2>4. Kinded(C, Kinds \ {"comment"}) = <<>>
    <3>. DEFINE K == Kinds \ {"comment"}
    <3>1. \A i \in 1..Len(C) : C[i].kind \notin K
      BY <2>2
    <3>. HIDE DEF K
    <3>2. Kinded(C, K) = <<>>
      BY <1>1, <3>1, KindedAllOrNone
    <3>. QED
      BY <3>2 DEF K
  <2>. QED
    BY <2>3, <2>4 DEF Comments, Rest
<1>5. Comments(N \o C) = Comments(N) \o Comments(C)
  BY <1>1, <1>2, KindedConcat DEF Comments
<1>6. Rest(N \o C) = Rest(N) \o Rest(C)
  BY <1>1, <1>2, KindedConcat DEF Rest
<1>7. <<>> \o C = C /\ N \o <<>> = N
  BY <1>1, <1>2, ConcatEmptySeq
<1>8. Parts(P, a, N \o C, R)
  BY <1>3 DEF Parts
<1>. QED
  BY <1>2, <1>4, <1>5, <1>6, <1>7, <1>8 DEF C

---------------------------------------------------------------------------
(* What getEthXNode reads back.                                            *)

(* The last line of a kind gives its value.                                *)
LEMMA ValueAppend ==
    ASSUME NEW s \in Seq(Lines), NEW x \in Lines, NEW k, NEW v
    PROVE  ValueOf(Append(s, x), k, v) =
               IF x.kind = k THEN x.val ELSE ValueOf(s, k, v)
<1>. DEFINE e == Append(s, x)
            n == Len(s)
            S == {i \in 1..Len(s) : s[i].kind = k}
            E == {i \in 1..Len(e) : e[i].kind = k}
            s1 == CHOOSE i \in S : \A j \in S : j <= i
            e1 == CHOOSE i \in E : \A j \in E : j <= i
<1>0. /\ n \in Nat /\ Len(e) = n + 1 /\ e[n + 1] = x
      /\ \A i \in 1..n : e[i] = s[i]
  BY AppendProperties, LenProperties
<1>1. /\ ValueOf(s, k, v) = IF S = {} THEN v ELSE s[s1].val
      /\ ValueOf(e, k, v) = IF E = {} THEN v ELSE e[e1].val
  BY DEF ValueOf
<1>. HIDE DEF e
<1>2. CASE x.kind = k
  <2>1. n + 1 \in E /\ E \in SUBSET (1..(n + 1))
    BY <1>0, <1>2
  <2>2. n + 1 \in E /\ \A j \in E : j <= n + 1
    BY <1>0, <2>1
  <2>. HIDE DEF E
  <2>3. e1 \in E /\ \A j \in E : j <= e1
    BY <2>2
  <2>. HIDE DEF e1
  <2>4. e1 = n + 1
    BY <1>0, <2>1, <2>3
  <2>5. ValueOf(e, k, v) = x.val
    BY <1>0, <1>1, <2>1, <2>4
  <2>. QED
    BY <1>2, <2>5 DEF e
<1>3. CASE x.kind # k
  <2>1. E = S
    <3>1. ASSUME NEW i \in 1..(n + 1) PROVE i \in E <=> i \in S
      BY <1>0, <1>3
    <3>. QED
      BY <1>0, <3>1
  <2>2. e1 = s1
    BY <2>1
  <2>3. CASE S = {}
    BY <1>1, <1>3, <2>1, <2>3 DEF e
  <2>4. CASE S # {}
    <3>1. S \in SUBSET (1..n)
      OBVIOUS
    <3>. HIDE DEF S, n
    <3>2. \E i \in S : \A j \in S : j <= i
      BY <1>0, <2>4, <3>1, GreatestNumber
    <3>3. s1 \in S
      BY <3>2
    <3>. HIDE DEF s1, e1, E
    <3>4. e[s1] = s[s1]
      BY <1>0, <3>1, <3>3
    <3>5. ValueOf(e, k, v) = ValueOf(s, k, v)
      BY <1>1, <2>1, <2>2, <2>4, <3>4
    <3>. QED
      BY <1>3, <3>5 DEF e
  <2>. QED
    BY <2>3, <2>4
<1>. QED
  BY <1>2, <1>3

(* Without lines the value stays what the caller passed.                   *)
LEMMA ValueEmpty ==
    ASSUME NEW k, NEW v
    PROVE  ValueOf(<<>>, k, v) = v
BY EmptySeq DEF ValueOf

(* An optional line behind a document gives its value, if it is there.     *)
LEMMA ValueOptional ==
    ASSUME NEW s \in Seq(Lines), NEW o \in {"address", "netmask", "gateway"},
           NEW w \in Values \cup {NoVal}, NEW k, NEW v
    PROVE  /\ s \o Optional(o, w) \in Seq(Lines)
           /\ ValueOf(s \o Optional(o, w), k, v) =
                  IF o = k /\ w # NoVal THEN w ELSE ValueOf(s, k, v)
<1>. DEFINE x == Line(o, {}, w)
<1>1. x \in Lines /\ x.kind = o /\ x.val = w
  BY NodeLineType DEF NodeLines, Line
<1>. HIDE DEF x
<1>2. CASE w = NoVal
  BY <1>2, ConcatEmptySeq DEF Optional
<1>3. CASE w # NoVal
  <2>1. Optional(o, w) = <<x>>
    BY <1>3 DEF Optional, x
  <2>2. s \o <<x>> = Append(s, x) /\ Append(s, x) \in Seq(Lines)
    BY <1>1, AppendIsConcat, AppendProperties
  <2>3. ValueOf(Append(s, x), k, v) = IF o = k THEN w ELSE ValueOf(s, k, v)
    BY <1>1, ValueAppend
  <2>. QED
    BY <1>3, <2>1, <2>2, <2>3
<1>. QED
  BY <1>2, <1>3

(* The empty last line of the file has no value.                           *)
LEMMA ValueNodeEnd ==
    ASSUME NEW s \in Seq(Lines), NEW R, NEW k, k # "end", NEW v
    PROVE  ValueOf(s \o NodeEnd(R), k, v) = ValueOf(s, k, v)
<1>1. CASE R # <<>>
  BY <1>1, ConcatEmptySeq DEF NodeEnd
<1>2. CASE R = <<>>
  <2>1. s \o <<End>> = Append(s, End)
    BY EndLine, AppendIsConcat
  <2>2. ValueOf(Append(s, End), k, v) = ValueOf(s, k, v)
    BY EndLine, ValueAppend
  <2>. QED
    BY <1>2, <2>1, <2>2 DEF NodeEnd
<1>. QED
  BY <1>1, <1>2

(* The values of a stanza.                                                 *)
LEMMA StanzaValues ==
    ASSUME NEW n \in Networks, n.method # "NONE"
    PROVE  /\ ValueOf(Stanza(n), "address", NoVal) = Visible(n).ip
           /\ ValueOf(Stanza(n), "netmask", NoVal) = Visible(n).netmask
           /\ ValueOf(Stanza(n), "gateway", NoVal) = Visible(n).gateway
<1>. DEFINE K == {"address", "netmask", "gateway"}
            i == IfaceLine(n)
            s0 == <<i>>
<1>0. n.method \in Methods /\ n.ip \in Values \cup {NoVal}
      /\ n.netmask \in Values \cup {NoVal} /\ n.gateway \in Values \cup {NoVal}
  BY NetworkType
<1>1. i \in Lines /\ i.kind = "iface" /\ s0 \in Seq(Lines)
  BY NodeLineType DEF NodeLines, IfaceLine, Line
<1>. HIDE DEF i
<1>2. ASSUME NEW k \in K PROVE ValueOf(s0, k, NoVal) = NoVal
  <2>. DEFINE z == <<>>
  <2>1. s0 = Append(z, i) /\ z \in Seq(Lines) /\ ValueOf(z, k, NoVal) = NoVal
    BY <1>1, AppendIsConcat, ConcatEmptySeq, EmptySeq, ValueEmpty
  <2>. HIDE DEF s0, K, z
  <2>2. ValueOf(Append(z, i), k, NoVal) =
            IF i.kind = k THEN i.val ELSE ValueOf(z, k, NoVal)
    BY <2>1, <1>1, ValueAppend
  <2>3. i.kind # k
    BY <1>1 DEF K
  <2>. QED
    BY <2>1, <2>2, <2>3
<1>3. CASE n.method = "STATIC"
  <2>. DEFINE o1 == Optional("address", n.ip)
              o2 == Optional("netmask", n.netmask)
              o3 == Optional("gateway", n.gateway)
              s1 == s0 \o o1
              s2 == s1 \o o2
              s3 == s2 \o o3
  <2>1. Stanza(n) = s3
    <3>1. Stanza(n) = <<i>> \o ((o1 \o o2) \o o3)
      BY <1>3, StanzaType DEF i, Addresses
    <3>2. o1 \in Seq(Lines) /\ o2 \in Seq(Lines) /\ o3 \in Seq(Lines)
      BY <1>0, OptionalType, NodeDocument
    <3>. HIDE DEF o1, o2, o3
    <3>3. o1 \o o2 \in Seq(Lines)
      BY <3>2, ConcatLines
    <3>4. <<i>> \o ((o1 \o o2) \o o3) = (<<i>> \o (o1 \o o2)) \o o3
      BY <1>1, <3>2, <3>3, ConcatLines
    <3>5. <<i>> \o (o1 \o o2) = (<<i>> \o o1) \o o2
      BY <1>1, <3>2, ConcatLines
    <3>. QED
      BY <3>1, <3>4, <3>5
  <2>. HIDE DEF s0
  <2>2. ASSUME NEW k \in K
        PROVE  /\ s1 \in Seq(Lines)
               /\ ValueOf(s1, k, NoVal) =
                    IF "address" = k /\ n.ip # NoVal THEN n.ip ELSE NoVal
    BY <1>0, <1>1, <1>2, ValueOptional
  <2>. HIDE DEF s1
  <2>3. ASSUME NEW k \in K
        PROVE  /\ s2 \in Seq(Lines)
               /\ ValueOf(s2, k, NoVal) =
                    IF "netmask" = k /\ n.netmask # NoVal THEN n.netmask
                    ELSE ValueOf(s1, k, NoVal)
    BY <1>0, <2>2, ValueOptional
  <2>. HIDE DEF s2
  <2>4. ASSUME NEW k \in K
        PROVE  ValueOf(s3, k, NoVal) =
                    IF "gateway" = k /\ n.gateway # NoVal THEN n.gateway
                    ELSE ValueOf(s2, k, NoVal)
    BY <1>0, <2>3, ValueOptional
  <2>. HIDE DEF s3
  <2>5. Visible(n) = n
    BY <1>3 DEF Visible
  <2>6. ValueOf(s3, "address", NoVal) = n.ip
    BY <2>2, <2>3, <2>4
  <2>7. ValueOf(s3, "netmask", NoVal) = n.netmask
    BY <2>2, <2>3, <2>4
  <2>8. ValueOf(s3, "gateway", NoVal) = n.gateway
    BY <2>2, <2>3, <2>4
  <2>. QED
    BY <2>1, <2>5, <2>6, <2>7, <2>8
<1>4. CASE n.method \in {"AUTO", "DHCP"}
  <2>1. Stanza(n) = <<i>>
    BY <1>4, StanzaType DEF i
  <2>2. Visible(n).ip = NoVal /\ Visible(n).netmask = NoVal /\ Visible(n).gateway = NoVal
    BY <1>4 DEF Visible, Unset
  <2>. QED
    BY <1>2, <2>1, <2>2
<1>. QED
  BY <1>0, <1>3, <1>4 DEF Methods

(* What is read back from the lines of setEthXNode.                        *)
LEMMA ReadBack ==
    ASSUME NEW n \in Networks, n.method # "NONE", NEW R, NEW x \in Methods
    PROVE  getEthXNode(Unset(x), Stanza(n) \o NodeEnd(R)) = Visible(n)
<1>. DEFINE S == Stanza(n)
            E == NodeEnd(R)
            i == IfaceLine(n)
            node == S \o E
<1>0. n.method \in {"AUTO", "DHCP", "STATIC"}
  BY NetworkType DEF Methods
<1>1. S \in Seq(Lines) /\ E \in Seq(Lines) /\ i \in Lines /\ <<i>> \in Seq(Lines)
      /\ i.val = Word[n.method]
  <2>1. S \in Seq(Lines)
    BY StanzaType, NodeDocument
  <2>2. E \in Seq(Lines)
    BY EndLine, EmptySeq DEF NodeEnd
  <2>3. i \in Lines /\ i.val = Word[n.method]
    BY NodeLineType DEF NodeLines, IfaceLine, Line
  <2>. QED
    BY <2>1, <2>2, <2>3
<1>2. node # <<>> /\ node[1] = i
  <2>1. PICK Z \in Seq(Lines) : S = <<i>> \o Z
    <3>1. CASE n.method = "STATIC"
      BY <3>1, StanzaType, NodeDocument
    <3>2. CASE n.method # "STATIC"
      <4>1. S = <<i>>
        BY <1>0, <3>2, StanzaType
      <4>2. <<i>> = <<i>> \o <<>> /\ <<>> \in Seq(Lines)
        BY <1>1, ConcatEmptySeq, EmptySeq
      <4>. QED
        BY <4>1, <4>2
    <3>. QED
      BY <3>1, <3>2
  <2>. HIDE DEF S, E, i
  <2>2. node = <<i>> \o (Z \o E) /\ Z \o E \in Seq(Lines)
    BY <1>1, <2>1, ConcatLines
  <2>. DEFINE Y == Z \o E
  <2>3. Len(<<i>>) = 1 /\ <<i>>[1] = i /\ Len(Y) \in Nat
    BY <2>2, LenProperties
  <2>. HIDE DEF Y, node
  <2>4. node = <<i>> \o Y /\ Y \in Seq(Lines)
    BY <2>2 DEF Y
  <2>5. /\ Len(node) = 1 + Len(Y)
        /\ \A j \in 1..(1 + Len(Y)) : node[j] = IF j <= 1 THEN <<i>>[j] ELSE Y[j - 1]
    BY <1>1, <2>3, <2>4, ConcatProperties
  <2>6. 1 \in 1..(1 + Len(Y)) /\ Len(node) > 0
    BY <2>3, <2>5
  <2>7. node[1] = i
    BY <2>3, <2>5, <2>6
  <2>8. node # <<>>
    BY <2>6, EmptySeq
  <2>. QED
    BY <2>7, <2>8
<1>. HIDE DEF i, S, E
<1>3. MethodOf(node, x) = n.method
  <2>. DEFINE known == {y \in {"AUTO", "STATIC", "DHCP"} : Word[y] = node[1].val}
  <2>1. known = {n.method}
    BY <1>0, <1>1, <1>2 DEF Word, Methods
  <2>2. known # {} /\ (CHOOSE y \in known : TRUE) = n.method
    BY <2>1
  <2>. HIDE DEF node
  <2>. QED
    BY <1>2, <2>2 DEF MethodOf
<1>4. /\ ValueOf(node, "address", NoVal) = Visible(n).ip
      /\ ValueOf(node, "netmask", NoVal) = Visible(n).netmask
      /\ ValueOf(node, "gateway", NoVal) = Visible(n).gateway
  BY <1>1, ValueNodeEnd, StanzaValues DEF S, E
<1>5. Visible(n) = [method |-> n.method, ip |-> Visible(n).ip,
                    netmask |-> Visible(n).netmask, gateway |-> Visible(n).gateway]
  BY NetworkType DEF Visible, Unset
<1>6. getEthXNode(Unset(x), node) =
        [method |-> MethodOf(node, x), ip |-> ValueOf(node, "address", NoVal),
         netmask |-> ValueOf(node, "netmask", NoVal),
         gateway |-> ValueOf(node, "gateway", NoVal)]
  BY DEF getEthXNode, Unset
<1>. HIDE DEF node
<1>7. getEthXNode(Unset(x), node) = Visible(n)
  BY <1>3, <1>4, <1>5, <1>6
<1>. QED
  BY <1>7 DEF node, S, E

---------------------------------------------------------------------------
(* The inductive invariant.                                                *)

(* A file as setNetWork(n) leaves it: the stanza has the lines for n first *)
(* and then the comments that were in it.                                  *)
Saved(d, n) ==
    \E P, a, C, R :
        /\ Parts(P, a, C, R) /\ \A i \in 1..Len(C) : C[i].kind = "comment"
        /\ d = Whole(P, a, Stanza(n) \o C, R)

Formed(d) == d \in Seq(Lines) /\ NoEnd(d) /\ (Foreign(d) \/ InParts(d))

(* What is in the file, and what will be when the save is complete: a file *)
(* with the stanza of ethX in one place or none, the lines of the others   *)
(* (none, once a process has died with the file truncated), and what was   *)
(* saved last.  An object that no longer adds the auto line works on a     *)
(* file that has one.                                                      *)
FileInv ==
    /\ doc \in Seq(Lines) /\ asked \in Networks
    /\ pc \in {"none", "idle", "truncate", "write"}
    /\ isaddEthX \in BOOLEAN /\ last \in BOOLEAN /\ torn \in BOOLEAN
    /\ Formed(file)
    /\ IF pc = "write" THEN file = <<>> ELSE Others(file) = Kept
    /\ pc \in {"truncate", "write"} =>
          Saved(Written(doc), asked) /\ Others(Written(doc)) = Kept
    /\ pc = "idle" /\ ~isaddEthX => InParts(file)
    /\ last => pc \in {"none", "idle"} /\ Saved(file, asked)

(* In a file setNetWork has saved, the stanza is the lines of setEthXNode  *)
(* and comments.                                                           *)
LEMMA SavedParts ==
    ASSUME NEW n \in Networks, NEW P, NEW a, NEW C, NEW R, Parts(P, a, C, R),
           \A i \in 1..Len(C) : C[i].kind = "comment"
    PROVE  /\ Parts(P, a, Stanza(n) \o C, R)
           /\ Comments(Stanza(n) \o C) = C
           /\ Rest(Stanza(n) \o C) = Stanza(n)
<1>1. Comments(C) = C
  <2>1. C \in Seq(Lines)
    BY DEF Parts
  <2>2. \A i \in 1..Len(C) : C[i].kind \in {"comment"}
    OBVIOUS
  <2>. QED
    BY <2>1, <2>2, KindedAllOrNone DEF Comments
<1>2. Stanza(n) \in Seq(NodeLines)
  BY StanzaType
<1>. QED
  BY <1>1, <1>2, NewStanza

(* A file in parts is a document without the empty last line.              *)
LEMMA InPartsIsFormed ==
    ASSUME NEW d, InParts(d)
    PROVE  d \in Seq(Lines) /\ NoEnd(d)
<1>1. PICK P, a, M, R : Parts(P, a, M, R) /\ d = Whole(P, a, M, R)
  BY DEF InParts
<1>2. /\ P \in Seq(Lines) /\ NoEnd(P) /\ a \in Lines /\ a.kind = "auto"
      /\ <<a>> \in Seq(Lines) /\ M \in Seq(Lines) /\ NoEnd(M)
      /\ R \in Seq(Lines) /\ NoEnd(R) /\ P \o <<a>> \in Seq(Lines)
      /\ (P \o <<a>>) \o M \in Seq(Lines) /\ d \in Seq(Lines)
  BY <1>1, PartsTypes DEF Parts
<1>3. NoEnd(<<a>>)
  BY <1>2 DEF NoEnd
<1>4. NoEnd(P \o <<a>>)
  BY <1>2, <1>3, ConcatKeeps
<1>5. NoEnd((P \o <<a>>) \o M)
  BY <1>2, <1>4, ConcatKeeps
<1>6. NoEnd(((P \o <<a>>) \o M) \o R)
  BY <1>2, <1>5, ConcatKeeps
<1>. QED
  BY <1>1, <1>2, <1>6 DEF Whole

(* A file setNetWork has saved is one it can work on again.                *)
LEMMA SavedIsFormed ==
    ASSUME NEW n \in Networks, NEW d, Saved(d, n)
    PROVE  InParts(d) /\ Formed(d)
<1>1. PICK P, a, C, R : /\ Parts(P, a, C, R)
                        /\ \A i \in 1..Len(C) : C[i].kind = "comment"
                        /\ d = Whole(P, a, Stanza(n) \o C, R)
  BY DEF Saved
<1>2. Parts(P, a, Stanza(n) \o C, R)
  BY <1>1, SavedParts
<1>3. InParts(d)
  BY <1>1, <1>2 DEF InParts
<1>. QED
  BY <1>3, InPartsIsFormed DEF Formed

(* Reading tells the two kinds of files apart.                             *)
LEMMA FoundIsInParts ==
    ASSUME NEW d, Formed(d)
    PROVE  /\ Read(d).pos # 0 <=> InParts(d)
           /\ Read(d).pos = 0 => Foreign(d)
<1>1. Foreign(d) => Read(d).pos = 0
  BY ReadForeign DEF Formed
<1>2. ASSUME InParts(d) PROVE Read(d).pos # 0
  <2>1. PICK P, a, M, R : Parts(P, a, M, R) /\ d = Whole(P, a, M, R)
    BY <1>2 DEF InParts
  <2>2. Read(Whole(P, a, M, R)).pos = Len(P) + 1
    <3>1. Parts(P, a, M, R)
      BY <2>1
    <3>2. /\ Read(Whole(P, a, M, R)).pos = Len(P) + 1
          /\ Read(Whole(P, a, M, R)).kept =
                 (((P \o <<a>>) \o Comments(M)) \o R) \o KeptEnd(R)
      BY <3>1, ReadStanza
    <3>. QED
      BY <3>2
  <2>3. Len(P) \in Nat
    BY <2>1, PartsTypes
  <2>. QED
    BY <2>1, <2>2, <2>3
<1>. QED
  BY <1>1, <1>2 DEF Formed

(* The document setNetWork makes of a file.                                *)
LEMMA SetSaves ==
    ASSUME NEW d, Formed(d), NEW n \in Networks, NEW add \in BOOLEAN,
           ~add => InParts(d)
    PROVE  LET w == Splice(Read(d), setEthXNode(n, add /\ Read(d).pos = 0))
           IN  /\ w \in Seq(Lines)
               /\ Saved(Written(w), n)
               /\ Others(Written(w)) = Others(d)
<1>. DEFINE b == add /\ Read(d).pos = 0
            w == Splice(Read(d), setEthXNode(n, b))
            N == Stanza(n)
<1>0. N \in Seq(NodeLines) /\ N \in Seq(Lines) /\ NoEnd(N)
      /\ setEthXNode(n, TRUE) = <<AutoLine>> \o N /\ setEthXNode(n, FALSE) = N
  BY StanzaType, NodeDocument DEF Stanza
<1>1. CASE InParts(d)
  <2>1. PICK P, a, M, R : Parts(P, a, M, R) /\ d = Whole(P, a, M, R)
    BY <1>1 DEF InParts
  <2>2. w = Splice(Read(d), N)
    <3>1. b = FALSE
      BY <1>1, FoundIsInParts
    <3>. QED
      BY <1>0, <3>1
  <2>. DEFINE C == Comments(M)
  <2>3. w \in Seq(Lines) /\ Written(w) = Whole(P, a, N \o C, R)
    BY <1>0, <2>1, <2>2, WrittenStanza
  <2>. HIDE DEF w, b
  <2>4. Parts(P, a, N \o C, R) /\ Comments(N \o C) = C
    BY <1>0, <2>1, NewStanza
  <2>5. M \in Seq(Lines)
    BY <2>1 DEF Parts
  <2>6. C \in Seq(Lines) /\ Body(C) /\ NoEnd(C)
        /\ \A i \in 1..Len(C) : C[i].kind = "comment"
    BY <2>5, CommentsOfComments
  <2>. HIDE DEF C
  <2>7. Parts(P, a, C, R)
    BY <2>1, <2>6 DEF Parts
  <2>8. Saved(Written(w), n)
    BY <2>3, <2>6, <2>7 DEF Saved
  <2>9. Others(Written(w)) = (P \o C) \o R
    <3>. DEFINE B == N \o C
    <3>1. Parts(P, a, B, R) /\ Comments(B) = C /\ Written(w) = Whole(P, a, B, R)
      BY <2>3, <2>4
    <3>. HIDE DEF B
    <3>2. Others(Whole(P, a, B, R)) = (P \o Comments(B)) \o R
      BY <3>1, OthersWhole, SMTT(60)
    <3>. QED
      BY <3>1, <3>2
  <2>10. Others(d) = (P \o C) \o R
    BY <2>1, OthersWhole DEF C
  <2>. QED
    BY <2>3, <2>8, <2>9, <2>10 DEF w, b
<1>2. CASE ~InParts(d)
  <2>1. Foreign(d) /\ d \in Seq(Lines) /\ NoEnd(d) /\ b = TRUE
    BY <1>2, FoundIsInParts DEF Formed
  <2>. DEFINE a == AutoLine
              A == <<a>>
  <2>2. a \in Lines /\ a.kind = "auto" /\ EthX \in a.names /\ A \in Seq(Lines)
    BY NodeLineType
  <2>3. A \o N \in Seq(Lines) /\ NoEnd(A \o N)
    <3>1. NoEnd(A)
      BY <2>2 DEF NoEnd
    <3>. HIDE DEF A
    <3>. QED
      BY <1>0, <2>2, <3>1, ConcatKeeps, ConcatLines
  <2>4. w = Splice(Read(d), A \o N)
    BY <1>0, <2>1
  <2>. HIDE DEF A
  <2>5. w \in Seq(Lines) /\ Written(w) = d \o (A \o N)
    BY <2>1, <2>3, <2>4, WrittenForeign
  <2>. HIDE DEF w, b, a
  <2>6. <<>> \in Seq(Lines) /\ Foreign(<<>>) /\ NoEnd(<<>>) /\ Body(<<>>)
    BY EmptySeq DEF Foreign, NoEnd, Body
  <2>7. Parts(d, a, <<>>, <<>>)
    BY <2>1, <2>2, <2>6 DEF Parts
  <2>8. Written(w) = Whole(d, a, N \o <<>>, <<>>)
    <3>1. d \o A \in Seq(Lines) /\ (d \o A) \o N = d \o (A \o N)
      BY <1>0, <2>1, <2>2, ConcatLines
    <3>2. N \o <<>> = N
      BY <1>0, ConcatEmptySeq
    <3>3. (d \o A) \o N \in Seq(Lines)
      BY <1>0, <3>1, ConcatLines
    <3>4. ((d \o A) \o N) \o <<>> = (d \o A) \o N
      BY <3>3, ConcatEmptySeq
    <3>. QED
      BY <2>5, <3>1, <3>2, <3>4 DEF Whole, A
  <2>9. Saved(Written(w), n)
    <3>1. \A i \in 1..Len(<<>>) : <<>>[i].kind = "comment"
      BY EmptySeq
    <3>. QED
      BY <2>7, <2>8, <3>1 DEF Saved
  <2>10. Comments(<<>>) = <<>>
    BY KindedAppend DEF Comments
  <2>11. Parts(d, a, N \o <<>>, <<>>) /\ Comments(N \o <<>>) = <<>>
    <3>. DEFINE z == <<>>
    <3>1. Parts(d, a, z, z) /\ Comments(z) = z
      BY <2>7, <2>10
    <3>. HIDE DEF z
    <3>2. /\ Parts(d, a, N \o Comments(z), z)
          /\ Comments(N \o Comments(z)) = Comments(z)
      BY <1>0, <3>1, NewStanza
    <3>. QED
      BY <3>1, <3>2 DEF z
  <2>12. Others(Written(w)) = (d \o <<>>) \o <<>>
    <3>. DEFINE B == N \o <<>>
                z == <<>>
    <3>1. Parts(d, a, B, z) /\ Comments(B) = z /\ Written(w) = Whole(d, a, B, z)
      BY <2>8, <2>11
    <3>. HIDE DEF B, z
    <3>2. Others(Whole(d, a, B, z)) = (d \o Comments(B)) \o z
      <4>1. Parts(d, a, B, z)
        BY <3>1
      <4>. QED
        BY <4>1, OthersWhole
    <3>3. Others(Written(w)) = (d \o z) \o z
      BY <3>1, <3>2
    <3>. QED
      BY <3>3 DEF z
  <2>13. Others(d) = d /\ d \o <<>> = d
    BY <2>1, OthersForeign, ConcatEmptySeq
  <2>. QED
    BY <2>5, <2>9, <2>12, <2>13 DEF w, b
<1>. QED
  BY <1>1, <1>2

(* Read, of the file, is what the operations of the module use.            *)
LEMMA ParseIsRead ==
    /\ Parse = Read(file)
    /\ StillToAdd <=> isaddEthX /\ Read(file).pos = 0
BY DEF Parse, readFile, Read, Start, End, StillToAdd, Found

---------------------------------------------------------------------------
(* FileInv holds at the start and is kept by every step.                   *)

(* The file is well-formed while it is truncated, and when a crash leaves  *)
(* it so.                                                                  *)
LEMMA EmptyFile == Formed(<<>>) /\ Others(<<>>) = <<>>
BY EmptySeq, NoLines DEF Formed, NoEnd, Foreign

(* The file is well-formed before the first call.                          *)
LEMMA FileInvInit ==
    ASSUME WellFormed, Init
    PROVE  FileInv
<1>1. file \in Seq(Lines) /\ NoEnd(file)
  BY FileAssumption DEF Init, NoEnd
<1>2. Formed(file)
  <2>1. Foreign(file) \/ HasStanza(file)
    BY DEF Init, WellFormed
  <2>. QED
    BY <1>1, <2>1, StanzaInParts DEF Formed
<1>3. doc \in Seq(Lines)
  BY EmptySeq DEF Init
<1>. QED
  BY <1>2, <1>3 DEF Init, FileInv, Kept

(* Every step keeps the invariant; the case that matters is setNetWork, by *)
(* SetSaves.                                                               *)
LEMMA FileInvNext ==
    ASSUME FileInv, [Next]_vars
    PROVE  FileInv'
<1>1. CASE New
  BY <1>1 DEF New, FileInv, Kept
<1>2. CASE Delete
  BY <1>2 DEF Delete, FileInv, Kept
<1>3. CASE getNetWork
  <2>1. Formed(file)
    BY DEF FileInv
  <2>2. Read(file).pos # 0 <=> InParts(file)
    BY <2>1, FoundIsInParts
  <2>3. StillToAdd <=> isaddEthX /\ Read(file).pos = 0
    BY ParseIsRead
  <2>4. StillToAdd \in BOOLEAN
    BY DEF StillToAdd, FileInv
  <2>5. isaddEthX' \in BOOLEAN
    BY <1>3, <2>4 DEF getNetWork
  <2>6. ~isaddEthX' => InParts(file)
    BY <1>3, <2>2, <2>3 DEF getNetWork, FileInv
  <2>7. pc = "idle" /\ UNCHANGED <<file, pc, doc, asked, last, others, torn>>
    BY <1>3 DEF getNetWork
  <2>. QED
    BY <2>5, <2>6, <2>7 DEF FileInv, Kept
<1>4. CASE Truncate
  <2>1. file' = <<>> /\ pc = "truncate" /\ pc' = "write"
        /\ UNCHANGED <<isaddEthX, doc, asked, last, others, torn>>
    BY <1>4 DEF Truncate
  <2>2. Formed(file')
    BY <2>1, EmptyFile
  <2>3. ~last
    BY <2>1 DEF FileInv
  <2>. QED
    BY <2>1, <2>2, <2>3 DEF FileInv, Kept
<1>5. CASE Write
  <2>1. /\ pc = "write" /\ pc' = "idle" /\ file' = Written(doc) /\ doc' = <<>>
        /\ last' = TRUE /\ UNCHANGED <<isaddEthX, asked, others, torn>>
    BY <1>5 DEF Write
  <2>2. Saved(Written(doc), asked) /\ Others(Written(doc)) = Kept /\ asked \in Networks
    BY <2>1 DEF FileInv
  <2>3. InParts(Written(doc)) /\ Formed(Written(doc))
    BY <2>2, SavedIsFormed
  <2>4. doc' \in Seq(Lines)
    BY <2>1, EmptySeq
  <2>5. last' \in BOOLEAN
    BY <2>1
  <2>. QED
    BY <2>1, <2>2, <2>3, <2>4, <2>5 DEF FileInv, Kept
<1>6. CASE Crash
  <2>1. /\ pc \in {"truncate", "write"} /\ pc' = "none" /\ doc' = <<>>
        /\ torn' = (torn \/ pc = "write")
        /\ UNCHANGED <<file, isaddEthX, asked, last, others>>
    BY <1>6 DEF Crash
  <2>2. doc' \in Seq(Lines)
    BY <2>1, EmptySeq
  <2>3. ~last
    BY <2>1 DEF FileInv
  <2>4. Others(file) = Kept'
    <3>1. CASE pc = "truncate"
      BY <2>1, <3>1 DEF FileInv, Kept
    <3>2. CASE pc = "write"
      BY <2>1, <3>2, EmptyFile DEF FileInv, Kept
    <3>. QED
      BY <2>1, <3>1, <3>2
  <2>. QED
    <3>1. torn' \in BOOLEAN
      BY <2>1 DEF FileInv
    <3>. QED
      BY <2>1, <2>2, <2>3, <2>4, <3>1 DEF FileInv
<1>7. ASSUME NEW n \in Networks, setNetWork(n) PROVE FileInv'
  <2>1. /\ pc = "idle" /\ pc' = "truncate" /\ isaddEthX' = StillToAdd
        /\ doc' = Splice(Parse, setEthXNode(n, StillToAdd))
        /\ asked' = n /\ last' = FALSE /\ UNCHANGED <<file, others, torn>>
    BY <1>7 DEF setNetWork
  <2>2. Formed(file) /\ isaddEthX \in BOOLEAN /\ (~isaddEthX => InParts(file))
        /\ Others(file) = Kept
    BY <2>1 DEF FileInv
  <2>. DEFINE w == Splice(Read(file), setEthXNode(n, isaddEthX /\ Read(file).pos = 0))
  <2>3. w \in Seq(Lines) /\ Saved(Written(w), n) /\ Others(Written(w)) = Others(file)
    BY <2>2, SetSaves
  <2>4. doc' = w
    <3>1. StillToAdd = (isaddEthX /\ Read(file).pos = 0)
      BY <2>2, ParseIsRead DEF StillToAdd
    <3>. QED
      BY <2>1, <3>1, ParseIsRead
  <2>5. StillToAdd \in BOOLEAN
    BY DEF StillToAdd
  <2>6. isaddEthX' \in BOOLEAN /\ last' \in BOOLEAN
    BY <2>1, <2>5
  <2>. HIDE DEF w
  <2>. QED
    BY <2>1, <2>2, <2>3, <2>4, <2>6 DEF FileInv, Kept
<1>8. CASE UNCHANGED vars
  BY <1>8 DEF vars, FileInv, Kept
<1>. QED
  BY <1>1, <1>2, <1>3, <1>4, <1>5, <1>6, <1>7, <1>8 DEF Next

(* FileInv is an invariant: whatever the calls, objects and crashes, the   *)
(* file has the stanza of ethX in one place or none, and holds the lines   *)
(* of the others and what was saved last.                                  *)
THEOREM FileInvariant ==
    ASSUME WellFormed PROVE Spec => []FileInv
<1>1. Init => FileInv
  BY FileInvInit
<1>2. FileInv /\ [Next]_vars => FileInv'
  BY FileInvNext
<1>. QED
  BY <1>1, <1>2, PTL DEF Spec

---------------------------------------------------------------------------
(* What follows from it.                                                   *)

(* The file, the document and the flags have their types (MxcNetWork).     *)
THEOREM TypeOKHolds ==
    ASSUME WellFormed PROVE Spec => []TypeOK
<1>1. FileInv => TypeOK
  <2>. SUFFICES ASSUME FileInv PROVE TypeOK
    OBVIOUS
  <2>1. file \in Seq(Lines) /\ doc \in Seq(Lines)
    BY DEF FileInv, Formed
  <2>. QED
    BY <2>1, ElementOfSeq DEF FileInv, TypeOK
<1>. QED
  BY <1>1, FileInvariant, PTL

(* OthersKept: over any calls, objects and crashes the lines of the other  *)
(* interfaces and the comments are those before the first call, in their   *)
(* order; or, once a process has died between the truncation and the write *)
(* of saveFile, none.                                                      *)
THEOREM OthersKeptHolds ==
    ASSUME WellFormed PROVE Spec => []OthersKept
<1>1. FileInv => OthersKept
  BY DEF FileInv, OthersKept, Content
<1>. QED
  BY <1>1, FileInvariant, PTL

(* RoundTrip: getNetWork reads back what setNetWork saved last             *)
(* (getEthXNode after setEthXNode, through the file).                      *)
THEOREM RoundTripHolds ==
    ASSUME WellFormed PROVE Spec => []RoundTrip
<1>1. FileInv => RoundTrip
  <2>. SUFFICES ASSUME FileInv, last, asked.method # "NONE", NEW x \in Methods
                PROVE  getEthXNode(Unset(x), Parse.node) = Visible(asked)
    BY DEF RoundTrip
  <2>1. asked \in Networks /\ Saved(file, asked)
    BY DEF FileInv
  <2>2. PICK P, a, C, R : /\ Parts(P, a, C, R)
                          /\ \A i \in 1..Len(C) : C[i].kind = "comment"
                          /\ file = Whole(P, a, Stanza(asked) \o C, R)
    BY <2>1 DEF Saved
  <2>. DEFINE M == Stanza(asked) \o C
  <2>3. Parts(P, a, M, R) /\ Rest(M) = Stanza(asked)
    BY <2>1, <2>2, SavedParts
  <2>4. file = Whole(P, a, M, R)
    BY <2>2
  <2>. HIDE DEF M
  <2>5. Read(Whole(P, a, M, R)).node = Rest(M) \o NodeEnd(R)
    <3>1. Parts(P, a, M, R)
      BY <2>3
    <3>2. /\ Read(Whole(P, a, M, R)).pos = Len(P) + 1
          /\ Read(Whole(P, a, M, R)).kept =
                 (((P \o <<a>>) \o Comments(M)) \o R) \o KeptEnd(R)
          /\ Read(Whole(P, a, M, R)).node = Rest(M) \o NodeEnd(R)
      BY <3>1, ReadStanza, SMTT(60)
    <3>. QED
      BY <3>2
  <2>6. Parse.node = Stanza(asked) \o NodeEnd(R)
    BY <2>3, <2>4, <2>5, ParseIsRead
  <2>. QED
    BY <2>1, <2>6, ReadBack
<1>. QED
  BY <1>1, FileInvariant, PTL

(* A file has one auto line for ethX, or none.                             *)
LEMMA AutoLinesOfFile ==
    ASSUME NEW d
    PROVE  /\ InParts(d) => Cardinality(AutoLines(d)) = 1
           /\ Foreign(d) => Cardinality(AutoLines(d)) = 0
<1>1. ASSUME Foreign(d) PROVE Cardinality(AutoLines(d)) = 0
  <2>1. AutoLines(d) = {}
    BY <1>1, NameAssumption DEF AutoLines, Foreign, Own
  <2>. QED
    BY <2>1, FS_EmptySet
<1>2. ASSUME InParts(d) PROVE Cardinality(AutoLines(d)) = 1
  <2>1. PICK P, a, M, R : Parts(P, a, M, R) /\ d = Whole(P, a, M, R)
    BY <1>2 DEF InParts
  <2>. DEFINE A == P \o <<a>>
              B == A \o M
              l == Len(P)
              m == Len(M)
              r == Len(R)
  <2>2. /\ P \in Seq(Lines) /\ M \in Seq(Lines) /\ R \in Seq(Lines) /\ a \in Lines
        /\ A \in Seq(Lines) /\ A = Append(P, a) /\ B \in Seq(Lines)
        /\ Foreign(P) /\ Body(M) /\ Foreign(R) /\ a.kind = "auto" /\ EthX \in a.names
    BY <2>1, PartsTypes DEF Parts
  <2>3. l \in Nat /\ m \in Nat /\ r \in Nat
    BY <2>2, LenProperties
  <2>4. /\ Len(A) = l + 1 /\ A[l + 1] = a
        /\ \A i \in 1..l : A[i] = P[i]
    BY <2>2, AppendProperties
  <2>. HIDE DEF A
  <2>5. /\ Len(B) = (l + 1) + m
        /\ \A i \in 1..((l + 1) + m) : B[i] = IF i <= l + 1 THEN A[i] ELSE M[i - (l + 1)]
    BY <2>2, <2>4, ConcatProperties
  <2>. HIDE DEF B
  <2>6. /\ Len(d) = ((l + 1) + m) + r
        /\ \A i \in 1..(((l + 1) + m) + r) :
              d[i] = IF i <= (l + 1) + m THEN B[i] ELSE R[i - ((l + 1) + m)]
    <3>1. d = B \o R
      BY <2>1 DEF Whole, A, B
    <3>2. /\ Len(B \o R) = Len(B) + Len(R)
          /\ \A i \in 1..(Len(B) + Len(R)) :
                (B \o R)[i] = IF i <= Len(B) THEN B[i] ELSE R[i - Len(B)]
      BY <2>2, ConcatProperties
    <3>. QED
      BY <2>5, <3>1, <3>2
  <2>7. ASSUME NEW i \in 1..Len(d), i # l + 1
        PROVE  ~(d[i].kind = "auto" /\ EthX \in d[i].names)
    <3>1. CASE i \in 1..l
      <4>1. d[i] = P[i]
        BY <2>3, <2>4, <2>5, <2>6, <3>1
      <4>. QED
        BY <2>2, <3>1, <4>1, NameAssumption DEF Foreign, Own
    <3>2. CASE i - (l + 1) \in 1..m
      <4>1. d[i] = M[i - (l + 1)]
        BY <2>3, <2>5, <2>6, <3>2
      <4>. QED
        BY <2>2, <3>2, <4>1 DEF Body
    <3>3. CASE i - ((l + 1) + m) \in 1..r
      <4>1. d[i] = R[i - ((l + 1) + m)]
        BY <2>3, <2>6, <3>3
      <4>. QED
        BY <2>2, <3>3, <4>1, NameAssumption DEF Foreign, Own
    <3>. QED
      BY <2>3, <2>6, <2>7, <3>1, <3>2, <3>3
  <2>8. l + 1 \in 1..Len(d) /\ d[l + 1] = a
    BY <2>3, <2>4, <2>5, <2>6
  <2>9. AutoLines(d) = {l + 1}
    BY <2>2, <2>7, <2>8 DEF AutoLines
  <2>. QED
    BY <2>9, FS_Singleton
<1>. QED
  BY <1>1, <1>2

(* OneAuto: the interface never has two auto lines, and has one once it    *)
(* has been set (isaddEthX).                                               *)
THEOREM OneAutoHolds ==
    ASSUME WellFormed PROVE Spec => []OneAuto
<1>1. FileInv => OneAuto
  <2>. SUFFICES ASSUME FileInv PROVE OneAuto
    OBVIOUS
  <2>1. Foreign(Content) \/ InParts(Content)
    <3>1. CASE pc = "write"
      <4>1. Saved(Written(doc), asked) /\ asked \in Networks
        BY <3>1 DEF FileInv
      <4>. QED
        BY <3>1, <4>1, SavedIsFormed DEF Content
    <3>2. CASE pc # "write"
      BY <3>2 DEF FileInv, Formed, Content
    <3>. QED
      BY <3>1, <3>2
  <2>2. Cardinality(AutoLines(Content)) <= 1
    BY <2>1, AutoLinesOfFile
  <2>3. ASSUME last PROVE Cardinality(AutoLines(file)) = 1
    <3>1. Saved(file, asked) /\ asked \in Networks
      BY <2>3 DEF FileInv
    <3>2. InParts(file)
      BY <3>1, SavedIsFormed
    <3>. QED
      BY <3>2, AutoLinesOfFile
  <2>. QED
    BY <2>2, <2>3 DEF OneAuto
<1>. QED
  BY <1>1, FileInvariant, PTL
=============================================================================
