-------------------------- MODULE SendQueueProofs --------------------------
(***************************************************************************)
(* The operators of the send path, for every argument: sequences joined    *)
(* and filtered, the bytes of messages, the outbound queue's operations.   *)
(***************************************************************************)
EXTENDS SendPath, WellFoundedInduction, TLAPS

\* A non-empty set of naturals has a least member, from the well-foundedness of <.
LEMMA LeastMember ==
    ASSUME NEW T \in SUBSET Nat, T # {}
    PROVE  \E n \in T : \A m \in T : n <= m
<1> DEFINE R == OpToRel(<, Nat)
<1>1. IsWellFoundedOn(R, Nat) BY NatLessThanWellFounded, Zenon
<1>2. \A x, y \in Nat : <<x, y>> \in R <=> x < y BY DEF OpToRel
<1> HIDE DEF R
<1>3. PICK n \in T : \A m \in T : ~(<<m, n>> \in R) BY <1>1, WFMin, Zenon
<1>4. ASSUME NEW m \in T PROVE n <= m
  <2>1. m \in Nat /\ n \in Nat OBVIOUS
  <2>2. ~(m < n) BY <1>2, <1>3, <2>1, Zenon
  <2> QED BY <2>1, <2>2
<1> QED BY <1>4

\* Induction over the naturals, for a set.
LEMMA Induction ==
    ASSUME NEW T \in SUBSET Nat, 0 \in T, \A n \in T : n + 1 \in T
    PROVE  T = Nat
<1> SUFFICES ASSUME Nat \ T # {} PROVE FALSE
  BY Zenon
<1>1. PICK n \in Nat \ T : \A m \in Nat \ T : n <= m BY LeastMember, Zenon
<1>2. n # 0 /\ n - 1 \in Nat BY <1>1
<1>3. n - 1 \in T BY <1>1, <1>2
<1> QED BY <1>1, <1>2, <1>3

\* Facts on sequences.
LEMMA ConcatType ==
    ASSUME NEW S, NEW s \in Seq(S), NEW t \in Seq(S)
    PROVE  /\ s \o t \in Seq(S) /\ Len(s \o t) = Len(s) + Len(t)
           /\ \A i \in 1..Len(s) : (s \o t)[i] = s[i]
           /\ \A i \in 1..Len(t) : (s \o t)[Len(s) + i] = t[i]
OBVIOUS

\* A sequence with the members of two others, one after the other, is their concatenation.
LEMMA ConcatEqual ==
    ASSUME NEW S, NEW s \in Seq(S), NEW t \in Seq(S), NEW u \in Seq(S), Len(u) = Len(s) + Len(t),
           \A i \in 1..Len(u) : u[i] = IF i <= Len(s) THEN s[i] ELSE t[i - Len(s)]
    PROVE  u = s \o t
<1>1. s \o t \in Seq(S) /\ Len(s \o t) = Len(u) OBVIOUS
<1>2. ASSUME NEW i \in 1..Len(u) PROVE u[i] = (s \o t)[i]
  <2>1. CASE i <= Len(s) BY <2>1
  <2>2. CASE ~(i <= Len(s)) BY <2>2
  <2> QED BY <2>1, <2>2
<1> QED BY <1>1, <1>2, SMTT(30)

\* The empty sequence is the unit of concatenation.
LEMMA ConcatEmpty ==
    ASSUME NEW S, NEW s \in Seq(S)
    PROVE  s \o << >> = s /\ << >> \o s = s
OBVIOUS

\* Appending is concatenating a sequence of one member.
LEMMA AppendIsConcat ==
    ASSUME NEW S, NEW s \in Seq(S), NEW x \in S
    PROVE  Append(s, x) = s \o <<x>> /\ <<x>> \in Seq(S)
OBVIOUS

\* The length and the members of a part of a sequence.
LEMMA SubSeqType ==
    ASSUME NEW S, NEW s \in Seq(S), NEW m \in Nat \ {0}, NEW n \in Nat, n <= Len(s)
    PROVE  /\ SubSeq(s, m, n) \in Seq(S)
           /\ m <= n + 1 => Len(SubSeq(s, m, n)) = n + 1 - m
           /\ \A i \in 1..(n + 1 - m) : SubSeq(s, m, n)[i] = s[m + i - 1]
OBVIOUS

\* A sequence cut in two is the sequence.
LEMMA CutJoins ==
    ASSUME NEW S, NEW s \in Seq(S), NEW m \in Nat, NEW n \in Nat, m <= n, n <= Len(s)
    PROVE  SubSeq(s, 1, m) \o SubSeq(s, m + 1, n) = SubSeq(s, 1, n)
OBVIOUS

\* The whole of a sequence, and none of it.
LEMMA WholeSubSeq ==
    ASSUME NEW S, NEW s \in Seq(S)
    PROVE  SubSeq(s, 1, Len(s)) = s /\ SubSeq(s, 1, 0) = << >>
OBVIOUS

\* A sequence that is not empty is its head and its tail.
LEMMA HeadTail ==
    ASSUME NEW S, NEW s \in Seq(S), s # << >>
    PROVE  /\ Head(s) \in S /\ Tail(s) \in Seq(S) /\ Len(s) > 0
           /\ s = <<Head(s)>> \o Tail(s) /\ Len(Tail(s)) = Len(s) - 1
           /\ Head(s) = s[1]
OBVIOUS

\* Three sequences are the same sequence together, whichever two are joined first.
Regroups(s, t, u) == (s \o t) \o u = s \o (t \o u)

\* Concatenation is associative.
LEMMA ConcatAssoc ==
    ASSUME NEW S, NEW s \in Seq(S), NEW t \in Seq(S), NEW u \in Seq(S)
    PROVE  Regroups(s, t, u)
BY DEF Regroups

\* Appending to the second of two sequences appends to both together.
LEMMA ConcatAppend ==
    ASSUME NEW S, NEW s \in Seq(S), NEW t \in Seq(S), NEW x \in S
    PROVE  s \o Append(t, x) = Append(s \o t, x) /\ s \o t \in Seq(S)
OBVIOUS

\* A sequence that is not empty is a shorter one with a last member.
LEMMA LastSplit ==
    ASSUME NEW S, NEW s \in Seq(S), NEW n \in Nat, Len(s) = n + 1
    PROVE  \E t \in Seq(S), x \in S : s = Append(t, x) /\ Len(t) = n
<1>1. SubSeq(s, 1, n) \in Seq(S) /\ Len(SubSeq(s, 1, n)) = n /\ s[n + 1] \in S OBVIOUS
<1>2. s = Append(SubSeq(s, 1, n), s[n + 1]) OBVIOUS
<1> QED BY <1>1, <1>2, Zenon

-----------------------------------------------------------------------------
(* Joined, by induction over its argument.                                 *)

\* f lists what the sequences in ss are together, up to each of them.
JoinsUpTo(f, ss, n) ==
    f = [i \in 0..n |-> IF i = 0 THEN << >> ELSE f[i - 1] \o ss[i]]

\* There is such a list for every length.
LEMMA JoinsExist ==
    ASSUME NEW ss, NEW n \in Nat
    PROVE  \E f : JoinsUpTo(f, ss, n)
<1> DEFINE T == {k \in Nat : \E f : JoinsUpTo(f, ss, k)}
<1>1. 0 \in T
  <2>1. JoinsUpTo([i \in 0..0 |-> << >>], ss, 0) BY DEF JoinsUpTo
  <2> QED BY <2>1
<1>2. ASSUME NEW k \in T PROVE k + 1 \in T
  <2>1. PICK f : JoinsUpTo(f, ss, k) OBVIOUS
  <2> DEFINE g == [i \in 0..(k + 1) |-> IF i = k + 1 THEN f[k] \o ss[k + 1] ELSE f[i]]
  <2>2. JoinsUpTo(g, ss, k + 1) BY <2>1 DEF JoinsUpTo
  <2>3. k + 1 \in Nat OBVIOUS
  <2> HIDE DEF g
  <2> QED BY <2>2, <2>3
<1> HIDE DEF T
<1>3. T \subseteq Nat BY DEF T
<1>4. T = Nat BY <1>1, <1>2, <1>3, Induction
<1> QED BY <1>4 DEF T

\* Any such list ends with Joined.
LEMMA JoinedIs ==
    ASSUME NEW ss, Len(ss) \in Nat, NEW f, JoinsUpTo(f, ss, Len(ss))
    PROVE  Joined(ss) = f[Len(ss)]
<1> DEFINE F == CHOOSE g : g = [i \in 0..Len(ss) |-> IF i = 0 THEN << >> ELSE g[i - 1] \o ss[i]]
<1>1. Joined(ss) = F[Len(ss)] BY SMTT(30) DEF Joined
<1>2. F = [i \in 0..Len(ss) |-> IF i = 0 THEN << >> ELSE F[i - 1] \o ss[i]]
  BY JoinsExist, Zenon DEF JoinsUpTo
<1> HIDE DEF F
<1> DEFINE T == {k \in Nat : k <= Len(ss) => F[k] = f[k]}
<1>3. 0 \in T BY <1>2 DEF JoinsUpTo
<1>4. ASSUME NEW k \in T PROVE k + 1 \in T
  BY <1>2 DEF JoinsUpTo
<1> HIDE DEF T
<1>5. T \subseteq Nat BY DEF T
<1>6. T = Nat BY <1>3, <1>4, <1>5, Induction, Zenon
<1> QED BY <1>1, <1>6 DEF T

\* Joining nothing gives nothing.
LEMMA JoinedEmpty == Joined(<< >>) = << >>
<1>1. PICK f : JoinsUpTo(f, << >>, 0) BY JoinsExist
<1>2. f[0] = << >> BY <1>1 DEF JoinsUpTo
<1> QED BY <1>1, <1>2, JoinedIs

\* One more sequence is joined at the end.
LEMMA JoinedAppend ==
    ASSUME NEW S, NEW ss \in Seq(Seq(S)), NEW x \in Seq(S)
    PROVE  Joined(Append(ss, x)) = Joined(ss) \o x
<1>1. PICK n \in Nat : n = Len(ss) OBVIOUS
<1>2. PICK y : y = Append(ss, x) BY Zenon
<1>3. /\ n + 1 \in Nat /\ Len(y) = n + 1 /\ y[n + 1] = x
      /\ \A i \in 1..n : y[i] = ss[i]
  BY <1>1, <1>2
<1>4. PICK f : JoinsUpTo(f, y, n + 1) BY <1>3, JoinsExist, Zenon
<1>5. Joined(y) = f[n + 1] BY <1>3, <1>4, JoinedIs
<1>6. \A i \in 0..(n + 1) : f[i] = IF i = 0 THEN << >> ELSE f[i - 1] \o y[i]
  BY <1>4, Zenon DEF JoinsUpTo
<1> DEFINE g == [i \in 0..n |-> f[i]]
<1>7. JoinsUpTo(g, ss, n)
  <2>1. ASSUME NEW i \in 0..n PROVE f[i] = IF i = 0 THEN << >> ELSE g[i - 1] \o ss[i]
    <3>1. CASE i = 0 BY <1>6, <3>1
    <3>2. CASE i # 0
      <4>1. i - 1 \in 0..n /\ i \in 1..n /\ i \in 0..(n + 1) BY <3>2
      <4>2. f[i] = f[i - 1] \o y[i] BY <1>6, <3>2, <4>1, Zenon
      <4>3. g[i - 1] = f[i - 1] BY <4>1
      <4> QED BY <1>3, <3>2, <4>1, <4>2, <4>3, Zenon
    <3> QED BY <3>1, <3>2
  <2> QED BY <2>1 DEF JoinsUpTo
<1>8. Joined(ss) = f[n] BY <1>1, <1>7, JoinedIs
<1>9. f[n + 1] = f[n] \o x
  <2>1. n + 1 \in 0..(n + 1) /\ n + 1 # 0 /\ (n + 1) - 1 = n OBVIOUS
  <2>2. f[n + 1] = f[(n + 1) - 1] \o y[n + 1] BY <1>6, <2>1, Zenon
  <2> QED BY <1>3, <2>1, <2>2, Zenon
<1> QED BY <1>2, <1>5, <1>8, <1>9

\* What is joined has the members of the parts.
LEMMA JoinedType ==
    ASSUME NEW S
    PROVE  \A ss \in Seq(Seq(S)) : Joined(ss) \in Seq(S)
<1> DEFINE T == {n \in Nat : \A ss \in Seq(Seq(S)) : Len(ss) = n => Joined(ss) \in Seq(S)}
<1>1. 0 \in T
  <2>1. ASSUME NEW ss \in Seq(Seq(S)), Len(ss) = 0 PROVE Joined(ss) \in Seq(S)
    <3>1. ss = << >> BY <2>1
    <3>2. << >> \in Seq(S) OBVIOUS
    <3> QED BY <3>1, <3>2, JoinedEmpty, Zenon
  <2> QED BY <2>1
<1>2. ASSUME NEW n \in T PROVE n + 1 \in T
  <2>1. n + 1 \in Nat /\ n \in Nat OBVIOUS
  <2>2. ASSUME NEW ss \in Seq(Seq(S)), Len(ss) = n + 1 PROVE Joined(ss) \in Seq(S)
    <3>1. PICK t \in Seq(Seq(S)), x \in Seq(S) : ss = Append(t, x) /\ Len(t) = n
      BY <2>1, <2>2, LastSplit, Zenon
    <3>2. Joined(t) \in Seq(S) BY <3>1
    <3>3. Joined(ss) = Joined(t) \o x BY <3>1, JoinedAppend, Zenon
    <3> QED BY <3>2, <3>3, ConcatType
  <2> QED BY <2>1, <2>2
<1> HIDE DEF T
<1>3. T \subseteq Nat BY DEF T
<1>4. T = Nat BY <1>1, <1>2, <1>3, Induction
<1> QED BY <1>4 DEF T

\* Joining distributes over concatenation, by induction over the second part.
LEMMA JoinedConcat ==
    ASSUME NEW S, NEW a \in Seq(Seq(S))
    PROVE  \A b \in Seq(Seq(S)) : Joined(a \o b) = Joined(a) \o Joined(b)
<1> DEFINE T == {n \in Nat : \A b \in Seq(Seq(S)) : Len(b) = n => Joined(a \o b) = Joined(a) \o Joined(b)}
<1>0. Joined(a) \in Seq(S) BY JoinedType
<1>1. 0 \in T
  <2>1. ASSUME NEW b \in Seq(Seq(S)), Len(b) = 0 PROVE Joined(a \o b) = Joined(a) \o Joined(b)
    <3>1. b = << >> /\ a \o << >> = a BY <2>1
    <3>2. Joined(a) \o << >> = Joined(a) BY <1>0, ConcatEmpty
    <3> QED BY <3>1, <3>2, JoinedEmpty, Zenon
  <2> QED BY <2>1
<1>2. ASSUME NEW n \in T PROVE n + 1 \in T
  <2>1. n + 1 \in Nat /\ n \in Nat OBVIOUS
  <2>0. \A t \in Seq(Seq(S)) : Len(t) = n => Joined(a \o t) = Joined(a) \o Joined(t) BY Zenon
  <2>00. PICK m \in Nat : m = n BY <2>1, Zenon
  <2> HIDE DEF T
  <2>2. ASSUME NEW b \in Seq(Seq(S)), Len(b) = n + 1 PROVE Joined(a \o b) = Joined(a) \o Joined(b)
    <3>1. PICK t \in Seq(Seq(S)), x \in Seq(S) : b = Append(t, x) /\ Len(t) = n
      <4>1. Len(b) = m + 1 BY <2>00, <2>2, Zenon
      <4>2. \E t \in Seq(Seq(S)), x \in Seq(S) : b = Append(t, x) /\ Len(t) = m
        BY <4>1, LastSplit, Zenon
      <4> QED BY <2>00, <4>2, Zenon
    <3>2. a \o Append(t, x) = Append(a \o t, x) /\ a \o t \in Seq(Seq(S)) BY ConcatAppend, Zenon
    <3>3. Joined(a \o t) = Joined(a) \o Joined(t) BY <2>0, <3>1, Zenon
    <3>4. Joined(a \o b) = (Joined(a) \o Joined(t)) \o x
      <4>1. PICK u \in Seq(Seq(S)) : u = a \o t BY <3>2, Zenon
      <4>2. Joined(Append(u, x)) = Joined(u) \o x BY JoinedAppend, Zenon
      <4> QED BY <3>1, <3>2, <3>3, <4>1, <4>2
    <3>5. Joined(b) = Joined(t) \o x BY <3>1, JoinedAppend, Zenon
    <3>6. Joined(t) \in Seq(S) BY JoinedType, Zenon
    <3>7. (Joined(a) \o Joined(t)) \o x = Joined(a) \o (Joined(t) \o x)
      <4>1. PICK u \in Seq(S), v \in Seq(S) : u = Joined(a) /\ v = Joined(t) BY <1>0, <3>6
      <4>2. Regroups(u, v, x) BY ConcatAssoc, Zenon
      <4>3. (u \o v) \o x = u \o (v \o x) BY <4>2, Zenon DEF Regroups
      <4> QED BY <4>1, <4>3
    <3> QED BY <3>4, <3>5, <3>7, Zenon
  <2> QED BY <2>1, <2>2, Zenon DEF T
<1> HIDE DEF T
<1>3. T \subseteq Nat BY DEF T
<1>4. T = Nat BY <1>1, <1>2, <1>3, Induction, Zenon
<1> SUFFICES ASSUME NEW b \in Seq(Seq(S)) PROVE Joined(a \o b) = Joined(a) \o Joined(b)
  OBVIOUS
<1>5. Len(b) \in T BY <1>4
<1> QED BY <1>5 DEF T

\* Joining one sequence gives that sequence.
LEMMA JoinedOne ==
    ASSUME NEW S, NEW x \in Seq(S)
    PROVE  Joined(<<x>>) = x
<1>1. << >> \in Seq(Seq(S)) /\ Append(<< >>, x) = <<x>> /\ << >> \o x = x OBVIOUS
<1>2. Joined(Append(<< >>, x)) = Joined(<< >>) \o x BY <1>1, JoinedAppend, Zenon
<1> QED BY <1>1, <1>2, JoinedEmpty

\* Joining what was split into single members gives the sequence back.
LEMMA JoinedSingles ==
    ASSUME NEW S
    PROVE  \A s \in Seq(S) : Joined([i \in DOMAIN s |-> <<s[i]>>]) = s
<1>0. \A s \in Seq(S), n \in Nat :
         Len(s) = n + 1 => \E t \in Seq(S), x \in S : s = Append(t, x) /\ Len(t) = n
  BY LastSplit, Zenon
<1> DEFINE J(s) == [i \in DOMAIN s |-> <<s[i]>>]
<1> DEFINE T == {n \in Nat : \A s \in Seq(S) : Len(s) = n => Joined(J(s)) = s}
<1>1. 0 \in T
  <2>1. ASSUME NEW s \in Seq(S), Len(s) = 0 PROVE Joined(J(s)) = s
    <3>1. s = << >> /\ J(s) = << >> BY <2>1
    <3> QED BY <3>1, JoinedEmpty
  <2> QED BY <2>1
<1>2. ASSUME NEW n \in T PROVE n + 1 \in T
  <2>1. n + 1 \in Nat /\ n \in Nat OBVIOUS
  <2>2. ASSUME NEW s \in Seq(S), Len(s) = n + 1 PROVE Joined(J(s)) = s
    <3>1. PICK t \in Seq(S), x \in S : s = Append(t, x) /\ Len(t) = n
      BY <1>0, <2>1, <2>2, Zenon
    <3>2. J(t) \in Seq(Seq(S)) /\ <<x>> \in Seq(S)
      <4>1. \A i \in 1..Len(t) : <<t[i]>> \in Seq(S) OBVIOUS
      <4>2. J(t) \in [1..Len(t) -> Seq(S)] /\ Len(t) \in Nat BY <4>1
      <4> QED BY <4>2
    <3>3. J(s) = Append(J(t), <<x>>) BY <3>1
    <3>4. Joined(J(t)) = t BY <3>1
    <3> HIDE DEF J
    <3>5. Joined(Append(J(t), <<x>>)) = Joined(J(t)) \o <<x>> BY <3>2, JoinedAppend, Zenon
    <3> QED BY <3>1, <3>3, <3>4, <3>5, AppendIsConcat
  <2> QED BY <2>1, <2>2
<1> HIDE DEF T
<1>3. T \subseteq Nat BY DEF T
<1>4. T = Nat BY <1>1, <1>2, <1>3, Induction
<1> SUFFICES ASSUME NEW s \in Seq(S) PROVE Joined(J(s)) = s
  BY Zenon
<1>5. Len(s) \in T BY <1>4
<1> QED BY <1>5 DEF T

\* Joining empty sequences gives the empty sequence.
LEMMA JoinedEmpties ==
    \A n \in Nat : Joined([i \in 1..n |-> << >>]) = << >>
<1> DEFINE J(n) == [i \in 1..n |-> << >>]
<1> DEFINE T == {n \in Nat : Joined(J(n)) = << >>}
<1>1. 0 \in T
  <2>1. J(0) = << >> OBVIOUS
  <2> QED BY <2>1, JoinedEmpty
<1>2. ASSUME NEW n \in T PROVE n + 1 \in T
  <2>1. n + 1 \in Nat /\ n \in Nat /\ Joined(J(n)) = << >> OBVIOUS
  <2>2. J(n) \in Seq(Seq({})) /\ << >> \in Seq({}) /\ J(n + 1) = Append(J(n), << >>) OBVIOUS
  <2> HIDE DEF J
  <2>3. Joined(Append(J(n), << >>)) = Joined(J(n)) \o << >> BY <2>2, JoinedAppend, SMTT(30)
  <2> QED BY <2>1, <2>2, <2>3, ConcatEmpty, Zenon
<1> HIDE DEF T
<1>3. T \subseteq Nat BY DEF T
<1>4. T = Nat BY <1>1, <1>2, <1>3, Induction
<1> QED BY <1>4, Zenon DEF T

\* A function applied to every member of a sequence.
Mapped(s, g) == [i \in DOMAIN s |-> g[s[i]]]

\* Mapping a sequence gives a sequence of images ...
LEMMA MappedType ==
    ASSUME NEW X, NEW Y, NEW g \in [X -> Y], NEW s \in Seq(X)
    PROVE  Mapped(s, g) \in Seq(Y)
<1>1. PICK n \in Nat : n = Len(s) /\ DOMAIN s = 1..n OBVIOUS
<1>2. \A i \in 1..n : g[s[i]] \in Y BY <1>1
<1>3. Mapped(s, g) = [i \in 1..n |-> g[s[i]]] BY <1>1, Zenon DEF Mapped
<1> QED BY <1>1, <1>2, <1>3

\* ... and distributes over concatenation.
LEMMA MappedConcat ==
    ASSUME NEW X, NEW g, NEW s \in Seq(X), NEW t \in Seq(X)
    PROVE  Mapped(s \o t, g) = Mapped(s, g) \o Mapped(t, g)
<1> DEFINE Y == {g[x] : x \in X}
<1>1. ASSUME NEW u \in Seq(X)
      PROVE  /\ Mapped(u, g) \in Seq(Y) /\ Len(Mapped(u, g)) = Len(u)
             /\ \A i \in 1..Len(u) : Mapped(u, g)[i] = g[u[i]]
  <2>1. PICK n \in Nat : n = Len(u) /\ DOMAIN u = 1..n OBVIOUS
  <2>2. \A i \in 1..n : g[u[i]] \in Y BY <2>1
  <2>3. Mapped(u, g) = [i \in 1..n |-> g[u[i]]] BY <2>1, Zenon DEF Mapped
  <2> HIDE DEF Y
  <2> QED BY <2>1, <2>2, <2>3
<1> HIDE DEF Y
<1>2. PICK a \in Seq(Y), b \in Seq(Y) : a = Mapped(s, g) /\ b = Mapped(t, g) BY <1>1
<1>3. s \o t \in Seq(X) /\ Len(s \o t) = Len(s) + Len(t) OBVIOUS
<1>4. PICK c \in Seq(Y) : c = Mapped(s \o t, g) BY <1>1, <1>3, Zenon
<1>5. Len(a) = Len(s) /\ Len(b) = Len(t) /\ Len(c) = Len(s) + Len(t) BY <1>1, <1>2, <1>3, <1>4, Zenon
<1>6. ASSUME NEW i \in 1..Len(c) PROVE c[i] = IF i <= Len(a) THEN a[i] ELSE b[i - Len(a)]
  <2>1. c[i] = g[(s \o t)[i]] BY <1>1, <1>3, <1>4, <1>5, Zenon
  <2>2. CASE i <= Len(s)
    <3>1. (s \o t)[i] = s[i] /\ i \in 1..Len(s) BY <1>5, <2>2
    <3> QED BY <1>1, <1>2, <1>5, <2>1, <2>2, <3>1
  <2>3. CASE ~(i <= Len(s))
    <3>1. (s \o t)[i] = t[i - Len(s)] /\ i - Len(s) \in 1..Len(t) BY <1>5, <2>3
    <3> QED BY <1>1, <1>2, <1>5, <2>1, <2>3, <3>1
  <2> QED BY <2>2, <2>3
<1>7. Len(c) = Len(a) + Len(b) BY <1>5
<1>8. c = a \o b BY <1>6, <1>7, ConcatEqual, Zenon
<1> QED BY <1>2, <1>4, <1>8

\* Joined of a mapped sequence goes member by member.
LEMMA JoinedMapType ==
    ASSUME NEW X, NEW Y, NEW g \in [X -> Seq(Y)], NEW s \in Seq(X)
    PROVE  Joined(Mapped(s, g)) \in Seq(Y)
<1>1. Mapped(s, g) \in Seq(Seq(Y)) BY MappedType, Zenon
<1> QED BY <1>1, JoinedType, Zenon

\* Mapping and joining distributes over concatenation.
LEMMA JoinedMapConcat ==
    ASSUME NEW X, NEW Y
    PROVE  \A g \in [X -> Seq(Y)] : \A s, t \in Seq(X) :
               Joined(Mapped(s \o t, g)) = Joined(Mapped(s, g)) \o Joined(Mapped(t, g))
<1> SUFFICES ASSUME NEW g \in [X -> Seq(Y)]
             PROVE  \A s, t \in Seq(X) :
                        Joined(Mapped(s \o t, g)) = Joined(Mapped(s, g)) \o Joined(Mapped(t, g))
  BY Zenon
<1>1. \A s, t \in Seq(X) : Mapped(s \o t, g) = Mapped(s, g) \o Mapped(t, g)
  BY MappedConcat, Zenon
<1> SUFFICES ASSUME NEW s \in Seq(X), NEW t \in Seq(X)
             PROVE  Joined(Mapped(s \o t, g)) = Joined(Mapped(s, g)) \o Joined(Mapped(t, g))
  OBVIOUS
<1>2. PICK a \in Seq(Seq(Y)), b \in Seq(Seq(Y)) : a = Mapped(s, g) /\ b = Mapped(t, g)
  BY MappedType, Zenon
<1>3. Joined(a \o b) = Joined(a) \o Joined(b) BY JoinedConcat, Zenon
<1> QED BY <1>1, <1>2, <1>3, Zenon

\* Mapping and joining one member gives its image.
LEMMA JoinedMapOne ==
    ASSUME NEW X, NEW Y, NEW g \in [X -> Seq(Y)], NEW x \in X
    PROVE  Joined(Mapped(<<x>>, g)) = g[x]
<1>1. Mapped(<<x>>, g) = <<g[x]>> /\ g[x] \in Seq(Y) BY DEF Mapped
<1> QED BY <1>1, JoinedOne

-----------------------------------------------------------------------------
(* Only.                                                                   *)

OnlyFn(X, S) == [x \in X |-> IF x \in S THEN <<x>> ELSE << >>]

\* The function behind Only maps a member to itself or to nothing.
LEMMA OnlyFnType ==
    ASSUME NEW X, NEW S
    PROVE  OnlyFn(X, S) \in [X -> Seq(X \cap S)]
<1>1. ASSUME NEW x \in X PROVE (IF x \in S THEN <<x>> ELSE << >>) \in Seq(X \cap S)
  <2>1. CASE x \in S BY <2>1
  <2>2. CASE x \notin S BY <2>2
  <2> QED BY <2>1, <2>2
<1> QED BY <1>1 DEF OnlyFn

\* Only as a map followed by a join.
LEMMA OnlyIsMapped ==
    ASSUME NEW X, NEW S, NEW s \in Seq(X)
    PROVE  Only(s, S) = Joined(Mapped(s, OnlyFn(X, S)))
<1>1. ASSUME NEW i \in DOMAIN s
      PROVE  OnlyFn(X, S)[s[i]] = IF s[i] \in S THEN <<s[i]>> ELSE << >>
  BY DEF OnlyFn
<1>2. Mapped(s, OnlyFn(X, S)) = [i \in DOMAIN s |-> IF s[i] \in S THEN <<s[i]>> ELSE << >>]
  BY <1>1, Zenon DEF Mapped
<1> QED BY <1>2, Zenon DEF Only

\* What Only leaves is in its set.
LEMMA OnlyType ==
    ASSUME NEW X, NEW S, NEW s \in Seq(X)
    PROVE  Only(s, S) \in Seq(X \cap S)
<1>1. PICK g \in [X -> Seq(X \cap S)] : g = OnlyFn(X, S) BY OnlyFnType
<1>2. Joined(Mapped(s, g)) \in Seq(X \cap S) BY JoinedMapType, Zenon
<1> QED BY <1>1, <1>2, OnlyIsMapped, Zenon

\* Only distributes over concatenation.
LEMMA OnlyConcat ==
    ASSUME NEW X, NEW S
    PROVE  \A s, t \in Seq(X) : Only(s \o t, S) = Only(s, S) \o Only(t, S)
<1>1. \A s, t \in Seq(X) : s \o t \in Seq(X) OBVIOUS
<1>2. PICK g : g \in [X -> Seq(X \cap S)] /\ g = OnlyFn(X, S) BY OnlyFnType
<1>3. \A s, t \in Seq(X) : Joined(Mapped(s \o t, g)) = Joined(Mapped(s, g)) \o Joined(Mapped(t, g))
  <2>1. \A h \in [X -> Seq(X \cap S)] : \A s, t \in Seq(X) :
            Joined(Mapped(s \o t, h)) = Joined(Mapped(s, h)) \o Joined(Mapped(t, h))
    BY JoinedMapConcat, Zenon
  <2> QED BY <1>2, <2>1, Zenon
<1>4. \A u \in Seq(X) : Only(u, S) = Joined(Mapped(u, g)) BY <1>2, OnlyIsMapped, Zenon
<1> QED BY <1>1, <1>3, <1>4, Zenon

\* Only keeps a member of its set and removes another.
LEMMA OnlySingle ==
    ASSUME NEW X, NEW S, NEW x \in X
    PROVE  Only(<<x>>, S) = IF x \in S THEN <<x>> ELSE << >>
<1>1. <<x>> \in Seq(X) OBVIOUS
<1>2. PICK g \in [X -> Seq(X \cap S)] : g = OnlyFn(X, S) BY OnlyFnType
<1>3. Only(<<x>>, S) = Joined(Mapped(<<x>>, g)) BY <1>1, <1>2, OnlyIsMapped, Zenon
<1>4. Joined(Mapped(<<x>>, g)) = g[x] BY JoinedMapOne, Zenon
<1> QED BY <1>2, <1>3, <1>4 DEF OnlyFn

\* Only changes nothing when every member is in its set.
LEMMA OnlyAll ==
    ASSUME NEW X, NEW S, NEW s \in Seq(X), \A i \in 1..Len(s) : s[i] \in S
    PROVE  Only(s, S) = s
<1>1. [i \in DOMAIN s |-> IF s[i] \in S THEN <<s[i]>> ELSE << >>] = [i \in DOMAIN s |-> <<s[i]>>]
  OBVIOUS
<1> QED BY <1>1, JoinedSingles, Zenon DEF Only

\* Only of nothing is nothing.
LEMMA OnlyEmpty ==
    ASSUME NEW S
    PROVE  Only(<< >>, S) = << >>
<1>1. [i \in DOMAIN << >> |-> IF << >>[i] \in S THEN <<(<< >>[i])>> ELSE << >>] = << >> OBVIOUS
<1> QED BY <1>1, JoinedEmpty DEF Only

\* Filtering twice is filtering for both.
LEMMA OnlyOnly ==
    ASSUME NEW X, NEW R, NEW S
    PROVE  \A s \in Seq(X) : Only(Only(s, R), S) = Only(s, R \cap S)
<1>0. /\ \A Q : \A a, b \in Seq(X) : Only(a \o b, Q) = Only(a, Q) \o Only(b, Q)
      /\ \A a, b \in Seq(X \cap R) : Only(a \o b, S) = Only(a, S) \o Only(b, S)
  BY OnlyConcat, Zenon
<1> DEFINE T == {n \in Nat : \A s \in Seq(X) : Len(s) = n => Only(Only(s, R), S) = Only(s, R \cap S)}
<1>1. 0 \in T
  <2>1. ASSUME NEW s \in Seq(X), Len(s) = 0 PROVE Only(Only(s, R), S) = Only(s, R \cap S)
    <3>1. s = << >> BY <2>1
    <3> QED BY <3>1, OnlyEmpty
  <2> QED BY <2>1, Zenon
<1>2. ASSUME NEW n \in T PROVE n + 1 \in T
  <2>1. n + 1 \in Nat /\ n \in Nat OBVIOUS
  <2>2. ASSUME NEW s \in Seq(X), Len(s) = n + 1 PROVE Only(Only(s, R), S) = Only(s, R \cap S)
    <3>1. PICK t \in Seq(X), x \in X : s = Append(t, x) /\ Len(t) = n
      BY <2>1, <2>2, LastSplit, Zenon
    <3>2. PICK u \in Seq(X) : u = <<x>> /\ s = t \o u BY <3>1, AppendIsConcat, Zenon
    <3>3. Only(Only(t, R), S) = Only(t, R \cap S) BY <3>1, Zenon
    <3>4. Only(s, R) = Only(t, R) \o Only(u, R) BY <1>0, <3>2, Zenon
    <3>5. PICK v \in Seq(X \cap R), w \in Seq(X \cap R) : v = Only(t, R) /\ w = Only(u, R)
      BY OnlyType, Zenon
    <3>6. Only(v \o w, S) = Only(v, S) \o Only(w, S) BY <1>0, Zenon
    <3>7. Only(s, R \cap S) = Only(t, R \cap S) \o Only(u, R \cap S) BY <1>0, <3>2, Zenon
    <3>8. Only(w, S) = Only(u, R \cap S)
      <4>1. w = IF x \in R THEN <<x>> ELSE << >> BY <3>2, <3>5, OnlySingle
      <4>2. Only(<<x>>, S) = IF x \in S THEN <<x>> ELSE << >> BY OnlySingle
      <4>3. Only(u, R \cap S) = IF x \in R \cap S THEN <<x>> ELSE << >> BY <3>2, OnlySingle
      <4>4. Only(<< >>, S) = << >> BY OnlyEmpty
      <4> QED BY <4>1, <4>2, <4>3, <4>4
    <3> QED BY <3>3, <3>4, <3>5, <3>6, <3>7, <3>8, Zenon
  <2> QED BY <2>1, <2>2, Zenon
<1> HIDE DEF T
<1>3. T \subseteq Nat BY DEF T
<1>4. T = Nat BY <1>1, <1>2, <1>3, Induction
<1> SUFFICES ASSUME NEW s \in Seq(X) PROVE Only(Only(s, R), S) = Only(s, R \cap S)
  BY Zenon
<1>5. Len(s) \in T BY <1>4
<1> QED BY <1>5, Zenon DEF T

-----------------------------------------------------------------------------
(* The bytes of messages and of the units on the wire.                     *)

Byte == (Ids \X Nat) \cup {<< >>}

\* A message has as many bytes as its length says, at least one.
LEMMA BytesType ==
    ASSUME NEW m \in Msg
    PROVE  len(m) \in Nat \ {0} /\ bytes(m) \in Seq(Byte) /\ Len(bytes(m)) = len(m)
<1>0. m.body \in Nat
  <2>1. m.body \in Bodies BY DEF Msg
  <2>2. Bodies \subseteq Nat BY SendAssumption, Zenon
  <2> QED BY <2>1, <2>2, Zenon
<1>1. len(m) \in Nat \ {0} BY <1>0, HeaderAssumption DEF len
<1>2. PICK n \in Nat \ {0} : n = len(m) BY <1>1
<1>3. m.id \in Ids BY DEF Msg
<1>4. bytes(m) = [i \in 1..n |-> <<m.id, i>>] BY <1>2 DEF bytes
<1>5. \A i \in 1..n : <<m.id, i>> \in Byte BY <1>3 DEF Byte
<1> QED BY <1>1, <1>2, <1>4, <1>5

BytesFn == [m \in Msg |-> bytes(m)]

\* AllBytes as a map followed by a join.
LEMMA AllBytesIsMapped ==
    /\ BytesFn \in [Msg -> Seq(Byte)]
    /\ \A s \in Seq(Msg) : AllBytes(s) = Joined(Mapped(s, BytesFn))
<1>1. BytesFn \in [Msg -> Seq(Byte)] BY BytesType, Zenon DEF BytesFn
<1>2. ASSUME NEW s \in Seq(Msg) PROVE AllBytes(s) = Joined(Mapped(s, BytesFn))
  <2>1. ASSUME NEW i \in DOMAIN s PROVE BytesFn[s[i]] = bytes(s[i])
    <3>1. s[i] \in Msg OBVIOUS
    <3> QED BY <3>1, Zenon DEF BytesFn
  <2>2. Mapped(s, BytesFn) = [i \in DOMAIN s |-> bytes(s[i])] BY <2>1, Zenon DEF Mapped
  <2> QED BY <2>2, Zenon DEF AllBytes
<1> QED BY <1>1, <1>2

\* AllBytes gives bytes.
LEMMA AllBytesType ==
    ASSUME NEW s \in Seq(Msg)
    PROVE  AllBytes(s) \in Seq(Byte)
<1>1. Joined(Mapped(s, BytesFn)) \in Seq(Byte) BY AllBytesIsMapped, JoinedMapType, Zenon
<1> QED BY <1>1, AllBytesIsMapped, Zenon

\* AllBytes distributes over concatenation.
LEMMA AllBytesConcat ==
    \A s, t \in Seq(Msg) : AllBytes(s \o t) = AllBytes(s) \o AllBytes(t)
<1>1. \A s, t \in Seq(Msg) : s \o t \in Seq(Msg) OBVIOUS
<1>2. \A g \in [Msg -> Seq(Byte)] : \A s, t \in Seq(Msg) :
          Joined(Mapped(s \o t, g)) = Joined(Mapped(s, g)) \o Joined(Mapped(t, g))
  BY JoinedMapConcat, Zenon
<1>3. \A s, t \in Seq(Msg) :
          Joined(Mapped(s \o t, BytesFn)) = Joined(Mapped(s, BytesFn)) \o Joined(Mapped(t, BytesFn))
  BY <1>2, AllBytesIsMapped, Zenon
<1> QED BY <1>1, <1>3, AllBytesIsMapped, Zenon

\* The bytes of one message ...
LEMMA AllBytesOne ==
    ASSUME NEW m \in Msg
    PROVE  AllBytes(<<m>>) = bytes(m)
<1>1. <<m>> \in Seq(Msg) OBVIOUS
<1>2. AllBytes(<<m>>) = Joined(Mapped(<<m>>, BytesFn)) BY <1>1, AllBytesIsMapped, Zenon
<1>3. Joined(Mapped(<<m>>, BytesFn)) = BytesFn[m] BY AllBytesIsMapped, JoinedMapOne, Zenon
<1> QED BY <1>2, <1>3, Zenon DEF BytesFn

\* ... and of none.
LEMMA AllBytesEmpty == AllBytes(<< >>) = << >>
<1>1. [i \in DOMAIN << >> |-> bytes(<< >>[i])] = << >> OBVIOUS
<1> QED BY <1>1, JoinedEmpty DEF AllBytes

\* The head message's bytes come first.
LEMMA AllBytesHead ==
    ASSUME NEW s \in Seq(Msg), s # << >>
    PROVE  AllBytes(s) = bytes(Head(s)) \o AllBytes(Tail(s))
<1>1. PICK h \in Msg, t \in Seq(Msg) : h = Head(s) /\ t = Tail(s) /\ s = <<h>> \o t
  BY HeadTail, Zenon
<1>2. PICK u \in Seq(Msg) : u = <<h>>
  <2>1. <<h>> \in Seq(Msg) OBVIOUS
  <2> QED BY <2>1, Zenon
<1>3. AllBytes(u \o t) = AllBytes(u) \o AllBytes(t) BY AllBytesConcat, Zenon
<1> QED BY <1>1, <1>2, <1>3, AllBytesOne, Zenon

UnitFn(s) == [u \in Unit |-> IF u.kind = "byte" /\ u.stream = s THEN <<u.byte>> ELSE << >>]

\* BytesIn as a map followed by a join.
LEMMA BytesInIsMapped ==
    ASSUME NEW s
    PROVE  /\ UnitFn(s) \in [Unit -> Seq(Byte)]
           /\ \A us \in Seq(Unit) : BytesIn(us, s) = Joined(Mapped(us, UnitFn(s)))
<1>1. ASSUME NEW u \in Unit
      PROVE  (IF u.kind = "byte" /\ u.stream = s THEN <<u.byte>> ELSE << >>) \in Seq(Byte)
  <2>1. u.byte \in Byte BY DEF Unit, Byte
  <2> QED BY <2>1
<1>2. UnitFn(s) \in [Unit -> Seq(Byte)] BY <1>1 DEF UnitFn
<1>3. ASSUME NEW us \in Seq(Unit) PROVE BytesIn(us, s) = Joined(Mapped(us, UnitFn(s)))
  <2>1. ASSUME NEW i \in DOMAIN us
        PROVE  UnitFn(s)[us[i]] =
                  IF us[i].kind = "byte" /\ us[i].stream = s THEN <<us[i].byte>> ELSE << >>
    <3>1. us[i] \in Unit OBVIOUS
    <3> QED BY <3>1, Zenon DEF UnitFn
  <2>2. Mapped(us, UnitFn(s)) =
          [i \in DOMAIN us |->
              IF us[i].kind = "byte" /\ us[i].stream = s THEN <<us[i].byte>> ELSE << >>]
    BY <2>1, Zenon DEF Mapped
  <2> QED BY <2>2, Zenon DEF BytesIn
<1> QED BY <1>2, <1>3

\* BytesIn gives bytes.
LEMMA BytesInType ==
    ASSUME NEW s, NEW us \in Seq(Unit)
    PROVE  BytesIn(us, s) \in Seq(Byte)
<1>1. Joined(Mapped(us, UnitFn(s))) \in Seq(Byte) BY BytesInIsMapped, JoinedMapType, Zenon
<1> QED BY <1>1, BytesInIsMapped, Zenon

\* BytesIn distributes over concatenation.
LEMMA BytesInConcat ==
    ASSUME NEW s
    PROVE  \A us, vs \in Seq(Unit) : BytesIn(us \o vs, s) = BytesIn(us, s) \o BytesIn(vs, s)
<1>1. \A us, vs \in Seq(Unit) : us \o vs \in Seq(Unit) OBVIOUS
<1>2. \A g \in [Unit -> Seq(Byte)] : \A us, vs \in Seq(Unit) :
          Joined(Mapped(us \o vs, g)) = Joined(Mapped(us, g)) \o Joined(Mapped(vs, g))
  BY JoinedMapConcat, Zenon
<1>3. UnitFn(s) \in [Unit -> Seq(Byte)] BY BytesInIsMapped, Zenon
<1>4. \A us \in Seq(Unit) : BytesIn(us, s) = Joined(Mapped(us, UnitFn(s)))
  BY BytesInIsMapped, Zenon
<1>5. \A us, vs \in Seq(Unit) :
          Joined(Mapped(us \o vs, UnitFn(s))) = Joined(Mapped(us, UnitFn(s))) \o Joined(Mapped(vs, UnitFn(s)))
  BY <1>2, <1>3, Zenon
<1> QED BY <1>1, <1>4, <1>5, Zenon

\* A frame header holds no payload byte.
LEMMA BytesInFrame ==
    ASSUME NEW s, NEW u \in Unit, u.kind # "byte"
    PROVE  BytesIn(<<u>>, s) = << >>
<1>1. [i \in DOMAIN <<u>> |->
         IF <<u>>[i].kind = "byte" /\ <<u>>[i].stream = s THEN <<(<<u>>[i].byte)>> ELSE << >>]
        = [i \in 1..1 |-> << >>]
  OBVIOUS
<1> QED BY <1>1, JoinedEmpties DEF BytesIn

\* A payload has one unit of its stream for each byte.
LEMMA PayloadType ==
    ASSUME NEW s \in Streams, NEW bs \in Seq(Byte)
    PROVE  /\ Payload(s, bs) \in Seq(Unit) /\ Len(Payload(s, bs)) = Len(bs)
           /\ \A i \in 1..Len(bs) : /\ Payload(s, bs)[i].kind = "byte"
                                     /\ Payload(s, bs)[i].stream = s
                                     /\ Payload(s, bs)[i].byte = bs[i]
<1>1. PICK n \in Nat : n = Len(bs) /\ DOMAIN bs = 1..n OBVIOUS
<1>2. ASSUME NEW i \in 1..n
      PROVE  [kind |-> "byte", stream |-> s, length |-> 0, byte |-> bs[i]] \in Unit
  <2>1. bs[i] \in Byte BY <1>1
  <2> QED BY <2>1 DEF Unit, Byte
<1>3. Payload(s, bs) =
        [i \in 1..n |-> [kind |-> "byte", stream |-> s, length |-> 0, byte |-> bs[i]]]
  BY <1>1 DEF Payload
<1> QED BY <1>1, <1>2, <1>3

\* A payload holds the bytes of its own stream.
LEMMA BytesInPayload ==
    ASSUME NEW s \in Streams, NEW bs \in Seq(Byte), NEW t
    PROVE  BytesIn(Payload(s, bs), t) = IF s = t THEN bs ELSE << >>
<1>1. PICK p, n : p = Payload(s, bs) /\ n = Len(bs) OBVIOUS
<1>2. /\ n \in Nat /\ DOMAIN bs = 1..n /\ DOMAIN p = 1..n
      /\ \A i \in 1..n : p[i].kind = "byte" /\ p[i].stream = s /\ p[i].byte = bs[i]
  BY <1>1, PayloadType
<1>3. CASE s = t
  <2>1. [i \in DOMAIN p |-> IF p[i].kind = "byte" /\ p[i].stream = t THEN <<p[i].byte>> ELSE << >>]
          = [i \in DOMAIN bs |-> <<bs[i]>>]
    BY <1>2, <1>3
  <2> QED BY <1>1, <1>3, <2>1, JoinedSingles, Zenon DEF BytesIn
<1>4. CASE s # t
  <2>1. [i \in DOMAIN p |-> IF p[i].kind = "byte" /\ p[i].stream = t THEN <<p[i].byte>> ELSE << >>]
          = [i \in 1..n |-> << >>]
    BY <1>2, <1>4
  <2> QED BY <1>1, <1>2, <1>4, <2>1, JoinedEmpties DEF BytesIn
<1> QED BY <1>3, <1>4

-----------------------------------------------------------------------------
(* The outbound queue.                                                     *)

Queue == [messages : Seq(Msg), front_offset : Nat, front_committed : BOOLEAN]

\* What is shipped of the head is a part of it.
QueueOK(q) ==
    /\ q \in Queue
    /\ q.messages = << >> => q.front_offset = 0
    /\ q.messages # << >> => q.front_offset <= len(Head(q.messages))

\* The bytes of the head that are shipped.
Front(q) ==
    IF q.messages = << >> THEN << >> ELSE SubSeq(bytes(Head(q.messages)), 1, q.front_offset)

\* Between q and r the bytes c went out: whole messages E, up to a part of the next.
Shipped(q, c, r) ==
    \E E \in Seq(Msg) :
        /\ q.messages = E \o r.messages
        /\ Front(q) \o c = AllBytes(E) \o Front(r)

\* Of a queue the provers need the fields and what is shipped of the head.
LEMMA QueueFacts ==
    ASSUME NEW q, QueueOK(q)
    PROVE  /\ q.messages \in Seq(Msg) /\ q.front_offset \in Nat /\ q.front_committed \in BOOLEAN
           /\ q.messages # << >> =>
                /\ Head(q.messages) \in Msg /\ Tail(q.messages) \in Seq(Msg)
                /\ q.front_offset \in 0..len(Head(q.messages))
           /\ Front(q) \in Seq(Byte)
<1>1. q.messages \in Seq(Msg) /\ q.front_offset \in Nat /\ q.front_committed \in BOOLEAN
  BY DEF QueueOK, Queue
<1>2. CASE q.messages = << >>
  <2>1. << >> \in Seq(Byte) OBVIOUS
  <2> QED BY <1>1, <1>2, <2>1, Zenon DEF Front
<1>3. CASE q.messages # << >>
  <2>1. PICK h \in Msg : h = Head(q.messages) BY <1>1, <1>3, HeadTail, Zenon
  <2>2. Tail(q.messages) \in Seq(Msg) BY <1>1, <1>3, HeadTail, Zenon
  <2>3. q.front_offset <= len(h) BY <1>3, <2>1, Zenon DEF QueueOK
  <2>4. len(h) \in Nat /\ bytes(h) \in Seq(Byte) /\ Len(bytes(h)) = len(h) BY BytesType
  <2>5. q.front_offset \in 0..len(h) BY <1>1, <2>3, <2>4
  <2>6. PICK b \in Seq(Byte) : b = bytes(h) BY <2>4, Zenon
  <2>7. SubSeq(b, 1, q.front_offset) \in Seq(Byte) BY <1>1, <2>3, <2>4, <2>6
  <2> QED BY <1>1, <1>3, <2>1, <2>2, <2>5, <2>6, <2>7, Zenon DEF Front
<1> QED BY <1>2, <1>3, Zenon

\* Nothing is shipped by doing nothing.
LEMMA ShippedNothing ==
    ASSUME NEW q, QueueOK(q)
    PROVE  Shipped(q, << >>, q)
<1>1. PICK ms \in Seq(Msg), f \in Seq(Byte) : ms = q.messages /\ f = Front(q)
  BY QueueFacts, Zenon
<1>2. << >> \in Seq(Msg) /\ << >> \o ms = ms /\ f \o << >> = << >> \o f OBVIOUS
<1>3. q.messages = << >> \o q.messages /\ Front(q) \o << >> = AllBytes(<< >>) \o Front(q)
  BY <1>1, <1>2, AllBytesEmpty
<1> QED BY <1>2, <1>3, Zenon DEF Shipped

\* Facts on sequences, for bytes and for messages.
LEMMA ByteSeqs ==
    /\ \A s, t \in Seq(Byte) : s \o t \in Seq(Byte)
    /\ \A s \in Seq(Byte) : s \o << >> = s /\ << >> \o s = s
<1>1. \A s, t \in Seq(Byte) : s \o t \in Seq(Byte) BY ConcatType, Zenon
<1>2. \A s \in Seq(Byte) : s \o << >> = s /\ << >> \o s = s BY ConcatEmpty, Zenon
<1> QED BY <1>1, <1>2

\* Concatenation of bytes is associative.
LEMMA ByteAssoc == \A s, t, u \in Seq(Byte) : s \o (t \o u) = (s \o t) \o u
BY SMT

\* Concatenation of messages gives messages, with the empty list as unit ...
LEMMA MsgSeqs ==
    /\ \A s, t \in Seq(Msg) : s \o t \in Seq(Msg)
    /\ \A s \in Seq(Msg) : s \o << >> = s /\ << >> \o s = s
<1>1. \A s, t \in Seq(Msg) : s \o t \in Seq(Msg) BY ConcatType, Zenon
<1>2. \A s \in Seq(Msg) : s \o << >> = s /\ << >> \o s = s BY ConcatEmpty, Zenon
<1> QED BY <1>1, <1>2

\* ... and is associative.
LEMMA MsgAssoc == \A s, t, u \in Seq(Msg) : s \o (t \o u) = (s \o t) \o u
BY SMT

\* Bytes cut in two, and their lengths.
LEMMA ByteCuts ==
    \A s \in Seq(Byte), m, n \in Nat : m <= n /\ n <= Len(s) =>
        /\ SubSeq(s, 1, m) \o SubSeq(s, m + 1, n) = SubSeq(s, 1, n)
        /\ SubSeq(s, m + 1, n) \in Seq(Byte) /\ Len(SubSeq(s, m + 1, n)) = n - m
<1> SUFFICES ASSUME NEW s \in Seq(Byte), NEW m \in Nat, NEW n \in Nat, m <= n, n <= Len(s)
             PROVE  /\ SubSeq(s, 1, m) \o SubSeq(s, m + 1, n) = SubSeq(s, 1, n)
                    /\ SubSeq(s, m + 1, n) \in Seq(Byte) /\ Len(SubSeq(s, m + 1, n)) = n - m
  BY Zenon
<1>1. SubSeq(s, 1, m) \o SubSeq(s, m + 1, n) = SubSeq(s, 1, n) BY CutJoins, Zenon
<1>2. SubSeq(s, m + 1, n) \in Seq(Byte) /\ Len(SubSeq(s, m + 1, n)) = n - m OBVIOUS
<1> QED BY <1>1, <1>2

\* Shipping goes on where it stopped.
LEMMA ShippedTwice ==
    ASSUME NEW q, QueueOK(q), NEW r, QueueOK(r), NEW t, QueueOK(t),
           NEW c \in Seq(Byte), NEW d \in Seq(Byte), Shipped(q, c, r), Shipped(r, d, t)
    PROVE  Shipped(q, c \o d, t)
<1>1. PICK fq, fr, ft, ms :
          fq = Front(q) /\ fr = Front(r) /\ ft = Front(t) /\ ms = t.messages
  BY Zenon
<1>2. PICK D : D \in Seq(Msg) /\ q.messages = D \o r.messages /\ fq \o c = AllBytes(D) \o fr
  BY <1>1, Zenon DEF Shipped
<1>3. PICK E : E \in Seq(Msg) /\ r.messages = E \o ms /\ fr \o d = AllBytes(E) \o ft
  BY <1>1, Zenon DEF Shipped
<1>4. PICK x, y : x = AllBytes(D) /\ y = AllBytes(E) BY Zenon
<1>5. fq \in Seq(Byte) /\ fr \in Seq(Byte) /\ ft \in Seq(Byte) /\ ms \in Seq(Msg)
  BY <1>1, QueueFacts, Zenon
<1>6. x \in Seq(Byte) /\ y \in Seq(Byte) BY <1>2, <1>3, <1>4, AllBytesType, Zenon
<1>7. D \o E \in Seq(Msg) /\ q.messages = (D \o E) \o ms
  <2>1. D \o (E \o ms) = (D \o E) \o ms BY <1>2, <1>3, <1>5, MsgAssoc, Zenon
  <2>2. D \o E \in Seq(Msg) BY <1>2, <1>3, MsgSeqs, Zenon
  <2> QED BY <1>2, <1>3, <2>1, <2>2, Zenon
<1>8. fq \o (c \o d) = AllBytes(D \o E) \o ft
  <2>1. fq \o (c \o d) = (fq \o c) \o d
    <3>1. fq \in Seq(Byte) BY <1>5
    <3> QED BY <3>1, ByteAssoc
  <2>2. x \o (fr \o d) = (x \o fr) \o d
    <3>1. x \in Seq(Byte) /\ fr \in Seq(Byte) BY <1>5, <1>6
    <3> QED BY <3>1, ByteAssoc
  <2>3. x \o (y \o ft) = (x \o y) \o ft
    <3>1. x \in Seq(Byte) /\ y \in Seq(Byte) /\ ft \in Seq(Byte) BY <1>5, <1>6
    <3> QED BY <3>1, ByteAssoc, SMTT(30)
  <2>4. AllBytes(D \o E) = x \o y BY <1>2, <1>3, <1>4, AllBytesConcat, Zenon
  <2> QED BY <1>2, <1>3, <1>4, <2>1, <2>2, <2>3, <2>4, Zenon
<1> QED BY <1>1, <1>7, <1>8, Zenon DEF Shipped

\* The head ships up to its byte "end", and leaves the queue when that was its last.
LEMMA ShipsHead ==
    ASSUME NEW q, QueueOK(q), q.messages # << >>, NEW end \in Nat,
           q.front_offset <= end, end <= len(Head(q.messages)),
           NEW done \in BOOLEAN, done => end = len(Head(q.messages)),
           NEW r \in Queue,
           r.messages = IF done THEN Tail(q.messages) ELSE q.messages,
           r.front_offset = IF done THEN 0 ELSE end,
           NEW c, c = SubSeq(bytes(Head(q.messages)), q.front_offset + 1, end)
    PROVE  /\ QueueOK(r) /\ c \in Seq(Byte) /\ Len(c) = end - q.front_offset
           /\ Shipped(q, c, r)
<1>1. PICK ms \in Seq(Msg), h \in Msg, tl \in Seq(Msg), off \in Nat :
          /\ ms = q.messages /\ h = Head(ms) /\ tl = Tail(ms) /\ off = q.front_offset
          /\ ms = <<h>> \o tl /\ ms # << >>
  <2>1. q.messages \in Seq(Msg) /\ q.front_offset \in Nat BY QueueFacts, Zenon
  <2>2. /\ Head(q.messages) \in Msg /\ Tail(q.messages) \in Seq(Msg)
        /\ q.messages = <<Head(q.messages)>> \o Tail(q.messages)
    BY <2>1, HeadTail, Zenon
  <2> QED BY <2>1, <2>2, Zenon
<1>2. PICK b \in Seq(Byte) : b = bytes(h) /\ Len(b) = len(h) /\ len(h) \in Nat \ {0}
  BY BytesType, Zenon
<1>3. off <= end /\ end <= Len(b) BY <1>1, <1>2
<1>4. c = SubSeq(b, off + 1, end) BY <1>1, <1>2, Zenon
<1>5. c \in Seq(Byte) /\ Len(c) = end - off
  <2>1. SubSeq(b, off + 1, end) \in Seq(Byte) /\ Len(SubSeq(b, off + 1, end)) = end - off
    BY <1>3, ByteCuts, Zenon
  <2> QED BY <1>4, <2>1, Zenon
<1>6. PICK fq \in Seq(Byte) : fq = Front(q) /\ fq = SubSeq(b, 1, off)
  BY <1>1, <1>2, QueueFacts, Zenon DEF Front
<1>7. fq \o c = SubSeq(b, 1, end)
  <2>1. SubSeq(b, 1, off) \o SubSeq(b, off + 1, end) = SubSeq(b, 1, end) BY <1>3, ByteCuts, Zenon
  <2> QED BY <1>4, <1>6, <2>1, Zenon
<1>8. QueueOK(r)
  <2>1. CASE done
    <3>1. r.front_offset = 0 /\ r.messages = tl BY <1>1, <2>1, Zenon
    <3>2. ASSUME tl # << >> PROVE len(Head(tl)) \in Nat
      <4>1. Head(tl) \in Msg BY <3>2, HeadTail, Zenon
      <4> QED BY <4>1, BytesType
    <3>3. tl # << >> => 0 <= len(Head(tl)) BY <3>2
    <3> QED BY <3>1, <3>3, Zenon DEF QueueOK
  <2>2. CASE ~done
    <3>1. r.front_offset = end /\ r.messages = ms BY <1>1, <2>2, SMTT(30)
    <3> QED BY <1>1, <1>2, <1>3, <3>1 DEF QueueOK
  <2> QED BY <2>1, <2>2
<1>9. Shipped(q, c, r)
  <2>1. CASE done
    <3>1. r.front_offset = 0 /\ r.messages = tl /\ end = Len(b) BY <1>1, <1>2, <2>1, Zenon
    <3>2. Front(r) = << >>
      <4>1. CASE tl = << >> BY <3>1, <4>1, Zenon DEF Front
      <4>2. CASE tl # << >>
        <5>1. PICK g \in Msg : g = Head(tl) BY <4>2, HeadTail, Zenon
        <5>2. PICK bg \in Seq(Byte) : bg = bytes(g) BY BytesType, Zenon
        <5>3. SubSeq(bg, 1, 0) = << >> OBVIOUS
        <5> QED BY <3>1, <4>2, <5>1, <5>2, <5>3, Zenon DEF Front
      <4> QED BY <4>1, <4>2
    <3>3. fq \o c = b BY <1>7, <3>1, WholeSubSeq, Zenon
    <3>4. PICK E \in Seq(Msg) : E = <<h>>
      <4>1. <<h>> \in Seq(Msg) OBVIOUS
      <4> QED BY <4>1, Zenon
    <3>5. AllBytes(E) = b BY <1>2, <3>4, AllBytesOne, Zenon
    <3>6. b \o << >> = b OBVIOUS
    <3> QED BY <1>1, <1>6, <3>1, <3>2, <3>3, <3>4, <3>5, <3>6, Zenon DEF Shipped
  <2>2. CASE ~done
    <3>1. r.front_offset = end /\ r.messages = ms BY <1>1, <2>2
    <3>2. Front(r) = SubSeq(b, 1, end) BY <1>1, <1>2, <3>1, Zenon DEF Front
    <3>3. PICK f \in Seq(Byte) : f = fq \o c BY <1>5, ByteSeqs, Zenon
    <3>4. << >> \in Seq(Msg) /\ << >> \o ms = ms /\ << >> \o f = f OBVIOUS
    <3> QED BY <1>1, <1>6, <1>7, <3>1, <3>2, <3>3, <3>4, AllBytesEmpty, Zenon DEF Shipped
  <2> QED BY <2>1, <2>2
<1> QED BY <1>1, <1>5, <1>8, <1>9, Zenon

\* consume_front ships the bytes that front_regions covers.
LEMMA ConsumeShips ==
    ASSUME NEW q, QueueOK(q), NEW n \in Nat
    PROVE  /\ QueueOK(consume_front(q, n))
           /\ front_regions(q, n) \in Seq(Byte)
           /\ Len(front_regions(q, n)) = least(n, front_remaining(q))
           /\ Shipped(q, front_regions(q, n), consume_front(q, n))
<1>1. CASE q.messages = << >>
  <2>1. q.front_offset = 0 BY <1>1 DEF QueueOK
  <2>2. /\ front_remaining(q) = 0 /\ least(n, front_remaining(q)) = 0
        /\ q.front_offset + least(n, front_remaining(q)) = 0
    BY <1>1, <2>1 DEF front_remaining, least
  <2>3. front_regions(q, n) = << >> /\ << >> \in Seq(Byte) /\ Len(<< >>) = 0
    BY <1>1 DEF front_regions
  <2>4. PICK r : r = consume_front(q, n) BY Zenon
  <2>5. r = [messages |-> q.messages, front_offset |-> 0, front_committed |-> FALSE]
    BY <1>1, <2>2, <2>4, Zenon DEF consume_front
  <2>6. QueueOK(r) /\ r.messages = q.messages BY <1>1, <2>5, QueueFacts DEF QueueOK, Queue
  <2>7. Front(r) = Front(q) BY <1>1, <2>6, Zenon DEF Front
  <2>8. Shipped(q, << >>, r) BY <2>6, <2>7, ShippedNothing, Zenon DEF Shipped
  <2> QED BY <2>2, <2>3, <2>4, <2>6, <2>8, Zenon
<1>2. CASE q.messages # << >>
  <2>1. PICK h, off : h = Head(q.messages) /\ off = q.front_offset BY Zenon
  <2>2. h \in Msg /\ off \in 0..len(h) /\ len(h) \in Nat /\ q.messages \in Seq(Msg) /\ Tail(q.messages) \in Seq(Msg)
    BY <1>2, <2>1, QueueFacts, BytesType, Zenon
  <2>3. front_remaining(q) = len(h) - off BY <1>2, <2>1 DEF front_remaining
  <2>4. PICK k : k = least(n, front_remaining(q)) BY Zenon
  <2>5. k \in Nat /\ off + k \in Nat /\ off <= off + k /\ off + k <= len(h)
    BY <2>2, <2>3, <2>4 DEF least
  <2>6. PICK end : end = off + k BY Zenon
  <2>7. PICK done \in BOOLEAN : done = (end = len(h)) BY Zenon
  <2>8. PICK r : r = consume_front(q, n) BY Zenon
  <2>9. r = [messages |-> IF done THEN Tail(q.messages) ELSE q.messages,
             front_offset |-> IF done THEN 0 ELSE end, front_committed |-> FALSE]
    BY <1>2, <2>1, <2>4, <2>7, <2>8, <2>6, Zenon DEF consume_front
  <2>10. r \in Queue BY <2>2, <2>5, <2>9, <2>6 DEF Queue
  <2>11. /\ r.messages = IF done THEN Tail(q.messages) ELSE q.messages
         /\ r.front_offset = IF done THEN 0 ELSE end
    BY <2>9
  <2>12. front_regions(q, n) = SubSeq(bytes(h), off + 1, end)
    BY <1>2, <2>1, <2>4, <2>6, Zenon DEF front_regions
  <2>13. /\ QueueOK(r) /\ Shipped(q, front_regions(q, n), r)
         /\ front_regions(q, n) \in Seq(Byte) /\ Len(front_regions(q, n)) = end - off
    <3>1. /\ end \in Nat /\ q.front_offset <= end /\ end <= len(Head(q.messages))
          /\ (done => end = len(Head(q.messages)))
      BY <2>1, <2>5, <2>7, <2>6, Zenon
    <3>2. r.front_offset = IF done THEN 0 ELSE end BY <2>11
    <3>3. r.messages = IF done THEN Tail(q.messages) ELSE q.messages BY <2>11
    <3>4. PICK c : c = front_regions(q, n) BY Zenon
    <3>5. c = SubSeq(bytes(Head(q.messages)), q.front_offset + 1, end) BY <2>1, <2>12, <3>4, Zenon
    <3>6. /\ QueueOK(r) /\ c \in Seq(Byte) /\ Len(c) = end - q.front_offset
          /\ Shipped(q, c, r)
      BY <1>2, <2>10, <3>1, <3>2, <3>3, <3>5, ShipsHead, Zenon
    <3> QED BY <2>1, <3>4, <3>6, Zenon
  <2>14. end - off = k BY <2>2, <2>5, <2>6
  <2> QED BY <2>4, <2>8, <2>13, <2>14, Zenon
<1> QED BY <1>1, <1>2, Zenon

\* promise_front pins the head and changes nothing else.
LEMMA PromisePins ==
    ASSUME NEW q, QueueOK(q), NEW n \in Nat
    PROVE  /\ QueueOK(promise_front(q, n))
           /\ promise_front(q, n).messages = q.messages
           /\ promise_front(q, n).front_offset = q.front_offset
           /\ promised(q, n) > 0 => promise_front(q, n).front_committed
<1>1. PICK b : b = (q.front_committed \/ promised(q, n) > 0) BY Zenon
<1>2. b \in BOOLEAN /\ (promised(q, n) > 0 => b) BY <1>1, QueueFacts, Zenon
<1>3. promise_front(q, n) = [q EXCEPT !.front_committed = b] BY <1>1, Zenon DEF promise_front
<1>4. q \in Queue BY DEF QueueOK
<1>5. PICK r : r = promise_front(q, n) BY Zenon
<1>6. /\ r \in Queue /\ r.messages = q.messages /\ r.front_offset = q.front_offset
      /\ r.front_committed = b
  BY <1>2, <1>3, <1>4, <1>5 DEF Queue
<1>7. QueueOK(r) BY <1>6, Zenon DEF QueueOK
<1> QED BY <1>2, <1>5, <1>6, <1>7, Zenon

-----------------------------------------------------------------------------
(* drain_into.                                                             *)

\* d is what drain_into(q, n) has reached.
Draining(q, d, n) ==
    /\ QueueOK(d.queue)
    /\ d.copied \in Seq(Byte) /\ Len(d.copied) <= n
    /\ Shipped(q, d.copied, d.queue)

\* A turn of its loop ships the head, or a part of it.
LEMMA TurnShips ==
    ASSUME NEW q, QueueOK(q), NEW n \in Nat, NEW d, Draining(q, d, n)
    PROVE  Draining(q, drain_turn(d, n), n)
<1>1. CASE Len(d.copied) >= n \/ d.queue.messages = << >>
  <2>1. drain_turn(d, n) = d BY <1>1, Zenon DEF drain_turn
  <2> QED BY <2>1, Zenon
<1>2. CASE ~(Len(d.copied) >= n \/ d.queue.messages = << >>)
  <2>1. PICK dq, h, off, c : dq = d.queue /\ h = Head(dq.messages) /\ off = dq.front_offset /\ c = d.copied
    BY Zenon
  <2>2. QueueOK(dq) /\ dq.messages # << >> /\ Shipped(q, c, dq) BY <1>2, <2>1, Zenon DEF Draining
  <2>3. h \in Msg /\ off \in 0..len(h) /\ len(h) \in Nat BY <2>1, <2>2, QueueFacts, BytesType, Zenon
  <2>4. c \in Seq(Byte) /\ Len(c) < n /\ Len(c) \in Nat BY <1>2, <2>1 DEF Draining
  <2>5. PICK room, hdr : /\ room = n - Len(c)
                         /\ hdr = IF off < HeaderLen THEN least(HeaderLen - off, room) ELSE 0
    BY Zenon
  <2>6. PICK early \in BOOLEAN : early = (off < HeaderLen /\ hdr = room) BY Zenon
  <2>7. PICK body, end : /\ body = IF early THEN 0 ELSE least(len(h) - off - hdr, room - hdr)
                         /\ end = off + hdr + body
    BY Zenon
  <2>8. PICK done \in BOOLEAN : done = (~early /\ end = len(h)) BY Zenon
  <2>9. HeaderLen \in Nat /\ HeaderLen <= len(h) /\ room \in Nat
    <3>1. h.body \in Nat
      <4>1. h.body \in Bodies BY <2>3 DEF Msg
      <4>2. Bodies \subseteq Nat BY SendAssumption, Zenon
      <4> QED BY <4>1, <4>2, Zenon
    <3> QED BY <2>4, <2>5, <3>1, HeaderAssumption DEF len
  <2>10. hdr \in Nat /\ hdr <= room /\ off + hdr <= len(h)
    BY <2>3, <2>5, <2>9 DEF least
  <2>11. body \in Nat /\ hdr + body <= room /\ off + hdr + body <= len(h)
    BY <2>3, <2>7, <2>9, <2>10 DEF least
  <2>12. /\ end \in Nat /\ off <= end /\ end <= len(h) /\ (done => end = len(h))
         /\ end - off <= room
    <3>1. end = off + hdr + body /\ off \in Nat BY <2>3, <2>7
    <3>2. end \in Nat /\ off <= end /\ end <= len(h) /\ end - off <= room
      BY <2>9, <2>10, <2>11, <3>1
    <3> QED BY <2>8, <3>2, Zenon
  <2>13. PICK x, r : /\ x = SubSeq(bytes(h), off + 1, end)
                     /\ r = [dq EXCEPT !.messages = IF done THEN Tail(dq.messages) ELSE dq.messages,
                                       !.front_offset = IF done THEN 0 ELSE end]
    BY ZenonT(30)
  <2>14. drain_turn(d, n) = [queue |-> r, copied |-> c \o x]
    BY <1>2, <2>1, <2>5, <2>6, <2>7, <2>8, <2>13, Zenon DEF drain_turn
  <2>15. /\ r \in Queue
         /\ r.messages = IF done THEN Tail(dq.messages) ELSE dq.messages
         /\ r.front_offset = IF done THEN 0 ELSE end
    <3>1. dq \in Queue BY <2>2 DEF QueueOK
    <3>2. Tail(dq.messages) \in Seq(Msg) BY <2>2, QueueFacts, Zenon
    <3> QED BY <2>12, <2>13, <3>1, <3>2, Zenon DEF Queue
  <2>16. QueueOK(r) /\ x \in Seq(Byte) /\ Len(x) = end - off /\ Shipped(dq, x, r)
    <3>1. /\ end \in Nat /\ dq.front_offset <= end /\ end <= len(Head(dq.messages))
          /\ (done => end = len(Head(dq.messages)))
      BY <2>1, <2>12, Zenon
    <3>2. x = SubSeq(bytes(Head(dq.messages)), dq.front_offset + 1, end) BY <2>1, <2>13, Zenon
    <3>3. /\ QueueOK(r) /\ x \in Seq(Byte) /\ Len(x) = end - dq.front_offset
          /\ Shipped(dq, x, r)
      BY <2>2, <2>15, <3>1, <3>2, ShipsHead, Zenon
    <3> QED BY <2>1, <3>3, Zenon
  <2>17. Shipped(q, c \o x, r) BY <2>2, <2>4, <2>16, ShippedTwice, Zenon
  <2>18. c \o x \in Seq(Byte) /\ Len(c \o x) <= n
    <3>1. c \o x \in Seq(Byte) /\ Len(c \o x) = Len(c) + Len(x) BY <2>4, <2>16, ConcatType, Zenon
    <3> QED BY <2>4, <2>5, <2>12, <2>16, <3>1
  <2>19. drain_turn(d, n).queue = r /\ drain_turn(d, n).copied = c \o x BY <2>14
  <2> QED BY <2>16, <2>17, <2>18, <2>19, Zenon DEF Draining
<1> QED BY <1>1, <1>2, Zenon

\* f lists what drain_into(q, n) has reached after each of its first k turns.
TurnsUpTo(f, q, n, k) ==
    f = [i \in 0..k |->
           IF i = 0 THEN [queue |-> q, copied |-> << >>] ELSE drain_turn(f[i - 1], n)]

\* There is such a list for every number of turns.
LEMMA TurnsExist ==
    ASSUME NEW q, NEW n, NEW k \in Nat
    PROVE  \E f : TurnsUpTo(f, q, n, k)
<1> DEFINE T == {j \in Nat : \E f : TurnsUpTo(f, q, n, j)}
<1>1. 0 \in T
  <2>1. TurnsUpTo([i \in 0..0 |-> [queue |-> q, copied |-> << >>]], q, n, 0) BY DEF TurnsUpTo
  <2> QED BY <2>1
<1>2. ASSUME NEW j \in T PROVE j + 1 \in T
  <2>1. PICK f : TurnsUpTo(f, q, n, j) OBVIOUS
  <2> DEFINE g == [i \in 0..(j + 1) |-> IF i = j + 1 THEN drain_turn(f[j], n) ELSE f[i]]
  <2>2. TurnsUpTo(g, q, n, j + 1) BY <2>1 DEF TurnsUpTo
  <2>3. j + 1 \in Nat OBVIOUS
  <2> HIDE DEF g
  <2> QED BY <2>2, <2>3
<1> HIDE DEF T
<1>3. T \subseteq Nat BY DEF T
<1>4. T = Nat BY <1>1, <1>2, <1>3, Induction
<1> QED BY <1>4 DEF T

\* drain_into ships a part of the queue, at most n bytes.
LEMMA DrainShips ==
    ASSUME NEW q, QueueOK(q), NEW n \in Nat
    PROVE  Draining(q, drain_into(q, n), n)
<1>1. PICK N \in Nat : N = Len(q.messages) + 1
  <2>1. q.messages \in Seq(Msg) BY QueueFacts, Zenon
  <2> QED BY <2>1
<1> DEFINE F == CHOOSE g : g = [i \in 0..N |->
                     IF i = 0 THEN [queue |-> q, copied |-> << >>] ELSE drain_turn(g[i - 1], n)]
<1>2. drain_into(q, n) = F[N] BY <1>1, Zenon DEF drain_into
<1>3. TurnsUpTo(F, q, n, N)
  <2>1. \E f : f = [i \in 0..N |->
                   IF i = 0 THEN [queue |-> q, copied |-> << >>] ELSE drain_turn(f[i - 1], n)]
    <3>1. \E f : TurnsUpTo(f, q, n, N) BY TurnsExist, Zenon
    <3> QED BY <3>1 DEF TurnsUpTo
  <2> QED BY <2>1, Zenon DEF TurnsUpTo
<1> HIDE DEF F
<1>4. /\ F[0] = [queue |-> q, copied |-> << >>]
      /\ \A i \in 0..N : i # 0 => F[i] = drain_turn(F[i - 1], n)
  BY <1>3 DEF TurnsUpTo
<1>5. Draining(q, F[0], n)
  <2>1. F[0].queue = q /\ F[0].copied = << >> BY <1>4
  <2>2. << >> \in Seq(Byte) /\ Len(<< >>) <= n OBVIOUS
  <2>3. Shipped(q, << >>, q) BY ShippedNothing, Zenon
  <2> QED BY <2>1, <2>2, <2>3, Zenon DEF Draining
<1>6. \A d : Draining(q, d, n) => Draining(q, drain_turn(d, n), n) BY TurnShips, Zenon
<1> DEFINE T == {k \in Nat : k <= N => Draining(q, F[k], n)}
<1>7. 0 \in T BY <1>5
<1>8. ASSUME NEW k \in T PROVE k + 1 \in T
  <2>1. ASSUME k + 1 <= N PROVE Draining(q, F[k + 1], n)
    <3>1. k + 1 \in 0..N /\ k + 1 # 0 /\ (k + 1) - 1 = k /\ k \in Nat /\ k <= N BY <2>1
    <3>2. F[k + 1] = drain_turn(F[k], n)
      <4>1. F[k + 1] = drain_turn(F[(k + 1) - 1], n) BY <1>4, <3>1, Zenon
      <4> QED BY <3>1, <4>1, Zenon
    <3>3. Draining(q, F[k], n) BY <3>1
    <3> QED BY <1>6, <3>2, <3>3, Zenon
  <2>2. k + 1 \in Nat OBVIOUS
  <2> QED BY <2>1, <2>2
<1> HIDE DEF T
<1>9. T \subseteq Nat BY DEF T
<1>10. T = Nat BY <1>7, <1>8, <1>9, Induction
<1>11. Draining(q, F[N], n) BY <1>10 DEF T
<1> QED BY <1>2, <1>11, Zenon

-----------------------------------------------------------------------------
(* enqueue_owned.                                                          *)

\* The message that is dropped is in the queue, and is not the head if that is in flight.
LEMMA DropIndexRange ==
    ASSUME NEW q, QueueOK(q), NEW bp
    PROVE  LET idx == DropIndex(q, bp)
           IN  /\ idx \in {0, 1, 2} /\ idx <= Len(q.messages)
               /\ InFlight(q) => idx # 1
<1>1. Len(q.messages) \in Nat
  <2>1. q.messages \in Seq(Msg) BY QueueFacts, Zenon
  <2> QED BY <2>1
<1>2. CASE InFlight(q) BY <1>1, <1>2 DEF DropIndex
<1>3. CASE ~InFlight(q) BY <1>1, <1>3 DEF DropIndex
<1> QED BY <1>2, <1>3

\* A message taken out of a sequence.
LEMMA WithoutSplits ==
    ASSUME NEW ms \in Seq(Msg), NEW idx \in 1..Len(ms)
    PROVE  \E a, b \in Seq(Msg), x \in Msg :
               /\ ms = (a \o <<x>>) \o b /\ Without(ms, idx) = a \o b /\ x = ms[idx]
               /\ Len(a) = idx - 1
<1>1. PICK a, b, x : a = SubSeq(ms, 1, idx - 1) /\ b = SubSeq(ms, idx + 1, Len(ms)) /\ x = ms[idx]
  BY Zenon
<1>2. a \in Seq(Msg) /\ Len(a) = idx - 1 /\ \A i \in 1..(idx - 1) : a[i] = ms[i] BY <1>1
<1>3. /\ b \in Seq(Msg) /\ Len(b) = Len(ms) - idx
      /\ \A i \in 1..(Len(ms) - idx) : b[i] = ms[idx + i]
  BY <1>1
<1>4. x \in Msg BY <1>1
<1>5. PICK c : c = a \o <<x>> BY Zenon
<1>6. c \in Seq(Msg) /\ Len(c) = idx /\ \A i \in 1..idx : c[i] = ms[i] BY <1>1, <1>2, <1>4, <1>5
<1>7. ms = c \o b
  <2>1. \A i \in 1..Len(ms) : ms[i] = IF i <= Len(c) THEN c[i] ELSE b[i - Len(c)]
    <3> SUFFICES ASSUME NEW i \in 1..Len(ms)
                 PROVE  ms[i] = IF i <= Len(c) THEN c[i] ELSE b[i - Len(c)]
      OBVIOUS
    <3>1. CASE i <= idx BY <1>6, <3>1
    <3>2. CASE ~(i <= idx)
      <4>1. i - idx \in 1..(Len(ms) - idx) /\ idx + (i - idx) = i BY <3>2
      <4> QED BY <1>3, <1>6, <3>2, <4>1
    <3> QED BY <3>1, <3>2
  <2>2. Len(ms) = Len(c) + Len(b) BY <1>3, <1>6
  <2> QED BY <1>3, <1>6, <2>1, <2>2, ConcatEqual, Zenon
<1>8. Without(ms, idx) = a \o b
  <2>1. idx # 0 OBVIOUS
  <2> QED BY <1>1, <2>1, Zenon DEF Without
<1> QED BY <1>1, <1>2, <1>3, <1>4, <1>5, <1>7, <1>8, Zenon
\* The first of two sequences that is not empty gives the head of both.
LEMMA HeadConcat ==
    ASSUME NEW S, NEW s \in Seq(S), NEW t \in Seq(S), Len(s) > 0
    PROVE  s \o t # << >> /\ Head(s \o t) = s[1]
OBVIOUS

\* An enqueue adds the message at the end; what it drops is not in flight, so what is
\* shipped of the head stays.
LEMMA EnqueueKeeps ==
    ASSUME NEW q, QueueOK(q), NEW m \in Msg, NEW bp, NEW r, r = enqueue_owned(q, m, bp)
    PROVE  /\ QueueOK(r) /\ r.front_offset = q.front_offset /\ r.front_committed = q.front_committed
           /\ r.messages = Append(Without(q.messages, DropIndex(q, bp)), m)
           /\ r.messages # << >> /\ Front(r) = Front(q)
           /\ (InFlight(q) /\ q.messages # << >>) => Head(r.messages) = Head(q.messages)
<1>1. PICK ms, idx, w : ms = q.messages /\ idx = DropIndex(q, bp) /\ w = Without(ms, idx) BY Zenon
<1>2. ms \in Seq(Msg) /\ Len(ms) \in Nat
  <2>1. ms \in Seq(Msg) BY <1>1, QueueFacts, Zenon
  <2> QED BY <2>1
<1>3. idx \in {0, 1, 2} /\ idx <= Len(ms) /\ (InFlight(q) => idx # 1)
  BY <1>1, DropIndexRange, Zenon
<1>4. w \in Seq(Msg) /\ (idx # 1 /\ ms # << >> => w # << >> /\ Head(w) = Head(ms))
  <2>1. CASE idx = 0
    <3>1. w = ms BY <1>1, <2>1, Zenon DEF Without
    <3> QED BY <1>2, <3>1, Zenon
  <2>2. CASE idx # 0
    <3>1. idx \in 1..Len(ms) BY <1>2, <1>3, <2>2
    <3>2. PICK a, b, x : /\ a \in Seq(Msg) /\ b \in Seq(Msg) /\ x \in Msg
                         /\ ms = (a \o <<x>>) \o b /\ w = a \o b /\ Len(a) = idx - 1
      BY <1>1, <1>2, <3>1, WithoutSplits, ZenonT(30)
    <3>3. w \in Seq(Msg) BY <3>2, MsgSeqs, Zenon
    <3>4. ASSUME idx # 1 PROVE w # << >> /\ Head(w) = Head(ms)
      <4>1. Len(a) = 1 BY <1>3, <2>2, <3>2, <3>4
      <4>2. w # << >> /\ Head(w) = a[1]
        <5>1. a \in Seq(Msg) /\ b \in Seq(Msg) /\ w = a \o b BY <3>2, Zenon
        <5>2. Len(a) > 0 BY <4>1
        <5> QED BY <5>1, <5>2, HeadConcat, Zenon
      <4>3. Head(ms) = a[1]
        <5>1. PICK c : c = a \o <<x>> BY Zenon
        <5>2. c \in Seq(Msg) /\ Len(c) = 2 /\ c[1] = a[1]
          <6>1. a \in Seq(Msg) /\ x \in Msg BY <3>2, Zenon
          <6>2. c = Append(a, x) BY <5>1, <6>1, AppendIsConcat, Zenon
          <6> QED BY <4>1, <6>1, <6>2
        <5>3. ms = c \o b /\ b \in Seq(Msg) BY <3>2, <5>1, Zenon
        <5>4. Len(c) > 0 BY <5>2
        <5>5. Head(ms) = c[1] BY <5>2, <5>3, <5>4, HeadConcat, Zenon
        <5> QED BY <5>2, <5>5
      <4> QED BY <4>2, <4>3
    <3> QED BY <3>3, <3>4
  <2> QED BY <2>1, <2>2
<1>5. PICK v : v = Append(w, m) BY Zenon
<1>6. v \in Seq(Msg) /\ v # << >> /\ (w # << >> => Head(v) = Head(w)) BY <1>4, <1>5
<1>7. /\ r \in Queue /\ r.messages = v /\ r.front_offset = q.front_offset
      /\ r.front_committed = q.front_committed
  <2>1. q \in Queue BY DEF QueueOK
  <2>2. r = [q EXCEPT !.messages = v] BY <1>1, <1>5, Zenon DEF enqueue_owned
  <2> QED BY <1>6, <2>1, <2>2 DEF Queue
<1>8. (InFlight(q) /\ ms # << >>) => Head(v) = Head(ms) BY <1>3, <1>4, <1>6, Zenon
<1>9. q.front_offset \in Nat /\ (ms = << >> => q.front_offset = 0)
  BY <1>1, QueueFacts, Zenon DEF QueueOK
<1>10. Head(v) \in Msg BY <1>6, HeadTail, Zenon
<1>11. len(Head(v)) \in Nat /\ bytes(Head(v)) \in Seq(Byte) BY <1>10, BytesType
<1>12. CASE q.front_offset > 0
  <2>1. ms # << >> /\ InFlight(q) BY <1>9, <1>12 DEF InFlight
  <2>2. Head(v) = Head(ms) BY <1>8, <2>1, Zenon
  <2>3. QueueOK(r) BY <1>1, <1>6, <1>7, <2>1, <2>2, Zenon DEF QueueOK
  <2>4. Front(r) = Front(q) BY <1>1, <1>6, <1>7, <2>1, <2>2, Zenon DEF Front
  <2> QED BY <1>1, <1>5, <1>6, <1>7, <1>8, <2>3, <2>4, Zenon
<1>13. CASE q.front_offset = 0
  <2>1. QueueOK(r) BY <1>6, <1>7, <1>11, <1>13 DEF QueueOK
  <2>2. \A b \in Seq(Byte) : SubSeq(b, 1, 0) = << >> OBVIOUS
  <2>3. Front(r) = << >> BY <1>6, <1>7, <1>11, <1>13, <2>2, Zenon DEF Front
  <2>4. Front(q) = << >>
    <3>1. CASE ms = << >> BY <1>1, <3>1, Zenon DEF Front
    <3>2. CASE ms # << >>
      <4>1. Head(ms) \in Msg BY <1>2, <3>2, HeadTail, Zenon
      <4>2. bytes(Head(ms)) \in Seq(Byte) BY <4>1, BytesType, Zenon
      <4> QED BY <1>1, <1>13, <2>2, <3>2, <4>2, Zenon DEF Front
    <3> QED BY <3>1, <3>2
  <2> QED BY <1>1, <1>5, <1>6, <1>7, <1>8, <2>1, <2>3, <2>4, Zenon
<1> QED BY <1>9, <1>12, <1>13

\* The start of a longer sequence.
LEMMA PrefixOfConcat ==
    ASSUME NEW S, NEW s \in Seq(S), NEW t \in Seq(S), NEW n \in Nat, n <= Len(s)
    PROVE  SubSeq(s \o t, 1, n) = SubSeq(s, 1, n)
<1>1. PICK u : u = s \o t BY Zenon
<1>2. u \in Seq(S) /\ Len(u) = Len(s) + Len(t) /\ \A i \in 1..Len(s) : u[i] = s[i]
  BY <1>1, ConcatType, Zenon
<1>3. Len(t) \in Nat OBVIOUS
<1> QED BY <1>1, <1>2, <1>3

\* What is shipped of the head and what the queue still holds are its messages.
LEMMA QueueBytesIs ==
    ASSUME NEW q, QueueOK(q)
    PROVE  QueueBytes(q) \in Seq(Byte) /\ Front(q) \o QueueBytes(q) = AllBytes(q.messages)
<1>1. PICK ms, off, w : ms = q.messages /\ off = q.front_offset /\ w = AllBytes(ms) BY Zenon
<1>2. ms \in Seq(Msg) /\ off \in Nat BY <1>1, QueueFacts, Zenon
<1>3. w \in Seq(Byte) BY <1>1, <1>2, AllBytesType, Zenon
<1>4. QueueBytes(q) = SubSeq(w, off + 1, Len(w)) BY <1>1, Zenon DEF QueueBytes
<1>5. off <= Len(w) /\ Front(q) = SubSeq(w, 1, off)
  <2>1. CASE ms = << >>
    <3>1. off = 0 /\ w = << >> BY <1>1, <2>1, AllBytesEmpty, Zenon DEF QueueOK
    <3>2. Front(q) = << >> BY <1>1, <2>1, Zenon DEF Front
    <3> QED BY <3>1, <3>2
  <2>2. CASE ms # << >>
    <3>1. PICK h, b, c : h = Head(ms) /\ b = bytes(h) /\ c = AllBytes(Tail(ms)) BY Zenon
    <3>2. h \in Msg /\ Tail(ms) \in Seq(Msg) BY <1>2, <2>2, <3>1, HeadTail, Zenon
    <3>3. b \in Seq(Byte) /\ Len(b) = len(h) /\ c \in Seq(Byte)
      BY <3>1, <3>2, BytesType, AllBytesType, Zenon
    <3>4. w = b \o c BY <1>1, <1>2, <2>2, <3>1, AllBytesHead, Zenon
    <3>5. off <= Len(b) BY <1>1, <2>2, <3>1, <3>3, Zenon DEF QueueOK
    <3>6. SubSeq(w, 1, off) = SubSeq(b, 1, off) BY <1>2, <3>3, <3>4, <3>5, PrefixOfConcat, Zenon
    <3>7. Front(q) = SubSeq(b, 1, off) BY <1>1, <2>2, <3>1, Zenon DEF Front
    <3>8. Len(w) = Len(b) + Len(c) BY <3>3, <3>4, ConcatType, Zenon
    <3>9. Len(b) \in Nat /\ Len(c) \in Nat BY <3>3
    <3>10. off <= Len(w) BY <1>2, <3>5, <3>8, <3>9
    <3> QED BY <3>6, <3>7, <3>10, Zenon
  <2> QED BY <2>1, <2>2
<1>6. Len(w) \in Nat /\ Len(w) <= Len(w) BY <1>3
<1>7. SubSeq(w, off + 1, Len(w)) \in Seq(Byte)
      /\ SubSeq(w, 1, off) \o SubSeq(w, off + 1, Len(w)) = SubSeq(w, 1, Len(w))
  BY <1>2, <1>3, <1>5, <1>6, ByteCuts, Zenon
<1>8. SubSeq(w, 1, Len(w)) = w BY <1>3, WholeSubSeq, Zenon
<1> QED BY <1>1, <1>4, <1>5, <1>7, <1>8, Zenon

-----------------------------------------------------------------------------
(* Where the bytes of a call are: K its messages, B the bytes it sent, q    *)
(* its queue, D the messages that went out whole.                          *)

Account(K, B, q) ==
    \E D \in Seq(Msg) : K = D \o q.messages /\ B = AllBytes(D) \o Front(q)

\* Shipping keeps the account.
LEMMA ShipAccounts ==
    ASSUME NEW K, NEW B, NEW q, QueueOK(q), NEW r, QueueOK(r), NEW c \in Seq(Byte),
           Shipped(q, c, r), Account(K, B, q)
    PROVE  Account(K, B \o c, r)
<1>1. PICK D : D \in Seq(Msg) /\ K = D \o q.messages /\ B = AllBytes(D) \o Front(q)
  BY Zenon DEF Account
<1>2. PICK E : E \in Seq(Msg) /\ q.messages = E \o r.messages
                /\ Front(q) \o c = AllBytes(E) \o Front(r)
  BY Zenon DEF Shipped
<1>3. PICK fq, fr, ms, d, e : /\ fq = Front(q) /\ fr = Front(r) /\ ms = r.messages
                              /\ d = AllBytes(D) /\ e = AllBytes(E)
  BY Zenon
<1>4. fq \in Seq(Byte) /\ fr \in Seq(Byte) BY <1>3, QueueFacts, Zenon
<1>5. ms \in Seq(Msg) BY <1>3, QueueFacts, Zenon
<1>6. d \in Seq(Byte) /\ e \in Seq(Byte) BY <1>1, <1>2, <1>3, AllBytesType, Zenon
<1>7. K = D \o (E \o ms) BY <1>1, <1>2, <1>3, Zenon
<1>8. D \in Seq(Msg) /\ E \in Seq(Msg) BY <1>1, <1>2, Zenon
<1>9. K = (D \o E) \o ms
  <2>1. D \o (E \o ms) = (D \o E) \o ms BY <1>5, <1>8, MsgAssoc
  <2> QED BY <1>7, <2>1, Zenon
<1>10. D \o E \in Seq(Msg) /\ AllBytes(D \o E) = d \o e
  BY <1>3, <1>8, MsgSeqs, AllBytesConcat, Zenon
<1>11. B \o c = (d \o e) \o fr
  <2>1. (d \o fq) \o c = d \o (fq \o c)
    <3>1. d \in Seq(Byte) /\ fq \in Seq(Byte) BY <1>4, <1>6, Zenon
    <3> QED BY <3>1, ByteAssoc, Zenon
  <2>2. d \o (e \o fr) = (d \o e) \o fr
    <3>1. d \in Seq(Byte) /\ e \in Seq(Byte) /\ fr \in Seq(Byte) BY <1>4, <1>6, Zenon
    <3> QED BY <3>1, ByteAssoc, SMTT(30)
  <2>3. B = d \o fq /\ fq \o c = e \o fr BY <1>1, <1>2, <1>3, Zenon
  <2> QED BY <2>1, <2>2, <2>3, Zenon
<1> QED BY <1>3, <1>9, <1>10, <1>11, Zenon DEF Account

\* An enqueue without a drop adds its message to the account.
LEMMA AppendAccounts ==
    ASSUME NEW K, NEW B, NEW q, QueueOK(q), NEW r, NEW m \in Msg,
           r.messages = Append(q.messages, m), Front(r) = Front(q), Account(K, B, q)
    PROVE  Account(K \o <<m>>, B, r)
<1>1. PICK D : D \in Seq(Msg) /\ K = D \o q.messages /\ B = AllBytes(D) \o Front(q)
  BY Zenon DEF Account
<1>2. PICK ms, u : ms = q.messages /\ u = <<m>> BY Zenon
<1>3. ms \in Seq(Msg) BY <1>2, QueueFacts, Zenon
<1>4. u \in Seq(Msg) /\ Append(ms, m) = ms \o u BY <1>2, <1>3, AppendIsConcat, Zenon
<1>5. D \in Seq(Msg) BY <1>1, Zenon
<1>6. (D \o ms) \o u = D \o (ms \o u) BY <1>3, <1>4, <1>5, MsgAssoc, SMTT(30)
<1>7. K \o <<m>> = D \o r.messages BY <1>1, <1>2, <1>4, <1>6, Zenon
<1> QED BY <1>1, <1>5, <1>7, Zenon DEF Account

\* An account adds up: sent and queued bytes are those of the messages.
LEMMA AccountAddsUp ==
    ASSUME NEW K, NEW B, NEW q, QueueOK(q), Account(K, B, q)
    PROVE  B \o QueueBytes(q) = AllBytes(K)
<1>1. PICK D : D \in Seq(Msg) /\ K = D \o q.messages /\ B = AllBytes(D) \o Front(q)
  BY Zenon DEF Account
<1>2. PICK ms, d, f, w : /\ ms = q.messages /\ d = AllBytes(D) /\ f = Front(q)
                         /\ w = QueueBytes(q)
  BY Zenon
<1>3. D \in Seq(Msg) /\ ms \in Seq(Msg) BY <1>1, <1>2, QueueFacts, Zenon
<1>4. d \in Seq(Byte) BY <1>2, <1>3, AllBytesType, Zenon
<1>5. f \in Seq(Byte) BY <1>2, QueueFacts, Zenon
<1>6. w \in Seq(Byte) /\ f \o w = AllBytes(ms) BY <1>2, QueueBytesIs, Zenon
<1>7. AllBytes(D \o ms) = d \o AllBytes(ms) BY <1>2, <1>3, AllBytesConcat, Zenon
<1>8. w \in Seq(Byte) BY <1>6, Zenon
<1>9. (d \o f) \o w = d \o (f \o w) BY <1>4, <1>5, <1>8, ByteAssoc, SMTT(30)
<1>10. K = D \o ms /\ B = d \o f BY <1>1, <1>2, Zenon
<1> QED BY <1>2, <1>6, <1>7, <1>9, <1>10, Zenon

\* What two lists of messages put together hold.
Together(u, s, t) ==
    /\ u \in Seq(Msg) /\ Len(u) = Len(s) + Len(t)
    /\ \A i \in 1..Len(s) : u[i] = s[i]
    /\ \A i \in 1..Len(t) : u[Len(s) + i] = t[i]

\* Concatenation puts two lists together.
LEMMA MsgConcat == \A s, t \in Seq(Msg) : \A u : u = s \o t => Together(u, s, t)
BY SMT DEF Together

\* No two messages have the same id.
DistinctIds(K) == \A i, j \in 1..Len(K) : i # j => K[i].id # K[j].id

\* The messages whose ids are not in d.
Others(d) == [id : Ids \ d, body : Bodies]

\* v is K without x.
DroppedOne(K, v, x, d) ==
    /\ Only(K, Others(d \cup {x.id})) = v
    /\ DistinctIds(v)
    /\ \A i \in 1..Len(v) : \E j \in 1..Len(K) : v[i] = K[j]
    /\ \E j \in 1..Len(K) : x = K[j]

\* Taking one of the messages away by its id leaves the others, in their order.
LEMMA DropOne ==
    ASSUME NEW K, DistinctIds(K), NEW p \in Seq(Msg), NEW x \in Msg, NEW b \in Seq(Msg),
           K = (p \o <<x>>) \o b, NEW d, \A i \in 1..Len(K) : K[i].id \notin d,
           NEW v, v = p \o b
    PROVE  DroppedOne(K, v, x, d)
<1>1. PICK S, c : S = Others(d \cup {x.id}) /\ c = p \o <<x>> BY Zenon
<1>2. <<x>> \in Seq(Msg) /\ c = Append(p, x) BY <1>1, AppendIsConcat, Zenon
<1>3. /\ c \in Seq(Msg) /\ Len(c) = Len(p) + 1 /\ c[Len(p) + 1] = x
      /\ \A i \in 1..Len(p) : c[i] = p[i]
  BY <1>2
<1>4. /\ K \in Seq(Msg) /\ Len(K) = Len(c) + Len(b)
      /\ \A i \in 1..Len(c) : K[i] = c[i]
      /\ \A i \in 1..Len(b) : K[Len(c) + i] = b[i]
  <2>1. K = c \o b /\ c \in Seq(Msg) BY <1>1, <1>3, Zenon
  <2>2. Together(K, c, b) BY <2>1, MsgConcat, Zenon
  <2> QED BY <2>2, Zenon DEF Together
<1>5. PICK np, nb, n \in Nat : np = Len(p) /\ nb = Len(b) /\ n = Len(K) OBVIOUS
<1>6. /\ n = np + 1 + nb /\ K[np + 1] = x
      /\ \A i \in 1..np : K[i] = p[i]
      /\ \A i \in 1..nb : K[np + 1 + i] = b[i]
  <2>1. Len(c) = np + 1 BY <1>3, <1>5
  <2>2. \A i \in 1..np : i \in 1..(np + 1) BY <1>5
  <2>3. np + 1 \in 1..(np + 1) BY <1>5
  <2> QED BY <1>3, <1>4, <1>5, <2>1, <2>2, <2>3, Zenon
<1>7. \A m \in Msg : m \in S <=> m.id \notin d /\ m.id # x.id
  BY <1>1 DEF Others, Msg
<1>8. x \notin S BY <1>7, Zenon
<1>9. \A i \in 1..np : p[i] \in S
  <2> TAKE i \in 1..np
  <2>1. i \in 1..n /\ np + 1 \in 1..n /\ i # np + 1 BY <1>5, <1>6
  <2>2. p[i].id # x.id
    <3>1. K[i].id # K[np + 1].id BY <1>5, <2>1, Zenon DEF DistinctIds
    <3>2. K[i] = p[i] /\ K[np + 1] = x BY <1>6, Zenon
    <3> QED BY <3>1, <3>2, Zenon
  <2>3. p[i].id \notin d BY <1>5, <1>6, <2>1, Zenon
  <2>4. p[i] \in Msg BY <1>5
  <2> QED BY <1>7, <2>2, <2>3, <2>4, Zenon
<1>10. \A i \in 1..nb : b[i] \in S
  <2> TAKE i \in 1..nb
  <2>1. np + 1 + i \in 1..n /\ np + 1 \in 1..n /\ np + 1 + i # np + 1 BY <1>5, <1>6
  <2>2. b[i].id # x.id
    <3>1. K[np + 1 + i].id # K[np + 1].id BY <1>5, <2>1, Zenon DEF DistinctIds
    <3>2. K[np + 1 + i] = b[i] /\ K[np + 1] = x BY <1>6, Zenon
    <3> QED BY <3>1, <3>2, Zenon
  <2>3. b[i].id \notin d BY <1>5, <1>6, <2>1, Zenon
  <2>4. b[i] \in Msg BY <1>5
  <2> QED BY <1>7, <2>2, <2>3, <2>4, Zenon
<1>11. Only(p, S) = p /\ Only(b, S) = b BY <1>5, <1>9, <1>10, OnlyAll, Zenon
<1>12. Only(<<x>>, S) = << >> BY <1>8, OnlySingle, Zenon
<1>13. Only(K, S) = (p \o << >>) \o b
  <2>1. Only(K, S) = Only(c, S) \o Only(b, S) BY <1>1, <1>3, OnlyConcat, Zenon
  <2>2. Only(c, S) = Only(p, S) \o Only(<<x>>, S) BY <1>1, <1>2, OnlyConcat, Zenon
  <2> QED BY <1>11, <1>12, <2>1, <2>2, Zenon
<1>14. Only(K, S) = p \o b BY <1>13, MsgSeqs, Zenon
<1>15. v = p \o b OBVIOUS
<1>16. /\ Len(v) = np + nb /\ \A i \in 1..np : v[i] = p[i]
       /\ \A i \in 1..nb : v[np + i] = b[i]
  <2>1. /\ Len(v) = Len(p) + Len(b) /\ \A i \in 1..Len(p) : v[i] = p[i]
        /\ \A i \in 1..Len(b) : v[Len(p) + i] = b[i]
    <3>1. Together(v, p, b) BY <1>15, MsgConcat, Zenon
    <3> QED BY <3>1, Zenon DEF Together
  <2> QED BY <1>5, <2>1, Zenon
<1>17. \A i \in 1..Len(v) : /\ (i <= np => v[i] = K[i])
                            /\ (i > np => v[i] = K[i + 1])
  <2> TAKE i \in 1..Len(v)
  <2>1. ASSUME i <= np PROVE v[i] = K[i]
    <3>1. i \in 1..np BY <1>16, <1>5, <2>1
    <3> QED BY <1>6, <1>16, <3>1, Zenon
  <2>2. ASSUME i > np PROVE v[i] = K[i + 1]
    <3>1. i - np \in 1..nb /\ np + (i - np) = i /\ np + 1 + (i - np) = i + 1
      BY <1>16, <1>5, <2>2
    <3>2. v[np + (i - np)] = b[i - np] /\ K[np + 1 + (i - np)] = b[i - np]
      BY <1>6, <1>16, <3>1, Zenon
    <3> QED BY <3>1, <3>2, Zenon
  <2> QED BY <2>1, <2>2
<1>18. DistinctIds(v)
  <2> SUFFICES ASSUME NEW i \in 1..Len(v), NEW j \in 1..Len(v), i # j
               PROVE  v[i].id # v[j].id
    BY Zenon DEF DistinctIds
  <2>1. PICK k \in 1..n : k = IF i <= np THEN i ELSE i + 1
    BY <1>5, <1>6, <1>16
  <2>2. PICK l2 \in 1..n : l2 = IF j <= np THEN j ELSE j + 1 BY <1>5, <1>6, <1>16
  <2>3. k # l2 BY <1>5, <1>16, <2>1, <2>2
  <2>5. v[i] = K[k]
    <3>1. CASE i <= np BY <1>17, <2>1, <3>1, Zenon
    <3>2. CASE i > np
      <4>1. ~(i <= np) BY <3>2, <1>5, <1>16
      <4> QED BY <1>17, <2>1, <3>2, <4>1, Zenon
    <3> QED BY <3>1, <3>2, <1>5, <1>16, SMTT(30)
  <2>6. v[j] = K[l2]
    <3>1. CASE j <= np BY <1>17, <2>2, <3>1, Zenon
    <3>2. CASE j > np
      <4>1. ~(j <= np) BY <3>2, <1>5, <1>16
      <4> QED BY <1>17, <2>2, <3>2, <4>1, Zenon
    <3> QED BY <3>1, <3>2, <1>5, <1>16
  <2>4. k \in 1..Len(K) /\ l2 \in 1..Len(K) BY <1>5, <1>6, <1>16, <2>1, <2>2
  <2> QED BY <2>3, <2>4, <2>5, <2>6, Zenon DEF DistinctIds
<1>19. \A i \in 1..Len(v) : \E j \in 1..Len(K) : v[i] = K[j]
  <2> TAKE i \in 1..Len(v)
  <2>1. CASE i <= np
    <3>1. i \in 1..Len(K) BY <1>5, <1>6, <1>16
    <3> QED BY <1>17, <2>1, <3>1, Zenon
  <2>2. CASE i > np
    <3>1. i + 1 \in 1..Len(K) BY <1>5, <1>6, <1>16
    <3> QED BY <1>17, <2>2, <3>1, Zenon
  <2> QED BY <2>1, <2>2, <1>5
<1>20. np + 1 \in 1..Len(K) /\ K[np + 1] = x BY <1>5, <1>6
<1> QED BY <1>1, <1>14, <1>15, <1>18, <1>19, <1>20, Zenon DEF DroppedOne

\* The account after x, followed by b, was dropped from K and m was added.
Dropping(K, B, r, x, b, m) ==
    \E p \in Seq(Msg) : K = (p \o <<x>>) \o b /\ Account((p \o b) \o <<m>>, B, r)

\* A DropOldest enqueue takes a message that is not in flight out of the account, and
\* adds its own.
LEMMA DropAccounts ==
    ASSUME NEW K, NEW B, NEW q, QueueOK(q), NEW r, NEW m \in Msg,
           NEW a \in Seq(Msg), NEW x \in Msg, NEW b \in Seq(Msg),
           q.messages = (a \o <<x>>) \o b, r.messages = Append(a \o b, m),
           Front(r) = Front(q), Account(K, B, q)
    PROVE  Dropping(K, B, r, x, b, m)
<1>1. PICK D : D \in Seq(Msg) /\ K = D \o q.messages /\ B = AllBytes(D) \o Front(q)
  BY Zenon DEF Account
<1>2. PICK u, y : u = <<m>> /\ y = <<x>> BY Zenon
<1>3. y \in Seq(Msg) BY <1>2
<1>4. D \in Seq(Msg) BY <1>1, Zenon
<1>5. PICK p : p = D \o a BY Zenon
<1>6. p \in Seq(Msg) BY <1>4, <1>5, MsgSeqs, Zenon
<1>7. a \o y \in Seq(Msg) /\ a \o b \in Seq(Msg) BY <1>3, MsgSeqs, Zenon
<1>8. K = (p \o y) \o b
  <2>1. D \o (a \o y) = p \o y
    <3>1. D \o (a \o y) = (D \o a) \o y BY <1>3, <1>4, MsgAssoc, Zenon
    <3> QED BY <1>5, <3>1, Zenon
  <2>2. PICK ay : ay = a \o y BY Zenon
  <2>3. ay \in Seq(Msg) BY <1>7, <2>2, Zenon
  <2>4. D \o (ay \o b) = (D \o ay) \o b BY <1>4, <2>3, MsgAssoc, Zenon
  <2> QED BY <1>1, <1>2, <2>1, <2>2, <2>4, Zenon
<1>9. (p \o b) \o u = D \o r.messages
  <2>1. PICK ab : ab = a \o b BY Zenon
  <2>2. ab \in Seq(Msg) BY <1>7, <2>1, Zenon
  <2>3. u \in Seq(Msg) /\ r.messages = ab \o u BY <1>2, <2>1, <2>2, AppendIsConcat, Zenon
  <2>4. p \o b = D \o ab
    <3>1. D \o (a \o b) = (D \o a) \o b BY <1>4, MsgAssoc
    <3> QED BY <1>5, <2>1, <3>1, Zenon
  <2>5. u \in Seq(Msg) BY <2>3, Zenon
  <2>6. D \o (ab \o u) = (D \o ab) \o u BY <1>4, <2>2, <2>5, MsgAssoc, Zenon
  <2> QED BY <2>3, <2>4, <2>6, Zenon
<1>10. Account((p \o b) \o u, B, r) BY <1>1, <1>4, <1>9, Zenon DEF Account
<1> QED BY <1>2, <1>6, <1>8, <1>10, Zenon DEF Dropping

\* FramesContiguous of any units.
Contiguous(e) ==
    \A i \in 1..Len(e) :
        /\ e[i].kind = "DATA" =>
              /\ i + e[i].length <= Len(e)
              /\ \A j \in (i + 1)..(i + e[i].length) :
                    e[j].kind = "byte" /\ e[j].stream = e[i].stream
        /\ e[i].kind = "byte" =>
              \E h \in 1..(i - 1) :
                  /\ e[h].kind = "DATA" /\ e[h].stream = e[i].stream
                  /\ i <= h + e[h].length

\* Lengths are naturals.
LEMMA UnitLength == \A u \in Unit : u.length \in Nat
BY DEF Unit

\* Whole frames after whole frames are whole frames.
LEMMA ContiguousConcat ==
    ASSUME NEW e \in Seq(Unit), NEW c \in Seq(Unit), Contiguous(e), Contiguous(c)
    PROVE  Contiguous(e \o c)
<1>1. PICK d : d = e \o c BY Zenon
<1>2. PICK n \in Nat : n = Len(e) OBVIOUS
<1>3. PICK m \in Nat : m = Len(c) OBVIOUS
<1>4. /\ Len(d) = n + m
      /\ \A i \in 1..n : d[i] = e[i]
      /\ \A i \in 1..m : d[n + i] = c[i]
  BY <1>1, <1>2, <1>3
<1>5. \A i \in 1..n : e[i].length \in Nat
  <2>1. \A i \in 1..n : e[i] \in Unit BY <1>2
  <2> QED BY <2>1, UnitLength, Zenon
<1>6. \A i \in 1..m : c[i].length \in Nat
  <2>1. \A i \in 1..m : c[i] \in Unit BY <1>3
  <2> QED BY <2>1, UnitLength, Zenon
<1>7. ASSUME NEW i \in 1..n
      PROVE  /\ d[i].kind = "DATA" =>
                   /\ i + d[i].length <= n + m
                   /\ \A j \in (i + 1)..(i + d[i].length) :
                         d[j].kind = "byte" /\ d[j].stream = d[i].stream
             /\ d[i].kind = "byte" =>
                   \E h \in 1..(i - 1) :
                       /\ d[h].kind = "DATA" /\ d[h].stream = d[i].stream
                       /\ i <= h + d[h].length
  <2>1. ASSUME d[i].kind = "DATA"
        PROVE  /\ i + d[i].length <= n + m
               /\ \A j \in (i + 1)..(i + d[i].length) :
                         d[j].kind = "byte" /\ d[j].stream = d[i].stream
    <3>1. d[i] = e[i] /\ e[i].length \in Nat BY <1>4, <1>5
    <3>2. /\ i + e[i].length <= n
          /\ \A j \in (i + 1)..(i + e[i].length) :
                    e[j].kind = "byte" /\ e[j].stream = e[i].stream
      <4>1. e[i].kind = "DATA" BY <2>1, <3>1, Zenon
      <4>2. i \in 1..Len(e) BY <1>2
      <4>3. /\ i + e[i].length <= Len(e)
            /\ \A j \in (i + 1)..(i + e[i].length) :
                    e[j].kind = "byte" /\ e[j].stream = e[i].stream
        BY <4>1, <4>2, Zenon DEF Contiguous
      <4> QED BY <1>2, <4>3, Zenon
    <3>3. \A j \in (i + 1)..(i + e[i].length) : j \in 1..n BY <3>1, <3>2
    <3>4. i + d[i].length <= n + m BY <3>1, <3>2
    <3>5. \A j \in (i + 1)..(i + e[i].length) : d[j] = e[j] BY <1>4, <3>3, Zenon
    <3> QED BY <3>1, <3>2, <3>4, <3>5, Zenon
  <2>2. ASSUME d[i].kind = "byte"
        PROVE  \E h \in 1..(i - 1) :
                       /\ d[h].kind = "DATA" /\ d[h].stream = d[i].stream
                       /\ i <= h + d[h].length
    <3>1. d[i] = e[i] BY <1>4
    <3>2. PICK h \in 1..(i - 1) : /\ e[h].kind = "DATA" /\ e[h].stream = e[i].stream
                                  /\ i <= h + e[h].length
      BY <1>2, <2>2, <3>1, Zenon DEF Contiguous
    <3>3. h \in 1..n OBVIOUS
    <3>4. d[h] = e[h] BY <1>4, <3>3, Zenon
    <3> QED BY <3>1, <3>2, <3>4, Zenon
  <2> QED BY <2>1, <2>2
<1>8. ASSUME NEW p \in 1..m, NEW i, i = n + p
      PROVE  /\ d[i].kind = "DATA" =>
                   /\ i + d[i].length <= n + m
                   /\ \A j \in (i + 1)..(i + d[i].length) :
                         d[j].kind = "byte" /\ d[j].stream = d[i].stream
             /\ d[i].kind = "byte" =>
                   \E h \in 1..(i - 1) :
                       /\ d[h].kind = "DATA" /\ d[h].stream = d[i].stream
                       /\ i <= h + d[h].length
  <2>1. ASSUME d[i].kind = "DATA"
        PROVE  /\ i + d[i].length <= n + m
               /\ \A j \in (i + 1)..(i + d[i].length) :
                         d[j].kind = "byte" /\ d[j].stream = d[i].stream
    <3>1. d[i] = c[p] /\ c[p].length \in Nat BY <1>4, <1>6, <1>8, Zenon
    <3>2. /\ p + c[p].length <= m
          /\ \A j \in (p + 1)..(p + c[p].length) :
                    c[j].kind = "byte" /\ c[j].stream = c[p].stream
      BY <1>3, <2>1, <3>1, Zenon DEF Contiguous
    <3>3. i + d[i].length <= n + m BY <1>8, <3>1, <3>2
    <3>4. ASSUME NEW j \in (i + 1)..(i + d[i].length)
          PROVE  d[j].kind = "byte" /\ d[j].stream = d[i].stream
      <4>1. PICK l : l = j - n BY Zenon
      <4>2. l \in (p + 1)..(p + c[p].length) /\ l \in 1..m /\ n + l = j
        BY <1>8, <3>1, <3>2, <4>1
      <4>3. d[j] = c[l]
        <5>1. d[n + l] = c[l] BY <1>4, <4>2, Zenon
        <5> QED BY <4>2, <5>1, Zenon
      <4> QED BY <3>1, <3>2, <4>2, <4>3, Zenon
    <3> QED BY <3>3, <3>4
  <2>2. ASSUME d[i].kind = "byte"
        PROVE  \E h \in 1..(i - 1) :
                       /\ d[h].kind = "DATA" /\ d[h].stream = d[i].stream
                       /\ i <= h + d[h].length
    <3>1. d[i] = c[p] BY <1>4, <1>8, Zenon
    <3>2. PICK h \in 1..(p - 1) : /\ c[h].kind = "DATA" /\ c[h].stream = c[p].stream
                                  /\ p <= h + c[h].length
      BY <1>3, <2>2, <3>1, Zenon DEF Contiguous
    <3>3. h \in 1..m OBVIOUS
    <3>4. d[n + h] = c[h] /\ c[h].length \in Nat BY <1>4, <1>6, <3>3, Zenon
    <3>5. n + h \in 1..(i - 1) /\ i <= (n + h) + c[h].length BY <1>8, <3>2, <3>4
    <3>6. PICK g : g = n + h BY Zenon
    <3>7. /\ g \in 1..(i - 1) /\ d[g] = c[h] /\ i <= g + c[h].length
      BY <3>4, <3>5, <3>6, Zenon
    <3>8. d[g].kind = "DATA" /\ d[g].stream = d[i].stream /\ i <= g + d[g].length
      BY <3>1, <3>2, <3>7, Zenon
    <3> QED BY <3>7, <3>8, Zenon
  <2> QED BY <2>1, <2>2
<1>9. \A i \in 1..(n + m) : i \in 1..n \/ \E p \in 1..m : i = n + p
  <2> TAKE i \in 1..(n + m)
  <2>1. CASE i <= n BY <2>1
  <2>2. CASE i > n
    <3>1. i - n \in 1..m /\ i = n + (i - n) BY <2>2
    <3> QED BY <3>1, Zenon
  <2> QED BY <2>1, <2>2
<1>10. Contiguous(d)
  <2> SUFFICES ASSUME NEW i \in 1..(n + m)
               PROVE  /\ d[i].kind = "DATA" =>
                         /\ i + d[i].length <= n + m
                         /\ \A j \in (i + 1)..(i + d[i].length) :
                               d[j].kind = "byte" /\ d[j].stream = d[i].stream
                      /\ d[i].kind = "byte" =>
                         \E h \in 1..(i - 1) :
                             /\ d[h].kind = "DATA" /\ d[h].stream = d[i].stream
                             /\ i <= h + d[h].length
    BY <1>4, Zenon DEF Contiguous
  <2> QED BY <1>7, <1>8, <1>9, Zenon
<1> QED BY <1>1, <1>10, Zenon

\* A HEADERS or TRAILERS frame, or an empty DATA frame, is whole.
LEMMA ContiguousFrame ==
    ASSUME NEW u \in Unit, u.kind # "byte", u.length = 0
    PROVE  Contiguous(<<u>>)
BY DEF Contiguous

\* A DATA frame is whole with the payload of its length.
LEMMA ContiguousData ==
    ASSUME NEW s \in Streams, NEW bs \in Seq(Byte)
    PROVE  /\ <<DataFrame(s, Len(bs))>> \o Payload(s, bs) \in Seq(Unit)
           /\ Contiguous(<<DataFrame(s, Len(bs))>> \o Payload(s, bs))
           /\ \A t : BytesIn(<<DataFrame(s, Len(bs))>> \o Payload(s, bs), t) =
                        IF s = t THEN bs ELSE << >>
<1>1. PICK n \in Nat : n = Len(bs) OBVIOUS
<1>2. PICK f, p : f = DataFrame(s, n) /\ p = Payload(s, bs) BY Zenon
<1>3. f \in Unit /\ f.kind = "DATA" /\ f.length = n /\ f.stream = s
  BY <1>2 DEF DataFrame, Unit
<1>4. /\ p \in Seq(Unit) /\ Len(p) = n
      /\ \A i \in 1..n : p[i].kind = "byte" /\ p[i].stream = s
  BY <1>1, <1>2, PayloadType, Zenon
<1>5. PICK d : d = <<f>> \o p BY Zenon
<1>6. /\ d \in Seq(Unit) /\ Len(d) = n + 1 /\ d[1] = f
      /\ \A i \in 1..n : d[1 + i] = p[i]
  BY <1>3, <1>4, <1>5
<1>7. \A i \in 2..(n + 1) : d[i].kind = "byte" /\ d[i].stream = s
  <2> TAKE i \in 2..(n + 1)
  <2>1. i - 1 \in 1..n /\ 1 + (i - 1) = i OBVIOUS
  <2>2. d[1 + (i - 1)] = p[i - 1] BY <1>6, <2>1, Zenon
  <2> QED BY <1>4, <2>1, <2>2, Zenon
<1>8. Contiguous(d)
  <2>1. d[1].kind = "DATA" /\ d[1].length = n /\ d[1].stream = s BY <1>3, <1>6, Zenon
  <2>2. ASSUME NEW i \in 2..(n + 1)
        PROVE  /\ d[i].kind # "DATA"
               /\ \E h \in 1..(i - 1) : /\ d[h].kind = "DATA" /\ d[h].stream = d[i].stream
                                        /\ i <= h + d[h].length
    <3>1. 1 \in 1..(i - 1) /\ i <= 1 + n OBVIOUS
    <3>2. d[i].kind = "byte" /\ d[i].stream = s BY <1>7, Zenon
    <3>3. d[i].kind # "DATA" BY <3>2
    <3> QED BY <2>1, <3>1, <3>2, <3>3, Zenon
  <2>3. \A j \in (1 + 1)..(1 + n) : d[j].kind = "byte" /\ d[j].stream = s BY <1>7
  <2>4. \A i \in 1..(n + 1) : i = 1 \/ i \in 2..(n + 1) OBVIOUS
  <2>5. 1 + n <= n + 1 /\ d[1].kind # "byte" BY <2>1
  <2> QED BY <1>6, <2>1, <2>2, <2>3, <2>4, <2>5, Zenon DEF Contiguous
<1>9. ASSUME NEW t PROVE BytesIn(d, t) = IF s = t THEN bs ELSE << >>
  <2>1. <<f>> \in Seq(Unit) BY <1>3
  <2>2. BytesIn(d, t) = BytesIn(<<f>>, t) \o BytesIn(p, t)
    BY <1>4, <1>5, <2>1, BytesInConcat, Zenon
  <2>3. f.kind # "byte" BY <1>3
  <2>4. BytesIn(<<f>>, t) = << >> BY <1>3, <2>3, BytesInFrame, Zenon
  <2>5. BytesIn(p, t) = IF s = t THEN bs ELSE << >>
    <3>1. BytesIn(Payload(s, bs), t) = IF s = t THEN bs ELSE << >> BY BytesInPayload
    <3> QED BY <1>2, <3>1, Zenon
  <2>6. BytesIn(p, t) \in Seq(Byte) BY <1>4, BytesInType, Zenon
  <2> QED BY <2>2, <2>4, <2>5, <2>6, ByteSeqs, Zenon
<1> QED BY <1>1, <1>2, <1>5, <1>6, <1>8, <1>9, Zenon
\* No units, no bytes.
LEMMA BytesInNothing == \A t : BytesIn(<< >>, t) = << >>
<1> TAKE t
<1>1. [i \in DOMAIN << >> |-> IF << >>[i].kind = "byte" /\ << >>[i].stream = t
                               THEN <<(<< >>[i].byte)>> ELSE << >>] = << >>
  OBVIOUS
<1> QED BY <1>1, JoinedEmpty, Zenon DEF BytesIn

=============================================================================
