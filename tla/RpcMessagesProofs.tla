-------------------------- MODULE RpcMessagesProofs --------------------------
(***************************************************************************)
(* The messages of the RPC layer: what is read from a connection is what   *)
(* was written to it, or counts for nothing.  For any values of the        *)
(* fields, any number of entries and of replies that arrive together.      *)
(***************************************************************************)
EXTENDS RpcMessages, SequenceTheorems, WellFoundedInduction, TLAPS

-----------------------------------------------------------------------------
(* Sequences of anything *)

\* A nonempty set of naturals has a least element.
LEMMA LeastIn ==
  ASSUME NEW S \in SUBSET Nat, S # {}
  PROVE  \E m \in S : \A n \in S : m <= n
<1>. DEFINE R == OpToRel(<, Nat)
<1>1. IsWellFoundedOn(R, Nat)
  BY NatLessThanWellFounded
<1>2. \A m, n \in Nat : m < n => <<m, n>> \in R
  BY DEF OpToRel
<1>. HIDE DEF R
<1>3. \E m \in S : \A n \in S : ~(<<n, m>> \in R)
  BY <1>1, WFMin
<1>4. PICK m \in S : \A n \in S : ~(<<n, m>> \in R)
  BY <1>3
<1>5. \A n \in S : ~(n < m)
  BY <1>2, <1>4
<1>. QED  BY <1>4, <1>5

IsSeq(s) == Len(s) \in Nat /\ s = [i \in 1 .. Len(s) |-> s[i]]

\* A function on 1 .. n is a sequence.
LEMMA FunctionIsSeq ==
  ASSUME NEW S, NEW n \in Nat, NEW q \in [1 .. n -> S]
  PROVE  q \in Seq(S)
OBVIOUS

\* A sequence is one of its own elements.
LEMMA SeqIs ==
  ASSUME NEW s, IsSeq(s)
  PROVE  /\ s \in Seq({s[i] : i \in 1 .. Len(s)})
         /\ DOMAIN s = 1 .. Len(s) /\ Len(s) \in Nat
<1>. DEFINE S == {s[i] : i \in 1 .. Len(s)}
<1>1. s \in [1 .. Len(s) -> S]
  BY DEF IsSeq
<1>2. Len(s) \in Nat
  BY DEF IsSeq
<1>. HIDE DEF S
<1>3. s \in Seq(S)
  BY <1>1, <1>2, FunctionIsSeq
<1>. QED  BY <1>1, <1>2, <1>3 DEF S

\* What Seq calls a sequence is one.
LEMMA IsSeqOf ==
  ASSUME NEW S, NEW s \in Seq(S)
  PROVE  IsSeq(s)
BY LenProperties DEF IsSeq

\* A function on 1 .. n is a sequence, of length n.
LEMMA IsSeqFunction ==
  ASSUME NEW n \in Nat, NEW s, s = [i \in 1 .. n |-> s[i]]
  PROVE  IsSeq(s) /\ Len(s) = n
<1>. DEFINE S == {s[i] : i \in 1 .. n}
<1>1. s \in [1 .. n -> S]
  OBVIOUS
<1>. HIDE DEF S
<1>2. s \in Seq(S)
  BY <1>1, FunctionIsSeq
<1>3. Len(s) = n
  BY <1>1, <1>2
<1>. QED  BY <1>2, <1>3, IsSeqOf

\* The empty sequence.
LEMMA EmptyIs == IsSeq(<<>>) /\ Len(<<>>) = 0
<1>1. <<>> \in Seq({}) /\ Len(<<>>) = 0
  OBVIOUS
<1>. QED  BY <1>1, IsSeqOf

\* A sequence of one.
LEMMA OneIs ==
  ASSUME NEW x
  PROVE  IsSeq(<<x>>) /\ Len(<<x>>) = 1 /\ <<x>>[1] = x /\ Append(<<>>, x) = <<x>>
<1>1. <<x>> \in Seq({x}) /\ Len(<<x>>) = 1 /\ <<x>>[1] = x
  OBVIOUS
<1>2. Append(<<>>, x) = <<x>>
  OBVIOUS
<1>. QED  BY <1>1, <1>2, IsSeqOf

\* Sequences are equal when their elements are.
LEMMA SameSeq ==
  ASSUME NEW s, IsSeq(s), NEW t, IsSeq(t), Len(s) = Len(t),
         \A i \in 1 .. Len(s) : s[i] = t[i]
  PROVE  s = t
<1>1. [i \in 1 .. Len(s) |-> s[i]] = [i \in 1 .. Len(t) |-> t[i]]
  OBVIOUS
<1>. QED  BY <1>1, Zenon DEF IsSeq

\* Concatenation, for sequences of anything.
LEMMA ConcatIs ==
  ASSUME NEW s, IsSeq(s), NEW t, IsSeq(t)
  PROVE  /\ IsSeq(s \o t) /\ Len(s \o t) = Len(s) + Len(t)
         /\ \A i \in 1 .. Len(s) + Len(t) : (s \o t)[i] = IF i <= Len(s) THEN s[i] ELSE t[i - Len(s)]
<1>. DEFINE S == {s[i] : i \in 1 .. Len(s)}
            T == {t[i] : i \in 1 .. Len(t)}
<1>1. s \in Seq(S) /\ t \in Seq(T)
  BY SeqIs
<1>. HIDE DEF S, T
<1>2. s \in Seq(S \cup T)
  BY <1>1, SeqMonotonic
<1>3. t \in Seq(S \cup T)
  BY <1>1, SeqMonotonic
<1>4. s \o t \in Seq(S \cup T)
  BY <1>2, <1>3
<1>. QED  BY <1>2, <1>3, <1>4, ConcatProperties, IsSeqOf

\* Appending, for sequences of anything.
LEMMA AppendIs ==
  ASSUME NEW s, IsSeq(s), NEW x
  PROVE  /\ IsSeq(Append(s, x)) /\ Len(Append(s, x)) = Len(s) + 1
         /\ \A i \in 1 .. Len(s) : Append(s, x)[i] = s[i]
         /\ Append(s, x)[Len(s) + 1] = x
<1>. DEFINE S == {s[i] : i \in 1 .. Len(s)}
<1>1. s \in Seq(S)
  BY SeqIs
<1>. HIDE DEF S
<1>2. s \in Seq(S \cup {x})
  BY <1>1, SeqMonotonic
<1>3. Append(s, x) \in Seq(S \cup {x})
  BY <1>2
<1>4. IsSeq(Append(s, x))
  BY <1>3, IsSeqOf
<1>. QED  BY <1>2, <1>4

\* The first elements of a sequence, and any that follow one another.
LEMMA SubSeqIs ==
  ASSUME NEW s, IsSeq(s), NEW m \in Nat \ {0}, NEW n \in Nat, n <= Len(s)
  PROVE  /\ IsSeq(SubSeq(s, m, n)) /\ Len(SubSeq(s, m, n)) = IF m <= n THEN n - m + 1 ELSE 0
         /\ \A i \in 1 .. n - m + 1 : SubSeq(s, m, n)[i] = s[m + i - 1]
<1>. DEFINE S == {s[i] : i \in 1 .. Len(s)}
<1>1. \A i \in m .. n : s[i] \in S
  BY SeqIs
<1>. HIDE DEF S
<1>2. /\ SubSeq(s, m, n) \in Seq(S)
      /\ Len(SubSeq(s, m, n)) = IF m <= n THEN n - m + 1 ELSE 0
      /\ \A i \in 1 .. n - m + 1 : SubSeq(s, m, n)[i] = s[m + i - 1]
  BY <1>1, SubSeqProperties
<1>. QED  BY <1>2, IsSeqOf

\* All elements but the last, and the last.
LEMMA FrontAndLast ==
  ASSUME NEW s, IsSeq(s), NEW n \in 1 .. Len(s)
  PROVE  SubSeq(s, 1, n) = Append(SubSeq(s, 1, n - 1), s[n])
<1>1. n \in Nat /\ n - 1 \in Nat /\ n <= Len(s) /\ n - 1 <= Len(s) /\ Len(s) \in Nat
  BY DEF IsSeq
<1>2. PICK f : f = SubSeq(s, 1, n - 1)
  OBVIOUS
<1>3. IsSeq(f) /\ Len(f) = n - 1 /\ \A i \in 1 .. n - 1 : f[i] = s[i]
  BY <1>1, <1>2, SubSeqIs
<1>4. PICK g : g = SubSeq(s, 1, n)
  OBVIOUS
<1>5. IsSeq(g) /\ Len(g) = n /\ \A i \in 1 .. n : g[i] = s[i]
  BY <1>1, <1>4, SubSeqIs
<1>6. PICK h : h = Append(f, s[n])
  OBVIOUS
<1>7. IsSeq(h) /\ Len(h) = n /\ (\A i \in 1 .. n - 1 : h[i] = f[i]) /\ h[n] = s[n]
  BY <1>1, <1>3, <1>6, AppendIs
<1>8. \A i \in 1 .. n : g[i] = h[i]
  BY <1>1, <1>3, <1>5, <1>7
<1>. QED  BY <1>2, <1>4, <1>5, <1>6, <1>7, <1>8, SameSeq

\* Concatenation with the empty sequence.
LEMMA ConcatEmpty ==
  ASSUME NEW s, IsSeq(s)
  PROVE  s \o <<>> = s /\ <<>> \o s = s
<1>1. s \in Seq({s[i] : i \in 1 .. Len(s)})
  BY SeqIs
<1>. QED  BY <1>1, ConcatEmptySeq

\* Concatenation with a sequence that has one more.
LEMMA ConcatAppend ==
  ASSUME NEW s, IsSeq(s), NEW t, IsSeq(t), NEW x
  PROVE  s \o Append(t, x) = Append(s \o t, x)
<1>1. PICK u : u = Append(t, x)
  OBVIOUS
<1>2. IsSeq(u) /\ Len(u) = Len(t) + 1 /\ (\A i \in 1 .. Len(t) : u[i] = t[i]) /\ u[Len(t) + 1] = x
  BY <1>1, AppendIs
<1>3. PICK v : v = s \o t
  OBVIOUS
<1>4. /\ IsSeq(v) /\ Len(v) = Len(s) + Len(t)
      /\ \A i \in 1 .. Len(s) + Len(t) : v[i] = IF i <= Len(s) THEN s[i] ELSE t[i - Len(s)]
  BY <1>3, ConcatIs
<1>5. PICK a : a = s \o u
  OBVIOUS
<1>6. /\ IsSeq(a) /\ Len(a) = Len(s) + Len(u)
      /\ \A i \in 1 .. Len(s) + Len(u) : a[i] = IF i <= Len(s) THEN s[i] ELSE u[i - Len(s)]
  BY <1>2, <1>5, ConcatIs
<1>7. PICK b : b = Append(v, x)
  OBVIOUS
<1>8. IsSeq(b) /\ Len(b) = Len(v) + 1 /\ (\A i \in 1 .. Len(v) : b[i] = v[i]) /\ b[Len(v) + 1] = x
  BY <1>4, <1>7, AppendIs
<1>9. Len(s) \in Nat /\ Len(t) \in Nat
  BY DEF IsSeq
<1>10. ASSUME NEW i \in 1 .. Len(a) PROVE a[i] = b[i]
  <2>1. CASE i <= Len(s)
    BY <1>2, <1>4, <1>6, <1>8, <1>9, <2>1
  <2>2. CASE i > Len(s) /\ i <= Len(s) + Len(t)
    <3>1. i - Len(s) \in 1 .. Len(t)
      BY <1>9, <2>2
    <3>2. i \in 1 .. Len(s) + Len(u) /\ i \in 1 .. Len(v) /\ ~(i <= Len(s))
      BY <1>2, <1>4, <1>6, <1>9, <2>2
    <3>3. a[i] = u[i - Len(s)] /\ b[i] = v[i]
      BY <1>6, <1>8, <3>2
    <3>4. v[i] = t[i - Len(s)] /\ u[i - Len(s)] = t[i - Len(s)]
      BY <1>2, <1>4, <3>1, <3>2
    <3>. QED  BY <3>3, <3>4
  <2>3. CASE i = Len(s) + Len(t) + 1
    <3>1. i - Len(s) = Len(t) + 1 /\ ~(i <= Len(s))
      BY <1>9, <2>3
    <3>. QED  BY <1>2, <1>4, <1>6, <1>8, <1>9, <2>3, <3>1
  <2>. QED  BY <1>2, <1>6, <1>9, <2>1, <2>2, <2>3
<1>11. Len(a) = Len(b)
  BY <1>2, <1>4, <1>6, <1>8, <1>9
<1>. QED  BY <1>1, <1>3, <1>5, <1>6, <1>7, <1>8, <1>10, <1>11, SameSeq

-----------------------------------------------------------------------------
(* The loop that parses *)

\* The equation of the messages after each of the first n pieces.
Reads(fields, into, pieces, n, f) ==
  [i \in 0 .. n |-> IF i = 0 THEN into ELSE TakePiece(fields, f[i - 1], pieces[i])]

\* It has a solution: if not, there is a first piece with which it has none.
LEMMA ReadsExist ==
  ASSUME NEW fields, NEW into, NEW pieces, NEW N \in Nat
  PROVE  \E f : f = Reads(fields, into, pieces, N, f)
<1>. DEFINE T == {n \in 0 .. N : ~ \E f : f = Reads(fields, into, pieces, n, f)}
<1>1. SUFFICES ASSUME T # {} PROVE FALSE
  OBVIOUS
<1>2. PICK n \in T : \A m \in T : n <= m
  <2>1. T \in SUBSET Nat
    OBVIOUS
  <2>. QED  BY <1>1, <2>1, LeastIn
<1>3. CASE n = 0
  <2>1. [i \in 0 .. 0 |-> into] = Reads(fields, into, pieces, 0, [i \in 0 .. 0 |-> into])
    BY DEF Reads
  <2>. QED  BY <1>2, <1>3, <2>1
<1>4. CASE n # 0
  <2>1. n - 1 \in 0 .. N /\ ~(n <= n - 1) /\ n \in Nat
    BY <1>2, <1>4
  <2>2. PICK g : g = Reads(fields, into, pieces, n - 1, g)
    BY <1>2, <2>1
  <2>3. \A i \in 0 .. n - 1 : g[i] = IF i = 0 THEN into ELSE TakePiece(fields, g[i - 1], pieces[i])
    BY <2>2, Zenon DEF Reads
  <2>. DEFINE f == [i \in 0 .. n |-> IF i = n THEN TakePiece(fields, g[n - 1], pieces[n]) ELSE g[i]]
  <2>4. \A i \in 0 .. n : i # n => i \in 0 .. n - 1 /\ (i # 0 => i - 1 \in 0 .. n /\ i - 1 # n)
    BY <2>1
  <2>5. ASSUME NEW i \in 0 .. n
        PROVE  f[i] = IF i = 0 THEN into ELSE TakePiece(fields, f[i - 1], pieces[i])
    <3>1. CASE i = n
      <4>1. n - 1 \in 0 .. n /\ n - 1 # n
        BY <2>1
      <4>2. f[n - 1] = g[n - 1] /\ f[n] = TakePiece(fields, g[n - 1], pieces[n])
        BY <2>1, <4>1
      <4>. HIDE DEF f
      <4>. QED  BY <1>4, <3>1, <4>2
    <3>2. CASE i # n
      <4>1. f[i] = g[i] /\ (i # 0 => f[i - 1] = g[i - 1])
        BY <2>4, <3>2
      <4>. HIDE DEF f
      <4>. QED  BY <2>3, <2>4, <3>2, <4>1
    <3>. QED  BY <3>1, <3>2
  <2>6. f = Reads(fields, into, pieces, n, f)
    <3>1. f = [i \in 0 .. n |-> f[i]]
      OBVIOUS
    <3>. HIDE DEF f
    <3>. QED  BY <2>5, <3>1 DEF Reads
  <2>. QED  BY <1>2, <2>6
<1>. QED  BY <1>3, <1>4

\* What is parsed is the last message of any solution.
LEMMA ParseIs ==
  ASSUME NEW fields, NEW into, NEW pieces, Len(pieces) \in Nat,
         NEW f, \A i \in 0 .. Len(pieces) :
                   f[i] = IF i = 0 THEN into ELSE TakePiece(fields, f[i - 1], pieces[i])
  PROVE  InternalParse(fields, into, pieces) = f[Len(pieces)]
<1>. DEFINE N == Len(pieces)
            read == CHOOSE g : g = Reads(fields, into, pieces, N, g)
<1>1. read = Reads(fields, into, pieces, N, read)
  BY ReadsExist, Zenon
<1>2. InternalParse(fields, into, pieces) = read[N]
  BY Zenon DEF InternalParse, Reads
<1>. HIDE DEF read
<1>3. \A i \in 0 .. N : read[i] = IF i = 0 THEN into ELSE TakePiece(fields, read[i - 1], pieces[i])
  BY <1>1, Zenon DEF Reads
<1>. DEFINE T == {i \in 0 .. N : read[i] # f[i]}
<1>4. T = {}
  <2>1. SUFFICES ASSUME T # {} PROVE FALSE
    OBVIOUS
  <2>2. T \in SUBSET Nat
    OBVIOUS
  <2>3. PICK n \in T : \A m \in T : n <= m
    BY <2>1, <2>2, LeastIn
  <2>4. n # 0 => n - 1 \in 0 .. N /\ ~(n <= n - 1)
    OBVIOUS
  <2>5. n # 0 => read[n - 1] = f[n - 1]
    BY <2>3, <2>4
  <2>6. read[n] = f[n]
    BY <1>3, <2>5, Zenon
  <2>. QED  BY <2>6
<1>5. N \in 0 .. N
  OBVIOUS
<1>. QED  BY <1>2, <1>4, <1>5

\* Nothing is parsed from nothing.
LEMMA ParseNothing ==
  ASSUME NEW fields, NEW into
  PROVE  InternalParse(fields, into, <<>>) = into
<1>. DEFINE f == [i \in 0 .. 0 |-> into]
<1>1. Len(<<>>) = 0
  BY EmptyIs
<1>2. \A i \in 0 .. 0 : i = 0 /\ f[i] = into
  OBVIOUS
<1>. HIDE DEF f
<1>3. \A i \in 0 .. 0 : f[i] = IF i = 0 THEN into ELSE TakePiece(fields, f[i - 1], <<>>[i])
  BY <1>2, Zenon
<1>4. PICK p : p = <<>>
  OBVIOUS
<1>5. InternalParse(fields, into, p) = f[0]
  BY <1>1, <1>3, <1>4, ParseIs
<1>. QED  BY <1>2, <1>4, <1>5

\* One more piece is taken after the others.
LEMMA ParseAppend ==
  ASSUME NEW fields, NEW into, NEW s, IsSeq(s), NEW x
  PROVE  InternalParse(fields, into, Append(s, x))
           = TakePiece(fields, InternalParse(fields, into, s), x)
<1>. DEFINE N == Len(s)
<1>1. N \in Nat
  BY DEF IsSeq
<1>2. PICK t : t = Append(s, x)
  OBVIOUS
<1>3. Len(t) = N + 1 /\ (\A i \in 1 .. N : t[i] = s[i]) /\ t[N + 1] = x
  BY <1>2, AppendIs
<1>4. N + 1 \in Nat
  BY <1>1
<1>5. PICK g : g = Reads(fields, into, t, N + 1, g)
  BY <1>4, ReadsExist
<1>6. \A i \in 0 .. N + 1 : g[i] = IF i = 0 THEN into ELSE TakePiece(fields, g[i - 1], t[i])
  BY <1>5, Zenon DEF Reads
<1>7. InternalParse(fields, into, t) = g[N + 1]
  BY <1>3, <1>4, <1>6, ParseIs
<1>8. \A i \in 0 .. N : g[i] = IF i = 0 THEN into ELSE TakePiece(fields, g[i - 1], s[i])
  BY <1>1, <1>3, <1>6
<1>9. InternalParse(fields, into, s) = g[N]
  BY <1>1, <1>8, ParseIs
<1>10. g[N + 1] = TakePiece(fields, g[N], x)
  <2>1. N + 1 \in 0 .. N + 1 /\ N + 1 # 0 /\ N + 1 - 1 = N
    BY <1>1
  <2>. QED  BY <1>3, <1>6, <2>1
<1>. QED  BY <1>2, <1>7, <1>9, <1>10

\* What follows is parsed into what was there.
LEMMA ParseConcat ==
  ASSUME NEW fields, NEW into, NEW s, IsSeq(s), NEW t, IsSeq(t)
  PROVE  InternalParse(fields, into, s \o t)
           = InternalParse(fields, InternalParse(fields, into, s), t)
<1>. DEFINE N == Len(t)
            Front(n) == SubSeq(t, 1, n)
            Equal(n) == InternalParse(fields, into, s \o Front(n))
                          = InternalParse(fields, InternalParse(fields, into, s), Front(n))
            T == {n \in 0 .. N : ~Equal(n)}
<1>1. N \in Nat
  BY DEF IsSeq
<1>2. \A n \in 0 .. N : IsSeq(Front(n)) /\ Len(Front(n)) = n
  BY <1>1, SubSeqIs
<1>3. Equal(0)
  <2>1. IsSeq(Front(0)) /\ Len(Front(0)) = 0
    BY <1>1, <1>2
  <2>2. Front(0) = <<>>
    BY <2>1, EmptyIs, SameSeq
  <2>. QED  BY <2>2, ConcatEmpty, ParseNothing
<1>4. ASSUME NEW n \in 1 .. N, Equal(n - 1) PROVE Equal(n)
  <2>1. Front(n) = Append(Front(n - 1), t[n])
    BY FrontAndLast
  <2>2. n - 1 \in 0 .. N
    BY <1>1
  <2>. HIDE DEF Front
  <2>3. PICK f : f = Front(n - 1) /\ IsSeq(f)
    BY <1>2, <2>2
  <2>4. s \o Append(f, t[n]) = Append(s \o f, t[n]) /\ IsSeq(s \o f)
    <3>1. IsSeq(s \o f)
      BY <2>3, ConcatIs
    <3>. QED  BY <2>3, <3>1, ConcatAppend
  <2>5. PICK r : r = InternalParse(fields, into, s)
    OBVIOUS
  <2>6. InternalParse(fields, into, Append(s \o f, t[n]))
          = TakePiece(fields, InternalParse(fields, into, s \o f), t[n])
    BY <2>4, ParseAppend
  <2>7. InternalParse(fields, r, Append(f, t[n])) = TakePiece(fields, InternalParse(fields, r, f), t[n])
    BY <2>3, ParseAppend
  <2>. QED  BY <1>4, <2>1, <2>3, <2>4, <2>5, <2>6, <2>7, Zenon
<1>. HIDE DEF Equal
<1>5. T = {}
  <2>1. SUFFICES ASSUME T # {} PROVE FALSE
    OBVIOUS
  <2>2. T \in SUBSET Nat
    OBVIOUS
  <2>3. PICK n \in T : \A m \in T : n <= m
    BY <2>1, <2>2, LeastIn
  <2>4. n # 0 => n \in 1 .. N /\ n - 1 \in 0 .. N /\ ~(n <= n - 1)
    BY <1>1
  <2>. QED  BY <1>3, <1>4, <2>3, <2>4
<1>6. Equal(N)
  BY <1>1, <1>5
<1>7. Front(N) = t
  <2>1. PICK f : f = Front(N)
    OBVIOUS
  <2>2. IsSeq(f) /\ Len(f) = N /\ \A i \in 1 .. N : f[i] = t[i]
    BY <1>1, <2>1, SubSeqIs
  <2>. QED  BY <2>1, <2>2, SameSeq
<1>. QED  BY <1>6, <1>7 DEF Equal

-----------------------------------------------------------------------------
(* What is written and read again *)

\* The equation of what is written after each of the first n fields.
Writes(fields, message, n, f) ==
  [i \in 0 .. n |-> IF i = 0 THEN <<>>
                    ELSE f[i - 1] \o FieldPieces(fields[i].kind, i, message[fields[i].name])]

\* It has a solution.
LEMMA WritesExist ==
  ASSUME NEW fields, NEW message, NEW N \in Nat
  PROVE  \E f : f = Writes(fields, message, N, f)
<1>. DEFINE T == {n \in 0 .. N : ~ \E f : f = Writes(fields, message, n, f)}
            Pieces(i) == FieldPieces(fields[i].kind, i, message[fields[i].name])
<1>1. SUFFICES ASSUME T # {} PROVE FALSE
  OBVIOUS
<1>2. PICK n \in T : \A m \in T : n <= m
  <2>1. T \in SUBSET Nat
    OBVIOUS
  <2>. QED  BY <1>1, <2>1, LeastIn
<1>3. CASE n = 0
  <2>1. [i \in 0 .. 0 |-> <<>>] = Writes(fields, message, 0, [i \in 0 .. 0 |-> <<>>])
    BY DEF Writes
  <2>. QED  BY <1>2, <1>3, <2>1
<1>4. CASE n # 0
  <2>1. n - 1 \in 0 .. N /\ ~(n <= n - 1) /\ n \in Nat
    BY <1>2, <1>4
  <2>2. PICK g : g = Writes(fields, message, n - 1, g)
    BY <1>2, <2>1
  <2>3. \A i \in 0 .. n - 1 : g[i] = IF i = 0 THEN <<>> ELSE g[i - 1] \o Pieces(i)
    BY <2>2, Zenon DEF Writes
  <2>. HIDE DEF Pieces
  <2>. DEFINE f == [i \in 0 .. n |-> IF i = n THEN g[n - 1] \o Pieces(n) ELSE g[i]]
  <2>4. \A i \in 0 .. n : i # n => i \in 0 .. n - 1 /\ (i # 0 => i - 1 \in 0 .. n /\ i - 1 # n)
    BY <2>1
  <2>5. ASSUME NEW i \in 0 .. n
        PROVE  f[i] = IF i = 0 THEN <<>> ELSE f[i - 1] \o Pieces(i)
    <3>1. CASE i = n
      <4>1. n - 1 \in 0 .. n /\ n - 1 # n
        BY <2>1
      <4>2. f[n - 1] = g[n - 1] /\ f[n] = g[n - 1] \o Pieces(n)
        BY <2>1, <4>1
      <4>. HIDE DEF f
      <4>. QED  BY <1>4, <3>1, <4>2, Zenon
    <3>2. CASE i # n
      <4>1. f[i] = g[i] /\ (i # 0 => f[i - 1] = g[i - 1])
        BY <2>4, <3>2
      <4>. HIDE DEF f
      <4>. QED  BY <2>3, <2>4, <3>2, <4>1, Zenon
    <3>. QED  BY <3>1, <3>2
  <2>6. f = Writes(fields, message, n, f)
    <3>1. f = [i \in 0 .. n |-> f[i]]
      OBVIOUS
    <3>. HIDE DEF f
    <3>2. [i \in 0 .. n |-> f[i]] = [i \in 0 .. n |-> IF i = 0 THEN <<>> ELSE f[i - 1] \o Pieces(i)]
      BY <2>5, Zenon
    <3>. QED  BY <3>1, <3>2, Zenon DEF Writes, Pieces
  <2>. QED  BY <1>2, <2>6
<1>. QED  BY <1>3, <1>4

\* What is written is the last of them.
LEMMA SerializeIs ==
  ASSUME NEW fields, IsSeq(fields), NEW message
  PROVE  \E f : /\ f[0] = <<>>
                /\ \A i \in 1 .. Len(fields) :
                      f[i] = f[i - 1] \o FieldPieces(fields[i].kind, i, message[fields[i].name])
                /\ InternalSerialize(fields, message) = f[Len(fields)]
<1>. DEFINE N == Len(fields)
            written == CHOOSE g : g = Writes(fields, message, N, g)
<1>1. N \in Nat
  BY DEF IsSeq
<1>2. written = Writes(fields, message, N, written)
  BY <1>1, WritesExist, Zenon
<1>3. InternalSerialize(fields, message) = written[N]
  BY Zenon DEF InternalSerialize, Writes
<1>. HIDE DEF written
<1>4. \A i \in 0 .. N :
        written[i] = IF i = 0 THEN <<>>
                     ELSE written[i - 1] \o FieldPieces(fields[i].kind, i, message[fields[i].name])
  BY <1>2, Zenon DEF Writes
<1>5. written[0] = <<>>
  BY <1>1, <1>4
<1>6. ASSUME NEW i \in 1 .. N
      PROVE  written[i] = written[i - 1] \o FieldPieces(fields[i].kind, i, message[fields[i].name])
  <2>1. i \in 0 .. N /\ i # 0
    BY <1>1
  <2>. QED  BY <1>4, <2>1, Zenon
<1>. QED  BY <1>3, <1>5, <1>6

\* A class: fields of known kinds, no two of a name; and the messages it can hold.
Kinds == {"int32", "uint32", "bool", "bytes", "entries"}
Layout(fields) ==
  /\ IsSeq(fields)
  /\ \A n \in 1 .. Len(fields) : /\ fields[n].kind \in Kinds
                                  /\ fields[n] = Field(fields[n].name, fields[n].kind)
  /\ \A m, n \in 1 .. Len(fields) : fields[m].name = fields[n].name => m = n
FitsKind(kind, value) ==
  /\ kind = "bool" => value \in BOOLEAN
  /\ kind = "entries" => IsSeq(value)
Names(fields) == {fields[n].name : n \in DOMAIN fields}
IsMessage(fields, message) == message = [name \in Names(fields) |-> message[name]]
Fits(fields, message) ==
  /\ IsMessage(fields, message)
  /\ \A n \in 1 .. Len(fields) : FitsKind(fields[n].kind, message[fields[n].name])

\* A value comes back from the wire.
LEMMA WireBack ==
  ASSUME NEW kind \in Kinds, NEW value, kind = "bool" => value \in BOOLEAN
  PROVE  SameWireType(kind, OnWire(kind, value)) /\ FromWire(kind, OnWire(kind, value)) = value
<1>1. CASE kind \in {"int32", "uint32"}
  <2>1. OnWire(kind, value) = [varint |-> value]
    BY <1>1 DEF OnWire
  <2>. QED  BY <1>1, <2>1 DEF SameWireType, FromWire
<1>2. CASE kind = "bool"
  <2>1. OnWire(kind, value) = [varint |-> IF value THEN 1 ELSE 0]
    BY <1>2 DEF OnWire
  <2>2. SameWireType(kind, OnWire(kind, value))
    BY <1>2, <2>1 DEF SameWireType
  <2>3. FromWire(kind, OnWire(kind, value)) = (OnWire(kind, value).varint # 0)
    BY <1>2 DEF FromWire
  <2>4. OnWire(kind, value).varint = IF value THEN 1 ELSE 0
    BY <2>1
  <2>. QED  BY <1>2, <2>2, <2>3, <2>4
<1>3. CASE kind \in {"bytes", "entries"}
  <2>1. OnWire(kind, value) = [bytes |-> value]
    BY <1>3 DEF OnWire
  <2>. QED  BY <1>3, <2>1 DEF SameWireType, FromWire
<1>. QED  BY <1>1, <1>2, <1>3 DEF Kinds

\* A new message has the default value of each field.
LEMMA DefaultIs ==
  ASSUME NEW fields, Layout(fields)
  PROVE  /\ IsMessage(fields, Default(fields))
         /\ \A n \in 1 .. Len(fields) : /\ fields[n].name \in Names(fields)
                                       /\ Default(fields)[fields[n].name] = Unset[fields[n].kind]
<1>1. DOMAIN fields = 1 .. Len(fields)
  BY SeqIs DEF Layout
<1>2. IsMessage(fields, Default(fields))
  BY DEF Default, Names, IsMessage
<1>3. ASSUME NEW n \in 1 .. Len(fields)
      PROVE  /\ fields[n].name \in Names(fields)
             /\ Default(fields)[fields[n].name] = Unset[fields[n].kind]
  <2>1. fields[n].name \in Names(fields)
    BY <1>1 DEF Names
  <2>2. n = CHOOSE m \in DOMAIN fields : fields[m].name = fields[n].name
    BY <1>1 DEF Layout
  <2>3. Default(fields)[fields[n].name]
          = Unset[fields[CHOOSE m \in DOMAIN fields : fields[m].name = fields[n].name].kind]
    BY <2>1, Zenon DEF Default, Names
  <2>. QED  BY <2>1, <2>2, <2>3, Zenon
<1>. QED  BY <1>2, <1>3

WithField(message, field, value) == [message EXCEPT ![field] = value]
IsField(fields, n, kind, field) ==
  n \in 1 .. Len(fields) /\ kind = fields[n].kind /\ field = fields[n].name
IsAfter(kind, before, value, after) ==
  /\ kind = "bool" => value \in BOOLEAN
  /\ after = IF kind = "entries" THEN Append(before, value) ELSE value

\* A piece of a field, taken into a message of the class.
LEMMA TakeIs ==
  ASSUME NEW fields, NEW n, NEW kind, NEW field, NEW value, NEW message, NEW after,
         Layout(fields), IsMessage(fields, message),
         IsField(fields, n, kind, field), IsAfter(kind, message[field], value, after)
  PROVE  TakePiece(fields, message, Piece(n, OnWire(kind, value))) = WithField(message, field, after)
<1>. USE DEF IsField, IsAfter
<1>. DEFINE wire == OnWire(kind, value)
            piece == Piece(n, wire)
<1>1. piece.whole /\ piece.number = n /\ piece.value = wire
  BY DEF Piece
<1>2. n \in DOMAIN fields
  BY SeqIs DEF Layout
<1>3. kind \in Kinds
  BY DEF Layout
<1>4. SameWireType(kind, wire) /\ FromWire(kind, wire) = value
  BY <1>3, WireBack
<1>. HIDE DEF piece, wire
<1>5. TakePiece(fields, message, piece)
        = [message EXCEPT ![field] =
             IF kind = "entries" THEN Append(@, FromWire(kind, wire)) ELSE FromWire(kind, wire)]
  BY <1>1, <1>2, <1>4, Zenon DEF TakePiece
<1>. QED  BY <1>4, <1>5, Zenon DEF piece, wire, WithField

\* A field that was not set yet, written and read into a message: it is set.
LEMMA OneField ==
  ASSUME NEW fields, Layout(fields), NEW n \in 1 .. Len(fields),
         NEW value, FitsKind(fields[n].kind, value),
         NEW message, IsMessage(fields, message),
         message[fields[n].name] = Unset[fields[n].kind]
  PROVE  /\ IsSeq(FieldPieces(fields[n].kind, n, value))
         /\ InternalParse(fields, message, FieldPieces(fields[n].kind, n, value))
              = [message EXCEPT ![fields[n].name] = value]
<1>. DEFINE kind == fields[n].kind
            field == fields[n].name
<1>1. field \in Names(fields) /\ kind \in Kinds
  BY DefaultIs DEF Layout
<1>2. CASE kind = "entries"
  <2>. DEFINE piece(i) == Piece(n, OnWire(kind, value[i]))
  <2>1. IsSeq(value) /\ DOMAIN value = 1 .. Len(value) /\ Len(value) \in Nat
    BY <1>2, SeqIs DEF FitsKind
  <2>. HIDE DEF piece
  <2>2. PICK pieces : pieces = [i \in 1 .. Len(value) |-> piece(i)]
    OBVIOUS
  <2>3. FieldPieces(kind, n, value) = pieces
    BY <1>2, <2>1, <2>2 DEF FieldPieces, piece
  <2>4. IsSeq(pieces) /\ Len(pieces) = Len(value)
    BY <2>1, <2>2, IsSeqFunction
  <2>. DEFINE f == [i \in 0 .. Len(value) |-> [message EXCEPT ![field] = SubSeq(value, 1, i)]]
  <2>5. message[field] = <<>>
    BY <1>2 DEF Unset
  <2>6. SubSeq(value, 1, 0) = <<>>
    <3>1. PICK z : z = 0
      OBVIOUS
    <3>2. PICK v : v = SubSeq(value, 1, z)
      OBVIOUS
    <3>3. IsSeq(v) /\ Len(v) = 0
      BY <2>1, <3>1, <3>2, SubSeqIs
    <3>. QED  BY <3>1, <3>2, <3>3, EmptyIs, SameSeq
  <2>7. f[0] = message
    <3>1. f[0] = [message EXCEPT ![field] = SubSeq(value, 1, 0)]
      BY <2>1
    <3>. HIDE DEF f
    <3>. QED  BY <2>5, <2>6, <3>1 DEF IsMessage
  <2>8. ASSUME NEW i \in 1 .. Len(value)
        PROVE  f[i] = TakePiece(fields, f[i - 1], pieces[i])
    <3>1. i \in 0 .. Len(value) /\ i - 1 \in 0 .. Len(value)
      BY <2>1
    <3>2. PICK g : g = f[i - 1]
      OBVIOUS
    <3>3. g = [message EXCEPT ![field] = SubSeq(value, 1, i - 1)]
      BY <3>1, <3>2
    <3>4. f[i] = [message EXCEPT ![field] = SubSeq(value, 1, i)]
      BY <3>1
    <3>. HIDE DEF f
    <3>5. IsMessage(fields, g) /\ g[field] = SubSeq(value, 1, i - 1)
      BY <1>1, <3>3 DEF IsMessage
    <3>6. TakePiece(fields, g, Piece(n, OnWire(kind, value[i])))
            = [g EXCEPT ![field] = Append(g[field], value[i])]
      <4>1. kind = "bool" => value[i] \in BOOLEAN
        BY <1>2
      <4>2. PICK v : v = value[i]
        OBVIOUS
      <4>3. PICK a : a = Append(g[field], v)
        OBVIOUS
      <4>4. PICK k, f1 : k = kind /\ f1 = field
        OBVIOUS
      <4>5. TakePiece(fields, g, Piece(n, OnWire(k, v))) = WithField(g, f1, a)
        <5>1. IsField(fields, n, k, f1)
          BY <4>4 DEF IsField
        <5>2. IsAfter(k, g[f1], v, a)
          BY <1>2, <4>2, <4>3, <4>4 DEF IsAfter
        <5>. QED  BY <3>5, <5>1, <5>2, TakeIs
      <4>. QED  BY <4>2, <4>3, <4>4, <4>5 DEF WithField
    <3>7. pieces[i] = Piece(n, OnWire(kind, value[i]))
      BY <2>2 DEF piece
    <3>8. SubSeq(value, 1, i) = Append(SubSeq(value, 1, i - 1), value[i])
      BY <2>1, FrontAndLast
    <3>9. [g EXCEPT ![field] = Append(g[field], value[i])] = [g EXCEPT ![field] = SubSeq(value, 1, i)]
      BY <3>5, <3>8, Zenon
    <3>10. [g EXCEPT ![field] = SubSeq(value, 1, i)] = [message EXCEPT ![field] = SubSeq(value, 1, i)]
      BY <1>1, <3>3, Zenon
    <3>. QED  BY <1>2, <3>2, <3>4, <3>6, <3>7, <3>9, <3>10, Zenon
  <2>9. f[Len(value)] = [message EXCEPT ![field] = value]
    <3>1. SubSeq(value, 1, Len(value)) = value
      <4>1. PICK v : v = SubSeq(value, 1, Len(value))
        OBVIOUS
      <4>2. IsSeq(v) /\ Len(v) = Len(value) /\ \A i \in 1 .. Len(value) : v[i] = value[i]
        BY <2>1, <4>1, SubSeqIs
      <4>. QED  BY <2>1, <4>1, <4>2, SameSeq
    <3>2. f[Len(value)] = [message EXCEPT ![field] = SubSeq(value, 1, Len(value))]
      BY <2>1
    <3>. HIDE DEF f
    <3>. QED  BY <3>1, <3>2
  <2>. HIDE DEF f
  <2>10. \A i \in 0 .. Len(pieces) : f[i] = IF i = 0 THEN message ELSE TakePiece(fields, f[i - 1], pieces[i])
    BY <2>1, <2>4, <2>7, <2>8
  <2>11. InternalParse(fields, message, pieces) = f[Len(pieces)]
    BY <2>1, <2>4, <2>10, ParseIs
  <2>. QED  BY <2>3, <2>4, <2>9, <2>11
<1>3. CASE kind # "entries" /\ value = Unset[kind]
  <2>1. FieldPieces(kind, n, value) = <<>>
    BY <1>3 DEF FieldPieces
  <2>2. [message EXCEPT ![field] = value] = message
    BY <1>1, <1>3 DEF IsMessage
  <2>. QED  BY <2>1, <2>2, EmptyIs, ParseNothing
<1>4. CASE kind # "entries" /\ value # Unset[kind]
  <2>1. PICK piece : piece = Piece(n, OnWire(kind, value))
    OBVIOUS
  <2>2. FieldPieces(kind, n, value) = <<piece>>
    BY <1>4, <2>1 DEF FieldPieces
  <2>3. PICK e : e = <<>>
    OBVIOUS
  <2>4. IsSeq(e)
    BY <2>3, EmptyIs
  <2>5. IsSeq(Append(e, piece))
    BY <2>4, AppendIs
  <2>6. InternalParse(fields, message, Append(e, piece)) = TakePiece(fields, message, piece)
    <3>1. InternalParse(fields, message, Append(e, piece))
            = TakePiece(fields, InternalParse(fields, message, e), piece)
      BY <2>4, ParseAppend
    <3>. QED  BY <2>3, <3>1, ParseNothing
  <2>7. TakePiece(fields, message, Piece(n, OnWire(kind, value))) = [message EXCEPT ![field] = value]
    <3>1. PICK k, f1 : k = kind /\ f1 = field
      OBVIOUS
    <3>2. TakePiece(fields, message, Piece(n, OnWire(k, value))) = WithField(message, f1, value)
      <4>1. IsField(fields, n, k, f1)
        BY <3>1 DEF IsField
      <4>2. IsAfter(k, message[f1], value, value)
        BY <1>4, <3>1 DEF IsAfter, FitsKind
      <4>. QED  BY <4>1, <4>2, TakeIs
    <3>. QED  BY <3>1, <3>2 DEF WithField
  <2>8. Append(e, piece) = <<piece>>
    BY <2>3
  <2>. QED  BY <2>1, <2>2, <2>5, <2>6, <2>7, <2>8, Zenon
<1>. QED  BY <1>2, <1>3, <1>4

\* A piece of a field, of which nothing is missing.
IsWhole(piece) == piece = Piece(piece.number, piece.value)
IsPiece(kind, n, value, piece) ==
  /\ IsWhole(piece) /\ piece.number = n
  /\ kind # "entries" => value # Unset[kind] /\ piece.value = OnWire(kind, value)

\* Such a piece has its end.
LEMMA WholeIs ==
  ASSUME NEW piece, IsWhole(piece)
  PROVE  piece.whole = TRUE
<1>1. PICK n, v : n = piece.number /\ v = piece.value
  OBVIOUS
<1>2. piece = Piece(n, v)
  BY <1>1 DEF IsWhole
<1>. QED  BY <1>2 DEF Piece

\* The pieces of a field: none if it is not set, and else one, or one for each entry.
LEMMA FieldPiecesAre ==
  ASSUME NEW kind, NEW n, NEW value, FitsKind(kind, value),
         NEW pieces, pieces = FieldPieces(kind, n, value)
  PROVE  /\ IsSeq(pieces) /\ \A i \in 1 .. Len(pieces) : IsPiece(kind, n, value, pieces[i])
         /\ kind # "entries" => Len(pieces) = IF value = Unset[kind] THEN 0 ELSE 1
<1>1. CASE kind = "entries"
  <2>1. IsSeq(value) /\ DOMAIN value = 1 .. Len(value) /\ Len(value) \in Nat
    BY <1>1, SeqIs DEF FitsKind
  <2>2. pieces = [i \in 1 .. Len(value) |-> Piece(n, OnWire(kind, value[i]))]
    BY <1>1, <2>1 DEF FieldPieces
  <2>3. IsSeq(pieces) /\ Len(pieces) = Len(value)
    BY <2>1, <2>2, IsSeqFunction
  <2>4. ASSUME NEW i \in 1 .. Len(pieces) PROVE IsPiece(kind, n, value, pieces[i])
    <3>1. pieces[i] = Piece(n, OnWire(kind, value[i]))
      BY <2>2, <2>3, Zenon
    <3>2. PICK x, y : x = OnWire(kind, value[i]) /\ y = pieces[i]
      OBVIOUS
    <3>3. y = Piece(n, x)
      BY <3>1, <3>2
    <3>4. IsWhole(y) /\ y.number = n
      BY <3>3 DEF IsWhole, Piece
    <3>. QED  BY <1>1, <3>2, <3>4 DEF IsPiece
  <2>. QED  BY <1>1, <2>3, <2>4
<1>2. CASE kind # "entries" /\ value = Unset[kind]
  <2>1. pieces = <<>>
    BY <1>2 DEF FieldPieces
  <2>2. IsSeq(pieces) /\ Len(pieces) = 0
    BY <2>1, EmptyIs
  <2>. QED  BY <1>2, <2>2
<1>3. CASE kind # "entries" /\ value # Unset[kind]
  <2>1. PICK piece : piece = Piece(n, OnWire(kind, value))
    OBVIOUS
  <2>2. pieces = <<piece>>
    BY <1>3, <2>1 DEF FieldPieces
  <2>3. PICK e : e = <<>>
    OBVIOUS
  <2>4. IsSeq(e) /\ Len(e) = 0
    BY <2>3, EmptyIs
  <2>5. PICK a : a = Append(e, piece)
    OBVIOUS
  <2>6. IsSeq(a) /\ Len(a) = 1 /\ a[1] = piece
    <3>1. IsSeq(a) /\ Len(a) = Len(e) + 1 /\ a[Len(e) + 1] = piece
      BY <2>4, <2>5, AppendIs
    <3>. QED  BY <2>4, <3>1
  <2>7. a = pieces
    BY <2>2, <2>3, <2>5
  <2>8. IsPiece(kind, n, value, piece)
    BY <1>3, <2>1 DEF IsPiece, IsWhole, Piece
  <2>9. ASSUME NEW i \in 1 .. Len(pieces) PROVE pieces[i] = piece
    <3>1. Len(pieces) = 1 /\ pieces[1] = piece
      BY <2>6, <2>7, Zenon
    <3>2. i = 1
      BY <3>1
    <3>. QED  BY <3>1, <3>2, Zenon
  <2>. QED  BY <1>3, <2>6, <2>7, <2>8, <2>9
<1>. QED  BY <1>1, <1>2, <1>3

\* A piece of one of the first n fields of a message.
WrittenPiece(fields, message, n, piece) ==
  /\ piece.number \in 1 .. n
  /\ LET field == fields[piece.number]
     IN IsPiece(field.kind, piece.number, message[field.name], piece)

\* What is written of a message: pieces of its fields, and they are read as the message.
LEMMA RoundTrip ==
  ASSUME NEW fields, NEW message, Layout(fields), Fits(fields, message),
         NEW pieces, pieces = InternalSerialize(fields, message)
  PROVE  /\ IsSeq(pieces)
         /\ \A i \in 1 .. Len(pieces) : WrittenPiece(fields, message, Len(fields), pieces[i])
         /\ InternalParse(fields, Default(fields), pieces) = message
         /\ \A i \in 1 .. Len(pieces) :
               pieces[i].number = Len(fields) /\ fields[Len(fields)].kind # "entries" => i = Len(pieces)
<1>. DEFINE N == Len(fields)
            Of(n) == FieldPieces(fields[n].kind, n, message[fields[n].name])
            Set(n) == [name \in Names(fields) |->
                         IF \E k \in 1 .. n : fields[k].name = name THEN message[name]
                         ELSE Default(fields)[name]]
<1>1. N \in Nat /\ DOMAIN fields = 1 .. N
  BY SeqIs DEF Layout
<1>2. PICK f : /\ f[0] = <<>> /\ \A n \in 1 .. N : f[n] = f[n - 1] \o Of(n)
               /\ pieces = f[N]
  BY SerializeIs DEF Layout
<1>. DEFINE Good(n) == /\ IsSeq(f[n])
                       /\ \A i \in 1 .. Len(f[n]) : WrittenPiece(fields, message, n, f[n][i])
                       /\ InternalParse(fields, Default(fields), f[n]) = Set(n)
<1>3. Good(0)
  <2>1. Set(0) = Default(fields)
    BY DefaultIs DEF IsMessage
  <2>2. IsSeq(f[0]) /\ Len(f[0]) = 0
    BY <1>2, EmptyIs
  <2>3. InternalParse(fields, Default(fields), f[0]) = Default(fields)
    BY <1>2, ParseNothing
  <2>. HIDE DEF Set
  <2>. QED  BY <2>1, <2>2, <2>3
<1>4. ASSUME NEW n \in 1 .. N, Good(n - 1) PROVE Good(n)
  <2>. DEFINE kind == fields[n].kind
              field == fields[n].name
              value == message[field]
  <2>1. PICK p : p = Of(n)
    OBVIOUS
  <2>2. FitsKind(kind, value)
    BY DEF Fits
  <2>3. /\ IsSeq(p) /\ \A i \in 1 .. Len(p) : IsPiece(kind, n, value, p[i])
    BY <2>1, <2>2, FieldPiecesAre
  <2>4. PICK q : q = f[n - 1]
    OBVIOUS
  <2>5. IsSeq(q) /\ f[n] = q \o p
    BY <1>2, <1>4, <2>1, <2>4
  <2>6. PICK r : r = q \o p
    OBVIOUS
  <2>7. /\ IsSeq(r) /\ Len(r) = Len(q) + Len(p)
        /\ \A i \in 1 .. Len(q) + Len(p) : r[i] = IF i <= Len(q) THEN q[i] ELSE p[i - Len(q)]
    BY <2>3, <2>5, <2>6, ConcatIs
  <2>8. ASSUME NEW i \in 1 .. Len(r) PROVE WrittenPiece(fields, message, n, r[i])
    <3>1. Len(q) \in Nat /\ Len(p) \in Nat
      BY <2>3, <2>5 DEF IsSeq
    <3>2. CASE i <= Len(q)
      <4>1. r[i] = q[i] /\ i \in 1 .. Len(q)
        BY <2>7, <3>1, <3>2
      <4>2. WrittenPiece(fields, message, n - 1, q[i])
        BY <1>4, <2>4, <4>1
      <4>3. q[i].number \in 1 .. n
        BY <1>1, <4>2 DEF WrittenPiece
      <4>. QED  BY <4>1, <4>2, <4>3 DEF WrittenPiece
    <3>3. CASE ~(i <= Len(q))
      <4>1. r[i] = p[i - Len(q)] /\ i - Len(q) \in 1 .. Len(p)
        BY <2>7, <3>1, <3>3
      <4>2. IsPiece(kind, n, value, r[i])
        BY <2>3, <4>1
      <4>3. r[i].number = n /\ n \in 1 .. n
        BY <1>1, <4>2 DEF IsPiece
      <4>. QED  BY <4>2, <4>3 DEF WrittenPiece
    <3>. QED  BY <3>2, <3>3
  <2>9. InternalParse(fields, Default(fields), r) = Set(n)
    <3>1. PICK d : d = Default(fields)
      OBVIOUS
    <3>2. PICK s : s = Set(n - 1)
      OBVIOUS
    <3>3. InternalParse(fields, d, q) = s
      BY <1>4, <2>4, <3>1, <3>2
    <3>4. InternalParse(fields, d, r) = InternalParse(fields, s, p)
      BY <2>3, <2>5, <2>6, <3>3, ParseConcat
    <3>5. IsMessage(fields, s)
      BY <3>2 DEF IsMessage
    <3>6. s[field] = Unset[kind]
      <4>1. ~ \E k \in 1 .. n - 1 : fields[k].name = field
        BY <1>1 DEF Layout
      <4>2. s[field] = Default(fields)[field]
        BY <1>1, <3>2, <4>1, DefaultIs
      <4>. QED  BY <4>2, DefaultIs
    <3>7. PICK v : v = value
      OBVIOUS
    <3>8. InternalParse(fields, s, FieldPieces(kind, n, v)) = [s EXCEPT ![field] = v]
      BY <2>2, <3>5, <3>6, <3>7, OneField
    <3>9. [s EXCEPT ![field] = v] = Set(n)
      <4>1. \A name \in Names(fields) : (\E k \in 1 .. n : fields[k].name = name)
                                         <=> name = field \/ \E k \in 1 .. n - 1 : fields[k].name = name
        BY <1>1
      <4>. QED  BY <3>2, <3>7, <4>1
    <3>. QED  BY <2>1, <3>1, <3>4, <3>7, <3>8, <3>9, Zenon
  <2>. HIDE DEF Set
  <2>. QED  BY <2>5, <2>6, <2>7, <2>8, <2>9
<1>. HIDE DEF Good
<1>. DEFINE T == {n \in 0 .. N : ~Good(n)}
<1>5. T = {}
  <2>1. SUFFICES ASSUME T # {} PROVE FALSE
    OBVIOUS
  <2>2. T \in SUBSET Nat
    OBVIOUS
  <2>3. PICK n \in T : \A m \in T : n <= m
    BY <2>1, <2>2, LeastIn
  <2>4. n # 0 => n \in 1 .. N /\ n - 1 \in 0 .. N /\ ~(n <= n - 1)
    BY <1>1
  <2>. QED  BY <1>3, <1>4, <2>3, <2>4
<1>6. Good(N)
  BY <1>1, <1>5
<1>7. Set(N) = message
  <2>1. \A name \in Names(fields) : \E k \in 1 .. N : fields[k].name = name
    BY <1>1 DEF Names
  <2>. QED  BY <2>1 DEF Fits, IsMessage
<1>. HIDE DEF Set
<1>8. ASSUME NEW i \in 1 .. Len(pieces), pieces[i].number = N, fields[N].kind # "entries"
      PROVE  i = Len(pieces)
  <2>1. WrittenPiece(fields, message, N, pieces[i])
    BY <1>2, <1>6 DEF Good
  <2>2. N \in 1 .. N /\ N - 1 \in 0 .. N
    BY <1>1, <1>8, <2>1 DEF WrittenPiece
  <2>3. PICK p, q : p = Of(N) /\ q = f[N - 1]
    OBVIOUS
  <2>4. IsSeq(q) /\ \A k \in 1 .. Len(q) : WrittenPiece(fields, message, N - 1, q[k])
    BY <1>5, <2>2, <2>3 DEF Good
  <2>5. IsSeq(p) /\ Len(p) \in {0, 1}
    <3>1. PICK kind, value : kind = fields[N].kind /\ value = message[fields[N].name]
      OBVIOUS
    <3>2. FitsKind(kind, value) /\ p = FieldPieces(kind, N, value) /\ kind # "entries"
      BY <1>8, <2>2, <2>3, <3>1 DEF Fits
    <3>. QED  BY <3>2, FieldPiecesAre
  <2>6. pieces = q \o p
    BY <1>2, <2>2, <2>3
  <2>7. /\ Len(pieces) = Len(q) + Len(p)
        /\ \A k \in 1 .. Len(q) + Len(p) : pieces[k] = IF k <= Len(q) THEN q[k] ELSE p[k - Len(q)]
    BY <2>4, <2>5, <2>6, ConcatIs
  <2>8. Len(q) \in Nat
    BY <2>4 DEF IsSeq
  <2>9. ~(i <= Len(q))
    <3>1. SUFFICES ASSUME i <= Len(q) PROVE FALSE
      OBVIOUS
    <3>2. pieces[i] = q[i] /\ i \in 1 .. Len(q)
      BY <2>5, <2>7, <2>8, <3>1
    <3>3. q[i].number \in 1 .. N - 1
      BY <2>4, <3>2 DEF WrittenPiece
    <3>. QED  BY <1>1, <1>8, <3>2, <3>3
  <2>. QED  BY <2>5, <2>7, <2>8, <2>9
<1>. QED  BY <1>2, <1>6, <1>7, <1>8 DEF Good

-----------------------------------------------------------------------------
(* The messages, with their entries *)

\* A field of entries is told by its kind.
LEMMA EntriesKind ==
  ASSUME NEW fields, Layout(fields), NEW n \in 1 .. Len(fields)
  PROVE  IsEntries(fields, fields[n].name) <=> fields[n].kind = "entries"
<1>1. DOMAIN fields = 1 .. Len(fields)
  BY SeqIs DEF Layout
<1>2. ASSUME IsEntries(fields, fields[n].name) PROVE fields[n].kind = "entries"
  <2>1. PICK m \in 1 .. Len(fields) : fields[m] = Field(fields[n].name, "entries")
    BY <1>1, <1>2 DEF IsEntries
  <2>2. fields[m].name = fields[n].name /\ fields[m].kind = "entries"
    BY <2>1 DEF Field
  <2>3. m = n
    BY <2>2 DEF Layout
  <2>. QED  BY <2>2, <2>3
<1>3. ASSUME fields[n].kind = "entries" PROVE IsEntries(fields, fields[n].name)
  <2>1. fields[n] = Field(fields[n].name, "entries")
    BY <1>3 DEF Layout
  <2>. QED  BY <1>1, <2>1 DEF IsEntries
<1>. QED  BY <1>2, <1>3

\* A class can hold the message, and the entries in it.
Holds(fields, message) ==
  /\ Fits(fields, message)
  /\ \A n \in 1 .. Len(fields) : fields[n].kind = "entries" =>
       \A i \in 1 .. Len(message[fields[n].name]) : Fits(LogEntryFields, message[fields[n].name][i])

\* An entry comes back as it was.
LEMMA EntryBack ==
  ASSUME Layout(LogEntryFields), NEW entry, Fits(LogEntryFields, entry)
  PROVE  ParseEntry(SerializeEntry(entry)) = entry
BY RoundTrip DEF ParseEntry, SerializeEntry

\* A message comes back as it was.
LEMMA MessageBack ==
  ASSUME Layout(LogEntryFields), NEW fields, Layout(fields), NEW message, Holds(fields, message),
         NEW pieces, pieces = Serialize(fields, message)
  PROVE  /\ IsSeq(pieces)
         /\ \A i \in 1 .. Len(pieces) : IsWhole(pieces[i]) /\ pieces[i].number \in 1 .. Len(fields)
         /\ EachEntry(ParseEntry, fields, InternalParse(fields, Default(fields), pieces)) = message
<1>1. PICK flat : flat = EachEntry(SerializeEntry, fields, message)
  OBVIOUS
<1>2. IsMessage(fields, message) /\ DOMAIN message = Names(fields)
  BY DEF Holds, Fits, IsMessage
<1>3. DOMAIN fields = 1 .. Len(fields)
  BY SeqIs DEF Layout
<1>4. IsMessage(fields, flat)
  BY <1>1, <1>2 DEF EachEntry, IsMessage
<1>5. ASSUME NEW n \in 1 .. Len(fields), fields[n].kind = "entries"
      PROVE  LET entries == message[fields[n].name]
             IN /\ IsSeq(entries)
                /\ flat[fields[n].name] = [i \in 1 .. Len(entries) |-> SerializeEntry(entries[i])]
  <2>1. IsEntries(fields, fields[n].name) /\ fields[n].name \in DOMAIN message
    BY <1>2, <1>3, <1>5, EntriesKind DEF Names
  <2>2. PICK entries : entries = message[fields[n].name]
    OBVIOUS
  <2>3. IsSeq(entries) /\ DOMAIN entries = 1 .. Len(entries)
    <3>1. IsSeq(entries)
      BY <1>5, <2>2 DEF Holds, Fits, FitsKind
    <3>. QED  BY <3>1, SeqIs
  <2>4. flat[fields[n].name] = [i \in DOMAIN entries |-> SerializeEntry(entries[i])]
    BY <1>1, <2>1, <2>2, Zenon DEF EachEntry
  <2>. QED  BY <2>2, <2>3, <2>4
<1>6. ASSUME NEW n \in 1 .. Len(fields), fields[n].kind # "entries"
      PROVE  flat[fields[n].name] = message[fields[n].name]
  <2>1. ~IsEntries(fields, fields[n].name) /\ fields[n].name \in DOMAIN message
    BY <1>2, <1>3, <1>6, EntriesKind DEF Names
  <2>. QED  BY <1>1, <2>1, Zenon DEF EachEntry
<1>7. Fits(fields, flat)
  <2>1. ASSUME NEW n \in 1 .. Len(fields) PROVE FitsKind(fields[n].kind, flat[fields[n].name])
    <3>1. CASE fields[n].kind = "entries"
      <4>1. PICK entries, w : entries = message[fields[n].name] /\ w = flat[fields[n].name]
        OBVIOUS
      <4>2. IsSeq(entries) /\ w = [i \in 1 .. Len(entries) |-> SerializeEntry(entries[i])]
        BY <1>5, <3>1, <4>1
      <4>3. Len(entries) \in Nat
        BY <4>2 DEF IsSeq
      <4>4. w = [i \in 1 .. Len(entries) |-> w[i]]
        BY <4>2
      <4>5. IsSeq(w)
        BY <4>3, <4>4, IsSeqFunction
      <4>. QED  BY <3>1, <4>1, <4>5 DEF FitsKind
    <3>2. CASE fields[n].kind # "entries"
      BY <1>6, <3>2 DEF Holds, Fits, FitsKind
    <3>. QED  BY <3>1, <3>2
  <2>. QED  BY <1>4, <2>1 DEF Fits
<1>8. pieces = InternalSerialize(fields, flat)
  BY <1>1, Zenon DEF Serialize
<1>9. /\ IsSeq(pieces)
      /\ \A i \in 1 .. Len(pieces) : WrittenPiece(fields, flat, Len(fields), pieces[i])
      /\ InternalParse(fields, Default(fields), pieces) = flat
  BY <1>7, <1>8, RoundTrip
<1>10. EachEntry(ParseEntry, fields, flat) = message
  <2>1. DOMAIN flat = Names(fields)
    BY <1>4 DEF IsMessage
  <2>2. ASSUME NEW name \in Names(fields)
        PROVE  message[name] = IF IsEntries(fields, name)
                               THEN [i \in DOMAIN flat[name] |-> ParseEntry(flat[name][i])]
                               ELSE flat[name]
    <3>1. PICK n \in 1 .. Len(fields) : fields[n].name = name
      BY <1>3 DEF Names
    <3>2. CASE fields[n].kind = "entries"
      <4>1. PICK entries : entries = message[name]
        OBVIOUS
      <4>2. IsSeq(entries) /\ flat[name] = [i \in 1 .. Len(entries) |-> SerializeEntry(entries[i])]
        BY <1>5, <3>1, <3>2, <4>1
      <4>3. \A i \in 1 .. Len(entries) : Fits(LogEntryFields, entries[i])
        BY <3>1, <3>2, <4>1 DEF Holds
      <4>4. \A i \in 1 .. Len(entries) : ParseEntry(SerializeEntry(entries[i])) = entries[i]
        BY <4>3, EntryBack
      <4>5. /\ DOMAIN flat[name] = 1 .. Len(entries)
            /\ \A i \in 1 .. Len(entries) : flat[name][i] = SerializeEntry(entries[i])
        BY <4>2, Zenon
      <4>6. [i \in DOMAIN flat[name] |-> ParseEntry(flat[name][i])] = [i \in 1 .. Len(entries) |-> entries[i]]
        BY <4>4, <4>5, Zenon
      <4>7. entries = [i \in 1 .. Len(entries) |-> entries[i]]
        BY <4>2 DEF IsSeq
      <4>8. IsEntries(fields, name)
        BY <3>1, <3>2, EntriesKind
      <4>. QED  BY <4>1, <4>6, <4>7, <4>8, Zenon
    <3>3. CASE fields[n].kind # "entries"
      <4>1. ~IsEntries(fields, name)
        BY <3>1, <3>3, EntriesKind
      <4>. QED  BY <1>6, <3>1, <3>3, <4>1, Zenon
    <3>. QED  BY <3>2, <3>3
  <2>3. message = [name \in Names(fields) |-> message[name]]
    BY <1>2 DEF IsMessage
  <2>4. [name \in Names(fields) |-> message[name]]
          = [name \in Names(fields) |-> IF IsEntries(fields, name)
                                        THEN [i \in DOMAIN flat[name] |-> ParseEntry(flat[name][i])]
                                        ELSE flat[name]]
    BY <2>2, Zenon
  <2>. QED  BY <2>1, <2>3, <2>4, Zenon DEF EachEntry
<1>11. \A i \in 1 .. Len(pieces) : IsWhole(pieces[i]) /\ pieces[i].number \in 1 .. Len(fields)
  BY <1>9 DEF WrittenPiece, IsPiece
<1>. QED  BY <1>9, <1>10, <1>11, Zenon

\* The classes.
LEMMA Layouts ==
  \A fields \in {LogEntryFields, AppendEntriesArgsFields, AppendEntriesReplyFields,
                 RequestVoteArgsFields, RequestVoteReplyFields, InstallSnapshotRequestFields,
                 InstallSnapshotResponseFields, GetArgsFields, GetReplyFields,
                 PutAppendArgsFields, PutAppendReplyFields, RpcHeaderFields} : Layout(fields)
<1>1. Layout(LogEntryFields)
  <2>1. IsSeq(LogEntryFields) /\ Len(LogEntryFields) = 3
    <3>1. LogEntryFields \in Seq({LogEntryFields[i] : i \in 1 .. 3}) /\ Len(LogEntryFields) = 3
      BY DEF LogEntryFields
    <3>. QED  BY <3>1, IsSeqOf
  <2>. QED  BY <2>1 DEF Layout, Field, Kinds, LogEntryFields
<1>2. Layout(AppendEntriesArgsFields)
  <2>1. IsSeq(AppendEntriesArgsFields) /\ Len(AppendEntriesArgsFields) = 6
    <3>1. AppendEntriesArgsFields \in Seq({AppendEntriesArgsFields[i] : i \in 1 .. 6}) /\ Len(AppendEntriesArgsFields) = 6
      BY DEF AppendEntriesArgsFields
    <3>. QED  BY <3>1, IsSeqOf
  <2>. QED  BY <2>1 DEF Layout, Field, Kinds, AppendEntriesArgsFields
<1>3. Layout(AppendEntriesReplyFields)
  <2>1. IsSeq(AppendEntriesReplyFields) /\ Len(AppendEntriesReplyFields) = 4
    <3>1. AppendEntriesReplyFields \in Seq({AppendEntriesReplyFields[i] : i \in 1 .. 4}) /\ Len(AppendEntriesReplyFields) = 4
      BY DEF AppendEntriesReplyFields
    <3>. QED  BY <3>1, IsSeqOf
  <2>. QED  BY <2>1 DEF Layout, Field, Kinds, AppendEntriesReplyFields
<1>4. Layout(RequestVoteArgsFields)
  <2>1. IsSeq(RequestVoteArgsFields) /\ Len(RequestVoteArgsFields) = 4
    <3>1. RequestVoteArgsFields \in Seq({RequestVoteArgsFields[i] : i \in 1 .. 4}) /\ Len(RequestVoteArgsFields) = 4
      BY DEF RequestVoteArgsFields
    <3>. QED  BY <3>1, IsSeqOf
  <2>. QED  BY <2>1 DEF Layout, Field, Kinds, RequestVoteArgsFields
<1>5. Layout(RequestVoteReplyFields)
  <2>1. IsSeq(RequestVoteReplyFields) /\ Len(RequestVoteReplyFields) = 3
    <3>1. RequestVoteReplyFields \in Seq({RequestVoteReplyFields[i] : i \in 1 .. 3}) /\ Len(RequestVoteReplyFields) = 3
      BY DEF RequestVoteReplyFields
    <3>. QED  BY <3>1, IsSeqOf
  <2>. QED  BY <2>1 DEF Layout, Field, Kinds, RequestVoteReplyFields
<1>6. Layout(InstallSnapshotRequestFields)
  <2>1. IsSeq(InstallSnapshotRequestFields) /\ Len(InstallSnapshotRequestFields) = 5
    <3>1. InstallSnapshotRequestFields \in Seq({InstallSnapshotRequestFields[i] : i \in 1 .. 5}) /\ Len(InstallSnapshotRequestFields) = 5
      BY DEF InstallSnapshotRequestFields
    <3>. QED  BY <3>1, IsSeqOf
  <2>. QED  BY <2>1 DEF Layout, Field, Kinds, InstallSnapshotRequestFields
<1>7. Layout(InstallSnapshotResponseFields)
  <2>1. IsSeq(InstallSnapshotResponseFields) /\ Len(InstallSnapshotResponseFields) = 1
    <3>1. InstallSnapshotResponseFields \in Seq({InstallSnapshotResponseFields[i] : i \in 1 .. 1}) /\ Len(InstallSnapshotResponseFields) = 1
      BY DEF InstallSnapshotResponseFields
    <3>. QED  BY <3>1, IsSeqOf
  <2>. QED  BY <2>1 DEF Layout, Field, Kinds, InstallSnapshotResponseFields
<1>8. Layout(GetArgsFields)
  <2>1. IsSeq(GetArgsFields) /\ Len(GetArgsFields) = 3
    <3>1. GetArgsFields \in Seq({GetArgsFields[i] : i \in 1 .. 3}) /\ Len(GetArgsFields) = 3
      BY DEF GetArgsFields
    <3>. QED  BY <3>1, IsSeqOf
  <2>. QED  BY <2>1 DEF Layout, Field, Kinds, GetArgsFields
<1>9. Layout(GetReplyFields)
  <2>1. IsSeq(GetReplyFields) /\ Len(GetReplyFields) = 2
    <3>1. GetReplyFields \in Seq({GetReplyFields[i] : i \in 1 .. 2}) /\ Len(GetReplyFields) = 2
      BY DEF GetReplyFields
    <3>. QED  BY <3>1, IsSeqOf
  <2>. QED  BY <2>1 DEF Layout, Field, Kinds, GetReplyFields
<1>10. Layout(PutAppendArgsFields)
  <2>1. IsSeq(PutAppendArgsFields) /\ Len(PutAppendArgsFields) = 5
    <3>1. PutAppendArgsFields \in Seq({PutAppendArgsFields[i] : i \in 1 .. 5}) /\ Len(PutAppendArgsFields) = 5
      BY DEF PutAppendArgsFields
    <3>. QED  BY <3>1, IsSeqOf
  <2>. QED  BY <2>1 DEF Layout, Field, Kinds, PutAppendArgsFields
<1>11. Layout(PutAppendReplyFields)
  <2>1. IsSeq(PutAppendReplyFields) /\ Len(PutAppendReplyFields) = 1
    <3>1. PutAppendReplyFields \in Seq({PutAppendReplyFields[i] : i \in 1 .. 1}) /\ Len(PutAppendReplyFields) = 1
      BY DEF PutAppendReplyFields
    <3>. QED  BY <3>1, IsSeqOf
  <2>. QED  BY <2>1 DEF Layout, Field, Kinds, PutAppendReplyFields
<1>12. Layout(RpcHeaderFields)
  <2>1. IsSeq(RpcHeaderFields) /\ Len(RpcHeaderFields) = 3
    <3>1. RpcHeaderFields \in Seq({RpcHeaderFields[i] : i \in 1 .. 3}) /\ Len(RpcHeaderFields) = 3
      BY DEF RpcHeaderFields
    <3>. QED  BY <3>1, IsSeqOf
  <2>. QED  BY <2>1 DEF Layout, Field, Kinds, RpcHeaderFields
<1>. QED  BY <1>1, <1>2, <1>3, <1>4, <1>5, <1>6, <1>7, <1>8, <1>9, <1>10, <1>11, <1>12

\* The operations, and the classes that the stubs take for each.
LEMMA Stubs ==
  /\ Operations = {"AppendEntries", "InstallSnapshot", "RequestVote", "PutAppend", "Get"}
  /\ Stub("AppendEntries") = Method(0, AppendEntriesArgsFields, AppendEntriesReplyFields)
  /\ Stub("InstallSnapshot") = Method(1, InstallSnapshotRequestFields, InstallSnapshotResponseFields)
  /\ Stub("RequestVote") = Method(2, RequestVoteArgsFields, RequestVoteReplyFields)
  /\ Stub("PutAppend") = Method(0, PutAppendArgsFields, PutAppendReplyFields)
  /\ Stub("Get") = Method(1, GetArgsFields, GetReplyFields)
  /\ \A op \in {"AppendEntries", "InstallSnapshot", "RequestVote"} : ServiceOf(op) = "raftRpc"
  /\ \A op \in {"PutAppend", "Get"} : ServiceOf(op) = "kvServerRpc"
<1>1. /\ DOMAIN raftRpc_Stub = {"AppendEntries", "InstallSnapshot", "RequestVote"}
      /\ DOMAIN kvServerRpc_Stub = {"PutAppend", "Get"}
  BY DEF raftRpc_Stub, kvServerRpc_Stub
<1>2. /\ raftRpc_Stub.AppendEntries = Method(0, AppendEntriesArgsFields, AppendEntriesReplyFields)
      /\ raftRpc_Stub.InstallSnapshot = Method(1, InstallSnapshotRequestFields, InstallSnapshotResponseFields)
      /\ raftRpc_Stub.RequestVote = Method(2, RequestVoteArgsFields, RequestVoteReplyFields)
  BY DEF raftRpc_Stub
<1>3. /\ kvServerRpc_Stub.PutAppend = Method(0, PutAppendArgsFields, PutAppendReplyFields)
      /\ kvServerRpc_Stub.Get = Method(1, GetArgsFields, GetReplyFields)
  BY DEF kvServerRpc_Stub
<1>4. Operations = {"AppendEntries", "InstallSnapshot", "RequestVote", "PutAppend", "Get"}
  BY <1>1 DEF Operations
<1>. QED  BY <1>1, <1>2, <1>3, <1>4 DEF Stub, ServiceOf

\* A class can hold the messages that its accessors set.
LEMMA MessagesHold ==
  /\ \A m \in AppendEntriesArgs : Holds(AppendEntriesArgsFields, m)
  /\ \A m \in InstallSnapshotRequest : Holds(InstallSnapshotRequestFields, m)
  /\ \A m \in RequestVoteArgs : Holds(RequestVoteArgsFields, m)
  /\ \A m \in PutAppendArgs : Holds(PutAppendArgsFields, m)
  /\ \A m \in GetArgs : Holds(GetArgsFields, m)
  /\ \A m \in AppendEntriesReply : Holds(AppendEntriesReplyFields, m)
  /\ \A m \in InstallSnapshotResponse : Holds(InstallSnapshotResponseFields, m)
  /\ \A m \in RequestVoteReply : Holds(RequestVoteReplyFields, m)
  /\ \A m \in PutAppendReply : Holds(PutAppendReplyFields, m)
  /\ \A m \in GetReply : Holds(GetReplyFields, m)
<1>1. \A m \in AppendEntriesArgs : Holds(AppendEntriesArgsFields, m)
  <2>. TAKE m \in AppendEntriesArgs
  <2>1. Len(AppendEntriesArgsFields) = 6
    BY DEF AppendEntriesArgsFields
  <2>2. Names(AppendEntriesArgsFields) = {"Term", "LeaderId", "PrevLogIndex", "PrevLogTerm", "Entries", "LeaderCommit"}
    BY DEF AppendEntriesArgsFields, Field, Names
  <2>3. IsMessage(AppendEntriesArgsFields, m)
    BY <2>2 DEF IsMessage, AppendEntriesArgs
  <2>4. \A n \in 1 .. 6 : AppendEntriesArgsFields[n].kind = "entries" => AppendEntriesArgsFields[n].name = "Entries"
    BY DEF AppendEntriesArgsFields, Field
  <2>5. \A n \in 1 .. 6 : AppendEntriesArgsFields[n].kind # "bool"
    BY DEF AppendEntriesArgsFields, Field
  <2>6. PICK k \in 0 .. MaxEntries : m.Entries \in [1 .. k -> Entry]
    BY DEF AppendEntriesArgs
  <2>7. PICK entries : entries = m.Entries
    OBVIOUS
  <2>8. k \in Nat /\ entries = [i \in 1 .. k |-> entries[i]]
    BY <2>6, <2>7
  <2>9. IsSeq(entries) /\ Len(entries) = k
    BY <2>8, IsSeqFunction
  <2>10. ASSUME NEW i \in 1 .. k PROVE Fits(LogEntryFields, entries[i])
    <3>1. PICK entry : entry = entries[i]
      OBVIOUS
    <3>2. entry \in Entry
      BY <2>6, <2>7, <3>1
    <3>3. Names(LogEntryFields) = {"Command", "LogTerm", "LogIndex"}
      BY DEF LogEntryFields, Field, Names
    <3>4. IsMessage(LogEntryFields, entry)
      BY <3>2, <3>3 DEF IsMessage, Entry
    <3>5. Len(LogEntryFields) = 3 /\ \A n \in 1 .. 3 : LogEntryFields[n].kind \notin {"bool", "entries"}
      BY DEF LogEntryFields, Field
    <3>. QED  BY <3>1, <3>4, <3>5 DEF Fits, FitsKind
  <2>11. ASSUME NEW n \in 1 .. 6
         PROVE  /\ FitsKind(AppendEntriesArgsFields[n].kind, m[AppendEntriesArgsFields[n].name])
                /\ AppendEntriesArgsFields[n].kind = "entries" => \A i \in 1 .. Len(m[AppendEntriesArgsFields[n].name]) :
                      Fits(LogEntryFields, m[AppendEntriesArgsFields[n].name][i])
    BY <2>4, <2>5, <2>7, <2>9, <2>10 DEF FitsKind
  <2>. QED  BY <2>1, <2>3, <2>11 DEF Holds, Fits
<1>2. \A m \in InstallSnapshotRequest : Holds(InstallSnapshotRequestFields, m)
  <2>. TAKE m \in InstallSnapshotRequest
  <2>1. Len(InstallSnapshotRequestFields) = 5
    BY DEF InstallSnapshotRequestFields
  <2>2. Names(InstallSnapshotRequestFields) = {"LeaderId", "Term", "LastSnapShotIncludeIndex", "LastSnapShotIncludeTerm", "Data"}
    BY DEF InstallSnapshotRequestFields, Field, Names
  <2>3. IsMessage(InstallSnapshotRequestFields, m)
    BY <2>2 DEF IsMessage, InstallSnapshotRequest
  <2>4. \A n \in 1 .. 5 : InstallSnapshotRequestFields[n].kind # "entries"
    BY DEF InstallSnapshotRequestFields, Field
  <2>5. \A n \in 1 .. 5 : InstallSnapshotRequestFields[n].kind = "bool" => m[InstallSnapshotRequestFields[n].name] \in BOOLEAN
    BY DEF InstallSnapshotRequestFields, Field, InstallSnapshotRequest
  <2>. QED  BY <2>1, <2>3, <2>4, <2>5 DEF Holds, Fits, FitsKind
<1>3. \A m \in RequestVoteArgs : Holds(RequestVoteArgsFields, m)
  <2>. TAKE m \in RequestVoteArgs
  <2>1. Len(RequestVoteArgsFields) = 4
    BY DEF RequestVoteArgsFields
  <2>2. Names(RequestVoteArgsFields) = {"Term", "CandidateId", "LastLogIndex", "LastLogTerm"}
    BY DEF RequestVoteArgsFields, Field, Names
  <2>3. IsMessage(RequestVoteArgsFields, m)
    BY <2>2 DEF IsMessage, RequestVoteArgs
  <2>4. \A n \in 1 .. 4 : RequestVoteArgsFields[n].kind # "entries"
    BY DEF RequestVoteArgsFields, Field
  <2>5. \A n \in 1 .. 4 : RequestVoteArgsFields[n].kind = "bool" => m[RequestVoteArgsFields[n].name] \in BOOLEAN
    BY DEF RequestVoteArgsFields, Field, RequestVoteArgs
  <2>. QED  BY <2>1, <2>3, <2>4, <2>5 DEF Holds, Fits, FitsKind
<1>4. \A m \in PutAppendArgs : Holds(PutAppendArgsFields, m)
  <2>. TAKE m \in PutAppendArgs
  <2>1. Len(PutAppendArgsFields) = 5
    BY DEF PutAppendArgsFields
  <2>2. Names(PutAppendArgsFields) = {"Key", "Value", "Op", "ClientId", "RequestId"}
    BY DEF PutAppendArgsFields, Field, Names
  <2>3. IsMessage(PutAppendArgsFields, m)
    BY <2>2 DEF IsMessage, PutAppendArgs
  <2>4. \A n \in 1 .. 5 : PutAppendArgsFields[n].kind # "entries"
    BY DEF PutAppendArgsFields, Field
  <2>5. \A n \in 1 .. 5 : PutAppendArgsFields[n].kind = "bool" => m[PutAppendArgsFields[n].name] \in BOOLEAN
    BY DEF PutAppendArgsFields, Field, PutAppendArgs
  <2>. QED  BY <2>1, <2>3, <2>4, <2>5 DEF Holds, Fits, FitsKind
<1>5. \A m \in GetArgs : Holds(GetArgsFields, m)
  <2>. TAKE m \in GetArgs
  <2>1. Len(GetArgsFields) = 3
    BY DEF GetArgsFields
  <2>2. Names(GetArgsFields) = {"Key", "ClientId", "RequestId"}
    BY DEF GetArgsFields, Field, Names
  <2>3. IsMessage(GetArgsFields, m)
    BY <2>2 DEF IsMessage, GetArgs
  <2>4. \A n \in 1 .. 3 : GetArgsFields[n].kind # "entries"
    BY DEF GetArgsFields, Field
  <2>5. \A n \in 1 .. 3 : GetArgsFields[n].kind = "bool" => m[GetArgsFields[n].name] \in BOOLEAN
    BY DEF GetArgsFields, Field, GetArgs
  <2>. QED  BY <2>1, <2>3, <2>4, <2>5 DEF Holds, Fits, FitsKind
<1>6. \A m \in AppendEntriesReply : Holds(AppendEntriesReplyFields, m)
  <2>. TAKE m \in AppendEntriesReply
  <2>1. Len(AppendEntriesReplyFields) = 4
    BY DEF AppendEntriesReplyFields
  <2>2. Names(AppendEntriesReplyFields) = {"Term", "Success", "UpdateNextIndex", "AppState"}
    BY DEF AppendEntriesReplyFields, Field, Names
  <2>3. IsMessage(AppendEntriesReplyFields, m)
    BY <2>2 DEF IsMessage, AppendEntriesReply
  <2>4. \A n \in 1 .. 4 : AppendEntriesReplyFields[n].kind # "entries"
    BY DEF AppendEntriesReplyFields, Field
  <2>5. \A n \in 1 .. 4 : AppendEntriesReplyFields[n].kind = "bool" => m[AppendEntriesReplyFields[n].name] \in BOOLEAN
    BY DEF AppendEntriesReplyFields, Field, AppendEntriesReply
  <2>. QED  BY <2>1, <2>3, <2>4, <2>5 DEF Holds, Fits, FitsKind
<1>7. \A m \in InstallSnapshotResponse : Holds(InstallSnapshotResponseFields, m)
  <2>. TAKE m \in InstallSnapshotResponse
  <2>1. Len(InstallSnapshotResponseFields) = 1
    BY DEF InstallSnapshotResponseFields
  <2>2. Names(InstallSnapshotResponseFields) = {"Term"}
    BY DEF InstallSnapshotResponseFields, Field, Names
  <2>3. IsMessage(InstallSnapshotResponseFields, m)
    BY <2>2 DEF IsMessage, InstallSnapshotResponse
  <2>4. \A n \in 1 .. 1 : InstallSnapshotResponseFields[n].kind # "entries"
    BY DEF InstallSnapshotResponseFields, Field
  <2>5. \A n \in 1 .. 1 : InstallSnapshotResponseFields[n].kind = "bool" => m[InstallSnapshotResponseFields[n].name] \in BOOLEAN
    BY DEF InstallSnapshotResponseFields, Field, InstallSnapshotResponse
  <2>. QED  BY <2>1, <2>3, <2>4, <2>5 DEF Holds, Fits, FitsKind
<1>8. \A m \in RequestVoteReply : Holds(RequestVoteReplyFields, m)
  <2>. TAKE m \in RequestVoteReply
  <2>1. Len(RequestVoteReplyFields) = 3
    BY DEF RequestVoteReplyFields
  <2>2. Names(RequestVoteReplyFields) = {"Term", "VoteGranted", "VoteState"}
    BY DEF RequestVoteReplyFields, Field, Names
  <2>3. IsMessage(RequestVoteReplyFields, m)
    BY <2>2 DEF IsMessage, RequestVoteReply
  <2>4. \A n \in 1 .. 3 : RequestVoteReplyFields[n].kind # "entries"
    BY DEF RequestVoteReplyFields, Field
  <2>5. \A n \in 1 .. 3 : RequestVoteReplyFields[n].kind = "bool" => m[RequestVoteReplyFields[n].name] \in BOOLEAN
    BY DEF RequestVoteReplyFields, Field, RequestVoteReply
  <2>. QED  BY <2>1, <2>3, <2>4, <2>5 DEF Holds, Fits, FitsKind
<1>9. \A m \in PutAppendReply : Holds(PutAppendReplyFields, m)
  <2>. TAKE m \in PutAppendReply
  <2>1. Len(PutAppendReplyFields) = 1
    BY DEF PutAppendReplyFields
  <2>2. Names(PutAppendReplyFields) = {"Err"}
    BY DEF PutAppendReplyFields, Field, Names
  <2>3. IsMessage(PutAppendReplyFields, m)
    BY <2>2 DEF IsMessage, PutAppendReply
  <2>4. \A n \in 1 .. 1 : PutAppendReplyFields[n].kind # "entries"
    BY DEF PutAppendReplyFields, Field
  <2>5. \A n \in 1 .. 1 : PutAppendReplyFields[n].kind = "bool" => m[PutAppendReplyFields[n].name] \in BOOLEAN
    BY DEF PutAppendReplyFields, Field, PutAppendReply
  <2>. QED  BY <2>1, <2>3, <2>4, <2>5 DEF Holds, Fits, FitsKind
<1>10. \A m \in GetReply : Holds(GetReplyFields, m)
  <2>. TAKE m \in GetReply
  <2>1. Len(GetReplyFields) = 2
    BY DEF GetReplyFields
  <2>2. Names(GetReplyFields) = {"Err", "Value"}
    BY DEF GetReplyFields, Field, Names
  <2>3. IsMessage(GetReplyFields, m)
    BY <2>2 DEF IsMessage, GetReply
  <2>4. \A n \in 1 .. 2 : GetReplyFields[n].kind # "entries"
    BY DEF GetReplyFields, Field
  <2>5. \A n \in 1 .. 2 : GetReplyFields[n].kind = "bool" => m[GetReplyFields[n].name] \in BOOLEAN
    BY DEF GetReplyFields, Field, GetReply
  <2>. QED  BY <2>1, <2>3, <2>4, <2>5 DEF Holds, Fits, FitsKind
<1>. QED  BY <1>1, <1>2, <1>3, <1>4, <1>5, <1>6, <1>7, <1>8, <1>9, <1>10, Zenon

\* What a stub sends and what it receives.
LEMMA Classes ==
  \A op \in Operations :
    /\ Layout(Stub(op).request) /\ \A m \in Requests(op) : Holds(Stub(op).request, m)
    /\ Layout(Stub(op).reply) /\ \A m \in Replies(op) : Holds(Stub(op).reply, m)
<1>1. /\ Layout(AppendEntriesArgsFields) /\ Layout(AppendEntriesReplyFields)
      /\ Layout(InstallSnapshotRequestFields) /\ Layout(InstallSnapshotResponseFields)
      /\ Layout(RequestVoteArgsFields) /\ Layout(RequestVoteReplyFields)
      /\ Layout(PutAppendArgsFields) /\ Layout(PutAppendReplyFields)
      /\ Layout(GetArgsFields) /\ Layout(GetReplyFields)
  BY Layouts
<1>2. /\ Requests("AppendEntries") = AppendEntriesArgs /\ Replies("AppendEntries") = AppendEntriesReply
      /\ Requests("InstallSnapshot") = InstallSnapshotRequest
      /\ Replies("InstallSnapshot") = InstallSnapshotResponse
      /\ Requests("RequestVote") = RequestVoteArgs /\ Replies("RequestVote") = RequestVoteReply
      /\ Requests("PutAppend") = PutAppendArgs /\ Replies("PutAppend") = PutAppendReply
      /\ Requests("Get") = GetArgs /\ Replies("Get") = GetReply
  BY DEF Requests, Replies
<1>. QED  BY <1>1, <1>2, Stubs, MessagesHold DEF Method

\* A piece leaves a message of the class.
LEMMA TakeKeeps ==
  ASSUME NEW fields, Layout(fields), NEW message, IsMessage(fields, message), NEW piece
  PROVE  IsMessage(fields, TakePiece(fields, message, piece))
<1>1. CASE ~piece.whole \/ piece.number \notin DOMAIN fields
  BY <1>1, Zenon DEF TakePiece
<1>2. CASE ~(~piece.whole \/ piece.number \notin DOMAIN fields)
  <2>. DEFINE field == fields[piece.number]
              new == IF field.kind = "entries" THEN Append(message[field.name], FromWire(field.kind, piece.value))
                     ELSE FromWire(field.kind, piece.value)
  <2>1. CASE ~SameWireType(field.kind, piece.value)
    BY <1>2, <2>1, Zenon DEF TakePiece
  <2>2. CASE SameWireType(field.kind, piece.value)
    <3>1. TakePiece(fields, message, piece) = [message EXCEPT ![field.name] = new]
      BY <1>2, <2>2, Zenon DEF TakePiece
    <3>. HIDE DEF new
    <3>. QED  BY <3>1 DEF IsMessage
  <2>. QED  BY <2>1, <2>2
<1>. QED  BY <1>1, <1>2

\* So does parsing.
LEMMA ParseKeeps ==
  ASSUME NEW fields, Layout(fields), NEW message, IsMessage(fields, message), NEW s, IsSeq(s)
  PROVE  IsMessage(fields, InternalParse(fields, message, s))
<1>. DEFINE N == Len(s)
            Good(n) == IsMessage(fields, InternalParse(fields, message, SubSeq(s, 1, n)))
            T == {n \in 0 .. N : ~Good(n)}
<1>1. N \in Nat
  BY DEF IsSeq
<1>2. Good(0)
  <2>1. PICK z, v : z = 0 /\ v = SubSeq(s, 1, z)
    OBVIOUS
  <2>2. IsSeq(v) /\ Len(v) = 0
    BY <1>1, <2>1, SubSeqIs
  <2>3. v = <<>>
    BY <2>2, EmptyIs, SameSeq
  <2>. QED  BY <2>1, <2>3, ParseNothing
<1>3. ASSUME NEW n \in 1 .. N, Good(n - 1) PROVE Good(n)
  <2>1. SubSeq(s, 1, n) = Append(SubSeq(s, 1, n - 1), s[n])
    BY FrontAndLast
  <2>2. PICK f : f = SubSeq(s, 1, n - 1)
    OBVIOUS
  <2>3. IsSeq(f)
    <3>1. n - 1 \in Nat /\ n - 1 <= Len(s)
      BY <1>1
    <3>. QED  BY <2>2, <3>1, SubSeqIs
  <2>4. InternalParse(fields, message, Append(f, s[n])) = TakePiece(fields, InternalParse(fields, message, f), s[n])
    BY <2>3, ParseAppend
  <2>. QED  BY <1>3, <2>1, <2>2, <2>4, TakeKeeps
<1>. HIDE DEF Good
<1>4. T = {}
  <2>1. SUFFICES ASSUME T # {} PROVE FALSE
    OBVIOUS
  <2>2. T \in SUBSET Nat
    OBVIOUS
  <2>3. PICK n \in T : \A m \in T : n <= m
    BY <2>1, <2>2, LeastIn
  <2>4. n # 0 => n \in 1 .. N /\ n - 1 \in 0 .. N /\ ~(n <= n - 1)
    BY <1>1
  <2>. QED  BY <1>2, <1>3, <2>3, <2>4
<1>5. Good(N)
  BY <1>1, <1>4
<1>6. SubSeq(s, 1, N) = s
  <2>1. PICK f : f = SubSeq(s, 1, N)
    OBVIOUS
  <2>2. IsSeq(f) /\ Len(f) = N /\ \A i \in 1 .. N : f[i] = s[i]
    BY <1>1, <2>1, SubSeqIs
  <2>. QED  BY <2>1, <2>2, SameSeq
<1>. QED  BY <1>5, <1>6 DEF Good

\* Without entries there is nothing more to do.
LEMMA NoEntries ==
  ASSUME NEW fields, Layout(fields), \A n \in 1 .. Len(fields) : fields[n].kind # "entries",
         NEW message, IsMessage(fields, message)
  PROVE  /\ EachEntry(SerializeEntry, fields, message) = message
         /\ EachEntry(ParseEntry, fields, message) = message
<1>1. DOMAIN fields = 1 .. Len(fields)
  BY SeqIs DEF Layout
<1>2. \A name : ~IsEntries(fields, name)
  <2>1. \A name : \A n \in 1 .. Len(fields) : fields[n] # Field(name, "entries")
    BY DEF Field
  <2>. QED  BY <1>1, <2>1 DEF IsEntries
<1>3. message = [name \in DOMAIN message |-> message[name]]
  BY DEF IsMessage
<1>. QED  BY <1>2, <1>3, Zenon DEF EachEntry

-----------------------------------------------------------------------------
(* The frame of a request *)

\* The fields of a header.
LEMMA HeaderFields ==
  /\ Layout(RpcHeaderFields) /\ Len(RpcHeaderFields) = 3
  /\ IsField(RpcHeaderFields, 1, "bytes", "service_name")
  /\ IsField(RpcHeaderFields, 2, "bytes", "method_name")
  /\ IsField(RpcHeaderFields, 3, "uint32", "args_size")
  /\ Names(RpcHeaderFields) = {"service_name", "method_name", "args_size"}
<1>1. Len(RpcHeaderFields) = 3
  BY DEF RpcHeaderFields
<1>2. Names(RpcHeaderFields) = {"service_name", "method_name", "args_size"}
  BY DEF RpcHeaderFields, Field, Names
<1>. QED  BY <1>1, <1>2, Layouts DEF IsField, RpcHeaderFields, Field

IsHeader(service, method, size, header) ==
  /\ service # "" /\ method # "" /\ size \in Nat
  /\ header = Serialize(RpcHeaderFields, RpcHeader(service, method, size))

\* The header has a piece for the service, one for the method and, if it is not 0, one for
\* the size of the arguments.
LEMMA HeaderIs ==
  ASSUME NEW service, NEW method, NEW size, NEW header, IsHeader(service, method, size, header)
  PROVE  /\ IsSeq(header) /\ Len(header) = IF size = 0 THEN 2 ELSE 3
         /\ header[1] = Piece(1, OnWire("bytes", service))
         /\ header[2] = Piece(2, OnWire("bytes", method))
         /\ \A i \in 1 .. Len(header) : IsWhole(header[i])
         /\ InternalParse(RpcHeaderFields, Default(RpcHeaderFields), header)
              = RpcHeader(service, method, size)
<1>1. PICK message : message = RpcHeader(service, method, size)
  OBVIOUS
<1>2. PICK fields : fields = RpcHeaderFields
  OBVIOUS
<1>3. /\ Layout(fields) /\ Len(fields) = 3
      /\ fields[1].kind = "bytes" /\ fields[2].kind = "bytes" /\ fields[3].kind = "uint32"
      /\ fields[1].name = "service_name" /\ fields[2].name = "method_name"
      /\ fields[3].name = "args_size"
  BY <1>2, HeaderFields DEF IsField
<1>4. Names(fields) = {"service_name", "method_name", "args_size"}
  BY <1>2, HeaderFields
<1>5. /\ IsMessage(fields, message)
      /\ message.service_name = service /\ message.method_name = method /\ message.args_size = size
  BY <1>1, <1>4 DEF IsMessage, RpcHeader
<1>6. \A n \in 1 .. 3 : fields[n].kind \notin {"bool", "entries"}
  BY <1>3
<1>7. Fits(fields, message) /\ Holds(fields, message)
  BY <1>3, <1>5, <1>6 DEF Holds, Fits, FitsKind
<1>8. EachEntry(SerializeEntry, fields, message) = message
  BY <1>3, <1>5, <1>6, NoEntries
<1>9. header = InternalSerialize(fields, message)
  BY <1>1, <1>2, <1>8, Zenon DEF Serialize, IsHeader
<1>10. /\ IsSeq(header)
       /\ \A i \in 1 .. Len(header) : WrittenPiece(fields, message, Len(fields), header[i])
       /\ InternalParse(fields, Default(fields), header) = message
  BY <1>3, <1>7, <1>9, RoundTrip
<1>11. PICK f : /\ f[0] = <<>>
                /\ \A n \in 1 .. Len(fields) :
                     f[n] = f[n - 1] \o FieldPieces(fields[n].kind, n, message[fields[n].name])
                /\ header = f[Len(fields)]
  <2>1. IsSeq(fields)
    BY <1>3 DEF Layout
  <2>2. \E f : /\ f[0] = <<>>
               /\ \A n \in 1 .. Len(fields) :
                    f[n] = f[n - 1] \o FieldPieces(fields[n].kind, n, message[fields[n].name])
               /\ InternalSerialize(fields, message) = f[Len(fields)]
    BY <2>1, SerializeIs
  <2>. QED  BY <1>9, <2>2, Zenon
<1>12. PICK p1, p2 : p1 = Piece(1, OnWire("bytes", service)) /\ p2 = Piece(2, OnWire("bytes", method))
  OBVIOUS
<1>13. FieldPieces("bytes", 1, service) = <<p1>> /\ FieldPieces("bytes", 2, method) = <<p2>>
  BY <1>12 DEF FieldPieces, Unset, IsHeader
<1>14. /\ f[1] = f[0] \o <<p1>> /\ f[2] = f[1] \o <<p2>>
       /\ header = f[2] \o FieldPieces("uint32", 3, size)
  <2>1. /\ f[1] = f[1 - 1] \o FieldPieces(fields[1].kind, 1, message[fields[1].name])
        /\ f[2] = f[2 - 1] \o FieldPieces(fields[2].kind, 2, message[fields[2].name])
        /\ f[3] = f[3 - 1] \o FieldPieces(fields[3].kind, 3, message[fields[3].name])
    <3>1. 1 \in 1 .. Len(fields) /\ 2 \in 1 .. Len(fields) /\ 3 \in 1 .. Len(fields)
      BY <1>3
    <3>. QED  BY <1>11, <3>1, Zenon
  <2>2. 1 - 1 = 0 /\ 2 - 1 = 1 /\ 3 - 1 = 2
    OBVIOUS
  <2>3. header = f[3]
    BY <1>3, <1>11
  <2>. QED  BY <1>3, <1>5, <1>13, <2>1, <2>2, <2>3, Zenon
<1>15. PICK u1, u2 : u1 = <<p1>> /\ u2 = <<p2>>
  OBVIOUS
<1>16. PICK q, t : q = u1 \o u2 /\ t = FieldPieces("uint32", 3, size)
  OBVIOUS
<1>17. IsSeq(q) /\ Len(q) = 2 /\ q[1] = p1 /\ q[2] = p2
  <2>1. IsSeq(u1) /\ Len(u1) = 1 /\ u1[1] = p1 /\ IsSeq(u2) /\ Len(u2) = 1 /\ u2[1] = p2
    BY <1>15, OneIs
  <2>2. /\ IsSeq(q) /\ Len(q) = Len(u1) + Len(u2)
        /\ \A i \in 1 .. Len(u1) + Len(u2) : q[i] = IF i <= Len(u1) THEN u1[i] ELSE u2[i - Len(u1)]
    BY <1>16, <2>1, ConcatIs
  <2>. QED  BY <2>1, <2>2
<1>18. IsSeq(t) /\ Len(t) = IF size = 0 THEN 0 ELSE 1
  <2>1. FitsKind("uint32", size) /\ Unset["uint32"] = 0
    BY DEF FitsKind, Unset
  <2>2. PICK k : k = "uint32"
    OBVIOUS
  <2>3. t = FieldPieces(k, 3, size) /\ FitsKind(k, size) /\ Unset[k] = 0 /\ k # "entries"
    BY <1>16, <2>1, <2>2
  <2>. QED  BY <2>3, FieldPiecesAre
<1>19. PICK h : h = q \o t
  OBVIOUS
<1>20. /\ Len(h) = Len(q) + Len(t)
       /\ \A i \in 1 .. Len(q) + Len(t) : h[i] = IF i <= Len(q) THEN q[i] ELSE t[i - Len(q)]
  BY <1>17, <1>18, <1>19, ConcatIs
<1>21. h = header
  <2>1. <<>> \o u1 = u1
    BY <1>15, OneIs, ConcatEmpty
  <2>. QED  BY <1>11, <1>14, <1>15, <1>16, <1>19, <2>1, Zenon
<1>22. Len(h) = (IF size = 0 THEN 2 ELSE 3) /\ h[1] = p1 /\ h[2] = p2
  BY <1>17, <1>18, <1>20
<1>23. \A i \in 1 .. Len(header) : IsWhole(header[i])
  BY <1>10 DEF WrittenPiece, IsPiece
<1>. QED  BY <1>1, <1>10, <1>12, <1>21, <1>22, <1>2, <1>23, Zenon

\* What is read of a header that is not all there: no service, no method, or no size.
LEMMA HeaderPart ==
  ASSUME NEW service, NEW method, NEW size, NEW header, IsHeader(service, method, size, header),
         NEW n \in Nat, n < Len(header),
         NEW m, m = InternalParse(RpcHeaderFields, Default(RpcHeaderFields), SubSeq(header, 1, n))
  PROVE  m.service_name = "" \/ m.method_name = "" \/ m = RpcHeader(service, method, 0)
<1>1. /\ IsSeq(header) /\ Len(header) \in {2, 3}
      /\ header[1] = Piece(1, OnWire("bytes", service))
      /\ header[2] = Piece(2, OnWire("bytes", method))
  BY HeaderIs
<1>2. PICK fields, d : fields = RpcHeaderFields /\ d = Default(fields)
  OBVIOUS
<1>3. /\ Layout(fields) /\ Len(fields) = 3
      /\ IsField(fields, 1, "bytes", "service_name") /\ IsField(fields, 2, "bytes", "method_name")
      /\ IsField(fields, 3, "uint32", "args_size")
  BY <1>2, HeaderFields
<1>4. Names(fields) = {"service_name", "method_name", "args_size"}
  BY <1>2, HeaderFields
<1>5. IsMessage(fields, d) /\ d.service_name = "" /\ d.method_name = "" /\ d.args_size = 0
  <2>1. IsMessage(fields, d) /\ \A k \in 1 .. 3 : d[fields[k].name] = Unset[fields[k].kind]
    BY <1>2, <1>3, DefaultIs
  <2>2. /\ d["service_name"] = Unset["bytes"] /\ d["method_name"] = Unset["bytes"]
        /\ d["args_size"] = Unset["uint32"]
    BY <1>3, <2>1 DEF IsField
  <2>. QED  BY <2>1, <2>2 DEF Unset
<1>6. PICK e : e = <<>>
  OBVIOUS
<1>7. IsSeq(e) /\ Len(e) = 0
  BY <1>6, EmptyIs
<1>8. PICK a, b : a = Append(e, header[1]) /\ b = Append(a, header[2])
  OBVIOUS
<1>9. /\ IsSeq(a) /\ Len(a) = 1 /\ a[1] = header[1]
  <2>1. IsSeq(a) /\ Len(a) = Len(e) + 1 /\ a[Len(e) + 1] = header[1]
    BY <1>7, <1>8, AppendIs
  <2>. QED  BY <1>7, <2>1
<1>10. IsSeq(b) /\ Len(b) = 2 /\ b[1] = header[1] /\ b[2] = header[2]
  <2>1. /\ IsSeq(b) /\ Len(b) = Len(a) + 1 /\ b[Len(a) + 1] = header[2]
        /\ \A i \in 1 .. Len(a) : b[i] = a[i]
    BY <1>8, <1>9, AppendIs
  <2>. QED  BY <1>9, <2>1
<1>11. InternalParse(fields, d, e) = d
  BY <1>6, ParseNothing
<1>12. InternalParse(fields, d, a) = WithField(d, "service_name", service)
  <2>1. InternalParse(fields, d, a) = TakePiece(fields, d, header[1])
    <3>1. PICK x : x = header[1]
      OBVIOUS
    <3>2. InternalParse(fields, d, Append(e, x)) = TakePiece(fields, InternalParse(fields, d, e), x)
      <4>1. IsSeq(e)
        BY <1>7
      <4>. QED  BY <4>1, ParseAppend
    <3>. QED  BY <1>8, <1>11, <3>1, <3>2
  <2>2. PICK k, name, i : k = "bytes" /\ name = "service_name" /\ i = 1
    OBVIOUS
  <2>3. IsField(fields, i, k, name) /\ IsAfter(k, d[name], service, service)
    BY <1>3, <2>2 DEF IsAfter
  <2>4. TakePiece(fields, d, Piece(i, OnWire(k, service))) = WithField(d, name, service)
    <3>1. Layout(fields) /\ IsMessage(fields, d)
      BY <1>3, <1>5
    <3>. QED  BY <2>3, <3>1, TakeIs
  <2>. QED  BY <1>1, <2>1, <2>2, <2>4
<1>13. PICK r : r = WithField(d, "service_name", service)
  OBVIOUS
<1>14. /\ IsMessage(fields, r)
       /\ r.service_name = service /\ r.method_name = "" /\ r.args_size = 0
  BY <1>4, <1>5, <1>13 DEF IsMessage, WithField
<1>15. InternalParse(fields, d, b) = WithField(r, "method_name", method)
  <2>1. InternalParse(fields, d, b) = TakePiece(fields, r, header[2])
    BY <1>8, <1>9, <1>12, <1>13, ParseAppend
  <2>2. PICK k, name, i : k = "bytes" /\ name = "method_name" /\ i = 2
    OBVIOUS
  <2>3. IsField(fields, i, k, name) /\ IsAfter(k, r[name], method, method)
    BY <1>3, <2>2 DEF IsAfter
  <2>4. TakePiece(fields, r, Piece(i, OnWire(k, method))) = WithField(r, name, method)
    <3>1. Layout(fields) /\ IsMessage(fields, r)
      BY <1>3, <1>14
    <3>. QED  BY <2>3, <3>1, TakeIs
  <2>. QED  BY <1>1, <2>1, <2>2, <2>4
<1>16. WithField(r, "method_name", method) = RpcHeader(service, method, 0)
  <2>1. PICK w, h : w = WithField(r, "method_name", method) /\ h = RpcHeader(service, method, 0)
    OBVIOUS
  <2>2. IsMessage(fields, w) /\ w.service_name = service /\ w.method_name = method /\ w.args_size = 0
    BY <1>4, <1>14, <2>1 DEF IsMessage, WithField
  <2>3. IsMessage(fields, h) /\ h.service_name = service /\ h.method_name = method /\ h.args_size = 0
    BY <1>4, <2>1 DEF IsMessage, RpcHeader
  <2>4. \A name \in Names(fields) : w[name] = h[name]
    BY <1>4, <2>2, <2>3
  <2>5. w = h
    BY <2>2, <2>3, <2>4, Zenon DEF IsMessage
  <2>. QED  BY <2>1, <2>5
<1>17. PICK s : s = SubSeq(header, 1, n)
  OBVIOUS
<1>18. IsSeq(s) /\ Len(s) = n /\ \A i \in 1 .. n : s[i] = header[i]
  <2>1. PICK k : k = 1
    OBVIOUS
  <2>2. k \in Nat \ {0} /\ s = SubSeq(header, k, n) /\ IsSeq(header) /\ n <= Len(header)
    BY <1>1, <1>17, <2>1
  <2>3. /\ IsSeq(s) /\ Len(s) = IF k <= n THEN n - k + 1 ELSE 0
        /\ \A i \in 1 .. n - k + 1 : s[i] = header[k + i - 1]
    BY <2>2, SubSeqIs
  <2>. QED  BY <2>1, <2>3
<1>19. m = InternalParse(fields, d, s)
  BY <1>2, <1>17
<1>20. CASE n = 0
  <2>1. s = e
    BY <1>7, <1>18, <1>20, SameSeq
  <2>. QED  BY <1>5, <1>11, <1>19, <2>1
<1>21. CASE n = 1
  <2>1. \A i \in 1 .. 1 : s[i] = a[i]
    BY <1>9, <1>18, <1>21
  <2>2. s = a
    BY <1>9, <1>18, <1>21, <2>1, SameSeq
  <2>. QED  BY <1>12, <1>13, <1>14, <1>19, <2>2
<1>22. CASE n = 2
  <2>1. \A i \in 1 .. 2 : s[i] = b[i]
    BY <1>10, <1>18, <1>22
  <2>2. s = b
    BY <1>10, <1>18, <1>22, <2>1, SameSeq
  <2>. QED  BY <1>15, <1>16, <1>19, <2>2
<1>23. n \in {0, 1, 2}
  <2>1. Len(header) \in {2, 3}
    BY <1>1
  <2>2. CASE Len(header) = 2
    BY <2>2
  <2>3. CASE Len(header) = 3
    BY <2>3
  <2>. QED  BY <2>1, <2>2, <2>3
<1>. QED  BY <1>20, <1>21, <1>22, <1>23

\* r is what there is of the next so many pieces.
Taken(s, size, r) ==
  /\ IsSeq(r) /\ Len(r) = IF size < Len(s) THEN size ELSE Len(s)
  /\ \A i \in 1 .. Len(r) : r[i] = s[i]
  /\ ReadString(s, size).ok <=> size <= Len(s) /\ \A i \in 1 .. Len(r) : r[i].whole

\* What ReadString takes, and what it says of it.
LEMMA ReadStringIs ==
  ASSUME NEW s, IsSeq(s), NEW size, size \in Nat
  PROVE  Taken(s, size, ReadString(s, size).read)
<1>0. PICK r : r = ReadString(s, size).read
  OBVIOUS
<1>1. Len(s) \in Nat
  BY DEF IsSeq
<1>2. PICK n \in Nat : n = IF size < Len(s) THEN size ELSE Len(s)
  BY <1>1
<1>3. r = SubSeq(s, 1, n) /\ n <= Len(s)
  BY <1>0, <1>1, <1>2 DEF ReadString
<1>4. IsSeq(r) /\ Len(r) = n /\ \A i \in 1 .. n : r[i] = s[i]
  BY <1>3, SubSeqIs
<1>5. DOMAIN r = 1 .. Len(r)
  BY <1>4, SeqIs
<1>6. ReadString(s, size).ok <=> Len(r) = size /\ \A i \in DOMAIN r : r[i].whole
  <2>1. ReadString(s, size).ok = (Len(SubSeq(s, 1, n)) = size
                                  /\ \A i \in DOMAIN SubSeq(s, 1, n) : SubSeq(s, 1, n)[i].whole)
    BY <1>2, Zenon DEF ReadString
  <2>. QED  BY <1>3, <2>1, Zenon
<1>7. Len(r) = size <=> size <= Len(s)
  BY <1>1, <1>2, <1>4
<1>. QED  BY <1>0, <1>2, <1>4, <1>5, <1>6, <1>7 DEF Taken

\* All elements but the first.
LEMMA TailIs ==
  ASSUME NEW s, IsSeq(s), Len(s) > 0
  PROVE  /\ IsSeq(Tail(s)) /\ Len(Tail(s)) = Len(s) - 1
         /\ \A i \in 1 .. Len(s) - 1 : Tail(s)[i] = s[i + 1]
<1>. DEFINE S == {s[i] : i \in 1 .. Len(s)}
<1>1. s \in Seq(S) /\ Len(s) \in Nat
  BY SeqIs DEF IsSeq
<1>. HIDE DEF S
<1>2. s # <<>>
  BY EmptyIs
<1>3. Tail(s) \in Seq(S)
  BY <1>1, <1>2
<1>4. Len(Tail(s)) = Len(s) - 1 /\ \A i \in 1 .. Len(s) - 1 : Tail(s)[i] = s[i + 1]
  BY <1>1, <1>2
<1>. QED  BY <1>3, <1>4, IsSeqOf

\* The header names the service and the method of the operation, for which there is one case.
LEMMA CalledIs ==
  /\ \A op \in Operations :
       /\ serviceMap[ServiceOf(op)].methods[Stub(op).index + 1] = op
       /\ Called(ServiceOf(op), op) = {Case(op, Stub(op).request, Stub(op).reply)}
       /\ ServiceOf(op) # "" /\ op # ""
  /\ \A service, method : service = "" \/ method = "" => Called(service, method) = {}
<1>1. /\ DOMAIN serviceMap = {"raftRpc", "kvServerRpc"}
      /\ serviceMap["raftRpc"].methods = raftRpcMethods
      /\ serviceMap["raftRpc"].callMethod = raftRpcCallMethod
      /\ serviceMap["kvServerRpc"].methods = kvServerRpcMethods
      /\ serviceMap["kvServerRpc"].callMethod = kvServerRpcCallMethod
  BY DEF serviceMap
<1>2. /\ DOMAIN raftRpcMethods = 1 .. 3 /\ DOMAIN kvServerRpcMethods = 1 .. 2
      /\ raftRpcMethods[1] = "AppendEntries" /\ raftRpcMethods[2] = "InstallSnapshot"
      /\ raftRpcMethods[3] = "RequestVote"
      /\ kvServerRpcMethods[1] = "PutAppend" /\ kvServerRpcMethods[2] = "Get"
  BY DEF raftRpcMethods, kvServerRpcMethods
<1>3. /\ raftRpcCallMethod[1] = Case("AppendEntries", AppendEntriesArgsFields, AppendEntriesReplyFields)
      /\ raftRpcCallMethod[2] = Case("InstallSnapshot", InstallSnapshotRequestFields, InstallSnapshotResponseFields)
      /\ raftRpcCallMethod[3] = Case("RequestVote", RequestVoteArgsFields, RequestVoteReplyFields)
      /\ kvServerRpcCallMethod[1] = Case("PutAppend", PutAppendArgsFields, PutAppendReplyFields)
      /\ kvServerRpcCallMethod[2] = Case("Get", GetArgsFields, GetReplyFields)
  BY DEF raftRpcCallMethod, kvServerRpcCallMethod
<1>4. ASSUME NEW method
      PROVE  /\ Called("raftRpc", method) = {raftRpcCallMethod[i] : i \in {j \in 1 .. 3 : raftRpcMethods[j] = method}}
             /\ Called("kvServerRpc", method)
                  = {kvServerRpcCallMethod[i] : i \in {j \in 1 .. 2 : kvServerRpcMethods[j] = method}}
  BY <1>1, <1>2 DEF Called
<1>5. /\ {j \in 1 .. 3 : raftRpcMethods[j] = "AppendEntries"} = {1}
      /\ {j \in 1 .. 3 : raftRpcMethods[j] = "InstallSnapshot"} = {2}
      /\ {j \in 1 .. 3 : raftRpcMethods[j] = "RequestVote"} = {3}
      /\ {j \in 1 .. 2 : kvServerRpcMethods[j] = "PutAppend"} = {1}
      /\ {j \in 1 .. 2 : kvServerRpcMethods[j] = "Get"} = {2}
  BY <1>2
<1>6. /\ Called("raftRpc", "AppendEntries") = {raftRpcCallMethod[1]}
      /\ Called("raftRpc", "InstallSnapshot") = {raftRpcCallMethod[2]}
      /\ Called("raftRpc", "RequestVote") = {raftRpcCallMethod[3]}
      /\ Called("kvServerRpc", "PutAppend") = {kvServerRpcCallMethod[1]}
      /\ Called("kvServerRpc", "Get") = {kvServerRpcCallMethod[2]}
  BY <1>4, <1>5
<1>7. ASSUME NEW op \in Operations
      PROVE  Called(ServiceOf(op), op) = {Case(op, Stub(op).request, Stub(op).reply)}
  BY <1>3, <1>6, Stubs DEF Method
<1>8. ASSUME NEW op \in Operations
      PROVE  /\ serviceMap[ServiceOf(op)].methods[Stub(op).index + 1] = op
             /\ ServiceOf(op) # "" /\ op # ""
  <2>1. /\ Stub("AppendEntries").index = 0 /\ Stub("InstallSnapshot").index = 1
        /\ Stub("RequestVote").index = 2 /\ Stub("PutAppend").index = 0 /\ Stub("Get").index = 1
    BY Stubs DEF Method
  <2>2. CASE op \in {"AppendEntries", "InstallSnapshot", "RequestVote"}
    <3>1. ServiceOf(op) = "raftRpc"
      BY <2>2, Stubs
    <3>2. raftRpcMethods[Stub(op).index + 1] = op
      BY <1>2, <2>1, <2>2
    <3>. QED  BY <1>1, <2>2, <3>1, <3>2
  <2>3. CASE op \in {"PutAppend", "Get"}
    <3>1. ServiceOf(op) = "kvServerRpc"
      BY <2>3, Stubs
    <3>2. kvServerRpcMethods[Stub(op).index + 1] = op
      BY <1>2, <2>1, <2>3
    <3>. QED  BY <1>1, <2>3, <3>1, <3>2
  <2>. QED  BY <2>2, <2>3, Stubs
<1>9. ASSUME NEW service, NEW method, service = "" \/ method = "" PROVE Called(service, method) = {}
  <2>1. CASE service \notin DOMAIN serviceMap
    BY <2>1 DEF Called
  <2>2. CASE service \in DOMAIN serviceMap
    <3>1. method = "" /\ service \in {"raftRpc", "kvServerRpc"}
      BY <1>1, <1>9, <2>2
    <3>2. CASE service = "raftRpc"
      <4>1. ASSUME NEW j \in 1 .. 3 PROVE raftRpcMethods[j] # method
        <5>1. j = 1 \/ j = 2 \/ j = 3
          OBVIOUS
        <5>. QED  BY <1>2, <3>1, <5>1
      <4>2. Called("raftRpc", method) = {}
        BY <1>4, <4>1
      <4>. QED  BY <3>2, <4>2
    <3>3. CASE service = "kvServerRpc"
      <4>1. ASSUME NEW j \in 1 .. 2 PROVE kvServerRpcMethods[j] # method
        <5>1. j = 1 \/ j = 2
          OBVIOUS
        <5>. QED  BY <1>2, <3>1, <5>1
      <4>2. Called("kvServerRpc", method) = {}
        BY <1>4, <4>1
      <4>. QED  BY <3>3, <4>2
    <3>. QED  BY <3>1, <3>2, <3>3
  <2>. QED  BY <2>1, <2>2
<1>. QED  BY <1>7, <1>8, <1>9

\* A request on the wire: the size of the header, the header and the arguments.
IsFrame(op, request, header, args, frame) ==
  /\ op \in Operations /\ request \in Requests(op)
  /\ args = Serialize(Stub(op).request, request)
  /\ header = Serialize(RpcHeaderFields, RpcHeader(ServiceOf(op), op, Len(args)))
  /\ frame = Frame(op, request)
\* It is the size of the header, the header and the arguments, all whole, and they are read back.
FrameParts(op, request, header, args, frame) ==
  /\ IsHeader(ServiceOf(op), op, Len(args), header) /\ IsSeq(header) /\ IsSeq(args)
  /\ IsSeq(frame) /\ Len(frame) = 1 + Len(header) + Len(args)
  /\ frame[1] = Piece(0, OnWire("uint32", Len(header)))
  /\ \A i \in 1 .. Len(header) : frame[i + 1] = header[i]
  /\ \A i \in 1 .. Len(args) : frame[i + 1 + Len(header)] = args[i]
  /\ \A i \in 1 .. Len(header) : header[i].whole = TRUE
  /\ \A i \in 1 .. Len(args) : args[i].whole = TRUE
  /\ \A i \in 1 .. Len(frame) : IsWhole(frame[i])
  /\ EachEntry(ParseEntry, Stub(op).request,
               InternalParse(Stub(op).request, Default(Stub(op).request), args)) = request

\* A frame has these parts.
LEMMA FrameIs ==
  ASSUME NEW op, NEW request, NEW header, NEW args, NEW frame,
         IsFrame(op, request, header, args, frame)
  PROVE  FrameParts(op, request, header, args, frame)
<1>1. op \in Operations /\ request \in Requests(op)
  BY DEF IsFrame
<1>2. Layout(LogEntryFields) /\ Layout(Stub(op).request) /\ Holds(Stub(op).request, request)
  BY <1>1, Layouts, Classes
<1>3. /\ IsSeq(args) /\ \A i \in 1 .. Len(args) : IsWhole(args[i])
      /\ EachEntry(ParseEntry, Stub(op).request,
                   InternalParse(Stub(op).request, Default(Stub(op).request), args)) = request
  <2>1. PICK fields : fields = Stub(op).request
    OBVIOUS
  <2>2. args = Serialize(fields, request)
    BY <2>1 DEF IsFrame
  <2>3. Layout(fields) /\ Holds(fields, request)
    BY <1>2, <2>1
  <2>4. /\ IsSeq(args) /\ \A i \in 1 .. Len(args) : IsWhole(args[i])
        /\ EachEntry(ParseEntry, fields, InternalParse(fields, Default(fields), args)) = request
    BY <1>2, <2>2, <2>3, MessageBack
  <2>. QED  BY <2>1, <2>4
<1>4. IsHeader(ServiceOf(op), op, Len(args), header)
  <2>1. Len(args) \in Nat
    BY <1>3 DEF IsSeq
  <2>. QED  BY <1>1, <2>1, CalledIs DEF IsHeader, IsFrame
<1>5. IsSeq(header) /\ \A i \in 1 .. Len(header) : IsWhole(header[i])
  BY <1>4, HeaderIs
<1>6. PICK first, one, two : /\ first = Piece(0, OnWire("uint32", Len(header)))
                             /\ one = <<first>> /\ two = one \o header
  OBVIOUS
<1>7. frame = two \o args
  <2>1. serviceMap[ServiceOf(op)].methods[Stub(op).index + 1] = op
    BY <1>1, CalledIs
  <2>2. frame = Frame(op, request) /\ args = Serialize(Stub(op).request, request)
        /\ header = Serialize(RpcHeaderFields, RpcHeader(ServiceOf(op), op, Len(args)))
    BY DEF IsFrame
  <2>. QED  BY <1>6, <2>1, <2>2, Zenon DEF Frame
<1>8. IsSeq(one) /\ Len(one) = 1 /\ one[1] = first
  BY <1>6, OneIs
<1>9. /\ IsSeq(two) /\ Len(two) = Len(one) + Len(header)
      /\ \A i \in 1 .. Len(one) + Len(header) : two[i] = IF i <= Len(one) THEN one[i] ELSE header[i - Len(one)]
  BY <1>5, <1>6, <1>8, ConcatIs
<1>10. PICK h \in Nat, a \in Nat : h = Len(header) /\ a = Len(args)
  BY <1>3, <1>5 DEF IsSeq
<1>11. /\ Len(two) = 1 + h /\ two[1] = first /\ \A i \in 1 .. h : two[i + 1] = header[i]
  <2>1. Len(two) = 1 + h /\ two[1] = first
    BY <1>8, <1>9, <1>10
  <2>2. ASSUME NEW i \in 1 .. h PROVE two[i + 1] = header[i]
    <3>1. PICK k : k = i + 1
      OBVIOUS
    <3>2. k \in 1 .. Len(one) + Len(header) /\ ~(k <= Len(one)) /\ k - Len(one) = i
      BY <1>8, <1>10, <3>1
    <3>3. two[k] = header[k - Len(one)]
      BY <1>9, <3>2
    <3>. QED  BY <3>1, <3>2, <3>3
  <2>. QED  BY <2>1, <2>2
<1>12. /\ IsSeq(frame) /\ Len(frame) = Len(two) + Len(args)
       /\ \A i \in 1 .. Len(two) + Len(args) : frame[i] = IF i <= Len(two) THEN two[i] ELSE args[i - Len(two)]
  BY <1>3, <1>7, <1>9, ConcatIs
<1>13. /\ Len(frame) = 1 + h + a
       /\ frame[1] = first /\ \A i \in 1 .. h : frame[i + 1] = header[i]
  <2>1. Len(frame) = 1 + h + a /\ frame[1] = two[1]
    BY <1>10, <1>11, <1>12
  <2>2. ASSUME NEW i \in 1 .. h PROVE frame[i + 1] = two[i + 1]
    <3>1. i + 1 \in 1 .. Len(two) + Len(args) /\ i + 1 <= Len(two)
      BY <1>10, <1>11
    <3>. QED  BY <1>12, <3>1, Zenon
  <2>. QED  BY <1>11, <2>1, <2>2
<1>14. ASSUME NEW i \in 1 .. a PROVE frame[i + 1 + h] = args[i]
  <2>1. PICK k : k = i + 1 + h
    OBVIOUS
  <2>2. k \in 1 .. Len(two) + Len(args) /\ ~(k <= Len(two)) /\ k - Len(two) = i
    BY <1>10, <1>11, <2>1
  <2>3. frame[k] = args[k - Len(two)]
    BY <1>12, <2>2
  <2>. QED  BY <2>1, <2>2, <2>3
<1>15. ASSUME NEW i \in 1 .. Len(frame) PROVE IsWhole(frame[i])
  <2>1. IsWhole(first)
    BY <1>6 DEF IsWhole, Piece
  <2>2. CASE i = 1
    BY <1>13, <2>1, <2>2
  <2>3. CASE i \in 2 .. 1 + h
    <3>1. PICK k \in 1 .. h : i = k + 1
      <4>1. i - 1 \in 1 .. h /\ i = i - 1 + 1
        BY <2>3
      <4>. QED  BY <4>1
    <3>. QED  BY <1>5, <1>10, <1>13, <3>1
  <2>4. CASE i \in 2 + h .. 1 + h + a
    <3>1. PICK k \in 1 .. a : i = k + 1 + h
      <4>1. i - 1 - h \in 1 .. a /\ i = i - 1 - h + 1 + h
        BY <2>4
      <4>. QED  BY <4>1
    <3>. QED  BY <1>3, <1>10, <1>14, <3>1
  <2>. QED  BY <1>13, <2>2, <2>3, <2>4
<1>16. /\ \A i \in 1 .. Len(header) : header[i].whole = TRUE
       /\ \A i \in 1 .. Len(args) : args[i].whole = TRUE
  BY <1>3, <1>5, WholeIs
<1>. QED  BY <1>3, <1>4, <1>5, <1>6, <1>10, <1>12, <1>13, <1>14, <1>15, <1>16 DEF FrameParts

\* What OnMessage reads of a buffer: the size of the header, the header, the arguments.
IsRead(buffer, size, header, m, args) ==
  /\ IsSeq(buffer) /\ Len(buffer) > 0 /\ size \in Nat /\ buffer[1].value.varint = size
  /\ header = ReadString(Tail(buffer), size).read
  /\ m = InternalParse(RpcHeaderFields, Default(RpcHeaderFields), header)
  /\ args = ReadString(SubSeq(buffer, size + 2, Len(buffer)), m.args_size)

\* What is dispatched, without the entries that a header has not.
LEMMA DispatchIs ==
  ASSUME NEW buffer, NEW size, NEW header, NEW m, NEW args, IsRead(buffer, size, header, m, args)
  PROVE  Dispatch(buffer) =
           {[op |-> case.handler, request |-> Parse(case.request, args.read).message] :
              case \in {c \in Called(m.service_name, m.method_name) :
                          (\A i \in 1 .. Len(header) : header[i].whole) /\ args.ok}}
<1>. USE DEF IsRead
<1>1. IsSeq(header)
  <2>1. IsSeq(Tail(buffer)) /\ size \in Nat
    BY TailIs
  <2>2. Taken(Tail(buffer), size, header)
    BY <2>1, ReadStringIs
  <2>. QED  BY <2>2 DEF Taken
<1>2. DOMAIN header = 1 .. Len(header)
  BY <1>1, SeqIs
<1>3. EachEntry(ParseEntry, RpcHeaderFields, m) = m
  <2>1. PICK fields, d : fields = RpcHeaderFields /\ d = Default(fields)
    OBVIOUS
  <2>2. /\ Layout(fields) /\ Len(fields) = 3
        /\ fields[1].kind = "bytes" /\ fields[2].kind = "bytes" /\ fields[3].kind = "uint32"
    BY <2>1, HeaderFields DEF IsField
  <2>3. \A n \in 1 .. Len(fields) : fields[n].kind # "entries"
    BY <2>2
  <2>4. IsMessage(fields, d)
    BY <2>1, <2>2, DefaultIs
  <2>5. IsMessage(fields, InternalParse(fields, d, header))
    BY <1>1, <2>2, <2>4, ParseKeeps
  <2>6. IsMessage(fields, m)
    BY <2>1, <2>5
  <2>. QED  BY <2>1, <2>2, <2>3, <2>6, NoEntries
<1>4. PICK parsed : parsed = Parse(RpcHeaderFields, ReadString(Tail(buffer), size).read)
  OBVIOUS
<1>5. parsed.message = m /\ parsed.ok = \A i \in 1 .. Len(header) : header[i].whole
  <2>1. parsed = [ok |-> \A i \in DOMAIN header : header[i].whole,
                  message |-> EachEntry(ParseEntry, RpcHeaderFields, m)]
    BY <1>4, Zenon DEF Parse
  <2>. QED  BY <1>2, <1>3, <2>1, Zenon
<1>6. Dispatch(buffer) =
        {[op |-> case.handler, request |-> Parse(case.request, args.read).message] :
           case \in {c \in Called(parsed.message.service_name, parsed.message.method_name) :
                       parsed.ok /\ args.ok}}
  BY <1>4, <1>5, Zenon DEF Dispatch
<1>. QED  BY <1>5, <1>6, Zenon

\* A request that is all there runs its handler.
LEMMA DispatchWhole ==
  ASSUME NEW op, NEW request, NEW header, NEW args, NEW frame,
         IsFrame(op, request, header, args, frame)
  PROVE  Dispatch(frame) = {[op |-> op, request |-> request]}
<1>1. /\ IsHeader(ServiceOf(op), op, Len(args), header) /\ IsSeq(header) /\ IsSeq(args)
      /\ IsSeq(frame) /\ Len(frame) = 1 + Len(header) + Len(args)
      /\ frame[1] = Piece(0, OnWire("uint32", Len(header)))
      /\ \A i \in 1 .. Len(header) : frame[i + 1] = header[i]
      /\ \A i \in 1 .. Len(args) : frame[i + 1 + Len(header)] = args[i]
      /\ \A i \in 1 .. Len(header) : header[i].whole = TRUE
      /\ \A i \in 1 .. Len(args) : args[i].whole = TRUE
      /\ EachEntry(ParseEntry, Stub(op).request,
                   InternalParse(Stub(op).request, Default(Stub(op).request), args)) = request
  <2>1. FrameParts(op, request, header, args, frame)
    BY FrameIs
  <2>. QED  BY <2>1 DEF FrameParts
<1>2. PICK h \in Nat, a \in Nat : h = Len(header) /\ a = Len(args)
  BY <1>1 DEF IsSeq
<1>3. Len(frame) = 1 + h + a /\ frame[1].value.varint = h /\ Len(frame) > 0
  <2>1. PICK p : p = frame[1]
    OBVIOUS
  <2>2. p = Piece(0, OnWire("uint32", h))
    BY <1>1, <1>2, <2>1
  <2>3. p.value.varint = h
    BY <2>2 DEF Piece, OnWire
  <2>. QED  BY <1>1, <1>2, <2>1, <2>3
<1>4. PICK t : t = Tail(frame)
  OBVIOUS
<1>5. IsSeq(t) /\ Len(t) = h + a /\ \A i \in 1 .. h + a : t[i] = frame[i + 1]
  <2>1. IsSeq(frame) /\ Len(frame) > 0
    BY <1>1, <1>3
  <2>2. /\ IsSeq(t) /\ Len(t) = Len(frame) - 1
        /\ \A i \in 1 .. Len(frame) - 1 : t[i] = frame[i + 1]
    BY <1>4, <2>1, TailIs
  <2>3. Len(frame) - 1 = h + a
    BY <1>3
  <2>. QED  BY <2>2, <2>3
<1>6. PICK hh : hh = ReadString(t, h).read
  OBVIOUS
<1>7. IsSeq(hh) /\ Len(hh) = h /\ \A i \in 1 .. h : hh[i] = t[i]
  <2>1. Taken(t, h, hh)
    BY <1>5, <1>6, ReadStringIs
  <2>. QED  BY <1>5, <2>1 DEF Taken
<1>8. hh = header
  <2>1. \A i \in 1 .. h : hh[i] = header[i]
    <3>1. \A i \in 1 .. h : frame[i + 1] = header[i]
      BY <1>1, <1>2
    <3>2. \A i \in 1 .. h : i \in 1 .. h + a
      BY <1>2
    <3>. QED  BY <1>5, <1>7, <3>1, <3>2
  <2>. QED  BY <1>1, <1>2, <1>7, <2>1, SameSeq
<1>9. PICK m : m = InternalParse(RpcHeaderFields, Default(RpcHeaderFields), hh)
  OBVIOUS
<1>10. m = RpcHeader(ServiceOf(op), op, a)
  BY <1>1, <1>2, <1>8, <1>9, HeaderIs
<1>11. m.service_name = ServiceOf(op) /\ m.method_name = op /\ m.args_size = a
  BY <1>10 DEF RpcHeader
<1>12. PICK s : s = SubSeq(frame, h + 2, Len(frame))
  OBVIOUS
<1>13. IsSeq(s) /\ Len(s) = a /\ \A i \in 1 .. a : s[i] = frame[i + 1 + h]
  <2>1. PICK from, to : from = h + 2 /\ to = Len(frame)
    OBVIOUS
  <2>2. /\ IsSeq(s) /\ Len(s) = IF from <= to THEN to - from + 1 ELSE 0
        /\ \A i \in 1 .. to - from + 1 : s[i] = frame[from + i - 1]
    <3>1. from \in Nat \ {0} /\ to \in Nat /\ to <= Len(frame)
      BY <1>3, <2>1
    <3>2. s = SubSeq(frame, from, to)
      BY <1>12, <2>1
    <3>. QED  BY <1>1, <3>1, <3>2, SubSeqIs
  <2>3. Len(s) = a /\ to - from + 1 = a
    BY <1>3, <2>1, <2>2
  <2>4. ASSUME NEW i \in 1 .. a PROVE s[i] = frame[i + 1 + h]
    <3>1. from + i - 1 = i + 1 + h
      BY <2>1
    <3>. QED  BY <2>2, <2>3, <3>1
  <2>. QED  BY <2>2, <2>3, <2>4
<1>14. s = args
  <2>1. \A i \in 1 .. a : s[i] = args[i]
    BY <1>1, <1>2, <1>13
  <2>. QED  BY <1>1, <1>2, <1>13, <2>1, SameSeq
<1>15. PICK r : r = ReadString(s, a).read
  OBVIOUS
<1>16. /\ IsSeq(r) /\ Len(r) = a /\ \A i \in 1 .. a : r[i] = s[i]
       /\ ReadString(s, a).ok <=> a <= Len(s) /\ \A i \in 1 .. Len(r) : r[i].whole
  <2>1. Taken(s, a, r)
    BY <1>13, <1>15, ReadStringIs
  <2>. QED  BY <1>13, <2>1 DEF Taken
<1>17. r = args
  BY <1>1, <1>2, <1>13, <1>14, <1>16, SameSeq
<1>18. ReadString(s, a).ok
  BY <1>1, <1>2, <1>13, <1>16, <1>17
<1>19. \A i \in 1 .. Len(hh) : hh[i].whole
  BY <1>1, <1>8
<1>20. Dispatch(frame) =
         {[op |-> case.handler, request |-> Parse(case.request, r).message] :
            case \in {c \in Called(ServiceOf(op), op) : TRUE}}
  <2>1. PICK b : b = ReadString(s, a)
    OBVIOUS
  <2>2. b = ReadString(SubSeq(frame, h + 2, Len(frame)), m.args_size) /\ b.read = r /\ b.ok
    BY <1>11, <1>12, <1>15, <1>18, <2>1
  <2>3. hh = ReadString(Tail(frame), h).read
    BY <1>4, <1>6
  <2>4. Dispatch(frame) =
          {[op |-> case.handler, request |-> Parse(case.request, b.read).message] :
             case \in {c \in Called(m.service_name, m.method_name) :
                         (\A i \in 1 .. Len(hh) : hh[i].whole) /\ b.ok}}
    <3>1. IsRead(frame, h, hh, m, b)
      BY <1>1, <1>3, <1>9, <2>2, <2>3 DEF IsRead
    <3>. QED  BY <3>1, DispatchIs
  <2>. QED  BY <1>11, <1>19, <2>2, <2>4, Zenon
<1>21. Called(ServiceOf(op), op) = {Case(op, Stub(op).request, Stub(op).reply)}
  BY CalledIs DEF IsFrame
<1>22. Parse(Stub(op).request, r).message = request
  BY <1>1, <1>17, Zenon DEF Parse
<1>23. PICK c : c = Case(op, Stub(op).request, Stub(op).reply)
  OBVIOUS
<1>24. c.handler = op /\ c.request = Stub(op).request
  BY <1>23 DEF Case
<1>25. Dispatch(frame) = {[op |-> c.handler, request |-> Parse(c.request, r).message]}
  BY <1>20, <1>21, <1>23, Zenon
<1>. QED  BY <1>22, <1>24, <1>25, Zenon

\* No arguments are read as a request with no field set.
LEMMA EmptyRequest ==
  ASSUME NEW op \in Operations
  PROVE  Parse(Stub(op).request, <<>>).message = Default(Stub(op).request)
<1>1. PICK fields, d : fields = Stub(op).request /\ d = Default(fields)
  OBVIOUS
<1>2. Layout(fields)
  BY <1>1, Classes
<1>3. IsMessage(fields, d) /\ \A n \in 1 .. Len(fields) : d[fields[n].name] = Unset[fields[n].kind]
  BY <1>1, <1>2, DefaultIs
<1>4. Parse(fields, <<>>).message = EachEntry(ParseEntry, fields, d)
  <2>1. InternalParse(fields, d, <<>>) = d
    BY ParseNothing
  <2>. QED  BY <1>1, <2>1, Zenon DEF Parse
<1>5. DOMAIN d = Names(fields) /\ DOMAIN fields = 1 .. Len(fields)
  <2>1. DOMAIN fields = 1 .. Len(fields)
    BY <1>2, SeqIs DEF Layout
  <2>. QED  BY <1>3, <2>1 DEF IsMessage
<1>6. ASSUME NEW name \in Names(fields), IsEntries(fields, name)
      PROVE  [i \in DOMAIN d[name] |-> ParseEntry(d[name][i])] = d[name]
  <2>1. PICK n \in 1 .. Len(fields) : fields[n] = Field(name, "entries")
    BY <1>5, <1>6 DEF IsEntries
  <2>2. fields[n].name = name /\ fields[n].kind = "entries"
    BY <2>1 DEF Field
  <2>3. d[name] = <<>>
    <3>1. d[name] = Unset["entries"]
      BY <1>3, <2>2
    <3>. QED  BY <3>1 DEF Unset
  <2>4. PICK q : q = [i \in DOMAIN d[name] |-> ParseEntry(d[name][i])]
    OBVIOUS
  <2>5. DOMAIN <<>> = {}
    OBVIOUS
  <2>6. DOMAIN q = {} /\ q = [i \in {} |-> q[i]]
    BY <2>3, <2>4, <2>5
  <2>7. d[name] = [i \in {} |-> q[i]]
    BY <2>3
  <2>. QED  BY <2>4, <2>6, <2>7
<1>7. d = [name \in Names(fields) |-> d[name]]
  BY <1>3 DEF IsMessage
<1>8. EachEntry(ParseEntry, fields, d) = [name \in Names(fields) |-> d[name]]
  BY <1>5, <1>6, Zenon DEF EachEntry
<1>. QED  BY <1>1, <1>4, <1>7, <1>8, Zenon

\* A part of what was sent: the first pieces, or these with the last one cut.
IsPart(all, buffer) ==
  /\ IsSeq(buffer) /\ Len(buffer) \in 1 .. Len(all)
  /\ \A i \in 1 .. Len(buffer) - 1 : buffer[i] = all[i]
  /\ \/ Len(buffer) < Len(all) /\ buffer[Len(buffer)] = all[Len(buffer)]
     \/ buffer[Len(buffer)].whole = FALSE

\* Of a request that is cut short, no handler sees a part of the arguments.
LEMMA DispatchPart ==
  ASSUME NEW op, NEW request, NEW header, NEW args, NEW frame,
         IsFrame(op, request, header, args, frame),
         NEW buffer, IsPart(frame, buffer), buffer[1] = frame[1]
  PROVE  Dispatch(buffer) \subseteq {[op |-> op, request |-> Default(Stub(op).request)]}
<1>1. /\ IsHeader(ServiceOf(op), op, Len(args), header) /\ IsSeq(header) /\ IsSeq(args)
      /\ Len(frame) = 1 + Len(header) + Len(args)
      /\ frame[1] = Piece(0, OnWire("uint32", Len(header)))
      /\ \A i \in 1 .. Len(header) : frame[i + 1] = header[i]
      /\ \A i \in 1 .. Len(header) : header[i].whole = TRUE
  <2>1. FrameParts(op, request, header, args, frame)
    BY FrameIs
  <2>. QED  BY <2>1 DEF FrameParts
<1>2. PICK h \in Nat, a \in Nat : h = Len(header) /\ a = Len(args)
  BY <1>1 DEF IsSeq
<1>3. PICK n \in 1 .. 1 + h + a : n = Len(buffer)
  BY <1>1, <1>2 DEF IsPart
<1>4. /\ IsSeq(buffer) /\ \A i \in 1 .. n - 1 : buffer[i] = frame[i]
      /\ (n < 1 + h + a /\ buffer[n] = frame[n]) \/ buffer[n].whole = FALSE
  BY <1>1, <1>2, <1>3 DEF IsPart
<1>5. buffer[1].value.varint = h /\ buffer[1].whole = TRUE
  <2>1. PICK p : p = buffer[1]
    OBVIOUS
  <2>2. p = Piece(0, OnWire("uint32", h))
    BY <1>1, <1>2, <2>1
  <2>3. p.value.varint = h /\ p.whole = TRUE
    BY <2>2 DEF Piece, OnWire
  <2>. QED  BY <2>1, <2>3
<1>6. PICK t : t = Tail(buffer)
  OBVIOUS
<1>7. IsSeq(t) /\ Len(t) = n - 1 /\ \A i \in 1 .. n - 1 : t[i] = buffer[i + 1]
  BY <1>3, <1>4, <1>6, TailIs
<1>8. PICK hh : hh = ReadString(t, h).read
  OBVIOUS
<1>9. IsSeq(hh) /\ Len(hh) = (IF h < n - 1 THEN h ELSE n - 1) /\ \A i \in 1 .. Len(hh) : hh[i] = t[i]
  <2>1. Taken(t, h, hh)
    BY <1>7, <1>8, ReadStringIs
  <2>. QED  BY <1>7, <2>1 DEF Taken
<1>10. PICK m, b : /\ m = InternalParse(RpcHeaderFields, Default(RpcHeaderFields), hh)
                   /\ b = ReadString(SubSeq(buffer, h + 2, Len(buffer)), m.args_size)
  OBVIOUS
<1>11. Dispatch(buffer) =
         {[op |-> case.handler, request |-> Parse(case.request, b.read).message] :
            case \in {c \in Called(m.service_name, m.method_name) :
                        (\A i \in 1 .. Len(hh) : hh[i].whole) /\ b.ok}}
  <2>1. Len(buffer) > 0
    BY <1>3
  <2>2. IsRead(buffer, h, hh, m, b)
    BY <1>4, <1>5, <1>6, <1>8, <1>10, <2>1 DEF IsRead
  <2>. QED  BY <2>2, DispatchIs
<1>12. CASE buffer[n].whole = FALSE /\ n <= h + 1
  <2>1. n # 1
    BY <1>5, <1>12
  <2>2. Len(hh) = n - 1 /\ n - 1 \in 1 .. Len(hh)
    BY <1>9, <1>12, <2>1
  <2>3. hh[n - 1] = t[n - 1] /\ n - 1 \in 1 .. n - 1
    BY <1>9, <2>2
  <2>4. t[n - 1] = buffer[n - 1 + 1] /\ n - 1 + 1 = n
    BY <1>7, <2>3
  <2>5. hh[n - 1].whole = FALSE
    BY <1>12, <2>3, <2>4
  <2>6. ~ \A i \in 1 .. Len(hh) : hh[i].whole
    BY <2>2, <2>5
  <2>. QED  BY <1>11, <2>6
<1>13. CASE buffer[n] = frame[n] /\ n <= h
  <2>1. Len(hh) = n - 1 /\ n - 1 \in Nat /\ n - 1 < Len(header) /\ n - 1 <= Len(header)
    BY <1>2, <1>9, <1>13
  <2>2. ASSUME NEW i \in 1 .. n - 1 PROVE hh[i] = header[i]
    <3>1. i + 1 \in 1 .. n - 1 \/ i + 1 = n
      BY <1>3
    <3>2. buffer[i + 1] = frame[i + 1]
      BY <1>4, <1>13, <3>1
    <3>3. i \in 1 .. Len(header)
      BY <2>1
    <3>. QED  BY <1>1, <1>7, <1>9, <2>1, <3>2, <3>3
  <2>3. PICK s, k : k = n - 1 /\ s = SubSeq(header, 1, k)
    OBVIOUS
  <2>4. IsSeq(s) /\ Len(s) = k /\ \A i \in 1 .. k : s[i] = header[i]
    BY <1>1, <2>1, <2>3, SubSeqIs
  <2>5. hh = s
    BY <1>9, <2>1, <2>2, <2>3, <2>4, SameSeq
  <2>6. m.service_name = "" \/ m.method_name = "" \/ m = RpcHeader(ServiceOf(op), op, 0)
    <3>1. k \in Nat /\ k < Len(header)
      BY <2>1, <2>3
    <3>2. m = InternalParse(RpcHeaderFields, Default(RpcHeaderFields), SubSeq(header, 1, k))
      BY <1>10, <2>3, <2>5
    <3>3. PICK size, service : size = Len(args) /\ service = ServiceOf(op)
      OBVIOUS
    <3>4. IsHeader(service, op, size, header)
      BY <1>1, <3>3
    <3>5. m.service_name = "" \/ m.method_name = "" \/ m = RpcHeader(service, op, 0)
      BY <3>1, <3>2, <3>4, HeaderPart
    <3>. QED  BY <3>3, <3>5
  <2>7. CASE m.service_name = "" \/ m.method_name = ""
    <3>1. Called(m.service_name, m.method_name) = {}
      BY <2>7, CalledIs
    <3>. QED  BY <1>11, <3>1
  <2>8. CASE m = RpcHeader(ServiceOf(op), op, 0)
    <3>1. m.service_name = ServiceOf(op) /\ m.method_name = op /\ m.args_size = 0
      BY <2>8 DEF RpcHeader
    <3>2. PICK w, from : from = h + 2 /\ w = SubSeq(buffer, from, n)
      OBVIOUS
    <3>3. IsSeq(w) /\ Len(w) = 0
      <4>1. from \in Nat \ {0} /\ n \in Nat /\ n <= Len(buffer) /\ ~(from <= n)
        BY <1>3, <1>13, <3>2
      <4>. QED  BY <1>4, <3>2, <4>1, SubSeqIs
    <3>4. PICK z, r : z = 0 /\ r = ReadString(w, z).read
      OBVIOUS
    <3>5. IsSeq(r) /\ Len(r) = 0
      <4>1. Taken(w, z, r)
        BY <3>3, <3>4, ReadStringIs
      <4>. QED  BY <3>3, <3>4, <4>1 DEF Taken
    <3>6. b.read = <<>>
      <4>1. r = <<>>
        BY <3>5, EmptyIs, SameSeq
      <4>2. b.read = r
        BY <1>3, <1>10, <3>1, <3>2, <3>4
      <4>. QED  BY <4>1, <4>2
    <3>7. Parse(Stub(op).request, <<>>).message = Default(Stub(op).request)
      BY EmptyRequest DEF IsFrame
    <3>8. Called(m.service_name, m.method_name) = {Case(op, Stub(op).request, Stub(op).reply)}
      BY <3>1, CalledIs DEF IsFrame
    <3>9. PICK c : c = Case(op, Stub(op).request, Stub(op).reply)
      OBVIOUS
    <3>10. c.handler = op /\ c.request = Stub(op).request
      BY <3>9 DEF Case
    <3>11. Dispatch(buffer) \subseteq {[op |-> c.handler, request |-> Parse(c.request, <<>>).message]}
      BY <1>11, <3>6, <3>8, <3>9, Zenon
    <3>. QED  BY <3>7, <3>10, <3>11, Zenon
  <2>. QED  BY <2>6, <2>7, <2>8
<1>14. CASE n > h + 1 \/ (n = h + 1 /\ n < 1 + h + a /\ buffer[n] = frame[n])
  <2>1. Len(hh) = h
    BY <1>9, <1>14
  <2>2. ASSUME NEW i \in 1 .. h PROVE hh[i] = header[i]
    <3>1. i \in 1 .. n - 1 /\ (i + 1 \in 1 .. n - 1 \/ i + 1 = n)
      BY <1>3, <1>14
    <3>2. buffer[i + 1] = frame[i + 1]
      <4>1. CASE i + 1 \in 1 .. n - 1
        BY <1>4, <4>1
      <4>2. CASE i + 1 = n
        BY <1>3, <1>14, <4>2
      <4>. QED  BY <3>1, <4>1, <4>2
    <3>3. i \in 1 .. Len(header) /\ i \in 1 .. Len(hh)
      BY <1>2, <2>1
    <3>4. hh[i] = t[i] /\ t[i] = buffer[i + 1] /\ frame[i + 1] = header[i]
      BY <1>1, <1>7, <1>9, <3>1, <3>3
    <3>. QED  BY <3>2, <3>4
  <2>3. hh = header
    BY <1>1, <1>2, <1>9, <2>1, <2>2, SameSeq
  <2>4. m.args_size = a
    <3>1. m = RpcHeader(ServiceOf(op), op, Len(args))
      <4>1. InternalParse(RpcHeaderFields, Default(RpcHeaderFields), header)
              = RpcHeader(ServiceOf(op), op, Len(args))
        <5>1. PICK size, service : size = Len(args) /\ service = ServiceOf(op)
          OBVIOUS
        <5>2. IsHeader(service, op, size, header)
          BY <1>1, <5>1
        <5>3. InternalParse(RpcHeaderFields, Default(RpcHeaderFields), header) = RpcHeader(service, op, size)
          BY <5>2, HeaderIs
        <5>. QED  BY <5>1, <5>3
      <4>. QED  BY <1>10, <2>3, <4>1
    <3>. QED  BY <1>2, <3>1 DEF RpcHeader
  <2>5. PICK w, from : from = h + 2 /\ w = SubSeq(buffer, from, n)
    OBVIOUS
  <2>6. /\ IsSeq(w) /\ Len(w) = (IF from <= n THEN n - from + 1 ELSE 0)
        /\ \A i \in 1 .. n - from + 1 : w[i] = buffer[from + i - 1]
    <3>1. from \in Nat \ {0} /\ n \in Nat /\ n <= Len(buffer)
      BY <1>3, <2>5
    <3>. QED  BY <1>4, <2>5, <3>1, SubSeqIs
  <2>7. PICK r : r = ReadString(w, a).read
    OBVIOUS
  <2>8. /\ IsSeq(r) /\ Len(r) = IF a < Len(w) THEN a ELSE Len(w)
        /\ \A i \in 1 .. Len(r) : r[i] = w[i]
        /\ ReadString(w, a).ok <=> a <= Len(w) /\ \A i \in 1 .. Len(r) : r[i].whole
    <3>1. Taken(w, a, r)
      BY <2>6, <2>7, ReadStringIs
    <3>. QED  BY <3>1 DEF Taken
  <2>9. ~b.ok
    <3>1. b = ReadString(w, a)
      BY <1>3, <1>10, <2>4, <2>5
    <3>2. CASE n < 1 + h + a
      <4>1. Len(w) < a
        BY <1>14, <2>5, <2>6, <3>2
      <4>. QED  BY <2>6, <2>8, <3>1, <4>1
    <3>3. CASE n = 1 + h + a
      <4>1. buffer[n].whole = FALSE
        BY <1>4, <3>3
      <4>2. n > h + 1
        BY <1>14, <3>3
      <4>3. Len(w) = a /\ a \in 1 .. a /\ Len(r) = a /\ n - from + 1 = a /\ from + a - 1 = n
        BY <2>5, <2>6, <2>8, <3>3, <4>2
      <4>4. r[a] = buffer[n]
        BY <2>6, <2>8, <4>3
      <4>. QED  BY <2>8, <3>1, <4>1, <4>3, <4>4
    <3>. QED  BY <1>3, <3>2, <3>3
  <2>. QED  BY <1>11, <2>9
<1>15. n <= h \/ n > h + 1 \/ n = h + 1
  BY <1>3
<1>16. n = h + 1 => n <= h + 1
  OBVIOUS
<1>17. n <= h => n <= h + 1
  BY <1>3
<1>. QED  BY <1>4, <1>12, <1>13, <1>14, <1>15, <1>16, <1>17

-----------------------------------------------------------------------------
(* Replies that arrive together *)

\* The layout of a class without entries.
ReplyLayout(fields) ==
  /\ Layout(fields) /\ \A n \in 1 .. Len(fields) : fields[n].kind # "entries"

\* No class of a reply has entries, and only that to AppendEntries has a fourth field in
\* raftRpc.
LEMMA ReplyLayouts ==
  /\ \A op \in Operations : ReplyLayout(Stub(op).reply)
  /\ Len(AppendEntriesReplyFields) = 4 /\ IsField(AppendEntriesReplyFields, 4, "int32", "AppState")
  /\ Len(InstallSnapshotResponseFields) < 4 /\ Len(RequestVoteReplyFields) < 4
<1>1. \A n \in 1 .. Len(AppendEntriesReplyFields) : AppendEntriesReplyFields[n].kind # "entries"
  BY DEF AppendEntriesReplyFields, Field
<1>2. \A n \in 1 .. Len(InstallSnapshotResponseFields) : InstallSnapshotResponseFields[n].kind # "entries"
  BY DEF InstallSnapshotResponseFields, Field
<1>3. \A n \in 1 .. Len(RequestVoteReplyFields) : RequestVoteReplyFields[n].kind # "entries"
  BY DEF RequestVoteReplyFields, Field
<1>4. \A n \in 1 .. Len(PutAppendReplyFields) : PutAppendReplyFields[n].kind # "entries"
  BY DEF PutAppendReplyFields, Field
<1>5. \A n \in 1 .. Len(GetReplyFields) : GetReplyFields[n].kind # "entries"
  BY DEF GetReplyFields, Field
<1>6. /\ Stub("AppendEntries").reply = AppendEntriesReplyFields
      /\ Stub("InstallSnapshot").reply = InstallSnapshotResponseFields
      /\ Stub("RequestVote").reply = RequestVoteReplyFields
      /\ Stub("PutAppend").reply = PutAppendReplyFields
      /\ Stub("Get").reply = GetReplyFields
  BY Stubs DEF Method
<1>7. ASSUME NEW op \in Operations PROVE ReplyLayout(Stub(op).reply)
  <2>1. Layout(Stub(op).reply)
    BY Classes
  <2>2. \A n \in 1 .. Len(Stub(op).reply) : Stub(op).reply[n].kind # "entries"
    BY <1>1, <1>2, <1>3, <1>4, <1>5, <1>6, Stubs
  <2>. QED  BY <2>1, <2>2 DEF ReplyLayout
<1>8. Len(AppendEntriesReplyFields) = 4 /\ IsField(AppendEntriesReplyFields, 4, "int32", "AppState")
  BY DEF AppendEntriesReplyFields, Field, IsField
<1>9. Len(InstallSnapshotResponseFields) < 4 /\ Len(RequestVoteReplyFields) < 4
  BY DEF InstallSnapshotResponseFields, RequestVoteReplyFields
<1>. QED  BY <1>7, <1>8, <1>9

\* A piece that sets whatever field it is read as.
IsSet(piece) ==
  \A kind \in Kinds \ {"entries"} :
    SameWireType(kind, piece.value) => FromWire(kind, piece.value) # Unset[kind]

\* What is not a default value on one side is none on the other.
LEMMA PieceIsSet ==
  ASSUME NEW kind \in Kinds \ {"entries"}, NEW n, NEW value, kind = "bool" => value \in BOOLEAN,
         NEW piece, IsPiece(kind, n, value, piece)
  PROVE  IsSet(piece)
<1>1. value # Unset[kind]
  BY DEF IsPiece
<1>2. PICK wire : wire = piece.value
  OBVIOUS
<1>3. wire = OnWire(kind, value)
  BY <1>2 DEF IsPiece
<1>4. kind \in {"int32", "uint32", "bool", "bytes"}
  BY DEF Kinds
<1>0. Unset["int32"] = 0 /\ Unset["uint32"] = 0
  BY DEF Unset
<1>5. CASE kind \in {"int32", "uint32", "bool"}
  <2>1. PICK v : wire = [varint |-> v] /\ v # 0
    <3>1. CASE kind = "bool"
      <4>1. value
        BY <1>1, <3>1 DEF Unset
      <4>2. wire = [varint |-> 1]
        BY <1>3, <3>1, <4>1 DEF OnWire
      <4>. QED  BY <4>2
    <3>2. CASE kind # "bool"
      <4>1. wire = [varint |-> value]
        BY <1>3, <1>5, <3>2 DEF OnWire
      <4>2. value # 0
        BY <1>0, <1>1, <1>5, <3>2
      <4>. QED  BY <4>1, <4>2
    <3>. QED  BY <3>1, <3>2
  <2>2. "bytes" \notin DOMAIN wire /\ wire.varint = v
    BY <2>1
  <2>3. ASSUME NEW as \in Kinds \ {"entries"}, SameWireType(as, wire)
        PROVE  FromWire(as, wire) # Unset[as]
    <3>1. as \in {"int32", "uint32", "bool"}
      BY <2>2, <2>3 DEF SameWireType, Kinds
    <3>2. CASE as \in {"int32", "uint32"}
      <4>1. FromWire(as, wire) = v
        BY <2>2, <3>2 DEF FromWire
      <4>2. Unset[as] = 0
        BY <1>0, <3>2
      <4>. QED  BY <2>1, <4>1, <4>2
    <3>3. CASE as = "bool"
      <4>1. FromWire(as, wire) = (v # 0)
        BY <2>2, <3>3 DEF FromWire
      <4>2. Unset[as] = FALSE
        BY <3>3 DEF Unset
      <4>. QED  BY <2>1, <4>1, <4>2
    <3>. QED  BY <3>1, <3>2, <3>3
  <2>. QED  BY <1>2, <2>3 DEF IsSet
<1>6. CASE kind = "bytes"
  <2>1. wire = [bytes |-> value] /\ value # ""
    BY <1>1, <1>3, <1>6 DEF OnWire, Unset
  <2>2. "bytes" \in DOMAIN wire /\ wire.bytes = value
    BY <2>1
  <2>3. ASSUME NEW as \in Kinds \ {"entries"}, SameWireType(as, wire)
        PROVE  FromWire(as, wire) # Unset[as]
    <3>1. as = "bytes"
      BY <2>2, <2>3 DEF SameWireType, Kinds
    <3>2. FromWire(as, wire) = value
      BY <2>2, <3>1 DEF FromWire
    <3>. QED  BY <2>1, <3>1, <3>2 DEF Unset
  <2>. QED  BY <1>2, <2>3 DEF IsSet
<1>. QED  BY <1>4, <1>5, <1>6

\* A piece that is taken into two messages, of which one is merged into a third.
LEMMA TakeMerges ==
  ASSUME NEW fields, ReplyLayout(fields), NEW into, IsMessage(fields, into),
         NEW part, IsMessage(fields, part), NEW piece, IsSet(piece)
  PROVE  TakePiece(fields, MergeFrom(fields, into, part), piece)
           = MergeFrom(fields, into, TakePiece(fields, part, piece))
<1>1. Layout(fields) /\ \A n \in 1 .. Len(fields) : fields[n].kind # "entries"
  BY DEF ReplyLayout
<1>2. DOMAIN fields = 1 .. Len(fields)
  BY <1>1, SeqIs DEF Layout
<1>3. \A name : ~IsEntries(fields, name)
  <2>1. \A name : \A n \in 1 .. Len(fields) : fields[n] # Field(name, "entries")
    BY <1>1 DEF Field
  <2>. QED  BY <1>2, <2>1 DEF IsEntries
<1>4. PICK d : d = Default(fields)
  OBVIOUS
<1>5. DOMAIN into = Names(fields)
  BY DEF IsMessage
<1>6. ASSUME NEW from
      PROVE  MergeFrom(fields, into, from)
               = [name \in Names(fields) |-> IF from[name] = d[name] THEN into[name] ELSE from[name]]
  BY <1>3, <1>4, <1>5, Zenon DEF MergeFrom
<1>7. PICK both : both = MergeFrom(fields, into, part)
  OBVIOUS
<1>8. both = [name \in Names(fields) |-> IF part[name] = d[name] THEN into[name] ELSE part[name]]
  BY <1>6, <1>7
<1>. DEFINE skipped == ~piece.whole \/ piece.number \notin DOMAIN fields
            field == fields[piece.number]
<1>9. CASE skipped \/ ~SameWireType(field.kind, piece.value)
  <2>1. TakePiece(fields, both, piece) = both /\ TakePiece(fields, part, piece) = part
    BY <1>9, Zenon DEF TakePiece
  <2>. QED  BY <1>7, <2>1
<1>10. CASE ~skipped /\ SameWireType(field.kind, piece.value)
  <2>1. piece.number \in 1 .. Len(fields)
    BY <1>2, <1>10
  <2>2. PICK v, kind, f : v = FromWire(kind, piece.value) /\ kind = field.kind /\ f = field.name
    OBVIOUS
  <2>3. kind # "entries" /\ kind \in Kinds \ {"entries"}
    BY <1>1, <2>1, <2>2 DEF Layout
  <2>4. v # Unset[kind]
    BY <1>10, <2>2, <2>3 DEF IsSet
  <2>5. f \in Names(fields) /\ d[f] = Unset[kind]
    BY <1>1, <1>4, <2>1, <2>2, DefaultIs
  <2>6. ASSUME NEW message
        PROVE  TakePiece(fields, message, piece) = [message EXCEPT ![f] = v]
    BY <1>10, <2>2, <2>3, Zenon DEF TakePiece
  <2>7. PICK after, taken : after = [both EXCEPT ![f] = v] /\ taken = [part EXCEPT ![f] = v]
    OBVIOUS
  <2>8. taken[f] = v /\ \A name \in Names(fields) : name # f => taken[name] = part[name]
    BY <2>5, <2>7 DEF IsMessage
  <2>9. /\ after = [name \in Names(fields) |-> after[name]]
        /\ after[f] = v /\ \A name \in Names(fields) : name # f => after[name] = both[name]
    BY <1>8, <2>5, <2>7
  <2>10. ASSUME NEW name \in Names(fields)
         PROVE  after[name] = IF taken[name] = d[name] THEN into[name] ELSE taken[name]
    <3>1. CASE name = f
      BY <2>4, <2>5, <2>8, <2>9, <3>1
    <3>2. CASE name # f
      <4>1. after[name] = both[name] /\ taken[name] = part[name]
        BY <2>8, <2>9, <3>2
      <4>. QED  BY <1>8, <4>1, Zenon
    <3>. QED  BY <3>1, <3>2
  <2>11. [name \in Names(fields) |-> after[name]]
           = [name \in Names(fields) |-> IF taken[name] = d[name] THEN into[name] ELSE taken[name]]
    BY <2>10, Zenon
  <2>12. after = MergeFrom(fields, into, taken)
    BY <1>6, <2>9, <2>11, Zenon
  <2>. QED  BY <1>7, <2>6, <2>7, <2>12, Zenon
<1>. QED  BY <1>9, <1>10

\* To read into a message is to read into a new one, and to merge that.
LEMMA ParseMerges ==
  ASSUME NEW fields, ReplyLayout(fields), NEW into, IsMessage(fields, into),
         NEW s, IsSeq(s), \A i \in 1 .. Len(s) : IsSet(s[i])
  PROVE  InternalParse(fields, into, s)
           = MergeFrom(fields, into, InternalParse(fields, Default(fields), s))
<1>. DEFINE N == Len(s)
<1>1. N \in Nat
  BY DEF IsSeq
<1>2. Layout(fields)
  BY DEF ReplyLayout
<1>3. PICK d : d = Default(fields)
  OBVIOUS
<1>4. IsMessage(fields, d)
  BY <1>2, <1>3, DefaultIs
<1>. DEFINE Good(n) == InternalParse(fields, into, SubSeq(s, 1, n))
                         = MergeFrom(fields, into, InternalParse(fields, d, SubSeq(s, 1, n)))
            T == {n \in 0 .. N : ~Good(n)}
<1>5. Good(0)
  <2>1. PICK z, v : z = 0 /\ v = SubSeq(s, 1, z)
    OBVIOUS
  <2>2. IsSeq(v) /\ Len(v) = 0
    BY <1>1, <2>1, SubSeqIs
  <2>3. v = <<>>
    BY <2>2, EmptyIs, SameSeq
  <2>4. InternalParse(fields, into, v) = into /\ InternalParse(fields, d, v) = d
    BY <2>3, ParseNothing
  <2>5. MergeFrom(fields, into, d) = into
    <3>1. DOMAIN fields = 1 .. Len(fields)
      BY <1>2, SeqIs DEF Layout
    <3>2. \A name : \A n \in 1 .. Len(fields) : fields[n] # Field(name, "entries")
      BY DEF ReplyLayout, Field
    <3>3. \A name : ~IsEntries(fields, name)
      BY <3>1, <3>2 DEF IsEntries
    <3>4. MergeFrom(fields, into, d) = [name \in DOMAIN into |-> into[name]]
      BY <1>3, <3>3, Zenon DEF MergeFrom
    <3>5. into = [name \in DOMAIN into |-> into[name]]
      BY DEF IsMessage
    <3>. QED  BY <3>4, <3>5, Zenon
  <2>. QED  BY <2>1, <2>4, <2>5
<1>6. ASSUME NEW n \in 1 .. N, Good(n - 1) PROVE Good(n)
  <2>1. SubSeq(s, 1, n) = Append(SubSeq(s, 1, n - 1), s[n])
    BY FrontAndLast
  <2>2. PICK f, x : f = SubSeq(s, 1, n - 1) /\ x = s[n]
    OBVIOUS
  <2>3. IsSeq(f)
    <3>1. n - 1 \in Nat /\ n - 1 <= Len(s)
      BY <1>1
    <3>. QED  BY <2>2, <3>1, SubSeqIs
  <2>4. IsSet(x)
    BY <2>2
  <2>5. PICK a, b : a = InternalParse(fields, into, f) /\ b = InternalParse(fields, d, f)
    OBVIOUS
  <2>6. InternalParse(fields, into, Append(f, x)) = TakePiece(fields, a, x)
    BY <2>3, <2>5, ParseAppend
  <2>7. InternalParse(fields, d, Append(f, x)) = TakePiece(fields, b, x)
    BY <2>3, <2>5, ParseAppend
  <2>8. IsMessage(fields, b)
    BY <1>2, <1>4, <2>3, <2>5, ParseKeeps
  <2>9. a = MergeFrom(fields, into, b)
    BY <1>6, <2>2, <2>5
  <2>10. TakePiece(fields, MergeFrom(fields, into, b), x) = MergeFrom(fields, into, TakePiece(fields, b, x))
    BY <2>4, <2>8, TakeMerges
  <2>. QED  BY <2>1, <2>2, <2>6, <2>7, <2>9, <2>10
<1>. HIDE DEF Good
<1>7. T = {}
  <2>1. SUFFICES ASSUME T # {} PROVE FALSE
    OBVIOUS
  <2>2. T \in SUBSET Nat
    OBVIOUS
  <2>3. PICK n \in T : \A m \in T : n <= m
    BY <2>1, <2>2, LeastIn
  <2>4. n # 0 => n \in 1 .. N /\ n - 1 \in 0 .. N /\ ~(n <= n - 1)
    BY <1>1
  <2>. QED  BY <1>5, <1>6, <2>3, <2>4
<1>8. Good(N)
  BY <1>1, <1>7
<1>9. SubSeq(s, 1, N) = s
  <2>1. PICK f : f = SubSeq(s, 1, N)
    OBVIOUS
  <2>2. IsSeq(f) /\ Len(f) = N /\ \A i \in 1 .. N : f[i] = s[i]
    BY <1>1, <2>1, SubSeqIs
  <2>. QED  BY <2>1, <2>2, SameSeq
<1>. QED  BY <1>3, <1>8, <1>9 DEF Good

-----------------------------------------------------------------------------
(* All that was written on a connection *)

\* The equation of what the first n messages wrote.
Joins(messages, n, f) ==
  [i \in 0 .. n |-> IF i = 0 THEN <<>> ELSE f[i - 1] \o Written(messages[i])]
AllOf(messages, n) ==
  LET all[i \in 0 .. n] == IF i = 0 THEN <<>> ELSE all[i - 1] \o Written(messages[i])
  IN all[n]

\* It has a solution.
LEMMA JoinsExist ==
  ASSUME NEW messages, NEW N \in Nat
  PROVE  \E f : f = Joins(messages, N, f)
<1>. DEFINE T == {n \in 0 .. N : ~ \E f : f = Joins(messages, n, f)}
<1>1. SUFFICES ASSUME T # {} PROVE FALSE
  OBVIOUS
<1>2. PICK n \in T : \A m \in T : n <= m
  <2>1. T \in SUBSET Nat
    OBVIOUS
  <2>. QED  BY <1>1, <2>1, LeastIn
<1>3. CASE n = 0
  <2>1. [i \in 0 .. 0 |-> <<>>] = Joins(messages, 0, [i \in 0 .. 0 |-> <<>>])
    BY DEF Joins
  <2>. QED  BY <1>2, <1>3, <2>1
<1>4. CASE n # 0
  <2>1. n - 1 \in 0 .. N /\ ~(n <= n - 1) /\ n \in Nat
    BY <1>2, <1>4
  <2>2. PICK g : g = Joins(messages, n - 1, g)
    BY <1>2, <2>1
  <2>3. \A i \in 0 .. n - 1 : g[i] = IF i = 0 THEN <<>> ELSE g[i - 1] \o Written(messages[i])
    BY <2>2, Zenon DEF Joins
  <2>. DEFINE f == [i \in 0 .. n |-> IF i = n THEN g[n - 1] \o Written(messages[n]) ELSE g[i]]
  <2>4. \A i \in 0 .. n : i # n => i \in 0 .. n - 1 /\ (i # 0 => i - 1 \in 0 .. n /\ i - 1 # n)
    BY <2>1
  <2>5. ASSUME NEW i \in 0 .. n
        PROVE  f[i] = IF i = 0 THEN <<>> ELSE f[i - 1] \o Written(messages[i])
    <3>1. CASE i = n
      <4>1. n - 1 \in 0 .. n /\ n - 1 # n
        BY <2>1
      <4>2. f[n - 1] = g[n - 1]
        BY <4>1, Zenon
      <4>3. n \in 0 .. n
        BY <2>1
      <4>4. f[n] = g[n - 1] \o Written(messages[n])
        BY <4>3, Zenon
      <4>. HIDE DEF f
      <4>. QED  BY <1>4, <3>1, <4>2, <4>4, Zenon
    <3>2. CASE i # n
      <4>1. f[i] = g[i] /\ (i # 0 => f[i - 1] = g[i - 1])
        BY <2>4, <3>2
      <4>. HIDE DEF f
      <4>. QED  BY <2>3, <2>4, <3>2, <4>1, Zenon
    <3>. QED  BY <3>1, <3>2
  <2>6. f = Joins(messages, n, f)
    <3>1. f = [i \in 0 .. n |-> f[i]]
      OBVIOUS
    <3>. HIDE DEF f
    <3>2. [i \in 0 .. n |-> f[i]] = [i \in 0 .. n |-> IF i = 0 THEN <<>> ELSE f[i - 1] \o Written(messages[i])]
      BY <2>5, Zenon
    <3>. QED  BY <3>1, <3>2, Zenon DEF Joins
  <2>. QED  BY <1>2, <2>6
<1>. QED  BY <1>3, <1>4

\* Any solution, also one of more messages, gives what was written.
LEMMA JoinsAre ==
  ASSUME NEW messages, NEW N \in Nat, NEW f, f = Joins(messages, N, f), NEW n \in 0 .. N
  PROVE  AllOf(messages, n) = f[n]
<1>. DEFINE all == CHOOSE g : g = Joins(messages, n, g)
<1>1. all = Joins(messages, n, all)
  <2>1. n \in Nat
    OBVIOUS
  <2>2. \E g : g = Joins(messages, n, g)
    BY <2>1, JoinsExist
  <2>. QED  BY <2>2, Zenon
<1>2. AllOf(messages, n) = all[n]
  BY Zenon DEF AllOf, Joins
<1>. HIDE DEF all
<1>3. \A i \in 0 .. n : all[i] = IF i = 0 THEN <<>> ELSE all[i - 1] \o Written(messages[i])
  BY <1>1, Zenon DEF Joins
<1>4. \A i \in 0 .. N : f[i] = IF i = 0 THEN <<>> ELSE f[i - 1] \o Written(messages[i])
  BY Zenon DEF Joins
<1>. DEFINE T == {i \in 0 .. n : all[i] # f[i]}
<1>5. T = {}
  <2>1. SUFFICES ASSUME T # {} PROVE FALSE
    OBVIOUS
  <2>2. T \in SUBSET Nat
    OBVIOUS
  <2>3. PICK i \in T : \A j \in T : i <= j
    BY <2>1, <2>2, LeastIn
  <2>4. i # 0 => i - 1 \in 0 .. n /\ ~(i <= i - 1)
    OBVIOUS
  <2>5. i # 0 => all[i - 1] = f[i - 1]
    BY <2>3, <2>4
  <2>6. i \in 0 .. n /\ i \in 0 .. N
    OBVIOUS
  <2>7. all[i] = f[i]
    BY <1>3, <1>4, <2>5, <2>6, Zenon
  <2>. QED  BY <2>7
<1>6. n \in 0 .. n
  OBVIOUS
<1>. QED  BY <1>2, <1>5, <1>6

\* What one more message wrote follows what the others did.
LEMMA AllOfIs ==
  ASSUME NEW messages
  PROVE  /\ AllOf(messages, 0) = <<>>
         /\ \A n \in Nat \ {0} : AllOf(messages, n) = AllOf(messages, n - 1) \o Written(messages[n])
<1>1. ASSUME NEW n \in Nat
      PROVE  \E f : /\ f[0] = <<>>
                    /\ \A i \in 0 .. n : AllOf(messages, i) = f[i]
                    /\ n # 0 => f[n] = f[n - 1] \o Written(messages[n])
  <2>1. PICK f : f = Joins(messages, n, f)
    BY JoinsExist
  <2>2. \A i \in 0 .. n : AllOf(messages, i) = f[i]
    BY <2>1, JoinsAre
  <2>3. \A i \in 0 .. n : f[i] = IF i = 0 THEN <<>> ELSE f[i - 1] \o Written(messages[i])
    BY <2>1, Zenon DEF Joins
  <2>4. 0 \in 0 .. n /\ n \in 0 .. n
    OBVIOUS
  <2>5. /\ f[0] = <<>>
        /\ \A i \in 0 .. n : AllOf(messages, i) = f[i]
        /\ n # 0 => f[n] = f[n - 1] \o Written(messages[n])
    BY <2>2, <2>3, <2>4, Zenon
  <2>. QED  BY <2>5, Zenon
<1>2. AllOf(messages, 0) = <<>>
  <2>0. PICK n \in Nat : n = 0
    OBVIOUS
  <2>1. PICK f : f[0] = <<>> /\ \A i \in 0 .. n : AllOf(messages, i) = f[i]
    BY <1>1
  <2>2. 0 \in 0 .. n
    BY <2>0
  <2>. QED  BY <2>1, <2>2
<1>3. ASSUME NEW n \in Nat \ {0}
      PROVE  AllOf(messages, n) = AllOf(messages, n - 1) \o Written(messages[n])
  <2>1. PICK f : /\ \A i \in 0 .. n : AllOf(messages, i) = f[i]
                 /\ n # 0 => f[n] = f[n - 1] \o Written(messages[n])
    BY <1>1
  <2>2. n \in 0 .. n /\ n - 1 \in 0 .. n /\ n # 0
    OBVIOUS
  <2>3. AllOf(messages, n) = f[n] /\ AllOf(messages, n - 1) = f[n - 1]
    BY <2>1, <2>2
  <2>. QED  BY <2>1, <2>2, <2>3, Zenon
<1>. QED  BY <1>2, <1>3

\* It depends on these messages only.
LEMMA AllOfSame ==
  ASSUME NEW messages, NEW more, NEW N \in Nat, \A i \in 1 .. N : messages[i] = more[i]
  PROVE  AllOf(messages, N) = AllOf(more, N)
<1>. DEFINE T == {n \in 0 .. N : AllOf(messages, n) # AllOf(more, n)}
<1>1. T = {}
  <2>1. SUFFICES ASSUME T # {} PROVE FALSE
    OBVIOUS
  <2>2. T \in SUBSET Nat
    OBVIOUS
  <2>3. PICK n \in T : \A m \in T : n <= m
    BY <2>1, <2>2, LeastIn
  <2>4. n # 0 => n \in 1 .. N /\ n \in Nat \ {0} /\ n - 1 \in 0 .. N /\ ~(n <= n - 1)
    OBVIOUS
  <2>5. CASE n = 0
    BY <2>5, AllOfIs
  <2>6. CASE n # 0
    <3>1. AllOf(messages, n - 1) = AllOf(more, n - 1) /\ messages[n] = more[n]
      BY <2>3, <2>4, <2>6
    <3>2. /\ AllOf(messages, n) = AllOf(messages, n - 1) \o Written(messages[n])
          /\ AllOf(more, n) = AllOf(more, n - 1) \o Written(more[n])
      BY <2>4, <2>6, AllOfIs
    <3>. QED  BY <3>1, <3>2
  <2>. QED  BY <2>5, <2>6
<1>. QED  BY <1>1

\* A message that can be sent.
IsRequest(m) == m.kind = "request" /\ m.op \in Operations /\ m.message \in Requests(m.op)
IsReply(m) == m.kind = "reply" /\ m.op \in Operations /\ m.message \in Replies(m.op)
IsSent(m) == IsRequest(m) \/ IsReply(m)

\* What is written of a request is a frame.
LEMMA RequestIs ==
  ASSUME NEW m, IsRequest(m)
  PROVE  \E header, args : IsFrame(m.op, m.message, header, args, Written(m))
<1>1. PICK op, request, frame : op = m.op /\ request = m.message /\ frame = Written(m)
  OBVIOUS
<1>2. frame = Frame(op, request)
  BY <1>1, Zenon DEF Written, IsRequest
<1>3. PICK args : args = Serialize(Stub(op).request, request)
  OBVIOUS
<1>4. PICK header : header = Serialize(RpcHeaderFields, RpcHeader(ServiceOf(op), op, Len(args)))
  OBVIOUS
<1>5. op \in Operations /\ request \in Requests(op)
  BY <1>1 DEF IsRequest
<1>6. IsFrame(op, request, header, args, frame)
  BY <1>2, <1>3, <1>4, <1>5 DEF IsFrame
<1>. QED  BY <1>1, <1>6

\* What is written of a reply: pieces that are set, the one of the last field at the end.
LEMMA ReplyIs ==
  ASSUME NEW m, IsReply(m), NEW w, w = Written(m)
  PROVE  /\ IsSeq(w) /\ \A i \in 1 .. Len(w) : IsWhole(w[i]) /\ IsSet(w[i])
         /\ \A i \in 1 .. Len(w) : /\ w[i].number \in 1 .. Len(Stub(m.op).reply)
                                   /\ w[i].number = Len(Stub(m.op).reply) => i = Len(w)
<1>1. PICK fields, message : fields = Stub(m.op).reply /\ message = m.message
  OBVIOUS
<1>2. ReplyLayout(fields) /\ Holds(fields, message)
  BY <1>1, ReplyLayouts, Classes DEF IsReply
<1>3. /\ Layout(fields) /\ \A n \in 1 .. Len(fields) : fields[n].kind # "entries"
      /\ Fits(fields, message) /\ IsMessage(fields, message)
  BY <1>2 DEF ReplyLayout, Holds, Fits
<1>4. w = Serialize(fields, message)
  <2>1. m.kind # "request"
    BY DEF IsReply
  <2>. QED  BY <1>1, <2>1, Zenon DEF Written
<1>5. EachEntry(SerializeEntry, fields, message) = message
  BY <1>3, NoEntries
<1>6. w = InternalSerialize(fields, message)
  BY <1>4, <1>5, Zenon DEF Serialize
<1>7. /\ IsSeq(w) /\ \A i \in 1 .. Len(w) : WrittenPiece(fields, message, Len(fields), w[i])
      /\ \A i \in 1 .. Len(w) :
            w[i].number = Len(fields) /\ fields[Len(fields)].kind # "entries" => i = Len(w)
  BY <1>3, <1>6, RoundTrip
<1>8. ASSUME NEW i \in 1 .. Len(w)
      PROVE  /\ IsWhole(w[i]) /\ IsSet(w[i]) /\ w[i].number \in 1 .. Len(fields)
             /\ w[i].number = Len(fields) => i = Len(w)
  <2>1. PICK piece, n : piece = w[i] /\ n = w[i].number
    OBVIOUS
  <2>2. WrittenPiece(fields, message, Len(fields), piece)
    BY <1>7, <2>1
  <2>3. n \in 1 .. Len(fields)
    BY <2>1, <2>2 DEF WrittenPiece
  <2>4. PICK kind, value : kind = fields[n].kind /\ value = message[fields[n].name]
    OBVIOUS
  <2>5. IsPiece(kind, n, value, piece)
    BY <2>1, <2>2, <2>4 DEF WrittenPiece
  <2>6. kind \in Kinds \ {"entries"}
    BY <1>3, <2>3, <2>4 DEF Layout
  <2>7. kind = "bool" => value \in BOOLEAN
    BY <1>3, <2>3, <2>4 DEF Fits, FitsKind
  <2>8. IsSet(piece)
    BY <2>5, <2>6, <2>7, PieceIsSet
  <2>9. IsWhole(piece)
    BY <2>5 DEF IsPiece
  <2>10. n = Len(fields) => i = Len(w)
    BY <1>3, <1>7, <2>1, <2>3
  <2>. QED  BY <2>1, <2>3, <2>8, <2>9, <2>10
<1>. QED  BY <1>1, <1>7, <1>8

\* Nothing is missing of what was written.
LEMMA WrittenIs ==
  ASSUME NEW m, IsSent(m), NEW w, w = Written(m)
  PROVE  IsSeq(w) /\ \A i \in 1 .. Len(w) : IsWhole(w[i])
<1>1. CASE IsRequest(m)
  <2>1. PICK header, args : IsFrame(m.op, m.message, header, args, w)
    BY <1>1, RequestIs
  <2>2. PICK op, request : op = m.op /\ request = m.message
    OBVIOUS
  <2>3. IsFrame(op, request, header, args, w)
    BY <2>1, <2>2
  <2>4. FrameParts(op, request, header, args, w)
    BY <2>3, FrameIs
  <2>. QED  BY <2>4 DEF FrameParts
<1>2. CASE IsReply(m)
  BY <1>2, ReplyIs
<1>. QED  BY <1>1, <1>2 DEF IsSent

\* Piece j of all that was written is piece k of message i.
IsFrom(messages, n, j, i, k) ==
  LET w == Written(messages[i])
  IN /\ i \in 1 .. n /\ k \in 1 .. Len(w)
     /\ AllOf(messages, n)[j] = w[k] /\ j = Len(AllOf(messages, i - 1)) + k
     /\ Len(AllOf(messages, i)) = Len(AllOf(messages, i - 1)) + Len(w)

\* A piece of all that was written is a piece of one of the messages, at the place where
\* what was written before ends.
LEMMA PiecesOfAll ==
  ASSUME NEW messages, NEW N \in Nat, \A i \in 1 .. N : IsSent(messages[i])
  PROVE  /\ IsSeq(AllOf(messages, N))
         /\ \A j \in 1 .. Len(AllOf(messages, N)) : \E i, k : IsFrom(messages, N, j, i, k)
<1>. DEFINE Good(n) == /\ IsSeq(AllOf(messages, n))
                       /\ \A j \in 1 .. Len(AllOf(messages, n)) : \E i, k : IsFrom(messages, n, j, i, k)
            T == {n \in 0 .. N : ~Good(n)}
<1>1. Good(0)
  <2>1. PICK a : a = AllOf(messages, 0)
    OBVIOUS
  <2>2. a = <<>>
    BY <2>1, AllOfIs
  <2>3. IsSeq(a) /\ Len(a) = 0
    BY <2>2, EmptyIs
  <2>. QED  BY <2>1, <2>3
<1>2. ASSUME NEW n \in 1 .. N, Good(n - 1) PROVE Good(n)
  <2>1. PICK a, w, b : a = AllOf(messages, n - 1) /\ w = Written(messages[n]) /\ b = AllOf(messages, n)
    OBVIOUS
  <2>2. b = a \o w
    <3>1. n \in Nat \ {0}
      OBVIOUS
    <3>2. AllOf(messages, n) = AllOf(messages, n - 1) \o Written(messages[n])
      BY <3>1, AllOfIs
    <3>. QED  BY <2>1, <3>2
  <2>3. IsSeq(a)
    BY <1>2, <2>1
  <2>4. IsSeq(w)
    BY <2>1, WrittenIs
  <2>5. /\ IsSeq(b) /\ Len(b) = Len(a) + Len(w)
        /\ \A j \in 1 .. Len(a) + Len(w) : b[j] = IF j <= Len(a) THEN a[j] ELSE w[j - Len(a)]
    BY <2>2, <2>3, <2>4, ConcatIs
  <2>6. ASSUME NEW j \in 1 .. Len(b) PROVE \E i, k : IsFrom(messages, n, j, i, k)
    <3>1. Len(a) \in Nat /\ Len(w) \in Nat
      BY <2>3, <2>4 DEF IsSeq
    <3>2. CASE j <= Len(a)
      <4>1. j \in 1 .. Len(a) /\ b[j] = a[j]
        BY <2>5, <3>1, <3>2
      <4>2. PICK i, k : IsFrom(messages, n - 1, j, i, k)
        BY <1>2, <2>1, <4>1
      <4>3. i \in 1 .. n
        BY <4>2 DEF IsFrom
      <4>4. IsFrom(messages, n, j, i, k)
        BY <2>1, <4>1, <4>2, <4>3 DEF IsFrom
      <4>. QED  BY <4>4
    <3>3. CASE ~(j <= Len(a))
      <4>1. PICK k : k = j - Len(a)
        OBVIOUS
      <4>2. k \in 1 .. Len(w) /\ b[j] = w[k] /\ j = Len(a) + k
        BY <2>5, <3>1, <3>3, <4>1
      <4>3. n \in 1 .. n
        OBVIOUS
      <4>4. IsFrom(messages, n, j, n, k)
        BY <2>1, <2>5, <4>2, <4>3 DEF IsFrom
      <4>. QED  BY <4>4
    <3>. QED  BY <3>2, <3>3
  <2>. QED  BY <2>1, <2>5, <2>6
<1>. HIDE DEF Good
<1>3. T = {}
  <2>1. SUFFICES ASSUME T # {} PROVE FALSE
    OBVIOUS
  <2>2. T \in SUBSET Nat
    OBVIOUS
  <2>3. PICK n \in T : \A m \in T : n <= m
    BY <2>1, <2>2, LeastIn
  <2>4. n # 0 => n \in 1 .. N /\ n - 1 \in 0 .. N /\ ~(n <= n - 1)
    OBVIOUS
  <2>. QED  BY <1>1, <1>2, <2>3, <2>4
<1>4. N \in 0 .. N
  OBVIOUS
<1>5. Good(N)
  BY <1>3, <1>4
<1>. QED  BY <1>5 DEF Good

\* Nothing is missing of all that was written.
LEMMA AllOfIsWhole ==
  ASSUME NEW messages, NEW N \in Nat, \A i \in 1 .. N : IsSent(messages[i]),
         NEW all, all = AllOf(messages, N)
  PROVE  IsSeq(all) /\ \A j \in 1 .. Len(all) : IsWhole(all[j])
<1>1. IsSeq(all) /\ \A j \in 1 .. Len(all) : \E i, k : IsFrom(messages, N, j, i, k)
  BY PiecesOfAll
<1>2. ASSUME NEW j \in 1 .. Len(all) PROVE IsWhole(all[j])
  <2>1. PICK i, k : IsFrom(messages, N, j, i, k)
    BY <1>1
  <2>2. PICK w : w = Written(messages[i])
    OBVIOUS
  <2>3. i \in 1 .. N /\ k \in 1 .. Len(w) /\ all[j] = w[k]
    BY <2>1, <2>2 DEF IsFrom
  <2>4. IsWhole(w[k])
    BY <2>2, <2>3, WrittenIs
  <2>. QED  BY <2>3, <2>4
<1>. QED  BY <1>1, <1>2

\* What one message alone wrote is all there is.
LEMMA OneMessage ==
  ASSUME NEW m, IsSent(m)
  PROVE  AllOf(<<m>>, 1) = Written(m)
<1>1. PICK s, w : s = <<m>> /\ w = Written(m)
  OBVIOUS
<1>2. s[1] = m
  BY <1>1, OneIs
<1>3. AllOf(s, 1) = AllOf(s, 0) \o Written(s[1])
  <2>1. 1 \in Nat \ {0} /\ 1 - 1 = 0
    OBVIOUS
  <2>. QED  BY <2>1, AllOfIs
<1>4. AllOf(s, 0) = <<>>
  BY AllOfIs
<1>5. IsSeq(w)
  BY <1>1, WrittenIs
<1>6. <<>> \o w = w
  BY <1>5, ConcatEmpty
<1>. QED  BY <1>1, <1>2, <1>3, <1>4, <1>6

-----------------------------------------------------------------------------
(* The connection *)

\* What can be in the buffer: all that was written, or the beginning of it, perhaps with a
\* piece of which the end is missing.  A request is alone on its connection, and at least
\* the size of its header is there; replies are of one service.
Arrived(messages, buffer) ==
  /\ IsSeq(messages)
  /\ \/ Len(messages) = 1 /\ IsRequest(messages[1])
     \/ \A i \in 1 .. Len(messages) :
          IsReply(messages[i]) /\ ServiceOf(messages[i].op) = ServiceOf(messages[1].op)
  /\ LET all == AllOf(messages, Len(messages))
     IN \/ buffer = all
        \/ IsPart(all, buffer) /\ (IsRequest(messages[1]) => buffer[1] = all[1])
WireInv == Arrived(sent, stream)

\* A request is there as soon as it is sent.
LEMMA CallArrives ==
  ASSUME NEW op \in Operations, NEW request \in Requests(op)
  PROVE  Arrived(<<[kind |-> "request", op |-> op, message |-> request]>>, Frame(op, request))
<1>1. PICK m : m = [kind |-> "request", op |-> op, message |-> request]
  OBVIOUS
<1>2. m.kind = "request" /\ m.op = op /\ m.message = request
  BY <1>1
<1>3. IsRequest(m)
  BY <1>2, Zenon DEF IsRequest
<1>4. Written(m) = Frame(op, request)
  BY <1>2, Zenon DEF Written
<1>5. AllOf(<<m>>, 1) = Written(m)
  BY <1>3, OneMessage DEF IsSent
<1>6. PICK s : s = <<m>>
  OBVIOUS
<1>7. IsSeq(s) /\ Len(s) = 1 /\ s[1] = m
  BY <1>6, OneIs
<1>8. Arrived(s, Frame(op, request))
  BY <1>3, <1>4, <1>5, <1>6, <1>7 DEF Arrived
<1>. QED  BY <1>1, <1>6, <1>8

\* A reply comes behind the others.
LEMMA ReplyArrives ==
  ASSUME NEW messages, NEW buffer, Arrived(messages, buffer), buffer = AllOf(messages, Len(messages)),
         NEW m, IsReply(m),
         \A i \in 1 .. Len(messages) : messages[i].kind = "reply" /\ ServiceOf(messages[i].op) = ServiceOf(m.op)
  PROVE  Arrived(Append(messages, m), buffer \o Written(m))
<1>1. PICK N, s : N = Len(messages) /\ s = Append(messages, m)
  OBVIOUS
<1>2. IsSeq(messages) /\ N \in Nat
  BY <1>1 DEF Arrived, IsSeq
<1>3. IsSeq(s) /\ Len(s) = N + 1 /\ (\A i \in 1 .. N : s[i] = messages[i]) /\ s[N + 1] = m
  BY <1>1, <1>2, AppendIs
<1>4. \A i \in 1 .. N : IsReply(messages[i])
  <2>1. ASSUME NEW i \in 1 .. N PROVE IsReply(messages[i])
    <3>1. CASE N = 1 /\ IsRequest(messages[1])
      <4>1. i = 1
        BY <3>1
      <4>2. messages[1].kind = "request" /\ messages[1].kind = "reply"
        BY <1>1, <3>1, <4>1 DEF IsRequest
      <4>. QED  BY <4>2
    <3>2. CASE ~(N = 1 /\ IsRequest(messages[1]))
      BY <1>1, <3>2 DEF Arrived
    <3>. QED  BY <3>1, <3>2
  <2>. QED  BY <2>1
<1>5. \A i \in 1 .. N + 1 : IsReply(s[i]) /\ ServiceOf(s[i].op) = ServiceOf(m.op)
  <2>1. ASSUME NEW i \in 1 .. N + 1 PROVE IsReply(s[i]) /\ ServiceOf(s[i].op) = ServiceOf(m.op)
    <3>1. CASE i \in 1 .. N
      BY <1>1, <1>3, <1>4, <3>1
    <3>2. CASE i = N + 1
      BY <1>3, <3>2
    <3>. QED  BY <1>2, <3>1, <3>2
  <2>. QED  BY <2>1
<1>6. AllOf(s, N + 1) = buffer \o Written(m)
  <2>1. N + 1 \in Nat \ {0} /\ (N + 1) - 1 = N
    BY <1>2
  <2>2. AllOf(s, N + 1) = AllOf(s, N) \o Written(s[N + 1])
    BY <2>1, AllOfIs
  <2>3. AllOf(s, N) = AllOf(messages, N)
    BY <1>2, <1>3, AllOfSame
  <2>. QED  BY <1>1, <1>3, <2>2, <2>3
<1>7. 1 \in 1 .. N + 1
  BY <1>2
<1>8. Arrived(s, buffer \o Written(m))
  BY <1>3, <1>5, <1>6, <1>7 DEF Arrived
<1>. QED  BY <1>1, <1>8

\* The buffer is taken after the first n pieces.
IsCut(messages, buffer, n, cut) ==
  \/ n < Len(buffer) /\ cut = SubSeq(buffer, 1, n)
  \/ /\ messages[1].kind = "request" => n > 1
     /\ cut = [SubSeq(buffer, 1, n) EXCEPT ![n].whole = FALSE]

\* A cut leaves the beginning.
LEMMA CutArrives ==
  ASSUME NEW messages, NEW buffer, Arrived(messages, buffer), buffer = AllOf(messages, Len(messages)),
         NEW n \in 1 .. Len(buffer), NEW cut, IsCut(messages, buffer, n, cut)
  PROVE  Arrived(messages, cut)
<1>1. PICK N : N = Len(messages)
  OBVIOUS
<1>2. N \in Nat /\ \A i \in 1 .. N : IsSent(messages[i])
  BY <1>1 DEF Arrived, IsSeq, IsSent
<1>3. IsSeq(buffer) /\ \A j \in 1 .. Len(buffer) : IsWhole(buffer[j])
  BY <1>1, <1>2, AllOfIsWhole
<1>4. PICK s : s = SubSeq(buffer, 1, n)
  OBVIOUS
<1>5. n \in Nat /\ n <= Len(buffer) /\ 1 \in Nat \ {0} /\ 1 <= n /\ Len(buffer) \in Nat
  BY <1>3 DEF IsSeq
<1>6. IsSeq(s) /\ Len(s) = n /\ \A i \in 1 .. n : s[i] = buffer[i]
  <2>1. PICK m : m = 1
    OBVIOUS
  <2>2. m \in Nat \ {0} /\ s = SubSeq(buffer, m, n)
    BY <1>4, <2>1
  <2>3. /\ IsSeq(s) /\ Len(s) = IF m <= n THEN n - m + 1 ELSE 0
        /\ \A i \in 1 .. n - m + 1 : s[i] = buffer[m + i - 1]
    BY <1>3, <1>5, <2>2, SubSeqIs
  <2>. QED  BY <1>5, <2>1, <2>3
<1>7. CASE n < Len(buffer) /\ cut = SubSeq(buffer, 1, n)
  <2>1. IsPart(buffer, cut) /\ cut[1] = buffer[1]
    BY <1>4, <1>5, <1>6, <1>7 DEF IsPart
  <2>. QED  BY <2>1 DEF Arrived
<1>8. CASE /\ messages[1].kind = "request" => n > 1
           /\ cut = [SubSeq(buffer, 1, n) EXCEPT ![n].whole = FALSE]
  <2>1. s[n].whole = TRUE /\ s[n] = Piece(s[n].number, s[n].value)
    <3>1. IsWhole(s[n])
      BY <1>3, <1>5, <1>6
    <3>. QED  BY <3>1, WholeIs DEF IsWhole
  <2>2. PICK piece, f : piece = s[n] /\ f = FALSE
    OBVIOUS
  <2>3. PICK half : half = [piece EXCEPT !.whole = f]
    OBVIOUS
  <2>4. half.whole = f
    BY <2>1, <2>2, <2>3 DEF Piece
  <2>5. n \in DOMAIN s /\ s = [i \in 1 .. n |-> s[i]]
    BY <1>5, <1>6 DEF IsSeq
  <2>6. cut = [s EXCEPT ![n] = half]
    BY <1>4, <1>8, <2>2, <2>3
  <2>7. cut = [i \in 1 .. n |-> IF i = n THEN half ELSE s[i]]
    BY <2>5, <2>6
  <2>8. IsSeq(cut) /\ Len(cut) = n
    BY <1>5, <2>7 DEF IsSeq
  <2>9. cut[n] = half /\ \A i \in 1 .. n - 1 : cut[i] = s[i]
    BY <1>5, <2>7
  <2>10. IsPart(buffer, cut)
    <3>1. cut[n].whole = FALSE
      BY <2>2, <2>4, <2>9
    <3>. QED  BY <1>5, <1>6, <2>8, <2>9, <3>1 DEF IsPart
  <2>11. IsRequest(messages[1]) => cut[1] = buffer[1]
    <3>1. IsRequest(messages[1]) => n > 1
      BY <1>8 DEF IsRequest
    <3>2. n > 1 => 1 \in 1 .. n - 1 /\ 1 \in 1 .. n
      BY <1>5
    <3>. QED  BY <1>6, <2>9, <3>1, <3>2
  <2>. QED  BY <2>10, <2>11 DEF Arrived
<1>. QED  BY <1>7, <1>8 DEF IsCut

\* What RpcMessages says was written is what is joined here.
LEMMA WrittenUpToIs ==
  ASSUME NEW n
  PROVE  WrittenUpTo(n) = AllOf(sent, n)
BY Zenon DEF WrittenUpTo, AllOf

\* Nothing is there at first.
LEMMA NothingArrived ==
  WireInit => WireInv
<1>1. SUFFICES ASSUME WireInit PROVE Arrived(sent, stream)
  BY DEF WireInv
<1>2. sent = <<>> /\ stream = <<>>
  BY <1>1 DEF WireInit
<1>3. PICK s : s = sent
  OBVIOUS
<1>4. IsSeq(s) /\ Len(s) = 0
  BY <1>2, <1>3, EmptyIs
<1>5. AllOf(s, 0) = <<>>
  BY AllOfIs
<1>6. Arrived(s, stream)
  BY <1>2, <1>4, <1>5 DEF Arrived
<1>. QED  BY <1>3, <1>6

\* Sending and cutting keep it so.
LEMMA WireStep ==
  WireInv /\ [WireNext]_wireVars => WireInv'
<1>1. SUFFICES ASSUME Arrived(sent, stream), [WireNext]_wireVars PROVE Arrived(sent', stream')
  BY DEF WireInv
<1>2. AllWritten = AllOf(sent, Len(sent))
  BY WrittenUpToIs DEF AllWritten
<1>3. DOMAIN sent = 1 .. Len(sent)
  BY <1>1, SeqIs DEF Arrived
<1>4. ASSUME NEW op \in Operations, CallMethod(op) PROVE Arrived(sent', stream')
  <2>1. PICK request \in Requests(op) :
          stream' = Frame(op, request) /\ sent' = <<[kind |-> "request", op |-> op, message |-> request]>>
    BY <1>4 DEF CallMethod
  <2>2. Arrived(<<[kind |-> "request", op |-> op, message |-> request]>>, Frame(op, request))
    BY CallArrives
  <2>. QED  BY <2>1, <2>2
<1>5. ASSUME NEW op \in Operations, SendReply(op) PROVE Arrived(sent', stream')
  <2>1. PICK reply \in Replies(op) :
          /\ stream' = stream \o Serialize(Stub(op).reply, reply)
          /\ sent' = Append(sent, [kind |-> "reply", op |-> op, message |-> reply])
    BY <1>5, Zenon DEF SendReply
  <2>2. PICK m : m = [kind |-> "reply", op |-> op, message |-> reply]
    OBVIOUS
  <2>3. m.kind = "reply" /\ m.op = op /\ m.message = reply
    BY <2>2
  <2>4. IsReply(m)
    BY <2>3, Zenon DEF IsReply
  <2>5. Written(m) = Serialize(Stub(op).reply, reply)
    <3>1. m.kind # "request"
      BY <2>3
    <3>. QED  BY <2>3, <3>1, Zenon DEF Written
  <2>6. stream = AllOf(sent, Len(sent))
    BY <1>2, <1>5 DEF SendReply
  <2>7. \A i \in 1 .. Len(sent) : sent[i].kind = "reply" /\ ServiceOf(sent[i].op) = ServiceOf(m.op)
    BY <1>3, <1>5, <2>3, Zenon DEF SendReply
  <2>8. Arrived(Append(sent, m), stream \o Written(m))
    BY <1>1, <2>4, <2>6, <2>7, ReplyArrives
  <2>. QED  BY <2>1, <2>2, <2>5, <2>8
<1>6. ASSUME CutShort PROVE Arrived(sent', stream')
  <2>1. stream = AllOf(sent, Len(sent)) /\ sent' = sent
    BY <1>2, <1>6 DEF CutShort
  <2>2. PICK n \in 1 .. Len(stream) : IsCut(sent, stream, n, stream')
    BY <1>6, Zenon DEF CutShort, IsCut
  <2>3. Arrived(sent, stream')
    BY <1>1, <2>1, <2>2, CutArrives
  <2>. QED  BY <2>1, <2>3
<1>7. CASE UNCHANGED wireVars
  BY <1>1, <1>7 DEF wireVars
<1>. QED  BY <1>1, <1>4, <1>5, <1>6, <1>7 DEF WireNext

\* So a request that is there runs its handler, and one that is cut short none or the
\* handler with nothing set (rpcprovider.cpp:137-157).
LEMMA RequestRead ==
  WireInv => NothingHalfRead
<1>1. SUFFICES ASSUME Arrived(sent, stream), sent # <<>>, sent[1].kind = "request"
               PROVE  LET called == [op |-> sent[1].op, request |-> sent[1].message]
                          empty == [called EXCEPT !.request = Default(Stub(sent[1].op).request)]
                      IN IF stream = AllWritten THEN Dispatch(stream) = {called}
                         ELSE Dispatch(stream) \subseteq {empty}
  BY DEF WireInv, NothingHalfRead
<1>2. PICK m, op, request, d :
        m = sent[1] /\ op = m.op /\ request = m.message /\ d = Default(Stub(op).request)
  OBVIOUS
<1>3. Len(sent) = 1 /\ IsRequest(m) /\ sent = <<m>>
  <2>1. IsSeq(sent) /\ Len(sent) # 0
    <3>1. IsSeq(sent)
      BY <1>1 DEF Arrived
    <3>2. ASSUME Len(sent) = 0 PROVE FALSE
      <4>1. IsSeq(<<>>) /\ Len(<<>>) = 0
        BY EmptyIs
      <4>2. sent = <<>>
        BY <3>1, <3>2, <4>1, SameSeq
      <4>. QED  BY <1>1, <4>2
    <3>. QED  BY <3>1, <3>2
  <2>2. 1 \in 1 .. Len(sent)
    BY <2>1 DEF IsSeq
  <2>3. ~IsReply(m)
    BY <1>1, <1>2 DEF IsReply
  <2>4. Len(sent) = 1 /\ IsRequest(m)
    BY <1>1, <1>2, <2>2, <2>3 DEF Arrived
  <2>5. PICK s : s = <<m>>
    OBVIOUS
  <2>6. IsSeq(s) /\ Len(s) = 1 /\ s[1] = m
    BY <2>5, OneIs
  <2>7. sent = s
    BY <1>2, <2>1, <2>4, <2>6, SameSeq
  <2>. QED  BY <2>4, <2>5, <2>7
<1>4. PICK frame : frame = Written(m)
  OBVIOUS
<1>5. AllOf(sent, Len(sent)) = frame /\ AllWritten = frame
  <2>1. AllOf(sent, Len(sent)) = frame
    BY <1>3, <1>4, OneMessage DEF IsSent
  <2>. QED  BY <2>1, WrittenUpToIs DEF AllWritten
<1>6. PICK header, args : IsFrame(op, request, header, args, frame)
  BY <1>2, <1>3, <1>4, RequestIs
<1>7. stream = frame => Dispatch(stream) = {[op |-> op, request |-> request]}
  BY <1>6, DispatchWhole
<1>8. stream # frame => Dispatch(stream) \subseteq {[op |-> op, request |-> d]}
  <2>1. ASSUME stream # frame PROVE Dispatch(stream) \subseteq {[op |-> op, request |-> d]}
    <3>1. IsPart(frame, stream) /\ stream[1] = frame[1]
      BY <1>1, <1>2, <1>3, <1>5, <2>1 DEF Arrived
    <3>. QED  BY <1>2, <1>6, <3>1, DispatchPart
  <2>. QED  BY <2>1
<1>9. [[op |-> op, request |-> request] EXCEPT !.request = d] = [op |-> op, request |-> d]
  OBVIOUS
<1>. QED  BY <1>2, <1>5, <1>7, <1>8, <1>9, Zenon

-----------------------------------------------------------------------------
(* Replies that arrive together *)

\* The equation of what the first n messages are when each is merged into those before.
Merges(fields, messages, n, f) ==
  [i \in 0 .. n |-> IF i = 0 THEN Default(fields)
                    ELSE MergeFrom(fields, f[i - 1], Parse(fields, Written(messages[i])).message)]

\* Any solution of it gives the messages merged.
LEMMA MergedIs ==
  ASSUME Len(sent) \in Nat, NEW fields, NEW f, f = Merges(fields, sent, Len(sent), f)
  PROVE  MergedReplies(fields) = f[Len(sent)]
<1>. DEFINE N == Len(sent)
            merged == CHOOSE g : g = Merges(fields, sent, N, g)
<1>1. merged = Merges(fields, sent, N, merged)
  BY Zenon
<1>2. MergedReplies(fields) = merged[N]
  BY Zenon DEF MergedReplies, Merges
<1>. HIDE DEF merged
<1>3. ASSUME NEW g, g = Merges(fields, sent, N, g)
      PROVE  \A i \in 0 .. N :
               g[i] = IF i = 0 THEN Default(fields)
                      ELSE MergeFrom(fields, g[i - 1], Parse(fields, Written(sent[i])).message)
  BY <1>3, Zenon DEF Merges
<1>4. \A i \in 0 .. N :
        merged[i] = IF i = 0 THEN Default(fields)
                    ELSE MergeFrom(fields, merged[i - 1], Parse(fields, Written(sent[i])).message)
  BY <1>1, <1>3
<1>5. \A i \in 0 .. N :
        f[i] = IF i = 0 THEN Default(fields)
               ELSE MergeFrom(fields, f[i - 1], Parse(fields, Written(sent[i])).message)
  BY <1>3
<1>. DEFINE T == {i \in 0 .. N : merged[i] # f[i]}
<1>6. T = {}
  <2>1. SUFFICES ASSUME T # {} PROVE FALSE
    OBVIOUS
  <2>2. T \in SUBSET Nat
    OBVIOUS
  <2>3. PICK i \in T : \A j \in T : i <= j
    BY <2>1, <2>2, LeastIn
  <2>4. i # 0 => i - 1 \in 0 .. N /\ ~(i <= i - 1)
    OBVIOUS
  <2>5. i # 0 => merged[i - 1] = f[i - 1]
    BY <2>3, <2>4
  <2>6. i \in 0 .. N
    OBVIOUS
  <2>7. merged[i] = f[i]
    BY <1>4, <1>5, <2>5, <2>6, Zenon
  <2>. QED  BY <2>7
<1>7. N \in 0 .. N
  OBVIOUS
<1>. QED  BY <1>2, <1>6, <1>7

\* A class without entries is what its pieces say.
LEMMA ReplyParse ==
  ASSUME NEW fields, ReplyLayout(fields), NEW s, IsSeq(s)
  PROVE  Parse(fields, s).message = InternalParse(fields, Default(fields), s)
<1>1. PICK m : m = InternalParse(fields, Default(fields), s)
  OBVIOUS
<1>2. Layout(fields) /\ \A n \in 1 .. Len(fields) : fields[n].kind # "entries"
  BY DEF ReplyLayout
<1>3. IsMessage(fields, m)
  BY <1>1, <1>2, DefaultIs, ParseKeeps
<1>4. EachEntry(ParseEntry, fields, m) = m
  BY <1>2, <1>3, NoEntries
<1>. QED  BY <1>1, <1>4, Zenon DEF Parse

\* To read what one more reply wrote is to merge it.
LEMMA OneMerge ==
  ASSUME NEW fields, ReplyLayout(fields), NEW a, IsSeq(a), NEW m, IsReply(m), NEW d, d = Default(fields)
  PROVE  InternalParse(fields, d, a \o Written(m))
           = MergeFrom(fields, InternalParse(fields, d, a), Parse(fields, Written(m)).message)
<1>1. PICK w : w = Written(m)
  OBVIOUS
<1>2. IsSeq(w) /\ \A i \in 1 .. Len(w) : IsSet(w[i])
  BY <1>1, ReplyIs
<1>3. PICK into : into = InternalParse(fields, d, a)
  OBVIOUS
<1>4. IsMessage(fields, into)
  BY <1>3, DefaultIs, ParseKeeps DEF ReplyLayout
<1>5. InternalParse(fields, into, w) = MergeFrom(fields, into, InternalParse(fields, d, w))
  BY <1>2, <1>4, ParseMerges
<1>6. Parse(fields, w).message = InternalParse(fields, d, w)
  BY <1>2, ReplyParse
<1>7. InternalParse(fields, d, a \o w) = InternalParse(fields, into, w)
  BY <1>2, <1>3, ParseConcat
<1>. QED  BY <1>1, <1>3, <1>5, <1>6, <1>7

\* So replies that arrive together are read as merged, each into the ones before.
LEMMA RepliesRead ==
  WireInv => ReadsAsMerged
<1>1. SUFFICES ASSUME Arrived(sent, stream), sent # <<>>, sent[1].kind = "reply", stream = AllWritten,
                      NEW op \in Operations
               PROVE  Parse(Stub(op).reply, stream).message = MergedReplies(Stub(op).reply)
  BY DEF WireInv, ReadsAsMerged
<1>. DEFINE N == Len(sent)
<1>2. PICK fields, d : fields = Stub(op).reply /\ d = Default(fields)
  OBVIOUS
<1>3. ReplyLayout(fields)
  BY <1>2, ReplyLayouts
<1>4. N \in Nat
  BY <1>1 DEF Arrived, IsSeq
<1>5. \A i \in 1 .. N : IsReply(sent[i])
  <2>1. ~IsRequest(sent[1])
    BY <1>1 DEF IsRequest
  <2>. QED  BY <1>1, <2>1 DEF Arrived
<1>6. \A n \in 0 .. N : IsSeq(AllOf(sent, n))
  <2>1. ASSUME NEW n \in 0 .. N PROVE IsSeq(AllOf(sent, n))
    <3>1. n \in Nat /\ \A i \in 1 .. n : IsSent(sent[i])
      BY <1>4, <1>5 DEF IsSent
    <3>. QED  BY <3>1, AllOfIsWhole
  <2>. QED  BY <2>1
<1>. DEFINE f == [i \in 0 .. N |-> InternalParse(fields, d, AllOf(sent, i))]
<1>7. ASSUME NEW i \in 0 .. N
      PROVE  f[i] = IF i = 0 THEN d ELSE MergeFrom(fields, f[i - 1], Parse(fields, Written(sent[i])).message)
  <2>1. CASE i = 0
    <3>1. AllOf(sent, 0) = <<>>
      BY AllOfIs
    <3>2. InternalParse(fields, d, <<>>) = d
      BY ParseNothing
    <3>3. f[i] = InternalParse(fields, d, AllOf(sent, i))
      BY Zenon
    <3>. HIDE DEF f
    <3>. QED  BY <2>1, <3>1, <3>2, <3>3
  <2>2. CASE i # 0
    <3>1. i \in Nat \ {0} /\ i - 1 \in 0 .. N /\ i \in 1 .. N
      BY <2>2
    <3>2. PICK a, m : a = AllOf(sent, i - 1) /\ m = sent[i]
      OBVIOUS
    <3>3. IsSeq(a) /\ IsReply(m)
      BY <1>5, <1>6, <3>1, <3>2
    <3>4. AllOf(sent, i) = AllOf(sent, i - 1) \o Written(sent[i])
      BY <3>1, AllOfIs
    <3>5. InternalParse(fields, d, a \o Written(m))
            = MergeFrom(fields, InternalParse(fields, d, a), Parse(fields, Written(m)).message)
      BY <1>2, <1>3, <3>3, OneMerge
    <3>6. f[i] = InternalParse(fields, d, AllOf(sent, i))
      BY Zenon
    <3>7. f[i - 1] = InternalParse(fields, d, AllOf(sent, i - 1))
      BY <3>1, Zenon
    <3>. HIDE DEF f
    <3>. QED  BY <2>2, <3>2, <3>4, <3>5, <3>6, <3>7, Zenon
  <2>. QED  BY <2>1, <2>2
<1>8. f = Merges(fields, sent, N, f)
  <2>1. f = [i \in 0 .. N |-> f[i]]
    OBVIOUS
  <2>. HIDE DEF f
  <2>2. [i \in 0 .. N |-> f[i]]
          = [i \in 0 .. N |-> IF i = 0 THEN d
                              ELSE MergeFrom(fields, f[i - 1], Parse(fields, Written(sent[i])).message)]
    BY <1>7, Zenon
  <2>. QED  BY <1>2, <2>1, <2>2, Zenon DEF Merges
<1>9. f[N] = InternalParse(fields, d, stream)
  <2>1. N \in 0 .. N
    BY <1>4
  <2>2. AllOf(sent, N) = stream
    BY <1>1, WrittenUpToIs DEF AllWritten
  <2>. QED  BY <2>1, <2>2
<1>. HIDE DEF f
<1>10. MergedReplies(fields) = f[N]
  BY <1>4, <1>8, MergedIs
<1>11. IsSeq(stream)
  <2>1. N \in 0 .. N /\ AllOf(sent, N) = stream
    BY <1>1, <1>4, WrittenUpToIs DEF AllWritten
  <2>. QED  BY <1>6, <2>1
<1>12. Parse(fields, stream).message = InternalParse(fields, d, stream)
  BY <1>2, <1>3, <1>11, ReplyParse
<1>. QED  BY <1>2, <1>9, <1>10, <1>12

\* A piece of another field leaves a field alone.
LEMMA TakeOther ==
  ASSUME NEW fields, Layout(fields), NEW n, NEW kind, NEW field, IsField(fields, n, kind, field),
         NEW message, IsMessage(fields, message), NEW piece, piece.number # n
  PROVE  TakePiece(fields, message, piece)[field] = message[field]
<1>1. DOMAIN fields = 1 .. Len(fields)
  BY SeqIs DEF Layout
<1>2. CASE ~piece.whole \/ piece.number \notin DOMAIN fields
  BY <1>2, Zenon DEF TakePiece
<1>3. CASE ~(~piece.whole \/ piece.number \notin DOMAIN fields)
  <2>. DEFINE other == fields[piece.number]
              new == IF other.kind = "entries" THEN Append(message[other.name], FromWire(other.kind, piece.value))
                     ELSE FromWire(other.kind, piece.value)
  <2>1. CASE ~SameWireType(other.kind, piece.value)
    BY <1>3, <2>1, Zenon DEF TakePiece
  <2>2. CASE SameWireType(other.kind, piece.value)
    <3>1. TakePiece(fields, message, piece) = [message EXCEPT ![other.name] = new]
      BY <1>3, <2>2, Zenon DEF TakePiece
    <3>2. other.name # field
      BY <1>1, <1>3 DEF Layout, IsField
    <3>3. field \in Names(fields)
      BY <1>1 DEF IsField, Names
    <3>. HIDE DEF new
    <3>. QED  BY <3>1, <3>2, <3>3 DEF IsMessage
  <2>. QED  BY <2>1, <2>2
<1>. QED  BY <1>2, <1>3

\* A field is as it was when no piece of it is there.
LEMMA ParseOther ==
  ASSUME NEW fields, Layout(fields), NEW n, NEW kind, NEW field, IsField(fields, n, kind, field),
         NEW message, IsMessage(fields, message), NEW s, IsSeq(s), \A j \in 1 .. Len(s) : s[j].number # n
  PROVE  InternalParse(fields, message, s)[field] = message[field]
<1>. DEFINE N == Len(s)
            Good(m) == InternalParse(fields, message, SubSeq(s, 1, m))[field] = message[field]
            T == {m \in 0 .. N : ~Good(m)}
<1>1. N \in Nat
  BY DEF IsSeq
<1>2. Good(0)
  <2>1. PICK z, v : z = 0 /\ v = SubSeq(s, 1, z)
    OBVIOUS
  <2>2. IsSeq(v) /\ Len(v) = 0
    BY <1>1, <2>1, SubSeqIs
  <2>3. v = <<>>
    BY <2>2, EmptyIs, SameSeq
  <2>. QED  BY <2>1, <2>3, ParseNothing
<1>3. ASSUME NEW m \in 1 .. N, Good(m - 1) PROVE Good(m)
  <2>1. SubSeq(s, 1, m) = Append(SubSeq(s, 1, m - 1), s[m])
    BY FrontAndLast
  <2>2. PICK f, x : f = SubSeq(s, 1, m - 1) /\ x = s[m]
    OBVIOUS
  <2>3. IsSeq(f)
    <3>1. m - 1 \in Nat /\ m - 1 <= Len(s)
      BY <1>1
    <3>. QED  BY <2>2, <3>1, SubSeqIs
  <2>4. PICK before : before = InternalParse(fields, message, f)
    OBVIOUS
  <2>5. IsMessage(fields, before)
    BY <2>3, <2>4, ParseKeeps
  <2>6. TakePiece(fields, before, x)[field] = before[field]
    BY <2>2, <2>5, TakeOther
  <2>7. InternalParse(fields, message, Append(f, x)) = TakePiece(fields, before, x)
    BY <2>3, <2>4, ParseAppend
  <2>. QED  BY <1>3, <2>1, <2>2, <2>4, <2>6, <2>7
<1>. HIDE DEF Good
<1>4. T = {}
  <2>1. SUFFICES ASSUME T # {} PROVE FALSE
    OBVIOUS
  <2>2. T \in SUBSET Nat
    OBVIOUS
  <2>3. PICK m \in T : \A i \in T : m <= i
    BY <2>1, <2>2, LeastIn
  <2>4. m # 0 => m \in 1 .. N /\ m - 1 \in 0 .. N /\ ~(m <= m - 1)
    BY <1>1
  <2>. QED  BY <1>2, <1>3, <2>3, <2>4
<1>5. Good(N)
  BY <1>1, <1>4
<1>6. SubSeq(s, 1, N) = s
  <2>1. PICK f : f = SubSeq(s, 1, N)
    OBVIOUS
  <2>2. IsSeq(f) /\ Len(f) = N /\ \A i \in 1 .. N : f[i] = s[i]
    BY <1>1, <2>1, SubSeqIs
  <2>. QED  BY <2>1, <2>2, SameSeq
<1>. QED  BY <1>5, <1>6 DEF Good

\* Of the replies of raftRpc, only that to AppendEntries writes a fourth field, and last.
LEMMA FourthIsLast ==
  ASSUME NEW m, IsReply(m), ServiceOf(m.op) = "raftRpc", NEW w, w = Written(m),
         NEW k \in 1 .. Len(w), w[k].number = 4
  PROVE  m.op = "AppendEntries" /\ k = Len(w)
<1>1. PICK op, L : op = m.op /\ L = Len(Stub(m.op).reply)
  OBVIOUS
<1>2. IsSeq(w) /\ w[k].number \in 1 .. L /\ (w[k].number = L => k = Len(w))
  BY <1>1, ReplyIs
<1>3. op \in Operations
  BY <1>1 DEF IsReply
<1>4. \A o \in {"PutAppend", "Get"} : ServiceOf(o) # "raftRpc"
  BY Stubs
<1>5. op \in {"AppendEntries", "InstallSnapshot", "RequestVote"}
  BY <1>1, <1>3, <1>4, Stubs
<1>6. CASE op = "AppendEntries"
  <2>1. L = 4
    BY <1>1, <1>6, Stubs, ReplyLayouts DEF Method
  <2>. QED  BY <1>1, <1>2, <1>6, <2>1
<1>7. CASE op # "AppendEntries"
  <2>1. Stub(op).reply = InstallSnapshotResponseFields \/ Stub(op).reply = RequestVoteReplyFields
    BY <1>5, <1>7, Stubs DEF Method
  <2>2. L < 4 /\ 4 \in 1 .. L /\ L \in Nat
    <3>1. IsSeq(Stub(op).reply)
      BY <1>3, Classes DEF Layout
    <3>. QED  BY <1>1, <1>2, <2>1, <3>1, ReplyLayouts DEF IsSeq
  <2>. QED  BY <2>2
<1>. QED  BY <1>6, <1>7

\* So AppState is Disconnected for a thread that waits, unless a whole AppendEntries reply
\* is there (raft.h:25).
LEMMA RepliesCount ==
  WireInv => OnlyRepliesCount
<1>. DEFINE fields == AppendEntriesReplyFields
            read == Parse(fields, stream)
            N == Len(sent)
<1>1. SUFFICES ASSUME Arrived(sent, stream),
                      \A i \in DOMAIN sent : sent[i].kind = "reply" /\ ServiceOf(sent[i].op) = "raftRpc",
                      read.ok, read.message.AppState # 0
               PROVE  \E i \in DOMAIN sent :
                        sent[i].op = "AppendEntries" /\ Len(WrittenUpTo(i)) <= Len(stream)
  BY DEF WireInv, OnlyRepliesCount
<1>2. DOMAIN sent = 1 .. N /\ N \in Nat
  BY <1>1, SeqIs DEF Arrived, IsSeq
<1>3. \A i \in 1 .. N : IsReply(sent[i])
  <2>1. ASSUME N = 1, IsRequest(sent[1]) PROVE FALSE
    <3>1. 1 \in DOMAIN sent
      BY <1>2, <2>1
    <3>2. sent[1].kind = "reply"
      BY <1>1, <3>1
    <3>. QED  BY <2>1, <3>2 DEF IsRequest
  <2>. QED  BY <1>1, <2>1 DEF Arrived
<1>4. PICK all : all = AllOf(sent, N)
  OBVIOUS
<1>5. IsSeq(all) /\ \A j \in 1 .. Len(all) : \E i, k : IsFrom(sent, N, j, i, k)
  <2>1. \A i \in 1 .. N : IsSent(sent[i])
    BY <1>3 DEF IsSent
  <2>. QED  BY <1>2, <1>4, <2>1, PiecesOfAll
<1>6. stream = all \/ IsPart(all, stream)
  BY <1>1, <1>4 DEF Arrived
<1>7. IsSeq(stream)
  BY <1>5, <1>6 DEF IsPart
<1>8. \A j \in 1 .. Len(stream) : stream[j].whole
  <2>1. DOMAIN stream = 1 .. Len(stream)
    BY <1>7, SeqIs
  <2>2. read.ok <=> \A j \in DOMAIN stream : stream[j].whole
    BY DEF Parse
  <2>. QED  BY <1>1, <2>1, <2>2
<1>9. \E j \in 1 .. Len(stream) : stream[j].number = 4
  <2>1. SUFFICES ASSUME \A j \in 1 .. Len(stream) : stream[j].number # 4 PROVE FALSE
    OBVIOUS
  <2>2. ReplyLayout(fields) /\ Layout(fields)
    <3>1. "AppendEntries" \in Operations /\ Stub("AppendEntries").reply = fields
      BY Stubs DEF Method
    <3>. QED  BY <3>1, ReplyLayouts DEF ReplyLayout
  <2>3. PICK n, kind, field, d :
          n = 4 /\ kind = "int32" /\ field = "AppState" /\ d = Default(fields)
    OBVIOUS
  <2>4. IsField(fields, n, kind, field)
    BY <2>3, ReplyLayouts
  <2>5. IsMessage(fields, d) /\ d[field] = 0
    <3>1. IsMessage(fields, d) /\ d[field] = Unset[kind]
      BY <2>2, <2>3, <2>4, DefaultIs DEF IsField
    <3>. QED  BY <2>3, <3>1 DEF Unset
  <2>6. \A j \in 1 .. Len(stream) : stream[j].number # n
    BY <2>1, <2>3
  <2>7. InternalParse(fields, d, stream)[field] = d[field]
    BY <1>7, <2>2, <2>4, <2>5, <2>6, ParseOther
  <2>8. read.message = InternalParse(fields, d, stream)
    BY <1>7, <2>2, <2>3, ReplyParse
  <2>. QED  BY <1>1, <2>3, <2>5, <2>7, <2>8
<1>10. PICK j \in 1 .. Len(stream) : stream[j].number = 4
  BY <1>9
<1>11. j \in 1 .. Len(all) /\ all[j].number = 4
  <2>1. CASE stream = all
    BY <1>10, <2>1
  <2>2. CASE IsPart(all, stream)
    <3>1. Len(stream) \in Nat /\ Len(all) \in Nat /\ Len(stream) <= Len(all)
      BY <1>5, <2>2 DEF IsPart, IsSeq
    <3>2. Len(stream) \in 1 .. Len(stream)
      BY <1>10, <3>1
    <3>3. stream[Len(stream)] = all[Len(stream)]
      <4>1. stream[Len(stream)].whole # FALSE
        BY <1>8, <3>2
      <4>. QED  BY <2>2, <4>1 DEF IsPart
    <3>4. j < Len(stream) => j \in 1 .. Len(stream) - 1
      BY <3>1
    <3>5. stream[j] = all[j]
      BY <2>2, <3>1, <3>3, <3>4 DEF IsPart
    <3>. QED  BY <1>10, <3>1, <3>5
  <2>. QED  BY <1>6, <2>1, <2>2
<1>12. PICK i, k : IsFrom(sent, N, j, i, k)
  BY <1>5, <1>11
<1>13. PICK m, w, before, upto :
         m = sent[i] /\ w = Written(m) /\ before = AllOf(sent, i - 1) /\ upto = AllOf(sent, i)
  OBVIOUS
<1>14. /\ i \in 1 .. N /\ k \in 1 .. Len(w) /\ w[k].number = 4
       /\ j = Len(before) + k /\ Len(upto) = Len(before) + Len(w)
  BY <1>4, <1>11, <1>12, <1>13 DEF IsFrom
<1>15. IsReply(m) /\ ServiceOf(m.op) = "raftRpc"
  BY <1>1, <1>2, <1>3, <1>13, <1>14
<1>16. m.op = "AppendEntries" /\ k = Len(w)
  BY <1>13, <1>14, <1>15, FourthIsLast
<1>17. Len(upto) <= Len(stream)
  <2>1. Len(upto) = j /\ Len(stream) \in Nat
    BY <1>7, <1>14, <1>16 DEF IsSeq
  <2>. QED  BY <1>10, <2>1
<1>. QED  BY <1>2, <1>13, <1>14, <1>16, <1>17, WrittenUpToIs

-----------------------------------------------------------------------------
(* The theorems *)

\* What is in the buffer of a connection is all that was written on it, or its beginning.
THEOREM WireInvariant == WireSpec => []WireInv
<1>1. WireInit => WireInv
  BY NothingArrived
<1>2. WireInv /\ [WireNext]_wireVars => WireInv'
  BY WireStep
<1>. QED  BY <1>1, <1>2, PTL DEF WireSpec

\* A request that is there runs the handler that was called, with all its fields as they
\* were set; of one that is cut anywhere no handler sees a part (OnMessage).
THEOREM NothingHalfReadHolds == WireSpec => []NothingHalfRead
<1>1. WireInv => NothingHalfRead
  BY RequestRead
<1>. QED  BY <1>1, WireInvariant, PTL

\* Replies that arrive together are read, as any class of their service, as each merged
\* into those before (MprpcChannel::CallMethod parses all that is in its buffer).
THEOREM ReadsAsMergedHolds == WireSpec => []ReadsAsMerged
<1>1. WireInv => ReadsAsMerged
  BY RepliesRead
<1>. QED  BY <1>1, WireInvariant, PTL

\* What is read for an AppendEntries reply has its AppState set only if a whole reply to an
\* AppendEntries is there (raft.h:25).
THEOREM OnlyRepliesCountHolds == WireSpec => []OnlyRepliesCount
<1>1. WireInv => OnlyRepliesCount
  BY RepliesCount
<1>. QED  BY <1>1, WireInvariant, PTL
=============================================================================
