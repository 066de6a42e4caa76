----------------------------- MODULE ParserProofs -----------------------------
(***************************************************************************)
(* The two parsers.  For every body of a request, however the client cuts  *)
(* it into chunks and recv() into pieces: the server takes the body from   *)
(* the bytes as the client sent it.  For every configuration and every     *)
(* layout of its file: parse() gives the configuration back, and what is   *)
(* wrong with the file somewhere spares the servers in front of it.        *)
(***************************************************************************)
EXTENDS Request, ConfigParser, Numbers, SequenceTheorems, TLAPS

-----------------------------------------------------------------------------
(* Sequences and what find() finds in them. *)

\* A part of a sequence.
LEMMA PartOf ==
  ASSUME NEW S, NEW s \in Seq(S), NEW i \in Nat \ {0}, NEW j \in Nat, j <= Len(s)
  PROVE  /\ SubSeq(s, i, j) \in Seq(S)
         /\ Len(SubSeq(s, i, j)) = IF i <= j THEN j - i + 1 ELSE 0
         /\ \A k \in 1..(j - i + 1) : SubSeq(s, i, j)[k] = s[i + k - 1]
<1>1. \A k \in i..j : s[k] \in S
  OBVIOUS
<1> QED BY <1>1, SubSeqProperties

\* The pattern is at place i of a sequence.
IsAt(s, pat, i) == \A j \in 1..Len(pat) : s[i + j - 1] = pat[j]

\* Comparing a part to a pattern compares their elements.
LEMMA PlacesAre ==
  ASSUME NEW S, NEW s \in Seq(S), NEW pat \in Seq(S), Len(pat) \in Nat \ {0}, NEW from \in Nat \ {0}
  PROVE  Places(s, pat, from) = {i \in from..(Len(s) - Len(pat) + 1) : IsAt(s, pat, i)}
<1> SUFFICES ASSUME NEW i \in from..(Len(s) - Len(pat) + 1)
             PROVE  SubSeq(s, i, i + Len(pat) - 1) = pat <=> IsAt(s, pat, i)
  BY DEF Places
<1> DEFINE j == i + Len(pat) - 1
           t == SubSeq(s, i, j)
<1>1. i \in Nat \ {0} /\ j \in Nat /\ j <= Len(s) /\ i <= j /\ j - i + 1 = Len(pat)
  OBVIOUS
<1> HIDE DEF j
<1>2. t \in Seq(S) /\ Len(t) = Len(pat) /\ \A k \in 1..Len(pat) : t[k] = s[i + k - 1]
  BY <1>1, PartOf
<1> HIDE DEF t
<1>3. t = pat => IsAt(s, pat, i)
  BY <1>2 DEF IsAt
<1>4. IsAt(s, pat, i) => t = pat
  BY <1>2, SeqEqual DEF IsAt
<1> QED BY <1>3, <1>4 DEF t, j

\* What find() returns.
LEMMA FindFacts ==
  ASSUME NEW S, NEW s \in Seq(S), NEW pat \in Seq(S), Len(pat) \in Nat \ {0}, NEW from \in Nat \ {0}
  PROVE  /\ Find(s, pat, from) # NPos =>
              /\ Find(s, pat, from) \in from..(Len(s) - Len(pat) + 1)
              /\ IsAt(s, pat, Find(s, pat, from))
         /\ \A i \in from..(Len(s) - Len(pat) + 1) :
              IsAt(s, pat, i) => Find(s, pat, from) # NPos /\ Find(s, pat, from) <= i
<1> DEFINE P == Places(s, pat, from)
<1>1. P = {i \in from..(Len(s) - Len(pat) + 1) : IsAt(s, pat, i)}
  BY PlacesAre
<1>2. P \in SUBSET Nat /\ 0 \notin P
  BY <1>1
<1>3. P # {} => Min(P) \in P /\ \A i \in P : Min(P) <= i
  <2> HIDE DEF P
  <2> QED BY <1>2, LeastExists DEF Min
<1>4. Find(s, pat, from) = IF P = {} THEN 0 ELSE Min(P)
  BY DEF Find, NPos
<1> HIDE DEF P
<1>5. Find(s, pat, from) # 0 => Find(s, pat, from) \in P
  BY <1>3, <1>4
<1>6. \A i \in P : Find(s, pat, from) # 0 /\ Find(s, pat, from) <= i
  BY <1>2, <1>3, <1>4
<1> QED BY <1>1, <1>5, <1>6 DEF NPos

\* How long what is put together is.
LEMMA JoinLength ==
  ASSUME NEW S, NEW p \in Seq(S), NEW q \in Seq(S)
  PROVE  p \o q \in Seq(S) /\ Len(p \o q) = Len(p) + Len(q)
BY ConcatProperties

LEMMA Associative == \A p, q, s \in Seq(Byte) : (p \o q) \o s = p \o (q \o s)
BY ConcatAssociative

\* What is put together is at a place if its parts are, one behind the other.
LEMMA JoinAt ==
  ASSUME NEW S, NEW p \in Seq(S), NEW q \in Seq(S), NEW s, NEW i \in Int
  PROVE  IsAt(s, p \o q, i) <=> IsAt(s, p, i) /\ IsAt(s, q, i + Len(p))
<1>1. /\ Len(p \o q) = Len(p) + Len(q) /\ Len(p) \in Nat /\ Len(q) \in Nat
      /\ \A j \in 1..(Len(p) + Len(q)) : (p \o q)[j] = IF j <= Len(p) THEN p[j] ELSE q[j - Len(p)]
  BY ConcatProperties
<1>2. ASSUME IsAt(s, p \o q, i) PROVE IsAt(s, p, i) /\ IsAt(s, q, i + Len(p))
  <2>1. ASSUME NEW j \in 1..Len(p) PROVE s[i + j - 1] = p[j]
    <3>1. j \in 1..(Len(p) + Len(q)) /\ j <= Len(p)
      BY <1>1
    <3> QED BY <1>1, <1>2, <3>1 DEF IsAt
  <2>2. ASSUME NEW j \in 1..Len(q) PROVE s[i + Len(p) + j - 1] = q[j]
    <3> DEFINE k == Len(p) + j
    <3>1. k \in 1..(Len(p) + Len(q)) /\ ~(k <= Len(p)) /\ k - Len(p) = j
          /\ i + k - 1 = i + Len(p) + j - 1
      BY <1>1
    <3> HIDE DEF k
    <3> QED BY <1>1, <1>2, <3>1 DEF IsAt
  <2> QED BY <2>1, <2>2 DEF IsAt
<1>3. ASSUME IsAt(s, p, i), IsAt(s, q, i + Len(p)) PROVE IsAt(s, p \o q, i)
  <2>1. ASSUME NEW j \in 1..(Len(p) + Len(q)) PROVE s[i + j - 1] = (p \o q)[j]
    <3>1. CASE j <= Len(p)
      <4>1. j \in 1..Len(p)
        BY <1>1, <3>1
      <4> QED BY <1>1, <1>3, <3>1, <4>1 DEF IsAt
    <3>2. CASE ~(j <= Len(p))
      <4> DEFINE k == j - Len(p)
      <4>1. k \in 1..Len(q) /\ i + Len(p) + k - 1 = i + j - 1
        BY <1>1, <3>2
      <4>2. s[i + Len(p) + k - 1] = q[k]
        BY <1>3, <4>1 DEF IsAt
      <4> QED BY <1>1, <3>2, <4>1, <4>2
    <3> QED BY <3>1, <3>2
  <2> QED BY <1>1, <2>1 DEF IsAt
<1> QED BY <1>2, <1>3

\* A sequence is at the start of itself.
LEMMA SelfAt ==
  ASSUME NEW s
  PROVE  IsAt(s, s, 1)
BY DEF IsAt

\* The line ends and the terminators are sequences of bytes.
LEMMA Patterns ==
  /\ CRLF \in Seq(Byte) /\ Len(CRLF) = 2
  /\ << 0 >> \in Seq(Byte) /\ Len(<< 0 >>) = 1 /\ <<Text>> \in Seq(Byte) /\ Len(<<Text>>) = 1
  /\ CRLF \o CRLF \in Seq(Byte) /\ Len(CRLF \o CRLF) = 4
  /\ CRLF \o << 0 >> \in Seq(Byte) /\ Len(CRLF \o << 0 >>) = 3
  /\ CRLF \o << 0 >> \o CRLF \in Seq(Byte) /\ Len(CRLF \o << 0 >> \o CRLF) = 5
  /\ Terminator \in Seq(Byte) /\ Len(Terminator) = 7
  /\ <<Text>> \o CRLF \in Seq(Byte) /\ Len(<<Text>> \o CRLF) = 3
  /\ Header \in Seq(Byte) /\ Len(Header) = 5
  /\ << 0 >> \o CRLF \in Seq(Byte) /\ Len(<< 0 >> \o CRLF) = 3
  /\ << 0 >> \o CRLF \o CRLF \in Seq(Byte) /\ Len(<< 0 >> \o CRLF \o CRLF) = 5
<1>1. /\ CRLF \in Seq(Byte) /\ Len(CRLF) = 2
      /\ << 0 >> \in Seq(Byte) /\ Len(<< 0 >>) = 1 /\ <<Text>> \in Seq(Byte) /\ Len(<<Text>>) = 1
  BY DEF CRLF, CR, LF, Text, Byte
<1>2. \A s \in Seq(Byte) : s \o CRLF \in Seq(Byte) /\ Len(s \o CRLF) = Len(s) + 2
  <2> TAKE s \in Seq(Byte)
  <2>1. s \o CRLF \in Seq(Byte) /\ Len(s \o CRLF) = Len(s) + Len(CRLF)
    BY <1>1, JoinLength
  <2> QED BY <1>1, <2>1
<1>3. CRLF \o << 0 >> \in Seq(Byte) /\ Len(CRLF \o << 0 >>) = 3
  <2>1. CRLF \o << 0 >> \in Seq(Byte) /\ Len(CRLF \o << 0 >>) = Len(CRLF) + Len(<< 0 >>)
    BY <1>1, JoinLength
  <2> QED BY <1>1, <2>1
<1> QED BY <1>1, <1>2, <1>3 DEF Terminator, Header

\* A line end at a place, and what a terminator at a place is.
LEMMA LineEndAt ==
  ASSUME NEW s, NEW i \in Int
  PROVE  /\ IsAt(s, CRLF, i) <=> s[i] = CR /\ s[i + 1] = LF
         /\ IsAt(s, << 0 >>, i) <=> s[i] = 0
         /\ IsAt(s, <<Text>>, i) <=> s[i] = Text
<1>1. /\ Len(CRLF) = 2 /\ CRLF[1] = CR /\ CRLF[2] = LF /\ Len(<< 0 >>) = 1 /\ Len(<<Text>>) = 1
      /\ << 0 >>[1] = 0 /\ <<Text>>[1] = Text
  BY DEF CRLF
<1>2. IsAt(s, CRLF, i) <=> s[i] = CR /\ s[i + 1] = LF
  <2>1. i + 1 - 1 = i /\ i + 2 - 1 = i + 1
    OBVIOUS
  <2>2. \A j \in 1..2 : j = 1 \/ j = 2
    OBVIOUS
  <2> QED BY <1>1, <2>1, <2>2 DEF IsAt
<1>3. (IsAt(s, << 0 >>, i) <=> s[i] = 0) /\ (IsAt(s, <<Text>>, i) <=> s[i] = Text)
  <2>1. i + 1 - 1 = i /\ \A j \in 1..1 : j = 1
    OBVIOUS
  <2> QED BY <1>1, <2>1 DEF IsAt
<1> QED BY <1>2, <1>3

\* A line that ends.
LEMMA LineAt ==
  ASSUME NEW p \in Seq(Byte)
  PROVE  /\ p \o CRLF \in Seq(Byte) /\ Len(p \o CRLF) = Len(p) + 2
         /\ \A s : \A i \in Int : IsAt(s, p \o CRLF, i) <=> IsAt(s, p, i) /\ IsAt(s, CRLF, i + Len(p))
<1>1. CRLF \in Seq(Byte) /\ Len(CRLF) = 2
  BY Patterns
<1>2. p \o CRLF \in Seq(Byte) /\ Len(p \o CRLF) = Len(p) + Len(CRLF)
  BY <1>1, JoinLength
<1>3. ASSUME NEW s, NEW i \in Int
      PROVE  IsAt(s, p \o CRLF, i) <=> IsAt(s, p, i) /\ IsAt(s, CRLF, i + Len(p))
  BY <1>1, JoinAt
<1> QED BY <1>1, <1>2, <1>3

\* Two line ends at a place, and a terminator.
LEMMA EndsAt ==
  ASSUME NEW s, NEW i \in Int
  PROVE  /\ IsAt(s, CRLF \o CRLF, i) <=> IsAt(s, CRLF, i) /\ IsAt(s, CRLF, i + 2)
         /\ IsAt(s, Header, i) <=> s[i] = Text /\ IsAt(s, CRLF, i + 1) /\ IsAt(s, CRLF, i + 3)
         /\ IsAt(s, << 0 >> \o CRLF \o CRLF, i) <=> s[i] = 0 /\ IsAt(s, CRLF, i + 1) /\ IsAt(s, CRLF, i + 3)
         /\ IsAt(s, Terminator, i) <=> /\ IsAt(s, CRLF, i) /\ s[i + 2] = 0
                                     /\ IsAt(s, CRLF, i + 3) /\ IsAt(s, CRLF, i + 5)
<1>1. \A p \in Seq(Byte) : IsAt(s, p \o CRLF, i) <=> IsAt(s, p, i) /\ IsAt(s, CRLF, i + Len(p))
  BY Patterns, JoinAt
<1>2. IsAt(s, CRLF \o CRLF, i) <=> IsAt(s, CRLF, i) /\ IsAt(s, CRLF, i + 2)
  BY <1>1, Patterns
<1>3. IsAt(s, Header, i) <=> IsAt(s, <<Text>>, i) /\ IsAt(s, CRLF, i + 1) /\ IsAt(s, CRLF, i + 3)
  BY <1>1, Patterns DEF Header
<1>4. IsAt(s, << 0 >> \o CRLF \o CRLF, i) <=> IsAt(s, << 0 >>, i) /\ IsAt(s, CRLF, i + 1) /\ IsAt(s, CRLF, i + 3)
  BY <1>1, Patterns
<1>5. IsAt(s, CRLF \o << 0 >>, i) <=> IsAt(s, CRLF, i) /\ IsAt(s, << 0 >>, i + 2)
  <2>1. IsAt(s, CRLF \o << 0 >>, i) <=> IsAt(s, CRLF, i) /\ IsAt(s, << 0 >>, i + Len(CRLF))
    BY Patterns, JoinAt
  <2> QED BY <2>1, Patterns
<1>6. IsAt(s, Terminator, i) <=> /\ IsAt(s, CRLF, i) /\ IsAt(s, << 0 >>, i + 2)
                                /\ IsAt(s, CRLF, i + 3) /\ IsAt(s, CRLF, i + 5)
  BY <1>1, <1>5, Patterns DEF Terminator
<1>7. (IsAt(s, << 0 >>, i) <=> s[i] = 0) /\ (IsAt(s, << 0 >>, i + 2) <=> s[i + 2] = 0)
      /\ (IsAt(s, <<Text>>, i) <=> s[i] = Text)
  BY LineEndAt
<1> QED BY <1>2, <1>3, <1>4, <1>6, <1>7

-----------------------------------------------------------------------------
(* Sequences put together. *)

Joined(ss, k) == FlattenSeq(SubSeq(ss, 1, k))

\* Putting one more sequence behind others.
LEMMA JoinedFacts ==
  ASSUME NEW S, NEW ss \in Seq(Seq(S))
  PROVE  /\ Joined(ss, 0) = <<>> /\ Joined(ss, Len(ss)) = FlattenSeq(ss)
         /\ \A k \in 0..Len(ss) : Joined(ss, k) \in Seq(S)
         /\ \A k \in 1..Len(ss) : Joined(ss, k) = Joined(ss, k - 1) \o ss[k]
<1> DEFINE n == Len(ss)
           G == [x \in (1..n) \X Seq(S) |-> x[2] \o ss[x[1]]]
<1>1. n \in Nat /\ \A i \in 1..n : ss[i] \in Seq(S)
  OBVIOUS
<1>2. \A i \in 1..n : \A x \in Seq(S) : G[<<i, x>>] = x \o ss[i] /\ x \o ss[i] \in Seq(S)
  <2> HIDE DEF n
  <2> QED BY <1>1, ConcatProperties
<1> HIDE DEF G, n
<1>3. StepsIn(G, n, Seq(S)) /\ <<>> \in Seq(S)
  BY <1>2, EmptySeq DEF StepsIn
<1>4. PICK g : Made(g, <<>>, G, n, Seq(S))
  BY <1>1, <1>3, RecursionExists
<1>5. g[0] = <<>> /\ (\A i \in 0..n : g[i] \in Seq(S)) /\ \A i \in 1..n : g[i] = g[i - 1] \o ss[i]
  <2>1. \A i \in 0..n : g[i] \in Seq(S)
    BY <1>4 DEF Made
  <2>2. \A i \in 1..n : i - 1 \in 0..n
    BY <1>1
  <2> QED BY <1>2, <1>4, <2>1, <2>2 DEF Made
<1>11. ASSUME 1 <= n PROVE g[1] = ss[1]
  <2>1. 1 \in 1..n /\ 1 - 1 = 0
    BY <1>1, <1>11
  <2>2. g[1] = <<>> \o ss[1] /\ ss[1] \in Seq(S)
    BY <1>1, <1>5, <2>1
  <2> QED BY <2>2, ConcatEmptySeq
<1>6. Joined(ss, 0) = <<>>
  <2>1. SubSeq(ss, 1, 0) = <<>>
    BY SubSeqEmpty
  <2> QED BY <2>1 DEF Joined, FlattenSeq
<1>7. ASSUME NEW k \in 1..n PROVE Joined(ss, k) = g[k]
  <2> DEFINE t == SubSeq(ss, 1, k)
             step(f, i) == IF i = 1 THEN t[i] ELSE f[i - 1] \o t[i]
             h == CHOOSE f : f = [i \in 1..k |-> step(f, i)]
  <2>1. Len(t) = k /\ \A i \in 1..k : t[i] = ss[i]
    BY <1>1, PartOf DEF n
  <2>2. k # 0 /\ k \in Nat
    BY <1>1
  <2> HIDE DEF t
  <2>3. Joined(ss, k) = h[k]
    BY <2>1, <2>2 DEF Joined, FlattenSeq, t
  <2>4. [i \in 1..k |-> g[i]] = [i \in 1..k |-> step([j \in 1..k |-> g[j]], i)]
    <3> SUFFICES ASSUME NEW i \in 1..k PROVE g[i] = step([j \in 1..k |-> g[j]], i)
      OBVIOUS
    <3>1. CASE i = 1
      <4>1. 1 <= n
        BY <1>1, <2>2
      <4> QED BY <1>11, <2>1, <3>1, <4>1
    <3>2. CASE i # 1
      <4>1. i - 1 \in 1..k /\ i \in 1..n
        BY <1>1, <3>2
      <4> QED BY <1>5, <2>1, <3>2, <4>1
    <3> QED BY <3>1, <3>2
  <2>5. h = [i \in 1..k |-> step(h, i)]
    <3> HIDE DEF step
    <3> QED BY <2>4
  <2> HIDE DEF h
  <2> DEFINE T == {i \in Nat : i <= k => i = 0 \/ h[i] = g[i]}
  <2>6. 0 \in T
    OBVIOUS
  <2>7. ASSUME NEW i \in Nat, i \in T PROVE i + 1 \in T
    <3> DEFINE q == i + 1
    <3> SUFFICES ASSUME q <= k PROVE h[q] = g[q]
      OBVIOUS
    <3>1. q \in 1..k /\ q \in 1..n /\ q - 1 = i
      BY <1>1, <2>2
    <3> HIDE DEF q
    <3>2. h[q] = step(h, q)
      <4> HIDE DEF step
      <4> QED BY <2>5, <3>1
    <3>3. CASE q = 1
      <4>1. 1 <= n /\ t[1] = ss[1]
        BY <1>1, <2>1, <3>1, <3>3
      <4> QED BY <1>11, <3>2, <3>3, <4>1
    <3>4. CASE q # 1
      <4>1. h[i] = g[i]
        BY <2>2, <2>7, <3>1, <3>4
      <4>2. h[q] = h[q - 1] \o t[q] /\ t[q] = ss[q]
        BY <2>1, <3>1, <3>2, <3>4
      <4>3. g[q] = g[q - 1] \o ss[q]
        BY <1>5, <3>1
      <4> QED BY <3>1, <4>1, <4>2, <4>3
    <3> QED BY <3>3, <3>4
  <2>8. k \in T
    <3> HIDE DEF T
    <3> QED BY <2>2, <2>6, <2>7, Induction
  <2> QED BY <2>2, <2>3, <2>8
<1>8. \A k \in 0..n : Joined(ss, k) = g[k]
  BY <1>1, <1>5, <1>6, <1>7
<1>9. SubSeq(ss, 1, n) = ss
  BY SubSeqFull DEF n
<1>10. \A k \in 1..n : k \in 0..n /\ k - 1 \in 0..n
  BY <1>1
<1> QED BY <1>5, <1>6, <1>8, <1>9, <1>10 DEF n, Joined

\* The elements of what is put together are where its parts are.
LEMMA JoinedAt ==
  ASSUME NEW S, NEW ss \in Seq(Seq(S)), NEW s, NEW i \in Int, IsAt(s, FlattenSeq(ss), i)
  PROVE  \A k \in 1..Len(ss) : IsAt(s, ss[k], i + Len(Joined(ss, k - 1)))
<1> DEFINE n == Len(ss)
           T == {j \in Nat : j <= n => IsAt(s, Joined(ss, n - j), i)}
<1>1. n \in Nat /\ \A k \in 1..n : ss[k] \in Seq(S)
  OBVIOUS
<1>2. ASSUME NEW k \in 1..n
      PROVE  IsAt(s, Joined(ss, k), i) <=>
               IsAt(s, Joined(ss, k - 1), i) /\ IsAt(s, ss[k], i + Len(Joined(ss, k - 1)))
  <2>1. k - 1 \in 0..n
    BY <1>1
  <2>2. Joined(ss, k - 1) \in Seq(S) /\ Joined(ss, k) = Joined(ss, k - 1) \o ss[k]
    BY <2>1, JoinedFacts
  <2>3. ss[k] \in Seq(S)
    BY <1>1
  <2> HIDE DEF n
  <2> QED BY <2>2, <2>3, JoinAt
<1>3. 0 \in T
  <2>1. Joined(ss, Len(ss)) = FlattenSeq(ss)
    BY JoinedFacts
  <2>2. n - 0 = n
    BY <1>1
  <2> HIDE DEF n
  <2>3. IsAt(s, Joined(ss, n - 0), i)
    BY <2>1, <2>2 DEF n
  <2> QED BY <2>3
<1>4. ASSUME NEW j \in Nat, j \in T PROVE j + 1 \in T
  <2> SUFFICES ASSUME j + 1 <= n PROVE IsAt(s, Joined(ss, n - (j + 1)), i)
    OBVIOUS
  <2>1. n - j \in 1..n /\ (n - j) - 1 = n - (j + 1)
    BY <1>1
  <2>2. IsAt(s, Joined(ss, n - j), i)
    BY <1>1, <1>4
  <2> QED BY <1>2, <2>1, <2>2
<1>5. ASSUME NEW k \in 1..n PROVE IsAt(s, Joined(ss, k), i)
  <2>1. n - k \in Nat /\ n - k <= n /\ n - (n - k) = k
    BY <1>1
  <2>2. n - k \in T
    <3> HIDE DEF T
    <3> QED BY <1>3, <1>4, <2>1, Induction
  <2> QED BY <2>1, <2>2
<1> QED BY <1>2, <1>5

-----------------------------------------------------------------------------
(* The size line of a chunk. *)

\* How many numbers there are from one to another.
LEMMA IntervalSize ==
  ASSUME NEW a \in Int, NEW b \in Int, a <= b
  PROVE  IsFiniteSet(a..(b - 1)) /\ Cardinality(a..(b - 1)) = b - a
<1> DEFINE c == b - 1
<1>1. c \in Int /\ (IF a > c THEN 0 ELSE c - a + 1) = b - a
  OBVIOUS
<1> HIDE DEF c
<1>2. IsFiniteSet(a..c) /\ Cardinality(a..c) = IF a > c THEN 0 ELSE c - a + 1
  BY <1>1, FS_Interval
<1> QED BY <1>1, <1>2 DEF c

\* The elements of a sequence of bytes are bytes.
LEMMA ByteAt ==
  ASSUME NEW s \in Seq(Byte), NEW i \in 1..Len(s)
  PROVE  s[i] \in Byte /\ s[i] \in Nat /\ s[i] <= 18
<1>1. s[i] \in Byte
  OBVIOUS
<1> QED BY <1>1 DEF Byte

Digits(s, pos, end) == {i \in pos..(end - 1) : \A j \in pos..i : s[j] < 16}
Sizes(s, pos, f, n) == f = [k \in 0..n |-> IF k = 0 THEN 0 ELSE 16 * f[k - 1] + s[pos + k - 1]]

\* What the digits amount to is a number.
LEMMA SizeExists ==
  ASSUME NEW s, NEW pos \in Nat, NEW n \in Nat, \A k \in 1..n : s[pos + k - 1] \in Nat
  PROVE  /\ \E f : Sizes(s, pos, f, n)
         /\ \A f : Sizes(s, pos, f, n) => f[n] \in Nat
<1> DEFINE G == [x \in (1..n) \X Nat |-> 16 * x[2] + s[pos + x[1] - 1]]
<1> DEFINE Digit(k) == s[pos + k - 1]
<1>11. \A a, b \in Nat : 16 * a + b \in Nat
  OBVIOUS
<1>1. \A k \in 1..n : \A x \in Nat : G[<<k, x>>] = 16 * x + Digit(k) /\ G[<<k, x>>] \in Nat
  <2> TAKE k \in 1..n
  <2> TAKE x \in Nat
  <2>1. Digit(k) \in Nat
    OBVIOUS
  <2>2. G[<<k, x>>] = 16 * x + Digit(k)
    <3>1. <<k, x>> \in (1..n) \X Nat /\ <<k, x>>[1] = k /\ <<k, x>>[2] = x
      OBVIOUS
    <3> QED BY <3>1
  <2> HIDE DEF G, Digit
  <2> QED BY <1>11, <2>1, <2>2
<1> HIDE DEF G
<1>2. StepsIn(G, n, Nat)
  BY <1>1 DEF StepsIn
<1>3. PICK f : Made(f, 0, G, n, Nat)
  BY <1>2, RecursionExists
<1>4. Sizes(s, pos, f, n)
  <2>1. ASSUME NEW k \in 0..n
        PROVE  f[k] = IF k = 0 THEN 0 ELSE 16 * f[k - 1] + s[pos + k - 1]
    <3>1. CASE k = 0
      BY <1>3, <3>1 DEF Made
    <3>2. CASE k # 0
      <4>1. k \in 1..n /\ k - 1 \in 0..n
        BY <3>2
      <4> QED BY <1>1, <1>3, <3>2, <4>1 DEF Made
    <3> QED BY <3>1, <3>2
  <2>2. f = [k \in 0..n |-> f[k]]
    BY <1>3 DEF Made
  <2> QED BY <2>1, <2>2 DEF Sizes
<1>5. ASSUME NEW g, Sizes(s, pos, g, n) PROVE g[n] \in Nat
  <2> DEFINE T == {k \in Nat : k <= n => g[k] \in Nat}
  <2>1. \A k \in 0..n : g[k] = IF k = 0 THEN 0 ELSE 16 * g[k - 1] + s[pos + k - 1]
    BY <1>5 DEF Sizes
  <2>2. 0 \in T
    BY <2>1
  <2>3. ASSUME NEW k \in Nat, k \in T PROVE k + 1 \in T
    <3> SUFFICES ASSUME k + 1 <= n PROVE g[k + 1] \in Nat
      OBVIOUS
    <3> DEFINE q == k + 1
    <3>1. q \in 0..n /\ q \in 1..n /\ q # 0 /\ q - 1 = k /\ g[k] \in Nat
      BY <2>3
    <3> HIDE DEF q
    <3>2. g[q] = 16 * g[k] + s[pos + q - 1]
      BY <2>1, <3>1
    <3>3. g[q] \in Nat
      <4>1. s[pos + q - 1] \in Nat
        BY <3>1
      <4> QED BY <1>11, <3>1, <3>2, <4>1
    <3> QED BY <3>3 DEF q
  <2>4. n \in T
    <3> HIDE DEF T
    <3> QED BY <2>2, <2>3, Induction
  <2> QED BY <2>4
<1> QED BY <1>4, <1>5

\* A chunk's size is a number.
LEMMA SizeType ==
  ASSUME NEW s \in Seq(Byte), NEW pos \in Nat \ {0}, NEW end \in pos..Len(s)
  PROVE  ChunkSize(s, pos, end) \in Nat
<1> DEFINE d == Digits(s, pos, end)
           n == Cardinality(d)
           f == CHOOSE g : Sizes(s, pos, g, n)
<1>1. IsFiniteSet(pos..(end - 1)) /\ Cardinality(pos..(end - 1)) = end - pos
  BY IntervalSize
<1>2. d \in SUBSET (pos..(end - 1))
  BY DEF Digits
<1>3. n \in Nat /\ n <= end - pos
  <2> HIDE DEF d
  <2> QED BY <1>1, <1>2, FS_Subset, FS_CardinalityType
<1> HIDE DEF d, n
<1>4. \A k \in 1..n : s[pos + k - 1] \in Nat
  <2> TAKE k \in 1..n
  <2>1. pos + k - 1 \in 1..Len(s)
    BY <1>3
  <2> QED BY <2>1, ByteAt
<1>5. Sizes(s, pos, f, n) /\ f[n] \in Nat
  BY <1>3, <1>4, SizeExists
<1>6. ChunkSize(s, pos, end) = f[n]
  BY DEF ChunkSize, Digits, Sizes, d, n
<1> QED BY <1>5, <1>6

\* The digits a client writes.
LEMMA HexFacts ==
  ASSUME NEW n \in 1..255
  PROVE  /\ Hex(n) \in Seq(Byte) /\ Len(Hex(n)) \in 1..2
         /\ Hex(n)[1] \in 1..15
         /\ \A i \in 1..Len(Hex(n)) : Hex(n)[i] \in 0..15
         /\ Len(Hex(n)) = 1 => Hex(n)[1] = n
         /\ Len(Hex(n)) = 2 => 16 * Hex(n)[1] + Hex(n)[2] = n
<1>1. CASE n < 16
  BY <1>1 DEF Hex, Byte
<1>2. CASE ~(n < 16)
  <2>1. n \div 16 \in 1..15 /\ n % 16 \in 0..15 /\ 16 * (n \div 16) + (n % 16) = n
    BY <1>2
  <2>2. Hex(n) = <<n \div 16, n % 16>>
    BY <1>2 DEF Hex
  <2> QED BY <2>1, <2>2 DEF Byte
<1> QED BY <1>1, <1>2

\* They are read as what they were written for.
LEMMA SizeRead ==
  ASSUME NEW s \in Seq(Byte), NEW n \in 1..255, NEW pos \in Nat \ {0},
         IsAt(s, Hex(n), pos), pos + Len(Hex(n)) <= Len(s)
  PROVE  ChunkSize(s, pos, pos + Len(Hex(n))) = n
<1> DEFINE h == Len(Hex(n))
           end == pos + h
           d == Digits(s, pos, end)
           f == CHOOSE g : Sizes(s, pos, g, h)
<1>1. h \in 1..2 /\ \A i \in 1..h : s[pos + i - 1] = Hex(n)[i] /\ Hex(n)[i] \in 0..15
  BY HexFacts DEF IsAt
<1>2. d = pos..(end - 1)
  <2>1. ASSUME NEW j \in pos..(end - 1) PROVE s[j] < 16
    <3> DEFINE i == j - pos + 1
    <3>1. i \in 1..h /\ pos + i - 1 = j
      BY <1>1
    <3>2. s[pos + i - 1] = Hex(n)[i] /\ Hex(n)[i] \in 0..15
      <4> HIDE DEF i, h
      <4> QED BY <1>1, <3>1
    <3> QED BY SMTT(30), <3>1, <3>2
  <2> QED BY <1>1, <2>1 DEF Digits
<1>3. Cardinality(d) = h
  <2>1. pos <= end /\ end - pos = h /\ end \in Int
    BY <1>1
  <2>2. Cardinality(pos..(end - 1)) = end - pos
    <3> HIDE DEF end
    <3> QED BY <2>1, IntervalSize
  <2> QED BY <1>2, <2>1, <2>2
<1> HIDE DEF d
<1>4. ChunkSize(s, pos, end) = f[h]
  BY <1>3 DEF ChunkSize, Digits, Sizes, d
<1> HIDE DEF end
<1>5. Sizes(s, pos, f, h)
  <2>1. \A k \in 1..h : s[pos + k - 1] \in Nat
    <3> HIDE DEF h
    <3>1. \A x \in 0..15 : x \in Nat
      OBVIOUS
    <3> QED BY <1>1, <3>1
  <2>2. h \in Nat
    BY <1>1
  <2> HIDE DEF h
  <2> QED BY <2>1, <2>2, SizeExists
<1> HIDE DEF f
<1>6. \A k \in 0..h : f[k] = IF k = 0 THEN 0 ELSE 16 * f[k - 1] + s[pos + k - 1]
  BY <1>5 DEF Sizes
<1> HIDE DEF h
<1>7. f[0] = 0 /\ f[1] = s[pos]
  <2>1. 0 \in 0..h /\ 1 \in 0..h /\ pos + 1 - 1 = pos /\ s[pos] \in Int
    <3>1. 1 \in 1..h /\ pos + 1 - 1 = pos
      BY <1>1
    <3>2. s[pos] = Hex(n)[1] /\ Hex(n)[1] \in 0..15
      BY <1>1, <3>1
    <3> QED BY SMTT(30), <1>1, <3>1, <3>2
  <2>2. f[0] = 0
    BY <1>6, <2>1
  <2>3. f[1] = 16 * f[1 - 1] + s[pos + 1 - 1]
    BY <1>6, <2>1
  <2> QED BY <2>1, <2>2, <2>3
<1>8. s[pos] = Hex(n)[1]
  <2>1. 1 \in 1..h /\ pos + 1 - 1 = pos
    BY <1>1
  <2> QED BY <1>1, <2>1
<1>9. CASE h = 1
  BY ZenonT(40), <1>4, <1>7, <1>8, <1>9, HexFacts DEF h, end
<1>10. CASE h = 2
  <2>1. f[2] = 16 * f[1] + s[pos + 1]
    <3>1. 2 \in 0..h /\ 2 - 1 = 1 /\ pos + 2 - 1 = pos + 1
      BY <1>10
    <3> QED BY <1>6, <3>1
  <2>2. s[pos + 1] = Hex(n)[2]
    <3>1. 2 \in 1..h /\ pos + 2 - 1 = pos + 1
      BY <1>10
    <3> QED BY <1>1, <3>1
  <2> QED BY <1>4, <1>7, <1>8, <1>10, <2>1, <2>2, HexFacts DEF h, end
<1> QED BY SMTT(30), <1>1, <1>9, <1>10

-----------------------------------------------------------------------------
(* unchunkData. *)

NoMore == [ok |-> TRUE, data |-> <<>>]
Results == [ok : BOOLEAN, data : Seq(Byte)]

\* What is decoded from pos on, given by f what is from the places behind it.
Decoding(s, f, pos) ==
  LET end == Find(s, CRLF, pos)
      size == ChunkSize(s, pos, end)
      first == end + AfterCRLF
      last == first + size - 1
  IN IF pos > Len(s) THEN NoMore
     ELSE IF end = NPos THEN Failed
     ELSE IF size = 0 THEN NoMore
     ELSE IF ~ChunkFits(last, Len(s)) THEN Failed
     ELSE [ok |-> f[last + 3].ok, data |-> SubSeq(s, first, last) \o f[last + 3].data]
Unchunked(s) == CHOOSE f : f = [pos \in 1..(Len(s) + 3) |-> Decoding(s, f, pos)]

\* Data d, and what is decoded from q on.
Followed(d, f, q) == [ok |-> f[q].ok, data |-> d \o f[q].data]

LEMMA FollowedIs ==
  ASSUME NEW d, NEW f, NEW q
  PROVE  Followed(d, f, q).ok = f[q].ok /\ Followed(d, f, q).data = d \o f[q].data
BY DEF Followed

\* Decoding ends at a place or goes on behind it.
LEMMA DecodingIs ==
  ASSUME NEW s \in Seq(Byte), NEW pos \in 1..(Len(s) + 3)
  PROVE  \/ \A f : Decoding(s, f, pos) = NoMore
         \/ \A f : Decoding(s, f, pos) = Failed
         \/ \E q \in (pos + 1)..(Len(s) + 3), d \in Seq(Byte) :
              \A f : Decoding(s, f, pos) = Followed(d, f, q)
<1> DEFINE end == Find(s, CRLF, pos)
           size == ChunkSize(s, pos, end)
           first == end + AfterCRLF
           last == first + size - 1
<1>1. CASE pos > Len(s)
  BY <1>1 DEF Decoding
<1>2. CASE ~(pos > Len(s)) /\ end = NPos
  BY <1>2 DEF Decoding
<1>3. CASE ~(pos > Len(s)) /\ end # NPos /\ size = 0
  BY <1>3 DEF Decoding
<1>4. CASE ~(pos > Len(s)) /\ end # NPos /\ size # 0 /\ ~ChunkFits(last, Len(s))
  BY <1>4 DEF Decoding
<1>5. CASE ~(pos > Len(s)) /\ end # NPos /\ size # 0 /\ ChunkFits(last, Len(s))
  <2>1. end \in pos..(Len(s) - 1)
    <3>1. pos \in Nat \ {0}
      OBVIOUS
    <3>2. Find(s, CRLF, pos) \in pos..(Len(s) - Len(CRLF) + 1)
      BY <1>5, <3>1, FindFacts, Patterns
    <3> QED BY <3>2, Patterns
  <2>2. size \in Nat
    <3>1. pos \in Nat \ {0} /\ end \in pos..Len(s)
      BY <2>1
    <3> HIDE DEF end
    <3> QED BY <3>1, SizeType
  <2> DEFINE q == last + 3
             d == SubSeq(s, first, last)
  <2>3. \A f : Decoding(s, f, pos) = Followed(d, f, q)
    BY <1>5 DEF Decoding, Followed
  <2> HIDE DEF end, size
  <2>4. q \in (pos + 1)..(Len(s) + 3) /\ last \in Nat /\ last <= Len(s) /\ first \in Nat \ {0}
    BY <1>5, <2>1, <2>2 DEF AfterCRLF, ChunkFits
  <2> HIDE DEF first, last
  <2>5. d \in Seq(Byte)
    BY <2>4, PartOf
  <2> HIDE DEF q, d
  <2> QED BY <2>3, <2>4, <2>5
<1> QED BY <1>1, <1>2, <1>3, <1>4, <1>5

\* Two functions give the same from place pos on if they do behind it.
Behind(f, g, pos, n) == \A q \in (pos + 1)..n : f[q] = g[q]
LEMMA DecodingUses ==
  ASSUME NEW s \in Seq(Byte), NEW pos \in 1..(Len(s) + 3), NEW f, NEW g, Behind(f, g, pos, Len(s) + 3)
  PROVE  Decoding(s, f, pos) = Decoding(s, g, pos)
<1>1. CASE \/ \A h : Decoding(s, h, pos) = NoMore
           \/ \A h : Decoding(s, h, pos) = Failed
  BY <1>1
<1>2. CASE \E q \in (pos + 1)..(Len(s) + 3), d \in Seq(Byte) : \A h : Decoding(s, h, pos) = Followed(d, h, q)
  <2>1. PICK q \in (pos + 1)..(Len(s) + 3), d \in Seq(Byte) : \A h : Decoding(s, h, pos) = Followed(d, h, q)
    BY <1>2
  <2>2. f[q] = g[q]
    BY DEF Behind
  <2>3. Followed(d, f, q) = Followed(d, g, q)
    BY <2>2 DEF Followed
  <2> QED BY <2>1, <2>3
<1> QED BY <1>1, <1>2, DecodingIs

\* What is decoded is a sequence of bytes, if what is behind it is.
LEMMA DecodingType ==
  ASSUME NEW s \in Seq(Byte), NEW pos \in 1..(Len(s) + 3), NEW f,
         \A q \in (pos + 1)..(Len(s) + 3) : f[q] \in Results
  PROVE  Decoding(s, f, pos) \in Results
<1>1. NoMore \in Results /\ Failed \in Results
  BY DEF NoMore, Failed, Results
<1>2. CASE \/ \A h : Decoding(s, h, pos) = NoMore
           \/ \A h : Decoding(s, h, pos) = Failed
  BY <1>1, <1>2
<1>3. CASE \E q \in (pos + 1)..(Len(s) + 3), d \in Seq(Byte) : \A h : Decoding(s, h, pos) = Followed(d, h, q)
  <2>1. PICK q \in (pos + 1)..(Len(s) + 3), d \in Seq(Byte) : \A h : Decoding(s, h, pos) = Followed(d, h, q)
    BY <1>3
  <2>2. f[q].ok \in BOOLEAN /\ f[q].data \in Seq(Byte)
    BY DEF Results
  <2>3. d \o f[q].data \in Seq(Byte)
    BY <2>2, ConcatProperties
  <2>4. Followed(d, f, q) \in Results
    BY <2>2, <2>3 DEF Followed, Results
  <2> QED BY <2>1, <2>4
<1> QED BY <1>2, <1>3, DecodingIs

\* Decoding is possible from every place, and gives bytes.
LEMMA UnchunkedFacts ==
  ASSUME NEW s \in Seq(Byte)
  PROVE  \A pos \in 1..(Len(s) + 3) : /\ Unchunked(s)[pos] = Decoding(s, Unchunked(s), pos)
                                     /\ Unchunked(s)[pos] \in Results
<1> DEFINE n == Len(s) + 3
           Right(f, i) == \A pos \in 1..n : pos > n - i => f[pos] = Decoding(s, f, pos)
           T == {i \in Nat : i <= n => \E f \in [1..n -> Results] : Right(f, i)}
<1>1. n \in Nat
  OBVIOUS
<1>2. 0 \in T
  <2>1. NoMore \in Results
    BY DEF NoMore, Results
  <2>2. [pos \in 1..n |-> NoMore] \in [1..n -> Results]
    BY <2>1
  <2>3. \A pos \in 1..n : ~(pos > n - 0)
    BY <1>1
  <2> QED BY <2>2, <2>3
<1>3. ASSUME NEW i \in Nat, i \in T PROVE i + 1 \in T
  <2> SUFFICES ASSUME i + 1 <= n PROVE \E f \in [1..n -> Results] : Right(f, i + 1)
    OBVIOUS
  <2>1. PICK f \in [1..n -> Results] : Right(f, i)
    BY <1>1, <1>3
  <2> DEFINE p == n - i
             g == [f EXCEPT ![p] = Decoding(s, f, p)]
  <2>2. p \in 1..n
    BY <1>1
  <2>3. Decoding(s, f, p) \in Results
    <3>1. \A q \in (p + 1)..n : f[q] \in Results
      BY <2>2
    <3> HIDE DEF p
    <3> QED BY <2>2, <3>1, DecodingType
  <2>4. g \in [1..n -> Results]
    BY <2>3
  <2>5. ASSUME NEW pos \in 1..n, pos > n - (i + 1) PROVE g[pos] = Decoding(s, g, pos)
    <3>1. pos >= p
      BY <1>1, <2>5
    <3>2. Behind(f, g, pos, n)
      <4>1. ASSUME NEW q \in (pos + 1)..n PROVE f[q] = g[q]
        <5>1. q \in 1..n /\ q # p
          BY <3>1, <2>2
        <5> QED BY <5>1
      <4> QED BY <4>1 DEF Behind
    <3>3. Decoding(s, f, pos) = Decoding(s, g, pos)
      <4> HIDE DEF g
      <4> QED BY <3>2, DecodingUses
    <3>4. CASE pos = p
      BY <2>2, <3>3, <3>4
    <3>5. CASE pos # p
      <4>1. pos > n - i
        BY <3>1, <3>5
      <4>2. f[pos] = Decoding(s, f, pos)
        BY <2>1, <4>1
      <4>3. g[pos] = f[pos]
        BY <3>5
      <4> QED BY <3>3, <4>2, <4>3
    <3> QED BY <3>4, <3>5
  <2> HIDE DEF g
  <2> QED BY <2>4, <2>5
<1>4. n \in T
  <2> HIDE DEF T
  <2> QED BY <1>1, <1>2, <1>3, Induction
<1>5. PICK f \in [1..n -> Results] : \A pos \in 1..n : f[pos] = Decoding(s, f, pos)
  <2>1. PICK f \in [1..n -> Results] : Right(f, n)
    BY <1>1, <1>4
  <2>2. \A pos \in 1..n : pos > n - n
    BY <1>1
  <2> QED BY <2>1, <2>2
<1>6. f = [pos \in 1..n |-> Decoding(s, f, pos)]
  BY <1>5
<1> DEFINE u == Unchunked(s)
<1>7. u = [pos \in 1..n |-> Decoding(s, u, pos)]
  BY <1>6 DEF Unchunked
<1> HIDE DEF u
<1>8. \A pos \in 1..n : u[pos] = Decoding(s, u, pos)
  <2> TAKE pos \in 1..n
  <2> DEFINE h == [q \in 1..n |-> Decoding(s, u, q)]
  <2>1. h[pos] = Decoding(s, u, pos)
    OBVIOUS
  <2>2. u = h
    BY <1>7
  <2> HIDE DEF h
  <2> QED BY <2>1, <2>2
<1> DEFINE V == {pos \in 1..n : u[pos] \in Results}
<1>9. ASSUME NEW p \in 1..n, \A q \in 1..n : q > p => q \in V PROVE p \in V
  <2>1. \A q \in (p + 1)..n : u[q] \in Results
    <3> TAKE q \in (p + 1)..n
    <3>1. q \in 1..n /\ q > p
      OBVIOUS
    <3> QED BY <1>9, <3>1
  <2>2. Decoding(s, u, p) \in Results
    BY <2>1, DecodingType
  <2> QED BY <1>8, <2>2
<1>10. \A p \in 1..n : p \in V
  <2> HIDE DEF V
  <2> QED BY <1>1, <1>9, Downward
<1> QED BY <1>8, <1>10 DEF u

\* unchunkData decodes from the first place on.
LEMMA UnchunkIs ==
  ASSUME NEW s
  PROVE  Unchunk(s) = Unchunked(s)[1]
BY DEF Unchunk, Unchunked, Decoding, NoMore

\* The size line of the last chunk says 0.
LEMMA ZeroRead ==
  ASSUME NEW s, NEW pos \in Nat \ {0}, s[pos] = 0
  PROVE  ChunkSize(s, pos, pos + 1) = 0
<1> DEFINE end == pos + 1
           d == Digits(s, pos, end)
           f == CHOOSE g : Sizes(s, pos, g, 1)
<1>1. d = pos..(end - 1)
  BY DEF Digits
<1>2. Cardinality(d) = 1
  <2>1. pos <= end /\ end - pos = 1 /\ end \in Int /\ pos \in Int
    OBVIOUS
  <2> HIDE DEF end, d
  <2>2. Cardinality(pos..(end - 1)) = end - pos
    BY <2>1, IntervalSize
  <2> QED BY <1>1, <2>1, <2>2
<1> HIDE DEF d
<1>3. ChunkSize(s, pos, end) = f[1]
  BY <1>2 DEF ChunkSize, Digits, Sizes, d
<1>4. Sizes(s, pos, f, 1)
  <2>1. \A k \in 1..1 : s[pos + k - 1] \in Nat
    <3>1. \A k \in 1..1 : pos + k - 1 = pos
      OBVIOUS
    <3> QED BY <3>1
  <2>2. \E g : Sizes(s, pos, g, 1)
    BY <2>1, SizeExists
  <2> QED BY <2>2
<1> HIDE DEF f
<1>5. f[1] = 16 * f[0] + s[pos] /\ f[0] = 0
  <2>1. \A k \in 0..1 : f[k] = IF k = 0 THEN 0 ELSE 16 * f[k - 1] + s[pos + k - 1]
    BY <1>4 DEF Sizes
  <2>2. 0 \in 0..1 /\ 1 \in 0..1 /\ 1 - 1 = 0 /\ pos + 1 - 1 = pos
    OBVIOUS
  <2>3. f[0] = 0
    BY <2>1, <2>2
  <2>4. f[1] = 16 * f[1 - 1] + s[pos + 1 - 1]
    BY <2>1, <2>2
  <2> QED BY <2>2, <2>3, <2>4
<1> QED BY <1>3, <1>5

-----------------------------------------------------------------------------
(* Decoding the chunks that the client laid out, from what has arrived. *)

\* What has arrived is how the bytes sent begin.
Begins(s, b) == s \in Seq(Byte) /\ Len(s) <= Len(b) /\ \A i \in 1..Len(s) : s[i] = b[i]

LEMMA AtBoth ==
  ASSUME NEW b \in Seq(Byte), NEW s, Begins(s, b), NEW pat \in Seq(Byte), NEW i \in Nat \ {0},
         i + Len(pat) - 1 <= Len(s)
  PROVE  IsAt(s, pat, i) <=> IsAt(b, pat, i)
<1>1. Len(pat) \in Nat /\ Len(s) \in Nat
  BY DEF Begins
<1>2. ASSUME NEW j \in 1..Len(pat) PROVE s[i + j - 1] = b[i + j - 1]
  <2>1. i + j - 1 \in 1..Len(s)
    BY <1>1
  <2> QED BY <2>1 DEF Begins
<1> QED BY <1>2 DEF IsAt

NoCR(s, p, q) == \A j \in p..(q - 1) : j <= Len(s) => s[j] # CR

\* The line ends where its first CRLF is.
LEMMA LineEnds ==
  ASSUME NEW s \in Seq(Byte), NEW p \in Nat \ {0}, NEW h \in Nat,
         NoCR(s, p, p + h)
  PROVE  /\ p + h + 1 <= Len(s) /\ IsAt(s, CRLF, p + h) => Find(s, CRLF, p) = p + h
         /\ Len(s) < p + h + 1 => Find(s, CRLF, p) = NPos
<1> DEFINE end == Find(s, CRLF, p)
<1>9. CRLF \in Seq(Byte) /\ Len(CRLF) \in Nat \ {0} /\ Len(s) - Len(CRLF) + 1 = Len(s) - 1
  BY Patterns
<1>1. end # NPos => end \in p..(Len(s) - 1) /\ IsAt(s, CRLF, end)
  <2>1. end # NPos => end \in p..(Len(s) - Len(CRLF) + 1) /\ IsAt(s, CRLF, end)
    BY <1>9, FindFacts
  <2> QED BY <1>9, <2>1
<1>2. \A i \in p..(Len(s) - 1) : IsAt(s, CRLF, i) => end # NPos /\ end <= i
  <2>1. \A i \in p..(Len(s) - Len(CRLF) + 1) : IsAt(s, CRLF, i) => end # NPos /\ end <= i
    BY <1>9, FindFacts
  <2> HIDE DEF end
  <2> QED BY <1>9, <2>1
<1> HIDE DEF end
<1>3. end # NPos => end >= p + h
  <2> SUFFICES ASSUME end # NPos, ~(end >= p + h) PROVE FALSE
    BY <1>1
  <2>1. end \in p..(p + h - 1) /\ end <= Len(s) /\ end \in Int
    BY <1>1
  <2>2. s[end] = CR
    BY <1>1, <2>1, LineEndAt
  <2> QED BY <2>1, <2>2 DEF NoCR
<1>4. ASSUME p + h + 1 <= Len(s), IsAt(s, CRLF, p + h) PROVE end = p + h
  <2>1. p + h \in p..(Len(s) - 1)
    BY <1>4
  <2>2. end # NPos /\ end <= p + h
    BY <1>2, <1>4, <2>1
  <2> QED BY <1>1, <1>3, <2>2
<1>5. ASSUME Len(s) < p + h + 1 PROVE end = NPos
  BY <1>1, <1>3, <1>5
<1> QED BY <1>4, <1>5 DEF end

\* Data d is laid out as a chunk, from place p to place e.
Framed(s, p, d, e) ==
  LET h == Len(Hex(Len(d)))
  IN /\ IsAt(s, Hex(Len(d)), p) /\ IsAt(s, CRLF, p + h)
     /\ IsAt(s, d, p + h + 2) /\ IsAt(s, CRLF, p + h + 2 + Len(d))
     /\ e = p + h + 3 + Len(d)

\* A chunk that has arrived is decoded, and one that has not is refused.
LEMMA OverChunk ==
  ASSUME NEW b \in Seq(Byte), NEW s, Begins(s, b), NEW p \in 1..Len(s),
         NEW d \in Seq(Byte), Len(d) \in 1..255, NEW e, Framed(b, p, d, e)
  PROVE  /\ e \in Nat /\ e > p
         /\ e <= Len(s) => \A f : Decoding(s, f, p) = Followed(d, f, e + 1)
         /\ ~(e <= Len(s)) => \A f : Decoding(s, f, p) = Failed
<1> DEFINE n == Len(d)
           h == Len(Hex(n))
           end == Find(s, CRLF, p)
<1>1. s \in Seq(Byte) /\ Len(s) \in Nat /\ p \in Nat \ {0}
  BY SMTT(30) DEF Begins
<1>2. h \in 1..2 /\ Hex(n) \in Seq(Byte) /\ \A i \in 1..h : Hex(n)[i] \in 0..15
  BY HexFacts
<1>3. IsAt(b, Hex(n), p) /\ IsAt(b, CRLF, p + h) /\ IsAt(b, d, p + h + 2) /\ e = p + h + 3 + n
  BY DEF Framed
<1>4. n \in 1..255
  OBVIOUS
<1> HIDE DEF n, h
<1>11. h \in Nat
  BY <1>2
<1>5. NoCR(s, p, p + h)
  <2> SUFFICES ASSUME NEW j \in p..((p + h) - 1), j <= Len(s) PROVE s[j] # CR
    BY DEF NoCR
  <2> DEFINE i == j - p + 1
  <2>1. i \in 1..h /\ p + i - 1 = j /\ j \in 1..Len(s)
    BY <1>1, <1>2
  <2> HIDE DEF i
  <2>2. b[j] = Hex(n)[i] /\ Hex(n)[i] \in 0..15
    BY <1>2, <1>3, <2>1 DEF IsAt, h
  <2>3. s[j] = b[j]
    BY <2>1 DEF Begins
  <2>4. \A x \in 0..15 : x # 16
    OBVIOUS
  <2> QED BY <2>2, <2>3, <2>4 DEF CR
<1>6. e \in Nat /\ e > p
  BY <1>1, <1>2, <1>3, <1>4
<1>7. CASE Len(s) < p + h + 1
  <2>1. end = NPos
    BY <1>1, <1>11, <1>5, <1>7, LineEnds
  <2>2. ~(p > Len(s)) /\ ~(e <= Len(s))
    BY <1>1, <1>2, <1>3, <1>4, <1>7
  <2>3. \A f : Decoding(s, f, p) = Failed
    BY <2>1, <2>2 DEF Decoding
  <2> QED BY <1>6, <2>2, <2>3
<1>8. CASE p + h + 1 <= Len(s)
  <2>1. IsAt(s, CRLF, p + h) /\ IsAt(s, Hex(n), p)
    <3>1. p + h \in Nat \ {0} /\ p + h + Len(CRLF) - 1 <= Len(s) /\ p + Len(Hex(n)) - 1 <= Len(s)
      BY <1>1, <1>2, <1>8, Patterns DEF h
    <3>2. IsAt(s, CRLF, p + h)
      BY <1>3, <3>1, AtBoth, Patterns
    <3>3. IsAt(s, Hex(n), p)
      BY <1>1, <1>2, <1>3, <3>1, AtBoth
    <3> QED BY <3>2, <3>3
  <2>2. end = p + h
    BY <1>1, <1>11, <1>5, <1>8, <2>1, LineEnds
  <2>3. ChunkSize(s, p, end) = n
    <3>1. p + Len(Hex(n)) <= Len(s)
      BY <1>1, <1>2, <1>8 DEF h
    <3>2. ChunkSize(s, p, p + Len(Hex(n))) = n
      BY <1>1, <1>4, <2>1, <3>1, SizeRead
    <3> QED BY <2>2, <3>2 DEF h
  <2> DEFINE first == end + AfterCRLF
             last == first + n - 1
  <2>4. first = p + h + 2 /\ last = first + n - 1 /\ last + 2 = e /\ last + 3 = e + 1 /\ ~(p > Len(s)) /\ end # NPos /\ n # 0
    BY <1>1, <1>2, <1>3, <1>4, <2>2 DEF AfterCRLF, NPos
  <2>5. CASE ~(e <= Len(s))
    <3>1. ~ChunkFits(last, Len(s))
      BY <2>4, <2>5 DEF ChunkFits
    <3>2. \A f : Decoding(s, f, p) = Failed
      BY <2>3, <2>4, <3>1 DEF Decoding
    <3> QED BY <1>6, <2>5, <3>2
  <2>6. CASE e <= Len(s)
    <3>1. ChunkFits(last, Len(s))
      BY <2>4, <2>6 DEF ChunkFits
    <3>2. SubSeq(s, first, last) = d
      <4> DEFINE t == SubSeq(s, first, last)
      <4> HIDE DEF first, last
      <4>1. first \in Nat \ {0} /\ last \in Nat /\ last <= Len(s) /\ first <= last
            /\ last - first + 1 = n /\ first + n - 1 <= Len(s)
        BY <1>1, <1>2, <1>3, <1>4, <2>4, <2>6
      <4>2. IsAt(s, d, first)
        <5>1. IsAt(b, d, first)
          BY <1>3, <2>4
        <5> QED BY <4>1, <5>1, AtBoth DEF n
      <4>3. t \in Seq(Byte) /\ Len(t) = n /\ \A k \in 1..n : t[k] = s[first + k - 1]
        BY <1>1, <4>1, PartOf
      <4> HIDE DEF t
      <4>4. \A k \in 1..n : t[k] = d[k]
        BY <4>2, <4>3 DEF IsAt, n
      <4>5. t = d
        BY <4>3, <4>4, SeqEqual DEF n
      <4> QED BY <4>5 DEF t
    <3>3. \A f : Decoding(s, f, p) = Followed(SubSeq(s, first, last), f, last + 3)
      BY <2>3, <2>4, <3>1 DEF Decoding, Followed
    <3> HIDE DEF first, last
    <3> QED BY <1>6, <2>4, <2>6, <3>2, <3>3
  <2> QED BY <2>5, <2>6
<1> QED BY <1>1, <1>2, <1>7, <1>8

\* So is the last chunk.
LEMMA OverLast ==
  ASSUME NEW b \in Seq(Byte), NEW s, Begins(s, b), NEW p \in 1..Len(s), b[p] = 0, IsAt(b, CRLF, p + 1)
  PROVE  \A f : Decoding(s, f, p) = IF p + 2 <= Len(s) THEN NoMore ELSE Failed
<1> DEFINE end == Find(s, CRLF, p)
<1>1. s \in Seq(Byte) /\ Len(s) \in Nat /\ p \in Nat \ {0} /\ ~(p > Len(s))
  BY DEF Begins
<1>2. s[p] = 0
  BY DEF Begins
<1>3. NoCR(s, p, p + 1)
  <2>1. \A j \in p..(p + 1 - 1) : j = p
    BY <1>1
  <2> QED BY <1>2, <2>1 DEF CR, NoCR
<1>4. CASE Len(s) < p + 2
  <2>1. end = NPos
    <3>1. Len(s) < p + 1 + 1
      BY <1>4, <1>1
    <3> QED BY <1>1, <1>3, <3>1, LineEnds
  <2> QED BY <1>1, <1>4, <2>1 DEF Decoding
<1>5. CASE p + 2 <= Len(s)
  <2>1. IsAt(s, CRLF, p + 1)
    <3>1. p + 1 \in Nat \ {0} /\ p + 1 + Len(CRLF) - 1 <= Len(s)
      BY <1>1, <1>5, Patterns
    <3> QED BY <3>1, AtBoth, Patterns
  <2>2. end = p + 1
    <3>1. p + 1 + 1 <= Len(s)
      BY <1>1, <1>5
    <3> QED BY <1>1, <1>3, <2>1, <3>1, LineEnds
  <2>3. ChunkSize(s, p, end) = 0 /\ end # NPos
    BY <1>1, <1>2, <2>2, ZeroRead DEF NPos
  <2> QED BY <1>1, <1>5, <2>3 DEF Decoding
<1> QED BY <1>1, <1>4, <1>5

-----------------------------------------------------------------------------
(* How the client lays a chunked body out. *)

AreChunks(c) == c \in Seq(Seq(Byte)) /\ \A i \in 1..Len(c) : Len(c[i]) \in 1..255
Chunks(c) == [i \in DOMAIN c |-> Chunk(c[i])]

\* off[k] is the place where chunk k ends; behind the last is a size of 0.
Laid(b, c, off) ==
  /\ \A k \in 0..Len(c) : off[k] \in Nat
  /\ off[0] = 0
  /\ \A k \in 1..Len(c) : Framed(b, off[k - 1] + 1, c[k], off[k])
  /\ b[off[Len(c)] + 1] = 0 /\ IsAt(b, CRLF, off[Len(c)] + 2) /\ IsAt(b, CRLF, off[Len(c)] + 4)
  /\ off[Len(c)] + 5 <= Len(b)

\* A chunk is a size, a line end, the data and a line end.
LEMMA ChunkFacts ==
  ASSUME NEW d \in Seq(Byte), Len(d) \in 1..255
  PROVE  /\ Chunk(d) \in Seq(Byte) /\ Len(Chunk(d)) = Len(Hex(Len(d))) + 4 + Len(d)
         /\ \A s : \A p \in Int : IsAt(s, Chunk(d), p) => Framed(s, p, d, p + Len(Chunk(d)) - 1)
<1> DEFINE n == Len(d)
           x == Hex(n)
           h == Len(x)
           line == x \o CRLF
           open == line \o d
<1>1. n \in 1..255 /\ n \in Nat
  OBVIOUS
<1>11. \A k \in Nat : \A l \in Nat : k + 2 + l + 2 = k + 4 + l
  OBVIOUS
<1> HIDE DEF n
<1>2. x \in Seq(Byte) /\ h \in Nat
  <2>1. Hex(n) \in Seq(Byte) /\ Len(Hex(n)) \in 1..2
    BY <1>1, HexFacts
  <2>2. \A k \in 1..2 : k \in Nat
    OBVIOUS
  <2> QED BY SMTT(30), <2>1, <2>2
<1>3. Chunk(d) = open \o CRLF
  BY DEF Chunk, n
<1> HIDE DEF x
<1>4. line \in Seq(Byte) /\ Len(line) = h + 2
  BY <1>2, LineAt
<1>5. \A s : \A i \in Int : IsAt(s, line, i) <=> IsAt(s, x, i) /\ IsAt(s, CRLF, i + h)
  BY <1>2, LineAt
<1> HIDE DEF line
<1>6. open \in Seq(Byte) /\ Len(open) = h + 2 + n
  <2>1. open \in Seq(Byte) /\ Len(open) = Len(line) + Len(d)
    BY <1>4, JoinLength
  <2> QED BY <1>4, <2>1 DEF n
<1>7. ASSUME NEW s, NEW i \in Int
      PROVE  IsAt(s, open, i) => IsAt(s, line, i) /\ IsAt(s, d, i + Len(line))
  BY <1>4, JoinAt
<1> HIDE DEF open, h
<1>8. Chunk(d) \in Seq(Byte) /\ Len(Chunk(d)) = h + 4 + n
  <2>1. open \o CRLF \in Seq(Byte) /\ Len(open \o CRLF) = Len(open) + 2
    BY <1>6, LineAt
  <2>2. h + 2 + n + 2 = h + 4 + n
    BY <1>1, <1>2, <1>11
  <2> QED BY <1>3, <1>6, <2>1, <2>2
<1>9. ASSUME NEW s, NEW p \in Int, IsAt(s, Chunk(d), p)
      PROVE  Framed(s, p, d, p + Len(Chunk(d)) - 1)
  <2>1. IsAt(s, open, p) /\ IsAt(s, CRLF, p + Len(open))
    BY <1>3, <1>6, <1>9, LineAt
  <2>2. IsAt(s, line, p) /\ IsAt(s, d, p + Len(line))
    BY <1>7, <2>1
  <2>3. IsAt(s, x, p) /\ IsAt(s, CRLF, p + h)
    BY <1>5, <2>2
  <2>4. /\ p + Len(open) = p + h + 2 + n /\ p + Len(line) = p + h + 2
        /\ p + Len(Chunk(d)) - 1 = p + h + 3 + n
    BY <1>1, <1>2, <1>4, <1>6, <1>8
  <2> QED BY <2>1, <2>2, <2>3, <2>4 DEF Framed, x, h, n
<1> QED BY <1>8, <1>9 DEF x, h, n

\* The body of a chunked request, and what follows it, is laid out so.
LEMMA LaidOut ==
  ASSUME NEW c, AreChunks(c), NEW b,
         IsAt(b, FlattenSeq(Chunks(c)) \o << 0 >> \o CRLF \o CRLF, 1),
         Len(FlattenSeq(Chunks(c))) + 5 <= Len(b)
  PROVE  /\ FlattenSeq(Chunks(c)) \in Seq(Byte)
         /\ \E off : off[Len(c)] = Len(FlattenSeq(Chunks(c))) /\ Laid(b, c, off)
<1> DEFINE cs == Chunks(c)
           n == Len(c)
           flat == FlattenSeq(cs)
           off == [k \in 0..n |-> Len(Joined(cs, k))]
<1>1. n \in Nat /\ DOMAIN c = 1..n /\ \A i \in 1..n : c[i] \in Seq(Byte) /\ Len(c[i]) \in 1..255
  BY DEF AreChunks
<1>2. cs \in Seq(Seq(Byte)) /\ Len(cs) = n /\ \A i \in 1..n : cs[i] = Chunk(c[i])
  <2>1. \A i \in 1..n : Chunk(c[i]) \in Seq(Byte)
    BY <1>1, ChunkFacts
  <2>2. cs = [i \in 1..n |-> Chunk(c[i])]
    BY <1>1 DEF Chunks
  <2> HIDE DEF n, cs
  <2>3. cs \in Seq(Seq(Byte))
    BY <1>1, <2>1, <2>2, IsASeq
  <2> QED BY <1>1, <2>2, <2>3
<1> HIDE DEF cs, n
<1>3. /\ Joined(cs, 0) = <<>> /\ Joined(cs, n) = flat /\ \A k \in 0..n : Joined(cs, k) \in Seq(Byte)
      /\ \A k \in 1..n : Joined(cs, k) = Joined(cs, k - 1) \o cs[k]
  BY <1>2, JoinedFacts
<1>4. /\ \A k \in 0..n : off[k] = Len(Joined(cs, k)) /\ off[k] \in Nat
      /\ off[0] = 0 /\ off[n] = Len(flat) /\ flat \in Seq(Byte)
  <2>1. 0 \in 0..n /\ n \in 0..n
    BY <1>1
  <2> QED BY <1>3, <2>1
<1> HIDE DEF flat, off
<1>5. /\ IsAt(b, flat, 1) /\ b[1 + Len(flat)] = 0
      /\ IsAt(b, CRLF, 1 + Len(flat) + 1) /\ IsAt(b, CRLF, 1 + Len(flat) + 3)
  <2> DEFINE y == flat \o << 0 >>
             z == y \o CRLF
  <2>1. IsAt(b, z \o CRLF, 1)
    BY DEF flat, cs
  <2>2. y \in Seq(Byte) /\ Len(y) = Len(flat) + 1 /\ Len(flat) \in Nat
    <3>1. y \in Seq(Byte) /\ Len(y) = Len(flat) + Len(<< 0 >>)
      BY <1>4, JoinLength, Patterns
    <3> QED BY <1>4, <3>1, Patterns
  <2>3. IsAt(b, y, 1) => IsAt(b, flat, 1) /\ IsAt(b, << 0 >>, 1 + Len(flat))
    <3>1. << 0 >> \in Seq(Byte) /\ flat \in Seq(Byte) /\ 1 \in Int
      BY <1>4, Patterns
    <3> QED BY <3>1, JoinAt
  <2> HIDE DEF y
  <2>4. z \in Seq(Byte) /\ Len(z) = Len(y) + 2
        /\ (IsAt(b, z, 1) => IsAt(b, y, 1) /\ IsAt(b, CRLF, 1 + Len(y)))
    BY <2>2, LineAt
  <2> HIDE DEF z
  <2>5. IsAt(b, z, 1) /\ IsAt(b, CRLF, 1 + Len(z))
    BY <2>1, <2>4, LineAt
  <2>6. 1 + Len(z) = 1 + Len(flat) + 3 /\ 1 + Len(y) = 1 + Len(flat) + 1 /\ 1 + Len(flat) \in Int
    BY <2>2, <2>4
  <2>7. b[1 + Len(flat)] = 0
    BY <2>3, <2>4, <2>5, <2>6, LineEndAt
  <2> QED BY <2>3, <2>4, <2>5, <2>6, <2>7
<1>6. ASSUME NEW k \in 1..n PROVE Framed(b, off[k - 1] + 1, c[k], off[k])
  <2>1. IsAt(b, cs[k], 1 + Len(Joined(cs, k - 1)))
    BY <1>2, <1>5, JoinedAt DEF flat
  <2>2. k - 1 \in 0..n /\ k \in 0..n
    BY <1>1
  <2>3. off[k] = off[k - 1] + Len(cs[k])
    <3>1. Joined(cs, k - 1) \in Seq(Byte) /\ cs[k] \in Seq(Byte)
      BY <1>2, <1>3, <2>2
    <3>2. Len(Joined(cs, k - 1) \o cs[k]) = Len(Joined(cs, k - 1)) + Len(cs[k])
      BY <3>1, JoinLength
    <3> QED BY <1>3, <1>4, <2>2, <3>2
  <2>4. off[k - 1] \in Nat /\ off[k] \in Nat /\ Len(cs[k]) \in Nat
    BY <1>2, <1>4, <2>2
  <2> DEFINE p == off[k - 1] + 1
  <2>8. \A x, y, z \in Nat : x = y + z => (y + 1) + z - 1 = x /\ 1 + y = y + 1 /\ y + 1 \in Int
    OBVIOUS
  <2>9. off[k - 1] = Len(Joined(cs, k - 1))
    BY <1>4, <2>2
  <2>5. p \in Int /\ p + Len(cs[k]) - 1 = off[k] /\ 1 + Len(Joined(cs, k - 1)) = p
    BY ZenonT(40), <2>3, <2>4, <2>8, <2>9
  <2> HIDE DEF p
  <2>6. IsAt(b, Chunk(c[k]), p) /\ c[k] \in Seq(Byte) /\ Len(c[k]) \in 1..255
    BY <1>1, <1>2, <2>1, <2>5
  <2>7. Framed(b, p, c[k], p + Len(Chunk(c[k])) - 1)
    BY <2>5, <2>6, ChunkFacts
  <2> QED BY <1>2, <2>5, <2>7 DEF p
<1>7. Laid(b, c, off)
  <2>1. /\ 1 + Len(flat) = off[n] + 1 /\ 1 + Len(flat) + 1 = off[n] + 2
        /\ 1 + Len(flat) + 3 = off[n] + 4 /\ off[n] + 5 <= Len(b)
    <3>1. Len(flat) \in Nat /\ Len(flat) + 5 <= Len(b)
      BY <1>4 DEF flat, cs
    <3> QED BY <1>4, <3>1
  <2> QED BY <1>4, <1>5, <1>6, <2>1 DEF Laid, n
<1> QED BY <1>4, <1>7 DEF flat, cs, n

\* Chunks end one behind the other.
LEMMA Rising ==
  ASSUME NEW b, NEW c, AreChunks(c), NEW off, Laid(b, c, off)
  PROVE  /\ \A k \in 1..Len(c) : off[k - 1] + 6 <= off[k]
         /\ \A k \in 0..Len(c) : off[k] <= off[Len(c)]
<1> DEFINE n == Len(c)
           T == {p \in 1..(n + 1) : off[p - 1] <= off[n]}
<1>1. n \in Nat /\ \A k \in 0..n : off[k] \in Nat
  BY DEF AreChunks, Laid
<1>2. ASSUME NEW k \in 1..n PROVE off[k - 1] + 6 <= off[k]
  <2>1. Len(c[k]) \in 1..255 /\ Len(Hex(Len(c[k]))) \in 1..2
    BY HexFacts DEF AreChunks
  <2>2. off[k] = (off[k - 1] + 1) + Len(Hex(Len(c[k]))) + 3 + Len(c[k])
    BY DEF Laid, Framed
  <2>3. k - 1 \in 0..n
    BY <1>1
  <2>4. off[k - 1] \in Nat
    BY <1>1, <2>3
  <2>5. \A x \in Nat : \A y \in 1..2 : \A z \in 1..255 : x + 6 <= (x + 1) + y + 3 + z
    OBVIOUS
  <2> QED BY <2>1, <2>2, <2>4, <2>5
<1>3. ASSUME NEW p \in 1..(n + 1), \A q \in 1..(n + 1) : q > p => q \in T PROVE p \in T
  <2>1. CASE p = n + 1
    <3>1. p - 1 = n /\ off[n] \in Nat
      BY <1>1, <2>1
    <3> QED BY <3>1
  <2>2. CASE p # n + 1
    <3>1. p \in 1..n /\ p + 1 \in 1..(n + 1) /\ p + 1 > p /\ (p + 1) - 1 = p /\ p - 1 \in 0..n /\ p \in 0..n
          /\ n \in 0..n
      BY <1>1, <2>2
    <3>2. off[p] <= off[n]
      BY <1>3, <3>1
    <3>3. off[p - 1] \in Nat /\ off[p] \in Nat /\ off[n] \in Nat /\ off[p - 1] + 6 <= off[p]
      BY <1>1, <1>2, <3>1
    <3> QED BY <3>2, <3>3
  <2> QED BY <2>1, <2>2
<1>4. ASSUME NEW k \in 0..n PROVE off[k] <= off[n]
  <2>1. k + 1 \in 1..(n + 1) /\ (k + 1) - 1 = k /\ n + 1 \in Nat
    BY <1>1
  <2>2. \A p \in 1..(n + 1) : p \in T
    <3> HIDE DEF T
    <3> QED BY <1>3, <2>1, Downward
  <2> QED BY <2>1, <2>2
<1> QED BY <1>2, <1>4

\* What has arrived of a chunked body is decoded to the data of its first
\* chunks, up to the last one or to the end of what has arrived; and to all of
\* them once the last size has arrived.
Prefix(c, off, n, k, r) ==
  \E j \in k..Len(c) : Joined(c, k) \o r.data = Joined(c, j) /\ (j = Len(c) \/ off[j] = n)
LEMMA Decoded ==
  ASSUME NEW b \in Seq(Byte), NEW c, AreChunks(c), NEW off, Laid(b, c, off), NEW s, Begins(s, b)
  PROVE  /\ Unchunk(s).ok => Prefix(c, off, Len(s), 0, Unchunk(s))
         /\ off[Len(c)] + 3 <= Len(s) => Unchunk(s).ok
<1> DEFINE n == Len(c)
           u == Unchunked(s)
           Right(k) == off[k] <= Len(s) =>
                         /\ u[off[k] + 1].ok => Prefix(c, off, Len(s), k, u[off[k] + 1])
                         /\ off[n] + 3 <= Len(s) => u[off[k] + 1].ok
           T == {p \in 1..(n + 1) : Right(p - 1)}
<1>1. /\ n \in Nat /\ c \in Seq(Seq(Byte)) /\ \A k \in 1..n : c[k] \in Seq(Byte) /\ Len(c[k]) \in 1..255
      /\ s \in Seq(Byte) /\ Len(s) \in Nat
  BY DEF AreChunks, Begins
<1>2. /\ \A k \in 0..n : off[k] \in Nat /\ off[k] <= off[n] /\ Joined(c, k) \in Seq(Byte)
      /\ \A k \in 1..n : Joined(c, k) = Joined(c, k - 1) \o c[k]
      /\ Joined(c, 0) = <<>>
  <2>1. \A k \in 0..n : off[k] \in Nat
    BY DEF Laid
  <2>2. \A k \in 0..n : off[k] <= off[n]
    BY Rising
  <2> QED BY <1>1, <2>1, <2>2, JoinedFacts
<1>3. \A p \in 1..(Len(s) + 3) : u[p] = Decoding(s, u, p) /\ u[p] \in Results
  BY <1>1, UnchunkedFacts
<1> HIDE DEF u
<1>4. NoMore.ok /\ NoMore.data = <<>> /\ ~Failed.ok
  BY DEF NoMore, Failed
<1>5. \A x \in Seq(Byte) : x \o <<>> = x
  BY ConcatEmptySeq
<1>6. \A k \in 0..n : k \in k..n /\ k \in Nat
  BY <1>1
<1>7. ASSUME NEW k \in 0..n, off[k] = Len(s) PROVE Right(k)
  <2>1. off[k] \in Nat /\ off[k] + 1 \in 1..(Len(s) + 3) /\ off[k] + 1 > Len(s) /\ ~(off[n] + 3 <= Len(s))
    <3>1. n \in 0..n
      BY <1>1
    <3>2. off[k] \in Nat /\ off[n] \in Nat /\ off[k] <= off[n]
      BY <1>2, <3>1
    <3> QED BY <1>7, <3>2
  <2>2. u[off[k] + 1] = NoMore
    <3>1. Decoding(s, u, off[k] + 1) = NoMore
      BY <2>1 DEF Decoding
    <3> QED BY <1>3, <2>1, <3>1
  <2>3. Prefix(c, off, Len(s), k, NoMore)
    BY <1>2, <1>4, <1>5, <1>6, <1>7 DEF Prefix
  <2> QED BY <2>1, <2>2, <2>3
<1>8. Right(n)
  <2> SUFFICES ASSUME off[n] < Len(s) PROVE Right(n)
    <3>1. n \in 0..n
      BY <1>1
    <3>2. off[n] \in Nat
      BY <1>2, <3>1
    <3> QED BY <1>1, <1>7, <3>1, <3>2
  <2>1. off[n] \in Nat /\ n \in 0..n
    BY <1>1, <1>2
  <2> DEFINE p == off[n] + 1
  <2>2. p \in 1..Len(s) /\ p \in 1..(Len(s) + 3) /\ p + 1 = off[n] + 2 /\ p + 2 = off[n] + 3
    BY <1>1, <2>1
  <2>3. b[p] = 0 /\ IsAt(b, CRLF, p + 1)
    BY <2>2 DEF Laid
  <2> HIDE DEF p
  <2>4. Decoding(s, u, p) = IF p + 2 <= Len(s) THEN NoMore ELSE Failed
    BY <2>2, <2>3, OverLast
  <2>5. u[p] = IF p + 2 <= Len(s) THEN NoMore ELSE Failed
    BY <1>3, <2>2, <2>4
  <2>6. Prefix(c, off, Len(s), n, NoMore)
    BY <1>2, <1>4, <1>5, <1>6, <2>1 DEF Prefix
  <2> QED BY <1>4, <2>2, <2>5, <2>6 DEF p
<1>9. ASSUME NEW k \in 0..n, k # n, Right(k + 1) PROVE Right(k)
  <2> DEFINE q == k + 1
  <2>1. q \in 1..n /\ q - 1 = k /\ q \in 0..n /\ n \in 0..n
    BY <1>1, <1>9
  <2> HIDE DEF q
  <2>2. /\ off[k] \in Nat /\ off[q] \in Nat /\ off[n] \in Nat /\ off[q] <= off[n]
        /\ Framed(b, off[k] + 1, c[q], off[q])
        /\ Joined(c, k) \in Seq(Byte) /\ c[q] \in Seq(Byte) /\ Len(c[q]) \in 1..255
        /\ Joined(c, q) = Joined(c, k) \o c[q]
    <3>1. Framed(b, off[q - 1] + 1, c[q], off[q])
      BY <2>1 DEF Laid
    <3>2. Joined(c, q) = Joined(c, q - 1) \o c[q]
      BY <1>2, <2>1
    <3> QED BY <1>1, <1>2, <2>1, <3>1, <3>2
  <2>3. CASE ~(off[k] < Len(s))
    <3>1. off[k] <= Len(s) => off[k] = Len(s)
      BY SMTT(30), <1>1, <2>2, <2>3
    <3> QED BY <1>7, <3>1
  <2>4. CASE off[k] < Len(s)
    <3> DEFINE p == off[k] + 1
    <3>6. \A x, y \in Nat : x < y => x + 1 \in 1..y /\ x + 1 \in 1..(y + 3)
      OBVIOUS
    <3>1. p \in 1..Len(s) /\ p \in 1..(Len(s) + 3)
      BY <1>1, <2>2, <2>4, <3>6
    <3>2. Framed(b, p, c[q], off[q])
      BY <2>2
    <3> HIDE DEF p
    <3>3. /\ off[q] <= Len(s) => Decoding(s, u, p) = Followed(c[q], u, off[q] + 1)
          /\ ~(off[q] <= Len(s)) => Decoding(s, u, p) = Failed
      BY <2>2, <3>1, <3>2, OverChunk
    <3>4. CASE ~(off[q] <= Len(s))
      <4>1. u[p] = Failed
        BY <1>3, <3>1, <3>3, <3>4
      <4>2. ~(off[n] + 3 <= Len(s))
        BY SMTT(30), <1>1, <2>2, <3>4
      <4> QED BY <1>4, <4>1, <4>2 DEF p
    <3>5. CASE off[q] <= Len(s)
      <4> DEFINE v == u[off[q] + 1]
      <4>1. u[p] = Followed(c[q], u, off[q] + 1)
        BY <1>3, <3>1, <3>3, <3>5
      <4>2. u[p].ok = v.ok /\ u[p].data = c[q] \o v.data
        <5>1. /\ Followed(c[q], u, off[q] + 1).ok = v.ok
              /\ Followed(c[q], u, off[q] + 1).data = c[q] \o v.data
          <6> DEFINE d == c[q]
                     o == off[q] + 1
          <6> HIDE DEF d, o
          <6>1. Followed(d, u, o).ok = u[o].ok /\ Followed(d, u, o).data = d \o u[o].data
            BY FollowedIs
          <6> QED BY <6>1 DEF d, o
        <5> QED BY <4>1, <5>1
      <4>3. v.data \in Seq(Byte)
        <5>1. off[q] + 1 \in 1..(Len(s) + 3)
          BY SMTT(30), <1>1, <2>2, <3>5
        <5>2. v \in Results
          BY <1>3, <5>1
        <5> QED BY <5>2 DEF Results
      <4>4. Right(q)
        BY <1>9 DEF q
      <4>5. (v.ok => Prefix(c, off, Len(s), q, v)) /\ (off[n] + 3 <= Len(s) => v.ok)
        BY <3>5, <4>4
      <4> HIDE DEF v
      <4>6. ASSUME v.ok PROVE Prefix(c, off, Len(s), k, u[p])
        <5>1. PICK j \in q..n : Joined(c, q) \o v.data = Joined(c, j) /\ (j = n \/ off[j] = Len(s))
          BY <4>5, <4>6 DEF Prefix
        <5>2. Joined(c, k) \o u[p].data = Joined(c, q) \o v.data
          <6>1. (Joined(c, k) \o c[q]) \o v.data = Joined(c, k) \o (c[q] \o v.data)
            <7>1. Joined(c, k) \in Seq(Byte) /\ c[q] \in Seq(Byte)
              BY <2>2
            <7> QED BY Zenon, <4>3, <7>1, Associative
          <6>2. Joined(c, q) = Joined(c, k) \o c[q]
            BY <2>2
          <6> QED BY <4>2, <6>1, <6>2
        <5>3. j \in k..n
          BY <2>1, <5>1
        <5> QED BY <5>1, <5>2, <5>3 DEF Prefix
      <4> QED BY <4>2, <4>5, <4>6 DEF p
    <3> QED BY <3>4, <3>5
  <2> QED BY <2>3, <2>4
<1> HIDE DEF Right
<1>10. ASSUME NEW p \in 1..(n + 1), \A q \in 1..(n + 1) : q > p => q \in T PROVE p \in T
  <2>1. CASE p = n + 1
    <3>1. p - 1 = n
      BY <1>1, <2>1
    <3> QED BY <1>8, <3>1
  <2>2. CASE p # n + 1
    <3>1. p + 1 \in 1..(n + 1) /\ p + 1 > p /\ (p + 1) - 1 = (p - 1) + 1 /\ p - 1 \in 0..n /\ p - 1 # n
      BY <1>1, <2>2
    <3>2. Right((p - 1) + 1)
      BY <1>10, <3>1
    <3> QED BY <1>9, <3>1, <3>2
  <2> QED BY <2>1, <2>2
<1>11. Right(0)
  <2>1. n + 1 \in Nat /\ 1 \in 1..(n + 1) /\ 1 - 1 = 0
    BY <1>1
  <2>2. \A p \in 1..(n + 1) : p \in T
    <3> HIDE DEF T
    <3> QED BY <1>10, <2>1, Downward
  <2> QED BY <2>1, <2>2
<1>12. off[0] = 0 /\ 0 <= Len(s) /\ 0 + 1 = 1
  BY <1>1 DEF Laid
<1>13. Unchunk(s) = u[1]
  BY UnchunkIs DEF u
<1> QED BY <1>11, <1>12, <1>13 DEF Right

-----------------------------------------------------------------------------
(* Where a terminator may be found before the body's end. *)

SizeLen(d) == Len(Hex(Len(d)))

\* What stands in a chunk.
LEMMA InChunk ==
  ASSUME NEW b, NEW p \in Nat \ {0}, NEW d \in Seq(Byte), Len(d) \in 1..255, NEW e, Framed(b, p, d, e)
  PROVE  /\ SizeLen(d) \in 1..2 /\ e = p + SizeLen(d) + 3 + Len(d)
         /\ b[p] \in 1..15 /\ \A i \in p..(p + SizeLen(d) - 1) : b[i] \in 0..15
         /\ b[e - 1] = CR /\ b[e] = LF
         /\ IsAt(b, CRLF \o d \o CRLF, p + SizeLen(d))
<1> DEFINE n == Len(d)
           x == Hex(n)
           h == Len(x)
<1>1. n \in 1..255
  BY ZenonT(40)
<1> HIDE DEF n
<1>2. h \in 1..2 /\ x[1] \in 1..15 /\ \A i \in 1..h : x[i] \in 0..15
  BY <1>1, HexFacts
<1>3. /\ IsAt(b, x, p) /\ IsAt(b, CRLF, p + h) /\ IsAt(b, d, p + h + 2)
      /\ IsAt(b, CRLF, p + h + 2 + n) /\ e = p + h + 3 + n
  BY DEF Framed, n
<1> HIDE DEF x
<1>4. \A i \in 1..h : b[p + i - 1] = x[i]
  BY <1>3 DEF IsAt
<1> HIDE DEF h
<1>5. b[p] \in 1..15
  <2>1. 1 \in 1..h /\ p + 1 - 1 = p
    BY <1>2
  <2> QED BY <1>2, <1>4, <2>1
<1>6. ASSUME NEW i \in p..(p + h - 1) PROVE b[i] \in 0..15
  <2> DEFINE j == i - p + 1
  <2>1. j \in 1..h /\ p + j - 1 = i
    BY <1>2
  <2> HIDE DEF j
  <2>2. b[p + j - 1] = x[j] /\ x[j] \in 0..15
    BY <1>2, <1>4, <2>1
  <2> QED BY <2>1, <2>2
<1>7. b[e - 1] = CR /\ b[e] = LF
  <2>1. e - 1 = p + h + 2 + n /\ (e - 1) + 1 = e /\ e - 1 \in Int
    BY <1>1, <1>2, <1>3
  <2>2. IsAt(b, CRLF, e - 1)
    BY <1>3, <2>1
  <2> QED BY <2>1, <2>2, LineEndAt
<1>8. IsAt(b, CRLF \o d \o CRLF, p + h)
  <2> DEFINE y == CRLF \o d
             q == p + h
  <2>1. q \in Int /\ q + 2 = p + h + 2 /\ q + (2 + n) = p + h + 2 + n
    BY <1>1, <1>2
  <2> HIDE DEF q
  <2>2. y \in Seq(Byte) /\ Len(y) = 2 + n
    <3>1. y \in Seq(Byte) /\ Len(y) = Len(CRLF) + Len(d)
      BY JoinLength, Patterns
    <3> QED BY <3>1, Patterns DEF n
  <2>3. IsAt(b, y, q)
    <3>1. IsAt(b, CRLF, q) /\ IsAt(b, d, q + Len(CRLF))
      BY <1>3, <2>1, Patterns DEF q
    <3> QED BY <2>1, <3>1, JoinAt, Patterns
  <2> HIDE DEF y
  <2>4. IsAt(b, CRLF, q + Len(y))
    BY <1>3, <2>1, <2>2
  <2>5. IsAt(b, y \o CRLF, q)
    BY <2>1, <2>2, <2>3, <2>4, LineAt
  <2> QED BY <2>5 DEF y, q
<1> QED BY <1>2, <1>3, <1>5, <1>6, <1>7, <1>8 DEF SizeLen, h, x, n

\* The bytes of a terminator.
LEMMA TerminatorAt ==
  ASSUME NEW b, NEW q \in Int, IsAt(b, Terminator, q)
  PROVE  /\ b[q] = CR /\ b[q + 1] = LF /\ b[q + 2] = 0 /\ b[q + 3] = CR
         /\ b[q + 4] = LF /\ b[q + 5] = CR /\ b[q + 6] = LF
<1>1. IsAt(b, CRLF, q) /\ b[q + 2] = 0 /\ IsAt(b, CRLF, q + 3) /\ IsAt(b, CRLF, q + 5)
  BY EndsAt
<1>2. b[q] = CR /\ b[q + 1] = LF
  BY <1>1, LineEndAt
<1>3. b[q + 3] = CR /\ b[q + 3 + 1] = LF
  BY <1>1, LineEndAt
<1>4. b[q + 5] = CR /\ b[q + 5 + 1] = LF
  BY <1>1, LineEndAt
<1>5. q + 3 + 1 = q + 4 /\ q + 5 + 1 = q + 6
  OBVIOUS
<1> QED BY <1>1, <1>2, <1>3, <1>4, <1>5

\* A terminator in a chunk is in its data and the line ends around it.
LEMMA MisleadingIf ==
  ASSUME NEW b, NEW p \in Nat \ {0}, NEW d \in Seq(Byte), Len(d) \in 1..255, NEW e, Framed(b, p, d, e),
         NEW q \in Nat, q >= p, q + 6 <= e, IsAt(b, Terminator, q)
  PROVE  Misleading(d)
<1> DEFINE h == SizeLen(d)
           u == CRLF \o d \o CRLF
           r == q - (p + h) + 1
<1>1. /\ h \in 1..2 /\ e = p + h + 3 + Len(d)
      /\ \A i \in p..(p + h - 1) : b[i] \in 0..15
      /\ IsAt(b, u, p + h)
  BY InChunk
<1>2. u \in Seq(Byte) /\ Len(u) = Len(d) + 4
  <2> DEFINE y == CRLF \o d
  <2>1. y \in Seq(Byte) /\ Len(y) = Len(CRLF) + Len(d)
    BY JoinLength, Patterns
  <2> HIDE DEF y
  <2>2. y \o CRLF \in Seq(Byte) /\ Len(y \o CRLF) = Len(y) + 2
    BY <2>1, LineAt
  <2>3. 2 + Len(d) + 2 = Len(d) + 4
    OBVIOUS
  <2> QED BY <2>1, <2>2, <2>3, Patterns DEF y
<1> HIDE DEF h, u
<1>3. q >= p + h
  <2> SUFFICES ASSUME ~(q >= p + h) PROVE FALSE
    OBVIOUS
  <2>1. q \in p..(p + h - 1)
    BY <1>1
  <2>2. b[q] = CR
    BY TerminatorAt
  <2>3. b[q] \in 0..15
    BY <1>1, <2>1
  <2> QED BY <2>2, <2>3 DEF CR
<1>4. r \in 1..(Len(u) - 7 + 1)
  BY <1>1, <1>2, <1>3
<1>5. IsAt(u, Terminator, r)
  <2>1. ASSUME NEW j \in 1..7 PROVE u[r + j - 1] = Terminator[j]
    <3> DEFINE k == r + j - 1
    <3>1. k \in 1..Len(u) /\ (p + h) + k - 1 = q + j - 1
      BY <1>1, <1>2, <1>4
    <3> HIDE DEF k
    <3>2. b[(p + h) + k - 1] = u[k]
      BY <1>1, <3>1 DEF IsAt
    <3>3. b[q + j - 1] = Terminator[j]
      BY Patterns DEF IsAt
    <3>4. u[k] = Terminator[j]
      BY <3>1, <3>2, <3>3
    <3> QED BY <3>4 DEF k
  <2> QED BY <2>1, Patterns DEF IsAt
<1> HIDE DEF r
<1>6. Find(u, Terminator, 1) # NPos
  <2>1. r \in 1..(Len(u) - Len(Terminator) + 1) /\ 1 \in Nat \ {0} /\ Len(Terminator) \in Nat \ {0}
        /\ Terminator \in Seq(Byte)
    BY <1>4, Patterns
  <2> QED BY <1>2, <1>5, <2>1, FindFacts
<1> QED BY <1>6 DEF Misleading, Terminator, u

\* A terminator that ends where a chunk ends, or before, is in the data of one,
\* with the line ends around it.
LEMMA MisleadingChunk ==
  ASSUME NEW b, NEW c, AreChunks(c), NEW off, Laid(b, c, off), NEW j \in 0..Len(c),
         NEW q \in Nat \ {0}, q + 6 <= off[j], IsAt(b, Terminator, q)
  PROVE  \E i \in 1..Len(c) : Misleading(c[i])
<1> DEFINE n == Len(c)
           F == {k \in 0..j : off[k] < q}
<1>1. /\ n \in Nat /\ \A k \in 0..n : off[k] \in Nat
      /\ \A k \in 1..n : Framed(b, off[k - 1] + 1, c[k], off[k])
      /\ \A k \in 1..n : c[k] \in Seq(Byte) /\ Len(c[k]) \in 1..255
      /\ off[0] = 0
  BY DEF AreChunks, Laid
<1>2. 0 \in F /\ F \in SUBSET (0..j) /\ j \in Nat
  BY <1>1
<1>3. PICK k \in F : \A l \in F : l <= k
  <2> HIDE DEF F
  <2> QED BY <1>2, GreatestExists
<1>4. k \in 0..j /\ off[k] < q /\ k # j
  <2>1. off[j] \in Nat
    BY <1>1
  <2> QED BY <2>1
<1> DEFINE i == k + 1
<1>5. i \in 1..n /\ i \in 0..n /\ i \in 0..j /\ i - 1 = k /\ k \in 0..n
  BY <1>1, <1>4
<1>6. ~(off[i] < q)
  <2> SUFFICES ASSUME off[i] < q PROVE FALSE
    OBVIOUS
  <2>1. i \in F
    BY <1>5
  <2> QED BY <1>3, <1>4, <2>1
<1> HIDE DEF i, F
<1> DEFINE p == off[k] + 1
           e == off[i]
<1>7. p \in Nat \ {0} /\ e \in Nat /\ q >= p /\ q <= e
  <2>1. off[k] \in Nat /\ off[i] \in Nat
    BY <1>1, <1>5
  <2> QED BY <1>4, <1>6, <2>1
<1>8. Framed(b, p, c[i], e) /\ c[i] \in Seq(Byte) /\ Len(c[i]) \in 1..255
  BY <1>1, <1>5
<1>13. q + 6 <= off[j]
  OBVIOUS
<1> HIDE DEF p, e
<1>9. b[e - 1] = CR /\ b[e] = LF
  BY <1>7, <1>8, InChunk
<1>10. ASSUME ~(q + 6 <= e) PROVE b[e + 1] \in 1..15
  <2>1. i # j
    BY <1>10, <1>13 DEF e
  <2> DEFINE l == i + 1
  <2>2. l \in 1..n /\ l - 1 = i
    BY <1>1, <1>5, <2>1
  <2> HIDE DEF l
  <2>3. Framed(b, e + 1, c[l], off[l]) /\ c[l] \in Seq(Byte) /\ Len(c[l]) \in 1..255
    BY <1>1, <2>2 DEF e
  <2>4. e + 1 \in Nat \ {0}
    BY <1>7
  <2> QED BY <2>3, <2>4, InChunk
<1>11. q + 6 <= e
  <2> SUFFICES ASSUME ~(q + 6 <= e) PROVE FALSE
    OBVIOUS
  <2>1. /\ b[q] = CR /\ b[q + 1] = LF /\ b[q + 2] = 0 /\ b[q + 3] = CR
        /\ b[q + 4] = LF /\ b[q + 5] = CR /\ b[q + 6] = LF
    BY TerminatorAt
  <2>2. b[e + 1] \in 1..15
    BY <1>10
  <2>3. CR = 16 /\ LF = 17 /\ \A x \in 1..15 : x # 0 /\ x # 16
    BY DEF CR, LF
  <2>4. \/ q = e \/ q + 1 = e \/ q + 2 = e \/ q + 3 = e \/ q + 4 = e \/ q + 5 = e
    BY <1>7
  <2>5. q # e
    BY <1>9, <2>1, <2>3
  <2>6. q + 1 # e
    <3>1. q + 1 = e => q + 2 = e + 1
      OBVIOUS
    <3> QED BY <2>1, <2>2, <2>3, <3>1
  <2>7. q + 2 # e
    BY <1>9, <2>1, <2>3
  <2>8. q + 3 # e
    <3>1. q + 3 = e => q + 2 = e - 1
      OBVIOUS
    <3> QED BY <1>9, <2>1, <2>3, <3>1
  <2>9. q + 4 # e
    <3>1. q + 4 = e => q + 5 = e + 1
      OBVIOUS
    <3> QED BY <2>1, <2>2, <2>3, <3>1
  <2>10. q + 5 # e
    BY <1>9, <2>1, <2>3
  <2> QED BY <2>4, <2>5, <2>6, <2>7, <2>8, <2>9, <2>10
<1>12. Misleading(c[i])
  <2>1. q \in Nat
    OBVIOUS
  <2> QED BY <1>7, <1>8, <1>11, <2>1, MisleadingIf
<1> QED BY <1>5, <1>12

-----------------------------------------------------------------------------
(* What is received of a request. *)

\* The body and what follows it.
Rest(m) == EncodedBody(m) \o m.tail

LEMMA MessageFacts ==
  ASSUME NEW m \in Messages
  PROVE  /\ m.chunked \in BOOLEAN /\ m.tail \in Seq(Byte) /\ m.chunks \in Seq(Seq(Byte))
         /\ m.chunked => m.length = None /\ AreChunks(m.chunks)
         /\ ~m.chunked /\ m.length # None => m.length = Len(FlattenSeq(m.chunks))
         /\ ~m.chunked /\ m.length = None => m.chunks = <<>>
         /\ FlattenSeq(m.chunks) \in Seq(Byte)
<1>1. IsMessage(m) /\ StatesSizes(m)
  BY BuffersAssumption
<1>2. m.chunked \in BOOLEAN /\ m.tail \in Seq(Byte) /\ m.chunks \in Seq(Seq(Byte))
  BY <1>1 DEF IsMessage
<1> DEFINE c == m.chunks
           flat == FlattenSeq(c)
<1>3. flat \in Seq(Byte)
  <2> HIDE DEF c
  <2>1. Len(c) \in 0..Len(c)
    BY <1>2 DEF c
  <2>2. Joined(c, Len(c)) = flat /\ Joined(c, Len(c)) \in Seq(Byte)
    BY <1>2, <2>1, JoinedFacts DEF c
  <2> QED BY <2>2
<1>4. m.chunked => m.length = None /\ AreChunks(m.chunks)
  BY <1>1, <1>2 DEF StatesSizes, AreChunks
<1>5. Len(flat) # None
  <2> HIDE DEF flat
  <2>1. Len(flat) \in Nat
    BY <1>3
  <2> QED BY <2>1 DEF None
<1> HIDE DEF flat
<1>6. ~m.chunked => m.length = IF m.chunks = <<>> /\ m.length = None THEN None ELSE Len(flat)
  BY <1>1 DEF StatesSizes, flat
<1> QED BY <1>2, <1>3, <1>4, <1>5, <1>6 DEF flat

\* What the chunks are put together to.
LEMMA ChunksFlat ==
  ASSUME NEW c, AreChunks(c)
  PROVE  /\ FlattenSeq(Chunks(c)) \in Seq(Byte)
         /\ FlattenSeq(Chunks(c)) \o << 0 >> \o CRLF \o CRLF \in Seq(Byte)
         /\ Len(FlattenSeq(Chunks(c)) \o << 0 >> \o CRLF \o CRLF) = Len(FlattenSeq(Chunks(c))) + 5
<1> DEFINE cs == Chunks(c)
           n == Len(c)
           flat == FlattenSeq(cs)
           y == flat \o << 0 >>
           z == y \o CRLF
<1>1. n \in Nat /\ DOMAIN c = 1..n /\ \A i \in 1..n : c[i] \in Seq(Byte) /\ Len(c[i]) \in 1..255
  BY DEF AreChunks
<1>2. cs \in Seq(Seq(Byte))
  <2>1. \A i \in 1..n : Chunk(c[i]) \in Seq(Byte)
    BY <1>1, ChunkFacts
  <2>2. cs = [i \in 1..n |-> Chunk(c[i])]
    BY <1>1 DEF Chunks
  <2> HIDE DEF n, cs
  <2> QED BY <1>1, <2>1, <2>2, IsASeq
<1> HIDE DEF cs
<1>3. flat \in Seq(Byte) /\ Len(flat) \in Nat
  <2>1. Len(cs) \in 0..Len(cs)
    BY <1>2
  <2>2. Joined(cs, Len(cs)) = flat /\ Joined(cs, Len(cs)) \in Seq(Byte)
    BY <1>2, <2>1, JoinedFacts
  <2> QED BY <2>2
<1> HIDE DEF flat
<1>4. y \in Seq(Byte) /\ Len(y) = Len(flat) + 1
  <2>1. << 0 >> \in Seq(Byte) /\ Len(<< 0 >>) = 1
    BY Patterns
  <2>2. y \in Seq(Byte) /\ Len(y) = Len(flat) + Len(<< 0 >>)
    BY <1>3, <2>1, JoinLength
  <2> QED BY <2>1, <2>2
<1> HIDE DEF y
<1>5. z \in Seq(Byte) /\ Len(z) = Len(y) + 2
  BY <1>4, LineAt
<1> HIDE DEF z
<1>6. z \o CRLF \in Seq(Byte) /\ Len(z \o CRLF) = Len(z) + 2
  BY <1>5, LineAt
<1>7. Len(z \o CRLF) = Len(flat) + 5
  BY <1>3, <1>4, <1>5, <1>6
<1> QED BY <1>3, <1>6, <1>7 DEF z, y, flat, cs

\* A request is the header and the rest.
LEMMA StreamFacts ==
  ASSUME NEW m \in Messages
  PROVE  /\ EncodedBody(m) \in Seq(Byte) /\ Rest(m) \in Seq(Byte) /\ Stream(m) \in Seq(Byte)
         /\ Len(Rest(m)) = Len(EncodedBody(m)) + Len(m.tail)
         /\ Len(Stream(m)) = 5 + Len(Rest(m)) /\ Len(Encoded(m)) = 5 + Len(EncodedBody(m))
         /\ IsAt(Stream(m), Header, 1) /\ IsAt(Rest(m), EncodedBody(m), 1)
         /\ \A i \in 1..Len(Rest(m)) : Stream(m)[5 + i] = Rest(m)[i]
<1> DEFINE e == EncodedBody(m)
           t == m.tail
           w == Stream(m)
<1>1. t \in Seq(Byte)
  BY MessageFacts
<1>2. e \in Seq(Byte)
  <2>1. CASE m.chunked
    <3>1. AreChunks(m.chunks)
      BY <2>1, MessageFacts
    <3>2. e = FlattenSeq(Chunks(m.chunks)) \o << 0 >> \o CRLF \o CRLF
      BY <2>1 DEF EncodedBody, Chunks
    <3> QED BY <3>1, <3>2, ChunksFlat
  <2>2. CASE ~m.chunked
    BY <2>2, MessageFacts DEF EncodedBody
  <2> QED BY <2>1, <2>2
<1>3. w = (Header \o e) \o t
  BY DEF Stream, Encoded
<1> HIDE DEF e, t, w
<1>4. Header \in Seq(Byte) /\ Len(Header) = 5
  BY Patterns
<1> DEFINE r == e \o t
<1>5. w = Header \o r
  BY Zenon, <1>1, <1>2, <1>3, <1>4, Associative
<1>6. r \in Seq(Byte) /\ Len(r) = Len(e) + Len(t)
  BY <1>1, <1>2, JoinLength
<1>7. IsAt(r, e, 1)
  <2>1. IsAt(r, r, 1)
    BY SelfAt
  <2> QED BY <1>1, <1>2, <2>1, JoinAt
<1> HIDE DEF r
<1>8. w \in Seq(Byte) /\ Len(w) = 5 + Len(r)
  <2>1. w \in Seq(Byte) /\ Len(w) = Len(Header) + Len(r)
    BY <1>4, <1>5, <1>6, JoinLength
  <2> QED BY <1>4, <2>1
<1>9. Len(Header \o e) = 5 + Len(e)
  <2>1. Len(Header \o e) = Len(Header) + Len(e)
    BY <1>2, <1>4, JoinLength
  <2> QED BY <1>4, <2>1
<1>10. IsAt(w, Header, 1) /\ IsAt(w, r, 1 + Len(Header))
  <2>1. IsAt(w, Header \o r, 1)
    BY <1>5, SelfAt
  <2>2. Header \in Seq(Byte) /\ r \in Seq(Byte) /\ 1 \in Int
    BY <1>4, <1>6
  <2> QED BY <2>1, <2>2, JoinAt
<1>11. ASSUME NEW i \in 1..Len(r) PROVE w[5 + i] = r[i]
  <2>1. 1 + 5 + i - 1 = 5 + i
    BY <1>6
  <2>2. w[1 + 5 + i - 1] = r[i]
    BY <1>4, <1>10 DEF IsAt
  <2> QED BY <2>1, <2>2
<1>12. Rest(m) = r /\ Encoded(m) = Header \o e
  BY DEF Rest, Encoded, r, e, t
<1> QED BY <1>2, <1>6, <1>7, <1>8, <1>9, <1>10, <1>11, <1>12 DEF e, t, w

\* What recv() has given of a request so far, and what of it is behind the header.
Got(m, a) == SubSeq(Stream(m), 1, a)

LEMMA GotFacts ==
  ASSUME NEW m \in Messages, NEW a \in 0..Len(Stream(m))
  PROVE  /\ Got(m, a) \in Seq(Byte) /\ Len(Got(m, a)) = a /\ Begins(Got(m, a), Stream(m))
         /\ a >= 5 => /\ Begins(From(Got(m, a), 6), Rest(m))
                      /\ Len(From(Got(m, a), 6)) = a - 5
<1> DEFINE w == Stream(m)
           g == Got(m, a)
           s == From(g, 6)
           r == Rest(m)
<1>1. /\ w \in Seq(Byte) /\ r \in Seq(Byte) /\ Len(w) = 5 + Len(r)
      /\ \A i \in 1..Len(r) : w[5 + i] = r[i]
  BY StreamFacts
<1>2. a \in Nat /\ a <= Len(w) /\ a - 1 + 1 = a
  BY <1>1
<1>3. g \in Seq(Byte) /\ Len(g) = a /\ \A i \in 1..a : g[i] = w[i]
  <2> DEFINE v == SubSeq(w, 1, a)
  <2> HIDE DEF w
  <2>1. v \in Seq(Byte) /\ Len(v) = (IF 1 <= a THEN a - 1 + 1 ELSE 0)
        /\ \A i \in 1..(a - 1 + 1) : v[i] = w[1 + i - 1]
    BY <1>1, <1>2, PartOf
  <2> HIDE DEF v
  <2>2. Len(v) = a
    BY <1>2, <2>1
  <2>3. \A i \in 1..a : v[i] = w[i]
    <3> TAKE i \in 1..a
    <3>1. 1 + i - 1 = i /\ i \in 1..(a - 1 + 1)
      BY <1>2
    <3> QED BY <2>1, <3>1
  <2>4. g = v
    BY DEF Got, v, w
  <2> QED BY <2>1, <2>2, <2>3, <2>4
<1> HIDE DEF g, w, r
<1>4. Begins(g, w)
  BY <1>1, <1>2, <1>3 DEF Begins
<1>5. ASSUME a >= 5 PROVE Begins(s, r) /\ Len(s) = a - 5
  <2> DEFINE v == SubSeq(g, 6, a)
  <2>1. s = v
    BY <1>3 DEF From
  <2>2. 6 \in Nat \ {0} /\ a <= Len(g)
    BY <1>2, <1>3
  <2>6. v \in Seq(Byte) /\ Len(v) = (IF 6 <= a THEN a - 6 + 1 ELSE 0)
        /\ \A i \in 1..(a - 6 + 1) : v[i] = g[6 + i - 1]
    BY <1>2, <1>3, <2>2, PartOf
  <2> HIDE DEF s, v
  <2>3. s \in Seq(Byte) /\ Len(s) = (IF 6 <= a THEN a - 6 + 1 ELSE 0)
        /\ \A i \in 1..(a - 6 + 1) : s[i] = g[6 + i - 1]
    BY <2>1, <2>6
  <2>4. Len(s) = a - 5 /\ Len(s) <= Len(r)
    BY <1>1, <1>2, <1>5, <2>3
  <2>5. ASSUME NEW i \in 1..Len(s) PROVE s[i] = r[i]
    <3>1. i \in 1..(a - 6 + 1) /\ 6 + i - 1 = 5 + i /\ 5 + i \in 1..a /\ i \in 1..Len(r)
      BY <1>1, <1>2, <1>5, <2>4
    <3> QED BY <1>1, <1>3, <2>3, <3>1
  <2> QED BY <2>3, <2>4, <2>5 DEF Begins
<1> QED BY <1>3, <1>4, <1>5 DEF g, w, r

\* The header's end is found once its bytes have come, and at its place.
LEMMA HeaderFound ==
  ASSUME NEW m \in Messages, NEW a \in 0..Len(Stream(m))
  PROVE  /\ HeaderArrived(Got(m, a)) <=> a >= 5
         /\ a >= 5 => BodyStart(Got(m, a)) = 6
         /\ Stream(m)[1] = Text /\ IsAt(Stream(m), CRLF, 2) /\ IsAt(Stream(m), CRLF, 4)
<1> DEFINE w == Stream(m)
           g == Got(m, a)
           pat == CRLF \o CRLF
           f == Find(g, pat, 1)
<1>1. w \in Seq(Byte) /\ g \in Seq(Byte) /\ Len(g) = a /\ Begins(g, w) /\ a \in Nat
      /\ pat \in Seq(Byte) /\ Len(pat) = 4 /\ IsAt(w, Header, 1)
  BY GotFacts, StreamFacts, Patterns
<1> HIDE DEF w, g
<1>2. w[1] = Text /\ IsAt(w, CRLF, 2) /\ IsAt(w, CRLF, 4) /\ IsAt(w, pat, 2)
  <2>1. w[1] = Text /\ IsAt(w, CRLF, 1 + 1) /\ IsAt(w, CRLF, 1 + 3)
    BY <1>1, EndsAt
  <2>2. w[1] = Text /\ IsAt(w, CRLF, 2) /\ IsAt(w, CRLF, 4)
    BY <2>1
  <2>3. 2 \in Int /\ 2 + 2 = 4
    OBVIOUS
  <2>4. IsAt(w, pat, 2)
    BY <2>2, <2>3, EndsAt
  <2> QED BY <2>2, <2>4
<1>3. \A i \in Int : IsAt(g, pat, i) => g[i] = CR
  BY EndsAt, LineEndAt
<1> HIDE DEF pat
<1>4. /\ f # NPos => f \in 1..(a - 4 + 1) /\ IsAt(g, pat, f)
      /\ \A i \in 1..(a - 4 + 1) : IsAt(g, pat, i) => f # NPos /\ f <= i
  <2>1. 1 \in Nat \ {0} /\ Len(pat) \in Nat \ {0}
    BY <1>1
  <2>2. /\ f # NPos => f \in 1..(Len(g) - Len(pat) + 1) /\ IsAt(g, pat, f)
        /\ \A i \in 1..(Len(g) - Len(pat) + 1) : IsAt(g, pat, i) => f # NPos /\ f <= i
    BY <1>1, <2>1, FindFacts
  <2> HIDE DEF f
  <2> QED BY <1>1, <2>2
<1> HIDE DEF f
<1>5. f # 1
  <2> SUFFICES ASSUME f = 1 PROVE FALSE
    OBVIOUS
  <2>1. 1 \in 1..a /\ IsAt(g, pat, 1) /\ 1 \in Int
    BY <1>1, <1>4 DEF NPos
  <2>2. g[1] = CR
    BY <1>3, <2>1
  <2>3. g[1] = Text
    BY <1>1, <1>2, <2>1 DEF Begins
  <2> QED BY <2>2, <2>3 DEF CR, Text
<1>6. CASE a >= 5
  <2>1. 2 \in 1..(a - 4 + 1) /\ 2 \in Nat \ {0} /\ 2 + 4 - 1 <= a
    BY <1>1, <1>6
  <2>2. IsAt(g, pat, 2)
    BY <1>1, <1>2, <2>1, AtBoth
  <2>3. f # NPos /\ f <= 2
    BY <1>4, <2>1, <2>2
  <2>4. f = 2
    BY <1>4, <1>5, <2>3
  <2> QED BY <1>2, <1>6, <2>4 DEF HeaderArrived, BodyStart, NPos, f, pat, g, w
<1>7. CASE ~(a >= 5)
  <2>1. f = NPos
    BY <1>1, <1>4, <1>5, <1>7
  <2> QED BY <1>2, <1>7, <2>1 DEF HeaderArrived, f, pat, g, w
<1> QED BY <1>6, <1>7

\* The body a request is accepted with is right: what Whole says of it.
Right(m, data) ==
  IF m.chunked
    THEN \E k \in 0..Len(m.chunks) :
           /\ data = FlattenSeq(SubSeq(m.chunks, 1, k))
           /\ \/ data = FlattenSeq(SubSeq(m.chunks, 1, Len(m.chunks)))
              \/ \E i \in DOMAIN m.chunks : Misleading(m.chunks[i])
  ELSE IF m.length = None THEN data = <<>>
  ELSE /\ Fits(m.length) => IsPrefix(FlattenSeq(SubSeq(m.chunks, 1, Len(m.chunks))), data)
       /\ IsPrefix(data, FlattenSeq(SubSeq(m.chunks, 1, Len(m.chunks))) \o m.tail)

\* Whatever part of it recv() has given, a complete request is never decided
\* before the header's end, is accepted with the right body, and is complete
\* and accepted when all of it has come.
Judged(m, a) ==
  /\ Complete(Got(m, a), m) => a >= 5 /\ Parse(Got(m, a), m) \in Results
  /\ Fits(m.length) /\ a >= Len(Encoded(m)) => Complete(Got(m, a), m) /\ Parse(Got(m, a), m).ok
  /\ Complete(Got(m, a), m) /\ Parse(Got(m, a), m).ok => Right(m, Parse(Got(m, a), m).data)

\* A line end in the rest of a request is one in the request.
LEMMA LineEndShifts ==
  ASSUME NEW m \in Messages, NEW i \in Nat \ {0}, i + 1 <= Len(Rest(m))
  PROVE  IsAt(Rest(m), CRLF, i) <=> IsAt(Stream(m), CRLF, 5 + i)
<1> DEFINE w == Stream(m)
           b == Rest(m)
<1>1. b \in Seq(Byte) /\ \A k \in 1..Len(b) : w[5 + k] = b[k]
  BY StreamFacts
<1> HIDE DEF w, b
<1>2. i \in 1..Len(b) /\ i + 1 \in 1..Len(b) /\ 5 + (i + 1) = (5 + i) + 1
  BY <1>1 DEF b
<1>3. w[5 + i] = b[i] /\ w[(5 + i) + 1] = b[i + 1]
  <2>1. w[5 + (i + 1)] = b[i + 1]
    BY <1>1, <1>2
  <2> QED BY <1>1, <1>2, <2>1
<1>4. (IsAt(b, CRLF, i) <=> b[i] = CR /\ b[i + 1] = LF)
      /\ (IsAt(w, CRLF, 5 + i) <=> w[5 + i] = CR /\ w[(5 + i) + 1] = LF)
  BY LineEndAt
<1> QED BY <1>3, <1>4 DEF w, b

\* How the chunks of a request are laid out.
LEMMA RestLaid ==
  ASSUME NEW m \in Messages, m.chunked
  PROVE  \E off : /\ Laid(Rest(m), m.chunks, off)
                  /\ Len(Encoded(m)) = off[Len(m.chunks)] + 10
                  /\ IsAt(Stream(m), Terminator, 4 + off[Len(m.chunks)])
<1> DEFINE c == m.chunks
           n == Len(c)
           b == Rest(m)
           w == Stream(m)
           flat == FlattenSeq(Chunks(c))
<1>1. AreChunks(c)
  BY MessageFacts
<1>2. n \in Nat
  BY <1>1 DEF AreChunks
<1>3. EncodedBody(m) = flat \o << 0 >> \o CRLF \o CRLF
  BY DEF EncodedBody, Chunks
<1>4. flat \in Seq(Byte) /\ Len(EncodedBody(m)) = Len(flat) + 5
  BY <1>1, <1>3, ChunksFlat
<1>5. /\ IsAt(b, flat \o << 0 >> \o CRLF \o CRLF, 1) /\ Len(flat) + 5 <= Len(b)
      /\ Len(Encoded(m)) = 5 + (Len(flat) + 5)
      /\ b \in Seq(Byte) /\ \A i \in 1..Len(b) : w[5 + i] = b[i]
  <2>1. /\ IsAt(b, EncodedBody(m), 1) /\ Len(b) = Len(EncodedBody(m)) + Len(m.tail)
        /\ Len(Encoded(m)) = 5 + Len(EncodedBody(m))
        /\ b \in Seq(Byte) /\ \A i \in 1..Len(b) : w[5 + i] = b[i]
    BY StreamFacts
  <2>2. Len(m.tail) \in Nat /\ Len(flat) \in Nat
    BY <1>4, MessageFacts
  <2> HIDE DEF b, w, flat
  <2>3. IsAt(b, flat \o << 0 >> \o CRLF \o CRLF, 1)
    BY <1>3, <2>1
  <2>4. Len(b) = (Len(flat) + 5) + Len(m.tail) /\ Len(Encoded(m)) = 5 + (Len(flat) + 5)
    BY <1>4, <2>1
  <2>5. \A x, y \in Nat : x + 5 <= (x + 5) + y
    OBVIOUS
  <2>6. Len(flat) + 5 <= Len(b)
    BY <2>2, <2>4, <2>5
  <2> QED BY <2>1, <2>3, <2>4, <2>6
<1>6. PICK off : off[n] = Len(flat) /\ Laid(b, c, off)
  BY <1>1, <1>5, LaidOut
<1> DEFINE t == off[n]
<1> HIDE DEF flat, b, w, c, n
<1>12. Len(flat) \in Nat /\ Len(b) \in Nat
  BY <1>4, <1>5
<1>7. t \in Nat /\ t + 5 <= Len(b) /\ Len(Encoded(m)) = t + 10
  <2>1. \A x \in Nat : 5 + (x + 5) = x + 10
    OBVIOUS
  <2> QED BY <1>5, <1>6, <1>12, <2>1
<1>8. b[t + 1] = 0 /\ IsAt(b, CRLF, t + 2) /\ IsAt(b, CRLF, t + 4)
  BY <1>6 DEF Laid, n
<1> HIDE DEF t
<1>9. IsAt(w, CRLF, 4 + t)
  <2>1. CASE n = 0
    <3>1. t = 0 /\ 4 + 0 = 4
      BY <1>6, <2>1 DEF Laid, t
    <3>2. 0 \in 0..Len(w)
      <4>1. w \in Seq(Byte)
        BY StreamFacts DEF w
      <4> QED BY <4>1
    <3>3. IsAt(w, CRLF, 4)
      BY <3>2, HeaderFound DEF w
    <3> QED BY <3>1, <3>3
  <2>2. CASE n # 0
    <3>1. n \in 1..n /\ n - 1 \in 0..n
      BY <1>2, <2>2
    <3> DEFINE p == off[n - 1] + 1
    <3>2. Framed(b, p, c[n], t) /\ c[n] \in Seq(Byte) /\ Len(c[n]) \in 1..255 /\ p \in Nat \ {0}
      <4>1. Framed(b, p, c[n], t)
        BY <1>6, <3>1 DEF Laid, t, n
      <4>2. c[n] \in Seq(Byte) /\ Len(c[n]) \in 1..255
        BY <1>1, <3>1 DEF AreChunks, n
      <4>3. off[n - 1] \in Nat
        BY <1>6, <3>1 DEF Laid, n
      <4> QED BY <4>1, <4>2, <4>3
    <3> DEFINE d == c[n]
    <3> HIDE DEF p, d
    <3>7. Framed(b, p, d, t) /\ d \in Seq(Byte) /\ Len(d) \in 1..255
      BY <3>2 DEF d
    <3>3. b[t - 1] = CR /\ b[t] = LF
      BY <3>2, <3>7, InChunk
    <3>4. t - 1 \in Nat \ {0} /\ (t - 1) + 1 = t /\ 5 + (t - 1) = 4 + t /\ t <= Len(b)
      <4>1. t = p + SizeLen(d) + 3 + Len(d) /\ SizeLen(d) \in 1..2
        BY <3>2, <3>7, InChunk
      <4>2. \A x \in Nat \ {0} : \A y \in 1..2 : \A z \in 1..255 :
              (x + y + 3 + z) - 1 \in Nat \ {0}
        OBVIOUS
      <4>3. t - 1 \in Nat \ {0} /\ t \in Nat /\ t + 5 <= Len(b)
        BY <1>7, <3>2, <3>7, <4>1, <4>2
      <4> QED BY <1>12, <4>3
    <3>5. IsAt(b, CRLF, t - 1)
      BY <3>3, <3>4, LineEndAt
    <3>6. IsAt(w, CRLF, 5 + (t - 1))
      BY <3>4, <3>5, LineEndShifts DEF w, b
    <3> QED BY <3>4, <3>6
  <2> QED BY <2>1, <2>2
<1>10. w[6 + t] = 0 /\ IsAt(w, CRLF, 7 + t) /\ IsAt(w, CRLF, 9 + t)
  <2>1. t \in Nat /\ t + 1 \in 1..Len(b) /\ t + 2 \in Nat \ {0} /\ t + 4 \in Nat \ {0}
        /\ (t + 2) + 1 <= Len(b) /\ (t + 4) + 1 <= Len(b)
        /\ 5 + (t + 1) = 6 + t /\ 5 + (t + 2) = 7 + t /\ 5 + (t + 4) = 9 + t
    <3>1. \A x, y \in Nat : x + 5 <= y =>
            /\ x + 1 \in 1..y /\ x + 2 \in Nat \ {0} /\ x + 4 \in Nat \ {0}
            /\ (x + 2) + 1 <= y /\ (x + 4) + 1 <= y
            /\ 5 + (x + 1) = 6 + x /\ 5 + (x + 2) = 7 + x /\ 5 + (x + 4) = 9 + x
      OBVIOUS
    <3> QED BY <1>7, <1>12, <3>1
  <2>2. w[5 + (t + 1)] = 0
    BY <1>5, <1>8, <2>1
  <2>3. IsAt(w, CRLF, 5 + (t + 2)) /\ IsAt(w, CRLF, 5 + (t + 4))
    BY <1>8, <2>1, LineEndShifts DEF w, b
  <2> QED BY <2>1, <2>2, <2>3
<1>11. IsAt(w, Terminator, 4 + t)
  <2> DEFINE q == 4 + t
  <2>1. q \in Int /\ q + 2 = 6 + t /\ q + 3 = 7 + t /\ q + 5 = 9 + t
    BY <1>7
  <2> HIDE DEF q
  <2>2. IsAt(w, CRLF, q) /\ w[q + 2] = 0 /\ IsAt(w, CRLF, q + 3) /\ IsAt(w, CRLF, q + 5)
    BY <1>9, <1>10, <2>1 DEF q
  <2>3. IsAt(w, Terminator, q)
    BY <2>1, <2>2, EndsAt
  <2> QED BY <2>3 DEF q
<1> QED BY <1>6, <1>7, <1>11 DEF t, w, b, c, n

\* A chunked request.
LEMMA JudgedChunked ==
  ASSUME NEW m \in Messages, m.chunked, NEW a \in 0..Len(Stream(m))
  PROVE  Judged(m, a)
<1> DEFINE c == m.chunks
           n == Len(c)
           b == Rest(m)
           w == Stream(m)
           g == Got(m, a)
           s == From(g, 6)
           r == Unchunk(s)
<1>1. AreChunks(c) /\ m.length = None
  BY MessageFacts
<1>2. n \in Nat /\ c \in Seq(Seq(Byte)) /\ DOMAIN c = 1..n
  BY <1>1 DEF AreChunks
<1>3. PICK off : Laid(b, c, off) /\ Len(Encoded(m)) = off[n] + 10 /\ IsAt(w, Terminator, 4 + off[n])
  BY RestLaid
<1>4. \A k \in 0..n : off[k] \in Nat
  BY <1>3 DEF Laid
<1>5. /\ g \in Seq(Byte) /\ Len(g) = a /\ Begins(g, w) /\ a \in Nat /\ w \in Seq(Byte) /\ b \in Seq(Byte)
      /\ a >= 5 => Begins(s, b) /\ Len(s) = a - 5
  BY GotFacts, StreamFacts
<1>6. /\ HeaderArrived(g) <=> a >= 5
      /\ a >= 5 => BodyStart(g) = 6
      /\ w[1] = Text /\ IsAt(w, CRLF, 2) /\ IsAt(w, CRLF, 4)
  BY HeaderFound
<1>7. Complete(g, m) <=> a >= 5 /\ Find(g, Terminator, 1) # NPos
  BY <1>1, <1>6 DEF Complete
<1>8. a >= 5 => Parse(g, m) = r
  BY <1>6 DEF Parse
<1> HIDE DEF c, n, b, w, g, s, r
<1>9. a >= 5 => r \in Results
  <2> SUFFICES ASSUME a >= 5 PROVE r \in Results
    OBVIOUS
  <2>1. s \in Seq(Byte) /\ 1 \in 1..(Len(s) + 3)
    BY <1>5 DEF Begins
  <2>2. Unchunked(s)[1] \in Results
    BY <2>1, UnchunkedFacts
  <2> QED BY <2>2, UnchunkIs DEF r
<1>10. a >= 5 => /\ r.ok => Prefix(c, off, a - 5, 0, r)
                 /\ off[n] + 3 <= a - 5 => r.ok
  BY <1>1, <1>3, <1>5, Decoded DEF r, n
<1>11. ASSUME a >= Len(Encoded(m)) PROVE Complete(g, m) /\ r.ok /\ a >= 5
  <2> DEFINE t == off[n]
  <2>1. t \in Nat
    BY <1>2, <1>4
  <2>2. a >= t + 10
    BY <1>3, <1>11
  <2>3. IsAt(w, Terminator, 4 + t)
    BY <1>3
  <2>4. off[n] + 3 <= a - 5 <=> t + 3 <= a - 5
    OBVIOUS
  <2> HIDE DEF t
  <2>5. a >= 5 /\ t + 3 <= a - 5 /\ 4 + t \in Nat \ {0} /\ (4 + t) + 7 - 1 <= a /\ 4 + t \in 1..(a - 7 + 1)
    BY <1>5, <2>1, <2>2
  <2>6. r.ok
    BY <1>10, <2>4, <2>5
  <2>7. IsAt(g, Terminator, 4 + t)
    BY ZenonT(40), <1>5, <2>3, <2>5, AtBoth, Patterns
  <2>8. Find(g, Terminator, 1) # NPos
    <3>1. /\ 4 + t \in 1..(Len(g) - Len(Terminator) + 1) /\ 1 \in Nat \ {0}
          /\ Terminator \in Seq(Byte) /\ Len(Terminator) \in Nat \ {0}
      BY <1>5, <2>5, Patterns
    <3> QED BY <1>5, <2>7, <3>1, FindFacts
  <2> QED BY <1>7, <2>5, <2>6, <2>8
<1>12. ASSUME Complete(g, m), r.ok PROVE Right(m, r.data)
  <2>1. a >= 5 /\ Find(g, Terminator, 1) # NPos
    BY <1>7, <1>12
  <2>2. PICK j \in 0..n : Joined(c, 0) \o r.data = Joined(c, j) /\ (j = n \/ off[j] = a - 5)
    BY <1>10, <1>12, <2>1 DEF Prefix, n
  <2>3. r.data = Joined(c, j)
    <3>1. Joined(c, 0) = <<>>
      BY <1>2, JoinedFacts
    <3>2. r.data \in Seq(Byte)
      BY <1>9, <2>1 DEF Results
    <3>3. <<>> \o r.data = r.data
      BY <3>2, ConcatEmptySeq
    <3> QED BY <2>2, <3>1, <3>3
  <2>4. CASE j = n
    BY <1>1, <2>2, <2>3, <2>4 DEF Right, Joined, c, n
  <2>5. CASE j # n
    <3> DEFINE q == Find(g, Terminator, 1)
    <3>1. q \in 1..(a - 7 + 1) /\ IsAt(g, Terminator, q)
      <4>1. /\ Terminator \in Seq(Byte) /\ Len(Terminator) = 7 /\ Len(Terminator) \in Nat \ {0} /\ 1 \in Nat \ {0}
        BY Patterns
      <4>2. q \in 1..(Len(g) - Len(Terminator) + 1) /\ IsAt(g, Terminator, q)
        BY <1>5, <2>1, <4>1, FindFacts
      <4> HIDE DEF q
      <4> QED BY <1>5, <4>1, <4>2
    <3> HIDE DEF q
    <3> DEFINE t == off[j]
    <3>2. t \in Nat /\ a = t + 5 /\ q \in Nat \ {0} /\ q + 6 <= a /\ q + 7 - 1 <= a
      <4>1. t \in Nat /\ t = a - 5
        BY <1>4, <2>2, <2>5
      <4> HIDE DEF t
      <4> QED BY <1>5, <3>1, <4>1
    <3> HIDE DEF t
    <3>3. IsAt(w, Terminator, q)
      BY ZenonT(40), <1>5, <3>1, <3>2, AtBoth, Patterns
    <3>4. /\ w[q] = CR /\ w[q + 1] = LF /\ w[q + 2] = 0 /\ w[q + 3] = CR
          /\ w[q + 4] = LF /\ w[q + 5] = CR /\ w[q + 6] = LF
      BY <3>2, <3>3, TerminatorAt
    <3>5. q >= 6
      <4>1. w[2] = CR /\ w[2 + 1] = LF /\ w[4] = CR /\ w[4 + 1] = LF
        BY <1>6, LineEndAt
      <4>2. w[6] \in 1..15
        <5>1. 1 \in 1..n /\ 1 - 1 = 0
          BY <1>2, <2>5
        <5>2. Framed(b, 1, c[1], off[1]) /\ c[1] \in Seq(Byte) /\ Len(c[1]) \in 1..255
          <6>1. Framed(b, off[1 - 1] + 1, c[1], off[1]) /\ off[0] = 0
            BY <1>3, <5>1 DEF Laid, n
          <6>2. off[1 - 1] + 1 = 1
            BY <5>1, <6>1
          <6>3. c[1] \in Seq(Byte) /\ Len(c[1]) \in 1..255
            BY <1>1, <5>1 DEF AreChunks, n
          <6> QED BY <6>1, <6>2, <6>3
        <5>3. b[1] \in 1..15
          <6>1. 1 \in Nat \ {0}
            OBVIOUS
          <6> QED BY <5>2, <6>1, InChunk
        <5>4. w[5 + 1] = b[1]
          <6>1. 1 \in 1..Len(b)
            <7>1. Len(s) \in Nat /\ Len(s) <= Len(b) /\ Len(s) = a - 5 /\ q \in Nat /\ q + 6 <= a /\ a \in Nat
              BY <1>5, <2>1, <3>2 DEF Begins
            <7>2. Len(b) \in Nat
              BY <1>5
            <7> QED BY <7>1, <7>2
          <6> QED BY <6>1, StreamFacts DEF b, w
        <5> QED BY <5>3, <5>4
      <4>3. CR = 16 /\ LF = 17 /\ Text = 18 /\ \A x \in 1..15 : x # 0
        BY DEF CR, LF, Text
      <4>4. q # 1
        BY <1>6, <3>4, <4>3
      <4>5. q # 2
        BY <3>4, <4>1, <4>3
      <4>6. q # 3
        BY <3>4, <4>1, <4>3
      <4>7. q # 4
        <5> SUFFICES ASSUME q = 4 PROVE FALSE
          OBVIOUS
        <5>1. q + 2 = 6
          OBVIOUS
        <5>2. w[q + 2] \in 1..15 /\ w[q + 2] = 0
          BY <3>4, <4>2, <5>1
        <5> QED BY <4>3, <5>2
      <4>8. q # 5
        BY <3>4, <4>1, <4>3
      <4> QED BY <3>2, <4>4, <4>5, <4>6, <4>7, <4>8
    <3> DEFINE p == q - 5
    <3>6. p \in Nat \ {0} /\ p + 6 <= t /\ \A i \in 1..7 : 5 + (p + i - 1) = q + i - 1
      BY <3>2, <3>5
    <3> HIDE DEF p
    <3>7. IsAt(b, Terminator, p)
      <4>1. ASSUME NEW i \in 1..7 PROVE b[p + i - 1] = Terminator[i]
        <5>1. p + i - 1 \in 1..Len(b)
          <6>1. Len(s) \in Nat /\ Len(s) <= Len(b) /\ Len(s) = t
            <7>1. Len(s) \in Nat /\ Len(s) <= Len(b) /\ Len(s) = a - 5
              BY <1>5, <2>1 DEF Begins
            <7> QED BY <3>2, <7>1
          <6>2. Len(b) \in Nat
            BY <1>5
          <6> QED BY <3>6, <6>1, <6>2
        <5>2. w[5 + (p + i - 1)] = b[p + i - 1]
          BY <5>1, StreamFacts DEF w, b
        <5>3. w[q + i - 1] = Terminator[i]
          BY <3>3, Patterns DEF IsAt
        <5> QED BY <3>6, <5>2, <5>3
      <4> QED BY <4>1, Patterns DEF IsAt
    <3>8. \E i \in 1..n : Misleading(c[i])
      <4>1. p + 6 <= off[j]
        BY <3>6 DEF t
      <4> QED BY <1>1, <1>3, <3>6, <3>7, <4>1, MisleadingChunk DEF n
    <3> QED BY <1>1, <1>2, <2>3, <3>8 DEF Right, Joined, c, n
  <2> QED BY <2>4, <2>5
<1> QED BY <1>7, <1>8, <1>9, <1>11, <1>12 DEF Judged, g

\* One sequence begins another.
LEMMA PrefixIs ==
  ASSUME NEW x \in Seq(Byte), NEW y \in Seq(Byte), Len(x) <= Len(y), \A i \in 1..Len(x) : x[i] = y[i]
  PROVE  IsPrefix(x, y)
<1> DEFINE n == Len(x)
           u == SubSeq(x, 1, n)
           v == SubSeq(y, 1, n)
<1>1. n \in Nat /\ 1 \in Nat \ {0} /\ n <= Len(x) /\ n <= Len(y) /\ n - 1 + 1 = n
  OBVIOUS
<1> HIDE DEF n
<1>2. u \in Seq(Byte) /\ Len(u) = n /\ \A i \in 1..n : u[i] = x[1 + i - 1]
  BY <1>1, PartOf
<1>3. v \in Seq(Byte) /\ Len(v) = n /\ \A i \in 1..n : v[i] = y[1 + i - 1]
  BY <1>1, PartOf
<1>4. \A i \in 1..n : 1 + i - 1 = i
  BY <1>1
<1>5. \A i \in 1..n : x[i] = y[i]
  BY DEF n
<1> HIDE DEF u, v
<1>6. u = v
  <2>1. \A i \in 1..n : u[i] = v[i]
    BY <1>2, <1>3, <1>4, <1>5
  <2> QED BY <1>2, <1>3, <2>1, SeqEqual
<1> QED BY <1>1, <1>6 DEF IsPrefix, u, v, n

\* A request that is not chunked.
LEMMA JudgedCounted ==
  ASSUME NEW m \in Messages, ~m.chunked, NEW a \in 0..Len(Stream(m))
  PROVE  Judged(m, a)
<1> DEFINE b == Rest(m)
           g == Got(m, a)
           s == From(g, 6)
           all == FlattenSeq(m.chunks)
           sent == FlattenSeq(SubSeq(m.chunks, 1, Len(m.chunks)))
           d == IF m.length = None THEN <<>> ELSE s
<1>1. /\ m.length # None => m.length = Len(all)
      /\ m.length = None => m.chunks = <<>>
      /\ all \in Seq(Byte) /\ m.chunks \in Seq(Seq(Byte)) /\ m.tail \in Seq(Byte)
  BY MessageFacts
<1>2. sent = all
  BY <1>1, SubSeqFull
<1>3. /\ Len(g) = a /\ a \in Nat /\ b \in Seq(Byte) /\ b = all \o m.tail
      /\ Len(Encoded(m)) = 5 + Len(all) /\ IsAt(b, all, 1)
      /\ a >= 5 => Begins(s, b) /\ Len(s) = a - 5
  <2>1. EncodedBody(m) = all
    BY DEF EncodedBody
  <2> QED BY <2>1, GotFacts, StreamFacts DEF Rest
<1>4. (HeaderArrived(g) <=> a >= 5) /\ (a >= 5 => BodyStart(g) = 6)
  BY HeaderFound
<1>5. a >= 5 => Parse(g, m) = [ok |-> TRUE, data |-> d]
  BY <1>4 DEF Parse
<1>6. Complete(g, m) <=> /\ a >= 5
                         /\ m.length = None \/ a >= SizeT(BodyStart(g) - 1 + Atoi(m.length))
  BY <1>3, <1>4 DEF Complete, AtLeast
<1> HIDE DEF b, g, s, all, sent
<1>7. a >= 5 => Parse(g, m) \in Results /\ Parse(g, m).ok /\ Parse(g, m).data = d
  <2> SUFFICES ASSUME a >= 5 PROVE Parse(g, m) \in Results /\ Parse(g, m).ok /\ Parse(g, m).data = d
    OBVIOUS
  <2>1. s \in Seq(Byte)
    BY <1>3 DEF Begins
  <2>2. d \in Seq(Byte)
    <3>1. <<>> \in Seq(Byte)
      OBVIOUS
    <3> QED BY <2>1, <3>1
  <2> HIDE DEF d
  <2>3. Parse(g, m) = [ok |-> TRUE, data |-> d]
    BY <1>5
  <2>4. [ok |-> TRUE, data |-> d] \in [ok : BOOLEAN, data : Seq(Byte)]
    BY <2>2
  <2> QED BY <2>3, <2>4 DEF Results
<1>8. ASSUME m.length # None, Fits(m.length), a >= 5
      PROVE  SizeT(BodyStart(g) - 1 + Atoi(m.length)) = 5 + Len(all)
  <2> DEFINE l == m.length
  <2>1. l = Len(all) /\ l \in Nat /\ l <= IntMax /\ IntMax \in Nat /\ SizeMax \in Nat /\ IntMax + 5 <= SizeMax
    BY <1>1, <1>8, BuffersAssumption DEF Fits
  <2> HIDE DEF l
  <2>2. l % Ints = l
    <3>1. Ints \in Nat /\ l < Ints /\ Ints # 0
      BY <2>1 DEF Ints
    <3> HIDE DEF Ints
    <3> QED BY <2>1, <3>1
  <2>3. Atoi(l) = l
    BY <2>1, <2>2 DEF Atoi, Fits
  <2>4. BodyStart(g) - 1 + l = 5 + l
    <3>1. BodyStart(g) = 6
      BY <1>4, <1>8
    <3>2. 6 - 1 + l = 5 + l
      BY <2>1
    <3> QED BY <3>1, <3>2
  <2>5. (5 + l) % (SizeMax + 1) = 5 + l
    <3> DEFINE x == 5 + l
               y == SizeMax + 1
    <3>1. x \in Nat /\ y \in Nat /\ x < y /\ y # 0
      BY <2>1
    <3> HIDE DEF x, y
    <3>2. x % y = x
      BY <3>1
    <3> QED BY <3>2 DEF x, y
  <2> QED BY <2>1, <2>3, <2>4, <2>5 DEF SizeT, l
<1>9. ASSUME Fits(m.length), a >= Len(Encoded(m)) PROVE Complete(g, m) /\ a >= 5
  <2>1. Len(all) \in Nat
    BY <1>1
  <2>2. a >= 5 + Len(all) /\ a >= 5
    BY <1>3, <1>9, <2>1
  <2> QED BY <1>6, <1>8, <1>9, <2>2
<1>10. ASSUME Complete(g, m) PROVE Right(m, d)
  <2>1. a >= 5
    BY <1>6, <1>10
  <2>2. CASE m.length = None
    BY <2>2 DEF Right
  <2>3. CASE m.length # None
    <3>1. s \in Seq(Byte) /\ Len(s) <= Len(b) /\ (\A i \in 1..Len(s) : s[i] = b[i]) /\ Len(s) = a - 5
      BY <1>3, <2>1 DEF Begins
    <3>2. IsPrefix(s, b)
      BY <1>3, <3>1, PrefixIs
    <3>3. ASSUME Fits(m.length) PROVE IsPrefix(all, s)
      <4>1. a >= 5 + Len(all)
        BY <1>6, <1>8, <1>10, <2>1, <2>3, <3>3
      <4>2. Len(all) \in Nat
        BY <1>1
      <4>3. Len(all) <= Len(s)
        BY <1>3, <3>1, <4>1, <4>2
      <4>4. ASSUME NEW i \in 1..Len(all) PROVE all[i] = s[i]
        <5>1. i \in 1..Len(s) /\ 1 + i - 1 = i
          BY <3>1, <4>2, <4>3
        <5>2. b[1 + i - 1] = all[i]
          BY <1>3 DEF IsAt
        <5> QED BY <3>1, <5>1, <5>2
      <4> QED BY <1>1, <3>1, <4>3, <4>4, PrefixIs
    <3>4. d = s
      BY <2>3
    <3> HIDE DEF d
    <3> QED BY <1>2, <1>3, <2>3, <3>2, <3>3, <3>4 DEF Right, sent
  <2> QED BY <2>2, <2>3
<1> QED BY <1>6, <1>7, <1>9, <1>10 DEF Judged, g

LEMMA AllJudged ==
  ASSUME NEW m \in Messages, NEW a \in 0..Len(Stream(m))
  PROVE  Judged(m, a)
<1>1. m.chunked \/ ~m.chunked
  OBVIOUS
<1> QED BY <1>1, JudgedChunked, JudgedCounted

-----------------------------------------------------------------------------
(* The request as it arrives. *)

\* Both say the same of an accepted body.
LEMMA WholeIs == Whole <=> (outcome = "accepted" => Right(message, body))
BY DEF Whole, Right, Sent, All

\* Nothing has arrived of a request that is not empty.
LEMMA InitFacts ==
  ASSUME Init
  PROVE  TypeOK /\ Recognised /\ Whole
<1> DEFINE m == message
<1>1. m \in Messages /\ arrived = 0 /\ outcome = "waiting" /\ body = <<>>
  BY DEF Init
<1>2. Stream(m) \in Seq(Byte) /\ Len(Encoded(m)) = 5 + Len(EncodedBody(m)) /\ EncodedBody(m) \in Seq(Byte)
  BY <1>1, StreamFacts
<1>3. Len(Stream(m)) \in Nat /\ Len(EncodedBody(m)) \in Nat
  BY <1>2
<1>4. TypeOK
  <2>1. 0 \in 0..Len(Stream(m)) /\ <<>> \in Seq(Byte)
    BY <1>3
  <2> QED BY <1>1, <2>1 DEF TypeOK
<1>5. ~(arrived >= Len(Encoded(m)))
  <2> DEFINE l == Len(EncodedBody(m))
             n == Len(Encoded(m))
  <2>1. l \in Nat /\ n = 5 + l
    BY <1>2, <1>3
  <2> HIDE DEF l, n
  <2>2. ~(0 >= n)
    BY <2>1
  <2> QED BY <1>1, <2>2 DEF n
<1>6. outcome # "accepted"
  BY <1>1
<1> QED BY <1>4, <1>5, <1>6, WholeIs DEF Recognised

\* The bytes received by then are judged as Judged says.
LEMMA ReceiveFacts ==
  ASSUME TypeOK, Recognised, NEW n \in 1..BufferSize, Receive(n)
  PROVE  TypeOK' /\ Recognised' /\ Whole'
<1> DEFINE m == message
           a == arrived + n
           g == Got(m, a)
           p == Parse(g, m)
<1>1. m \in Messages /\ arrived \in 0..Len(Stream(m)) /\ body \in Seq(Byte)
      /\ outcome \in {"waiting", "refused", "accepted"}
      /\ (outcome # "waiting" => arrived >= Len(Header))
  BY DEF TypeOK
<1>2. /\ outcome # "accepted" /\ a <= Len(Stream(m)) /\ arrived' = a /\ message' = m
      /\ IF ~Complete(g, m) THEN outcome' = outcome /\ body' = body
         ELSE IF p.ok THEN outcome' = "accepted" /\ body' = p.data
         ELSE outcome' = "refused" /\ body' = body
  BY DEF Receive, Got
<1>3. Len(Stream(m)) \in Nat /\ n \in Nat /\ Len(Header) = 5
  <2>1. n \in Nat
    BY BuffersAssumption
  <2>2. Stream(m) \in Seq(Byte)
    BY <1>1, StreamFacts
  <2> QED BY <2>1, <2>2, Patterns
<1>4. a \in 0..Len(Stream(m)) /\ a >= arrived
  BY <1>1, <1>2, <1>3
<1>5. Judged(m, a)
  BY <1>1, <1>4, AllJudged
<1>6. /\ Complete(g, m) => a >= 5 /\ p \in Results
      /\ Fits(m.length) /\ a >= Len(Encoded(m)) => Complete(g, m) /\ p.ok
      /\ Complete(g, m) /\ p.ok => Right(m, p.data)
  BY <1>5 DEF Judged
<1>7. arrived >= 5 => a >= 5
  BY <1>1, <1>3, <1>4
<1> HIDE DEF a, g, p, m
<1>8. TypeOK'
  <2>1. body' \in Seq(Byte)
    <3>1. Complete(g, m) => p.data \in Seq(Byte)
      BY <1>6 DEF Results
    <3> QED BY <1>1, <1>2, <3>1
  <2>2. outcome' \in {"waiting", "refused", "accepted"}
    BY <1>1, <1>2
  <2>3. outcome' # "waiting" => a >= Len(Header)
    <3>1. CASE Complete(g, m)
      BY <1>3, <1>6, <3>1
    <3>2. CASE ~Complete(g, m)
      BY <1>1, <1>2, <1>3, <1>7, <3>2
    <3> QED BY <3>1, <3>2
  <2> QED BY <1>1, <1>2, <1>4, <2>1, <2>2, <2>3 DEF TypeOK, m
<1>9. Recognised'
  <2>1. Fits(m.length) /\ a >= Len(Encoded(m)) => outcome' = "accepted"
    BY <1>2, <1>6
  <2> QED BY <1>2, <2>1 DEF Recognised
<1>10. Whole'
  <2>1. outcome' = "accepted" => Right(m, body')
    BY <1>2, <1>6
  <2>2. outcome' = "accepted" => Right(message', body')
    BY <1>2, <2>1
  <2> QED BY <2>2 DEF Whole, Right, Sent, All
<1> QED BY <1>8, <1>9, <1>10

LEMMA Inductive == Spec => [](TypeOK /\ Recognised /\ Whole)
<1> DEFINE Inv == TypeOK /\ Recognised /\ Whole
<1>1. Init => Inv
  BY InitFacts
<1>2. Inv /\ [Next]_vars => Inv'
  <2> SUFFICES ASSUME Inv, [Next]_vars PROVE Inv'
    OBVIOUS
  <2>1. CASE Next
    <3>1. PICK n \in 1..BufferSize : Receive(n)
      BY <2>1 DEF Next
    <3> QED BY <3>1, ReceiveFacts
  <2>2. CASE UNCHANGED vars
    BY <2>2 DEF vars, TypeOK, Recognised, Whole, Sent, All
  <2> QED BY <2>1, <2>2
<1> QED BY <1>1, <1>2, PTL DEF Spec

\* Every variable has its type: what Request::parse returns is a body of bytes
\* whatever the bytes it is given, and handleClientData decides nothing before
\* the header's end has come.
THEOREM TypeCorrect == Spec => []TypeOK
BY Inductive, PTL

\* handleClientData finds a request complete, and Request::parse accepts it, by
\* the time its last byte has come, for every body, every chunking of it and
\* every way recv() cuts it into pieces: a request refused while incomplete is
\* looked at again, and bytes that follow it do not hide its end.  Only a
\* Content-Length that is no int is excepted.
THEOREM RecognisedAlways == Spec => []Recognised
BY Inductive, PTL

\* An accepted body is what the client sent: unchunkData never takes data for
\* framing nor framing for data, and a body cut short is the client's up to a
\* chunk's end, which happens only when some chunk's data, with the line ends
\* around it, holds the terminator handleClientData looks for.
THEOREM WholeAlways == Spec => []Whole
BY Inductive, PTL

-----------------------------------------------------------------------------
(* The configuration parser. *)

-----------------------------------------------------------------------------
(* What one line does to what parse() has in hand: its stage. *)

Stage(m, c, s, l) == [mode |-> m, configs |-> c, server |-> s, location |-> l]

InParse(c, s, l, x) ==
  IF HasServer(x) THEN Stage("opening", c, NewServer, l)
  ELSE IF IsCgi(x) THEN Stage(IF c = <<>> THEN "stuck" ELSE "cgiBehind", c, s, l)
  ELSE Stage("parse", c, s, l)
Ported(s, p) == [s EXCEPT !.port = p]
InServerBlock(c, s, l, x) ==
  IF x = CloseBrace THEN Stage("parse", Append(c, s), s, l)
  ELSE IF IsLocation(x)
    THEN Stage(IF x.brace THEN "location" ELSE "brace", c, s,
               [NewLocation EXCEPT !.path = x.value])
  ELSE IF IsCgi(x) THEN Stage("cgi", c, s, l)
  ELSE Stage("server", c, IF x.key = "port" THEN Ported(s, x.value) ELSE s, l)
InOpening(c, s, l, x) ==
  IF IsBlockStart(x) THEN Stage("server", c, s, l) ELSE InServerBlock(c, s, l, x)
InBrace(c, s, l, x) == Stage(IF x.brace THEN "location" ELSE "brace", c, s, l)
Located(s, l) == [s EXCEPT !.locations = Append(@, l)]
InLocation(c, s, l, x) ==
  IF x = CloseBrace THEN Stage("server", c, Located(s, l), l)
  ELSE Stage("location", c, s,
             IF x.key = "allowed_methods" THEN [l EXCEPT !.methods = x.value] ELSE l)
InCgi(c, s, l, x) ==
  IF x = CloseBrace THEN Stage("server", c, s, l)
  ELSE Stage("cgi", c, [s EXCEPT !.cgi = @ \cup {x}], l)
Grown(c, hs) == [c EXCEPT ![Len(c)].cgi = @ \cup hs]
InCgiBehind(c, s, l, x) ==
  IF x = CloseBrace THEN Stage("parse", c, s, l)
  ELSE Stage("cgiBehind", Grown(c, {x}), s, l)

\* A CGI block before any server sticks.
After(t, x) ==
  LET c == t.configs  s == t.server  l == t.location
  IN CASE t.mode = "parse" -> InParse(c, s, l, x)
       [] t.mode = "opening" -> InOpening(c, s, l, x)
       [] t.mode = "server" -> InServerBlock(c, s, l, x)
       [] t.mode = "brace" -> InBrace(c, s, l, x)
       [] t.mode = "location" -> InLocation(c, s, l, x)
       [] t.mode = "cgi" -> InCgi(c, s, l, x)
       [] t.mode = "cgiBehind" -> InCgiBehind(c, s, l, x)
       [] OTHER -> t

\* The lines x take parse() from one stage to another.
Takes(x, s, t) ==
  \E g : g[0] = s /\ g[Len(x)] = t /\ \A k \in 1..Len(x) : g[k] = After(g[k - 1], x[k])

\* No line, one line, and a sequence of stages.
LEMMA TakesFacts ==
  /\ \A s : Takes(<<>>, s, s)
  /\ \A s, x : Takes(<<x>>, s, After(s, x))
  /\ \A x, g : (\A k \in 1..Len(x) : g[k] = After(g[k - 1], x[k])) => Takes(x, g[0], g[Len(x)])
<1>1. ASSUME NEW x, NEW g, \A k \in 1..Len(x) : g[k] = After(g[k - 1], x[k])
      PROVE  Takes(x, g[0], g[Len(x)])
  BY <1>1 DEF Takes
<1>2. ASSUME NEW s PROVE Takes(<<>>, s, s)
  <2> DEFINE g == [i \in {0} |-> s]
  <2>1. Len(<<>>) = 0 /\ g[0] = s /\ \A k \in 1..0 : g[k] = After(g[k - 1], <<>>[k])
    OBVIOUS
  <2> HIDE DEF g
  <2> QED BY <2>1 DEF Takes
<1>3. ASSUME NEW s, NEW x PROVE Takes(<<x>>, s, After(s, x))
  <2> DEFINE g == [i \in 0..1 |-> IF i = 0 THEN s ELSE After(s, x)]
  <2>1. Len(<<x>>) = 1 /\ g[0] = s /\ g[1] = After(s, x) /\ <<x>>[1] = x
    OBVIOUS
  <2> HIDE DEF g
  <2>2. \A k \in 1..1 : g[k] = After(g[k - 1], <<x>>[k])
    <3> TAKE k \in 1..1
    <3>1. k = 1 /\ k - 1 = 0
      OBVIOUS
    <3> QED BY <2>1, <3>1
  <2> QED BY <2>1, <2>2 DEF Takes
<1> QED BY <1>1, <1>2, <1>3

\* Lines, and more lines behind them.
LEMMA TakesBoth ==
  ASSUME NEW S, NEW x \in Seq(S), NEW y \in Seq(S), NEW s, NEW t, NEW u,
         Takes(x, s, t), Takes(y, t, u)
  PROVE  Takes(x \o y, s, u)
<1>1. PICK g : g[0] = s /\ g[Len(x)] = t /\ \A k \in 1..Len(x) : g[k] = After(g[k - 1], x[k])
  BY DEF Takes
<1>2. PICK h : h[0] = t /\ h[Len(y)] = u /\ \A k \in 1..Len(y) : h[k] = After(h[k - 1], y[k])
  BY DEF Takes
<1> DEFINE n == Len(x)
           m == Len(y)
           f == [i \in 0..(n + m) |-> IF i <= n THEN g[i] ELSE h[i - n]]
<1>3. n \in Nat /\ m \in Nat /\ Len(x \o y) = n + m
      /\ \A k \in 1..(n + m) : (x \o y)[k] = IF k <= n THEN x[k] ELSE y[k - n]
  BY ConcatProperties
<1>4. f[0] = s /\ f[n + m] = u
  BY <1>1, <1>2, <1>3
<1>5. ASSUME NEW k \in 1..(n + m) PROVE f[k] = After(f[k - 1], (x \o y)[k])
  <2>1. CASE k <= n
    <3>1. f[k] = g[k] /\ f[k - 1] = g[k - 1] /\ k \in 1..n /\ (x \o y)[k] = x[k]
      BY <1>3, <2>1
    <3> HIDE DEF f
    <3> QED BY <1>1, <3>1
  <2>2. CASE ~(k <= n)
    <3>1. f[k] = h[k - n] /\ k - n \in 1..m /\ (x \o y)[k] = y[k - n] /\ (k - 1) - n = (k - n) - 1
      BY <1>3, <2>2
    <3>2. f[k - 1] = h[(k - n) - 1]
      <4>1. CASE k - 1 = n
        <5>1. f[k - 1] = g[n] /\ (k - n) - 1 = 0
          BY <1>3, <4>1
        <5> QED BY <1>1, <1>2, <5>1
      <4>2. CASE k - 1 # n
        <5>1. k - 1 \in 0..(n + m) /\ ~(k - 1 <= n)
          BY <1>3, <2>2, <4>2
        <5> QED BY <3>1, <5>1
      <4> QED BY <4>1, <4>2
    <3> HIDE DEF f, n, m
    <3> QED BY <1>2, <3>1, <3>2 DEF m
  <2> QED BY <2>1, <2>2
<1> HIDE DEF f
<1> QED BY <1>3, <1>4, <1>5 DEF Takes

\* Lines have one outcome; and a set of stages that the lines behind x do not
\* leave, when x leads into it, is where all of the lines lead.
LEMMA TakesOnce ==
  ASSUME NEW S, NEW ls \in Seq(S), NEW x \in Seq(S), Len(x) <= Len(ls), IsAt(ls, x, 1),
         NEW s, NEW t, NEW u, Takes(ls, s, u), Takes(x, s, t), NEW Z, t \in Z,
         \A k \in (Len(x) + 1)..Len(ls) : \A z \in Z : After(z, ls[k]) \in Z
  PROVE  u \in Z
<1> DEFINE n == Len(x)
           m == Len(ls)
<1>1. PICK g : g[0] = s /\ g[n] = t /\ \A k \in 1..n : g[k] = After(g[k - 1], x[k])
  BY DEF Takes
<1>2. PICK h : h[0] = s /\ h[m] = u /\ \A k \in 1..m : h[k] = After(h[k - 1], ls[k])
  BY DEF Takes
<1>3. n \in Nat /\ m \in Nat /\ n <= m
  OBVIOUS
<1>4. \A k \in 1..n : ls[k] = x[k]
  <2> TAKE k \in 1..n
  <2>1. 1 + k - 1 = k
    OBVIOUS
  <2> QED BY <2>1 DEF IsAt
<1>5. \A k \in (n + 1)..m : \A z \in Z : After(z, ls[k]) \in Z
  OBVIOUS
<1> HIDE DEF n, m
<1> DEFINE A == {i \in Nat : i <= n => h[i] = g[i]}
           B == {i \in Nat : n + i <= m => h[n + i] \in Z}
<1>6. \A i \in Nat : i \in A
  <2>1. 0 \in A
    BY <1>1, <1>2
  <2>2. ASSUME NEW i \in Nat, i \in A PROVE i + 1 \in A
    <3> SUFFICES ASSUME i + 1 <= n PROVE h[i + 1] = g[i + 1]
      OBVIOUS
    <3>1. i + 1 \in 1..n /\ i + 1 \in 1..m /\ (i + 1) - 1 = i /\ i <= n
      BY <1>3
    <3>2. h[i] = g[i]
      BY <2>2, <3>1
    <3> QED BY <1>1, <1>2, <1>4, <3>1, <3>2
  <2> HIDE DEF A
  <2> QED BY <2>1, <2>2, Induction
<1>7. h[n] \in Z
  BY <1>1, <1>3, <1>6
<1>8. \A i \in Nat : i \in B
  <2>1. 0 \in B
    BY <1>3, <1>7
  <2>2. ASSUME NEW i \in Nat, i \in B PROVE i + 1 \in B
    <3> DEFINE k == n + (i + 1)
    <3> SUFFICES ASSUME k <= m PROVE h[k] \in Z
      OBVIOUS
    <3>1. k \in (n + 1)..m /\ k \in 1..m /\ k - 1 = n + i /\ n + i <= m
      BY <1>3
    <3>2. h[n + i] \in Z
      BY <2>2, <3>1
    <3> HIDE DEF k
    <3> QED BY <1>2, <1>5, <3>1, <3>2
  <2> HIDE DEF B
  <2> QED BY <2>1, <2>2, Induction
<1>9. m - n \in Nat /\ n + (m - n) = m /\ n + (m - n) <= m
  BY <1>3
<1> QED BY <1>2, <1>8, <1>9

\* Sequences of lines put together, with a set of stages behind each of them.
LEMMA TakesJoined ==
  ASSUME NEW S, NEW ss \in Seq(Seq(S)), NEW T,
         \A k \in 1..Len(ss) : \A t \in T[k - 1] : \E u \in T[k] : Takes(ss[k], t, u),
         NEW s \in T[0]
  PROVE  \A k \in 0..Len(ss) : \E u \in T[k] : Takes(Joined(ss, k), s, u)
<1> DEFINE n == Len(ss)
           A == {i \in Nat : i <= n => \E u \in T[i] : Takes(Joined(ss, i), s, u)}
<1>1. n \in Nat /\ \A k \in 1..n : ss[k] \in Seq(S)
  OBVIOUS
<1>2. 0 \in A
  BY JoinedFacts, TakesFacts
<1>3. ASSUME NEW i \in Nat, i \in A PROVE i + 1 \in A
  <2> DEFINE q == i + 1
  <2> SUFFICES ASSUME q <= n PROVE \E u \in T[q] : Takes(Joined(ss, q), s, u)
    OBVIOUS
  <2>1. q \in 1..n /\ q - 1 = i /\ i <= n /\ i \in 0..n
    BY <1>1
  <2> HIDE DEF q
  <2>2. PICK t \in T[i] : Takes(Joined(ss, i), s, t)
    BY <1>3, <2>1
  <2>3. PICK u \in T[q] : Takes(ss[q], t, u)
    BY <2>1, <2>2
  <2>4. Joined(ss, i) \in Seq(S) /\ Joined(ss, q) = Joined(ss, i) \o ss[q] /\ ss[q] \in Seq(S)
    BY <1>1, <2>1, JoinedFacts
  <2> QED BY <2>2, <2>3, <2>4, TakesBoth
<1> HIDE DEF A
<1>4. \A i \in Nat : i \in A
  BY <1>2, <1>3, Induction
<1> QED BY <1>1, <1>4 DEF A

-----------------------------------------------------------------------------
(* What is in hand, and the lines of a block. *)

Words == Word \cup {"server", "server_name", "port", "location", "cgi", "root",
                     "allowed_methods", "openingBrace", "closingBrace"}
Values == Int \cup Word \cup Seq(Word) \cup {"empty", <<"GET">>}
ConfigLines == [key : Words, value : Values, brace : BOOLEAN]
Locations == [path : Values, methods : Values]
Servers == [port : Values, locations : Seq(Locations), cgi : SUBSET ConfigLines]
Modes == {"parse", "opening", "server", "brace", "location", "cgi", "cgiBehind", "stuck"}
Stages == [mode : Modes, configs : Seq(Servers), server : Servers, location : Locations]

LEMMA ValuesAre ==
  Int \subseteq Values /\ Word \subseteq Values /\ Seq(Word) \subseteq Values /\ Word \subseteq Words
BY DEF Values, Words

LEMMA WordsAre ==
  /\ "server" \in Words /\ "server_name" \in Words /\ "port" \in Words /\ "location" \in Words
  /\ "cgi" \in Words /\ "root" \in Words /\ "allowed_methods" \in Words
  /\ "openingBrace" \in Words /\ "closingBrace" \in Words
BY DEF Words

LEMMA StageType ==
  ASSUME NEW m \in Modes, NEW c \in Seq(Servers), NEW s \in Servers, NEW l \in Locations
  PROVE  Stage(m, c, s, l) \in Stages
BY DEF Stage, Stages

LEMMA StageIs ==
  ASSUME NEW t \in Stages
  PROVE  /\ t = Stage(t.mode, t.configs, t.server, t.location)
         /\ t.mode \in Modes /\ t.configs \in Seq(Servers) /\ t.server \in Servers
         /\ t.location \in Locations
BY DEF Stage, Stages

LEMMA NewType == NewServer \in Servers /\ NewLocation \in Locations
<1>1. 8080 \in Values /\ "empty" \in Values /\ <<"GET">> \in Values
  BY DEF Values
<1>2. <<>> \in Seq(Locations) /\ {} \in SUBSET ConfigLines
  OBVIOUS
<1> QED BY <1>1, <1>2 DEF NewServer, NewLocation, Servers, Locations

\* A line in each stage.
LEMMA AfterStage ==
  ASSUME NEW c, NEW s, NEW l, NEW x
  PROVE  /\ After(Stage("parse", c, s, l), x) = InParse(c, s, l, x)
         /\ After(Stage("opening", c, s, l), x) = InOpening(c, s, l, x)
         /\ After(Stage("server", c, s, l), x) = InServerBlock(c, s, l, x)
         /\ After(Stage("brace", c, s, l), x) = InBrace(c, s, l, x)
         /\ After(Stage("location", c, s, l), x) = InLocation(c, s, l, x)
         /\ After(Stage("cgi", c, s, l), x) = InCgi(c, s, l, x)
         /\ After(Stage("cgiBehind", c, s, l), x) = InCgiBehind(c, s, l, x)
         /\ After(Stage("stuck", c, s, l), x) = Stage("stuck", c, s, l)
<1>1. \A m : LET t == Stage(m, c, s, l)
             IN t.mode = m /\ t.configs = c /\ t.server = s /\ t.location = l
  BY DEF Stage
<1> QED BY <1>1 DEF After

LEMMA GrownType ==
  ASSUME NEW c \in Seq(Servers), NEW hs \in SUBSET ConfigLines
  PROVE  /\ Grown(c, hs) \in Seq(Servers) /\ Len(Grown(c, hs)) = Len(c)
         /\ \A i \in 1..Len(c) :
              /\ Grown(c, hs)[i].port = c[i].port /\ Grown(c, hs)[i].locations = c[i].locations
              /\ Grown(c, hs)[i].cgi = IF i = Len(c) THEN c[i].cgi \cup hs ELSE c[i].cgi
<1>1. CASE Len(c) = 0
  <2>1. Grown(c, hs) = c
    BY <1>1 DEF Grown
  <2> QED BY <1>1, <2>1
<1>2. CASE Len(c) # 0
  <2> DEFINE n == Len(c)
             e == [c[n] EXCEPT !.cgi = @ \cup hs]
  <2>1. n \in 1..Len(c) /\ c[n] \in Servers
    BY <1>2
  <2>2. e \in Servers /\ e.port = c[n].port /\ e.locations = c[n].locations
        /\ e.cgi = c[n].cgi \cup hs
    BY <2>1 DEF Servers
  <2>3. Grown(c, hs) = [c EXCEPT ![n] = e]
    BY DEF Grown
  <2> HIDE DEF e, n
  <2>4. /\ [c EXCEPT ![n] = e] \in Seq(Servers) /\ Len([c EXCEPT ![n] = e]) = Len(c)
        /\ \A j \in 1..Len(c) : [c EXCEPT ![n] = e][j] = IF j = n THEN e ELSE c[j]
    BY <2>1, <2>2, ExceptSeq
  <2> QED BY <2>2, <2>3, <2>4 DEF n
<1>3. Len(c) \in Nat
  OBVIOUS
<1> QED BY <1>1, <1>2

LEMMA AfterType ==
  ASSUME NEW t \in Stages, NEW x \in ConfigLines
  PROVE  After(t, x) \in Stages
<1> DEFINE c == t.configs
           s == t.server
           l == t.location
<1>1. t = Stage(t.mode, c, s, l) /\ t.mode \in Modes
      /\ c \in Seq(Servers) /\ s \in Servers /\ l \in Locations
  BY StageIs
<1> HIDE DEF c, s, l
<1>2. \A m \in Modes : \A d \in Seq(Servers) : \A v \in Servers : \A w \in Locations :
        Stage(m, d, v, w) \in Stages
  BY StageType
<1>3. /\ "parse" \in Modes /\ "opening" \in Modes /\ "server" \in Modes /\ "brace" \in Modes
      /\ "location" \in Modes /\ "cgi" \in Modes /\ "cgiBehind" \in Modes /\ "stuck" \in Modes
  BY DEF Modes
<1>4. x.value \in Values /\ x.brace \in BOOLEAN /\ {x} \in SUBSET ConfigLines
  BY DEF ConfigLines
<1>5. /\ Append(c, s) \in Seq(Servers) /\ Ported(s, x.value) \in Servers
      /\ Located(s, l) \in Servers
      /\ [s EXCEPT !.cgi = @ \cup {x}] \in Servers
  <2>1. Append(c, s) \in Seq(Servers)
    BY <1>1
  <2>2. Append(s.locations, l) \in Seq(Locations)
    BY <1>1 DEF Servers
  <2>3. s.cgi \cup {x} \in SUBSET ConfigLines
    BY <1>1, <1>4 DEF Servers
  <2> QED BY <1>1, <1>4, <2>1, <2>2, <2>3 DEF Servers, Located, Ported
<1>6. /\ [NewLocation EXCEPT !.path = x.value] \in Locations
      /\ [l EXCEPT !.methods = x.value] \in Locations
  <2>1. NewLocation \in Locations
    BY NewType
  <2> QED BY <1>1, <1>4, <2>1 DEF Locations
<1>7. InServerBlock(c, s, l, x) \in Stages
  BY <1>1, <1>2, <1>3, <1>5, <1>6 DEF InServerBlock
<1>8. InParse(c, s, l, x) \in Stages
  BY <1>1, <1>2, <1>3, NewType DEF InParse
<1>9. InLocation(c, s, l, x) \in Stages
  BY <1>1, <1>2, <1>3, <1>5, <1>6 DEF InLocation
<1>10. Grown(c, {x}) \in Seq(Servers)
  BY <1>1, <1>4, GrownType
<1>11. InCgi(c, s, l, x) \in Stages
  BY <1>1, <1>2, <1>3, <1>5 DEF InCgi
<1>12. InCgiBehind(c, s, l, x) \in Stages
  BY <1>1, <1>2, <1>3, <1>10 DEF InCgiBehind
<1>13. InOpening(c, s, l, x) \in Stages
  BY <1>1, <1>2, <1>3, <1>7 DEF InOpening
<1>14. InBrace(c, s, l, x) \in Stages
  BY <1>1, <1>2, <1>3 DEF InBrace
<1>15. Stage("stuck", c, s, l) \in Stages
  BY <1>1, <1>2, <1>3
<1>16. \A m \in Modes : After(Stage(m, c, s, l), x) \in Stages
  <2>1. /\ After(Stage("parse", c, s, l), x) \in Stages
        /\ After(Stage("opening", c, s, l), x) \in Stages
        /\ After(Stage("server", c, s, l), x) \in Stages
        /\ After(Stage("brace", c, s, l), x) \in Stages
        /\ After(Stage("location", c, s, l), x) \in Stages
        /\ After(Stage("cgi", c, s, l), x) \in Stages
        /\ After(Stage("cgiBehind", c, s, l), x) \in Stages
        /\ After(Stage("stuck", c, s, l), x) \in Stages
    BY <1>7, <1>8, <1>9, <1>11, <1>12, <1>13, <1>14, <1>15, AfterStage
  <2> QED BY <2>1 DEF Modes
<1> QED BY <1>1, <1>16

\* The lines the file is made of.
LEMMA LineFacts ==
  /\ \A k \in Words : \A v \in Values : \A b \in BOOLEAN : Line(k, v, b) \in ConfigLines
  /\ \A k, v, b : /\ Line(k, v, b).key = k /\ Line(k, v, b).value = v
                  /\ Line(k, v, b).brace = b
  /\ OpenBrace \in ConfigLines /\ CloseBrace \in ConfigLines
  /\ OpenBrace.key = "openingBrace" /\ OpenBrace.brace = TRUE
  /\ CloseBrace.key = "closingBrace" /\ CloseBrace.brace = FALSE
<1>1. 0 \in Values
  BY ValuesAre
<1>2. /\ \A k \in Words : \A v \in Values : \A b \in BOOLEAN : Line(k, v, b) \in ConfigLines
      /\ \A k, v, b : /\ Line(k, v, b).key = k /\ Line(k, v, b).value = v
                      /\ Line(k, v, b).brace = b
  BY DEF Line, ConfigLines
<1>3. OpenBrace \in ConfigLines /\ CloseBrace \in ConfigLines
  <2>1. /\ Line("openingBrace", 0, TRUE) \in ConfigLines
        /\ Line("closingBrace", 0, FALSE) \in ConfigLines
    BY <1>1, <1>2, WordsAre
  <2> QED BY <2>1 DEF OpenBrace, CloseBrace
<1>4. /\ OpenBrace.key = "openingBrace" /\ OpenBrace.brace = TRUE
      /\ CloseBrace.key = "closingBrace" /\ CloseBrace.brace = FALSE
  BY DEF Line, OpenBrace, CloseBrace
<1> QED BY <1>2, <1>3, <1>4

LEMMA Pair ==
  ASSUME NEW S, NEW a \in S, NEW b \in S
  PROVE  /\ <<a>> \in Seq(S) /\ <<b>> \in Seq(S) /\ <<a, b>> \in Seq(S)
         /\ <<a, b>> = <<a>> \o <<b>>
<1>1. <<a>> \in Seq(S) /\ <<b>> \in Seq(S) /\ <<a, b>> \in Seq(S)
      /\ Len(<<a>>) = 1 /\ Len(<<b>>) = 1 /\ Len(<<a, b>>) = 2
  OBVIOUS
<1>2. /\ <<a>> \o <<b>> \in Seq(S) /\ Len(<<a>> \o <<b>>) = 2
      /\ (<<a>> \o <<b>>)[1] = a /\ (<<a>> \o <<b>>)[2] = b
  BY <1>1, ConcatProperties
<1>3. \A i \in 1..Len(<<a, b>>) : <<a, b>>[i] = (<<a>> \o <<b>>)[i]
  BY <1>2
<1> QED BY <1>1, <1>2, <1>3, SeqEqual

\* A block, from what its opening does and what its body does.
LEMMA BlockTaken ==
  ASSUME NEW key \in Words, NEW value \in Values, NEW inner \in Seq(ConfigLines), NEW st,
         NEW s, NEW r, NEW t,
         IF st = "nextLine"
           THEN r = After(After(s, Line(key, value, FALSE)), OpenBrace)
           ELSE r = After(s, Line(key, value, TRUE)),
         Takes(inner, r, t)
  PROVE  /\ Block(key, value, inner, st) \in Seq(ConfigLines)
         /\ Takes(Block(key, value, inner, st), s, After(t, CloseBrace))
<1> DEFINE open == IF st = "nextLine"
                     THEN <<Line(key, value, FALSE), OpenBrace>>
                     ELSE <<Line(key, value, TRUE)>>
           close == <<CloseBrace>>
<1>1. Block(key, value, inner, st) = (open \o inner) \o close
  BY DEF Block
<1>2. /\ Line(key, value, TRUE) \in ConfigLines /\ Line(key, value, FALSE) \in ConfigLines
      /\ OpenBrace \in ConfigLines /\ CloseBrace \in ConfigLines
  BY LineFacts
<1>3. open \in Seq(ConfigLines) /\ close \in Seq(ConfigLines)
  <2>1. \A a, b \in ConfigLines : <<a, b>> \in Seq(ConfigLines) /\ <<a>> \in Seq(ConfigLines)
    OBVIOUS
  <2> QED BY <1>2, <2>1
<1>4. Takes(open, s, r)
  <2>1. CASE st = "nextLine"
    <3> DEFINE a == Line(key, value, FALSE)
               b == OpenBrace
    <3>1. <<a>> \in Seq(ConfigLines) /\ <<b>> \in Seq(ConfigLines) /\ open = <<a>> \o <<b>>
      <4>1. \A p, q \in ConfigLines : /\ <<p>> \in Seq(ConfigLines) /\ <<q>> \in Seq(ConfigLines)
                                    /\ <<p, q>> = <<p>> \o <<q>>
        BY Pair
      <4>2. open = <<a, b>>
        BY <2>1
      <4> HIDE DEF a, b, open
      <4> QED BY <1>2, <4>1, <4>2 DEF a, b
    <3>2. Takes(<<a>>, s, After(s, a)) /\ Takes(<<b>>, After(s, a), r)
      BY <2>1, TakesFacts
    <3> HIDE DEF a, b, open
    <3> QED BY <3>1, <3>2, TakesBoth
  <2>2. CASE st # "nextLine"
    BY <2>2, TakesFacts
  <2> QED BY <2>1, <2>2
<1>5. Takes(close, t, After(t, CloseBrace))
  BY TakesFacts
<1> HIDE DEF open, close
<1>6. open \o inner \in Seq(ConfigLines) /\ Takes(open \o inner, s, t)
  BY <1>3, <1>4, JoinLength, TakesBoth
<1>7. (open \o inner) \o close \in Seq(ConfigLines)
  BY <1>3, <1>6, JoinLength
<1> QED BY <1>1, <1>3, <1>5, <1>6, <1>7, TakesBoth

-----------------------------------------------------------------------------
(* Locations, and the lines that name handlers. *)

Layouts == {"inline", "nextLine", "cgiBehind", "cgiAhead"}
WrittenLocations == [path : Word, methods : Seq(Word)]

LEMMA WrittenType == WrittenLocations \subseteq Locations
BY ValuesAre DEF WrittenLocations, Locations

\* A line of a server that begins none of its blocks and does not end it.
LEMMA DirectiveTaken ==
  ASSUME NEW c, NEW s, NEW l, NEW x, x.key \notin {"closingBrace", "location"}, ~IsCgi(x)
  PROVE  After(Stage("server", c, s, l), x) =
           Stage("server", c, IF x.key = "port" THEN Ported(s, x.value) ELSE s, l)
<1>1. x # CloseBrace
  BY LineFacts
<1>2. ~IsLocation(x)
  BY DEF IsLocation
<1>3. After(Stage("server", c, s, l), x) = InServerBlock(c, s, l, x)
  BY AfterStage
<1> QED BY <1>1, <1>2, <1>3 DEF InServerBlock

\* The closing brace, in each stage.
LEMMA CloseTaken ==
  ASSUME NEW c, NEW s, NEW l
  PROVE  /\ After(Stage("server", c, s, l), CloseBrace) = Stage("parse", Append(c, s), s, l)
         /\ After(Stage("parse", c, s, l), CloseBrace) = Stage("parse", c, s, l)
         /\ After(Stage("location", c, s, l), CloseBrace) =
              Stage("server", c, Located(s, l), l)
         /\ After(Stage("cgi", c, s, l), CloseBrace) = Stage("server", c, s, l)
         /\ After(Stage("cgiBehind", c, s, l), CloseBrace) = Stage("parse", c, s, l)
<1> DEFINE x == CloseBrace
<1>1. x.key = "closingBrace" /\ x.brace = FALSE
  BY LineFacts
<1>2. ~HasServer(x) /\ ~IsCgi(x)
  <2> HIDE DEF x
  <2> QED BY <1>1 DEF HasServer, IsCgi
<1>3. /\ InServerBlock(c, s, l, x) = Stage("parse", Append(c, s), s, l)
      /\ InLocation(c, s, l, x) = Stage("server", c, Located(s, l), l)
      /\ InCgi(c, s, l, x) = Stage("server", c, s, l)
      /\ InCgiBehind(c, s, l, x) = Stage("parse", c, s, l)
  BY DEF InServerBlock, InLocation, InCgi, InCgiBehind
<1>4. InParse(c, s, l, x) = Stage("parse", c, s, l)
  <2> HIDE DEF x
  <2> QED BY <1>2 DEF InParse
<1> QED BY <1>3, <1>4, AfterStage

\* A location's lines add it to the server.
LEMMA LocationTaken ==
  ASSUME NEW w \in WrittenLocations, NEW st, NEW c, NEW s, NEW l
  PROVE  /\ LocationText(w, st) \in Seq(ConfigLines)
         /\ Takes(LocationText(w, st), Stage("server", c, s, l),
                  Stage("server", c, Located(s, w), w))
<1> DEFINE before == Stage("server", c, s, l)
           new == [path |-> w.path, methods |-> <<"GET">>]
           inside == Stage("location", c, s, new)
           after == Stage("location", c, s, w)
           short == Line("location", w.path, FALSE)
           long == Line("location", w.path, TRUE)
           root == Line("root", 0, FALSE)
           allowed == Line("allowed_methods", w.methods, FALSE)
           inner == IF w.methods = <<"GET">> THEN <<root>> ELSE <<allowed>>
<1>1. w.path \in Values /\ w.methods \in Values /\ 0 \in Values
      /\ w = [path |-> w.path, methods |-> w.methods]
  <2>1. w.path \in Word /\ w.methods \in Seq(Word)
        /\ w = [path |-> w.path, methods |-> w.methods]
    BY DEF WrittenLocations
  <2> QED BY <2>1, ValuesAre
<1>2. /\ After(before, long) = inside
      /\ After(before, short) = Stage("brace", c, s, new)
  <2>1. /\ [NewLocation EXCEPT !.path = w.path] = new
    BY DEF NewLocation
  <2>2. \A x \in {short, long} :
          /\ x # CloseBrace /\ IsLocation(x) /\ x.value = w.path
    <3>1. /\ short.key = "location" /\ long.key = "location"
          /\ short.value = w.path /\ long.value = w.path
      BY DEF Line
    <3> HIDE DEF short, long
    <3> QED BY <3>1, LineFacts DEF IsLocation
  <2>3. short.brace = FALSE /\ long.brace = TRUE
    BY DEF Line
  <2> HIDE DEF short, long, new
  <2>4. \A x \in {short, long} :
          After(before, x) = Stage(IF x.brace THEN "location" ELSE "brace", c, s, new)
    <3>1. \A x : After(before, x) = InServerBlock(c, s, l, x)
      BY AfterStage
    <3> HIDE DEF before
    <3> QED BY <2>1, <2>2, <3>1 DEF InServerBlock
  <2> QED BY <2>3, <2>4
<1>3. After(Stage("brace", c, s, new), OpenBrace) = inside
  <2> HIDE DEF new
  <2> QED BY AfterStage, LineFacts DEF InBrace
<1>4. inner \in Seq(ConfigLines) /\ Takes(inner, inside, after)
  <2>1. root \in ConfigLines /\ allowed \in ConfigLines
    BY <1>1, LineFacts, WordsAre
  <2>2. /\ root.key = "root" /\ allowed.key = "allowed_methods" /\ allowed.value = w.methods
    BY DEF Line
  <2>3. root # CloseBrace /\ allowed # CloseBrace
    <3> HIDE DEF root, allowed
    <3> QED BY <2>2, LineFacts
  <2>4. /\ After(inside, root) = inside
        /\ After(inside, allowed) = Stage("location", c, s, [new EXCEPT !.methods = w.methods])
    <3>1. \A x : After(inside, x) = InLocation(c, s, new, x)
      BY AfterStage
    <3> HIDE DEF root, allowed, new
    <3> QED BY <2>2, <2>3, <3>1 DEF InLocation
  <2>5. [new EXCEPT !.methods = w.methods] = w
    BY <1>1
  <2>6. w.methods = <<"GET">> => new = w
    BY <1>1
  <2>7. <<root>> \in Seq(ConfigLines) /\ <<allowed>> \in Seq(ConfigLines)
    <3> HIDE DEF root, allowed
    <3> QED BY <2>1
  <2>8. Takes(<<root>>, inside, After(inside, root)) /\ Takes(<<allowed>>, inside, After(inside, allowed))
    BY TakesFacts
  <2> HIDE DEF root, allowed, new
  <2> QED BY <2>4, <2>5, <2>6, <2>7, <2>8
<1>5. LocationText(w, st) = Block("location", w.path, inner, st)
  BY DEF LocationText
<1> HIDE DEF before, inside, inner
<1>6. IF st = "nextLine"
        THEN inside = After(After(before, Line("location", w.path, FALSE)), OpenBrace)
        ELSE inside = After(before, Line("location", w.path, TRUE))
  BY <1>2, <1>3
<1>7. /\ Block("location", w.path, inner, st) \in Seq(ConfigLines)
      /\ Takes(Block("location", w.path, inner, st), before, After(after, CloseBrace))
  <2> HIDE DEF after
  <2> QED BY <1>1, <1>4, <1>6, WordsAre, BlockTaken
<1>8. After(after, CloseBrace) = Stage("server", c, Located(s, w), w)
  BY CloseTaken
<1> HIDE DEF after
<1> QED BY <1>5, <1>7, <1>8 DEF before

LEMMA HandlersType == Handlers \subseteq ConfigLines
<1> SUFFICES ASSUME NEW h \in Handlers PROVE h \in ConfigLines
  OBVIOUS
<1>1. h \in [key : Word, value : {0}, brace : {FALSE}]
  BY DEF Handlers
<1>2. 0 \in Values /\ FALSE \in BOOLEAN /\ Word \subseteq Words
  BY ValuesAre
<1> QED BY <1>1, <1>2 DEF ConfigLines

\* The handlers of a set, one a line.
LEMMA HandlersListed ==
  ASSUME NEW hs \in SUBSET Handlers, IsFiniteSet(hs)
  PROVE  /\ SetToSeq(hs) \in Seq(ConfigLines)
         /\ {SetToSeq(hs)[i] : i \in 1..Len(SetToSeq(hs))} = hs
         /\ \A i \in 1..Len(SetToSeq(hs)) : SetToSeq(hs)[i] \in Handlers
<1> DEFINE n == Cardinality(hs)
           q == SetToSeq(hs)
<1>1. n \in Nat /\ ExistsBijection(1..n, hs)
  BY FS_CardinalityType
<1>2. PICK f \in [1..n -> hs] : IsInjective(f)
  BY <1>1 DEF ExistsBijection, Bijection, Injection, IsInjective
<1>3. q \in [1..n -> hs] /\ IsInjective(q)
  <2>1. q = CHOOSE g \in [1..n -> hs] : IsInjective(g)
    BY DEF SetToSeq
  <2>2. IsInjective(f)
    BY <1>2
  <2> HIDE DEF q, n
  <2>3. q \in [1..n -> hs] /\ IsInjective(q)
    BY <2>1, <2>2
  <2> QED BY <2>3
<1>4. IsFiniteSet(1..n) /\ Cardinality(1..n) = n
  BY <1>1, FS_Interval
<1> HIDE DEF n, q
<1>5. q \in Surjection(1..n, hs)
  <2>1. q \in Injection(1..n, hs)
    BY <1>3 DEF Injection
  <2> QED BY <1>4, <2>1, FS_Injection DEF n
<1>6. q \in Seq(hs) /\ Len(q) = n /\ {q[i] : i \in 1..n} = hs
  BY <1>1, <1>3, <1>5 DEF Surjection
<1>7. Handlers \subseteq ConfigLines
  BY HandlersType
<1>8. q \in Seq(ConfigLines)
  BY <1>6, <1>7, SeqMonotonic
<1> QED BY <1>3, <1>6, <1>8 DEF q

-----------------------------------------------------------------------------
(* CGI blocks. *)

\* Lines lead from a stage to a stage.
LEMMA TakesType ==
  ASSUME NEW x \in Seq(ConfigLines), NEW s \in Stages, NEW t, Takes(x, s, t)
  PROVE  t \in Stages
<1>1. PICK g : g[0] = s /\ g[Len(x)] = t /\ \A k \in 1..Len(x) : g[k] = After(g[k - 1], x[k])
  BY DEF Takes
<1> DEFINE n == Len(x)
           A == {k \in Nat : k <= n => g[k] \in Stages}
<1>2. n \in Nat /\ \A k \in 1..n : x[k] \in ConfigLines
  OBVIOUS
<1>3. 0 \in A
  BY <1>1
<1>4. ASSUME NEW k \in Nat, k \in A PROVE k + 1 \in A
  <2> SUFFICES ASSUME k + 1 <= n PROVE g[k + 1] \in Stages
    OBVIOUS
  <2>1. k + 1 \in 1..n /\ (k + 1) - 1 = k /\ g[k] \in Stages
    BY <1>2, <1>4
  <2> QED BY <1>1, <1>2, <2>1, AfterType
<1> HIDE DEF A
<1>5. n \in A
  BY <1>2, <1>3, <1>4, Induction
<1> QED BY <1>1, <1>2, <1>5 DEF A

\* What sticks remains so.
LEMMA StuckTaken ==
  ASSUME NEW x \in Seq(ConfigLines), NEW c, NEW s, NEW l
  PROVE  Takes(x, Stage("stuck", c, s, l), Stage("stuck", c, s, l))
<1> DEFINE n == Len(x)
           t == Stage("stuck", c, s, l)
           g == [k \in 0..n |-> t]
<1>1. n \in Nat
  OBVIOUS
<1>2. \A k \in 1..n : After(t, x[k]) = t
  BY AfterStage
<1> HIDE DEF n, t
<1>3. g[0] = t /\ g[n] = t /\ \A k \in 1..n : g[k] = t /\ g[k - 1] = t
  BY <1>1
<1> HIDE DEF g
<1>4. \A k \in 1..Len(x) : g[k] = After(g[k - 1], x[k])
  BY <1>2, <1>3 DEF n
<1> QED BY <1>3, <1>4, TakesFacts DEF n, t

\* Handlers added in two steps.
LEMMA GrownTwice ==
  ASSUME NEW c \in Seq(Servers), NEW a \in SUBSET ConfigLines, NEW b \in SUBSET ConfigLines
  PROVE  Grown(Grown(c, a), b) = Grown(c, a \cup b) /\ Grown(c, {}) = c
<1> DEFINE d == Grown(c, a)
           e == Grown(d, b)
           f == Grown(c, a \cup b)
           h == Grown(c, {})
<1>1. /\ d \in Seq(Servers) /\ Len(d) = Len(c)
      /\ \A i \in 1..Len(c) : /\ d[i].port = c[i].port /\ d[i].locations = c[i].locations
                              /\ d[i].cgi = IF i = Len(c) THEN c[i].cgi \cup a ELSE c[i].cgi
  BY GrownType
<1>2. a \cup b \in SUBSET ConfigLines /\ {} \in SUBSET ConfigLines
  OBVIOUS
<1>3. /\ f \in Seq(Servers) /\ Len(f) = Len(c)
      /\ \A i \in 1..Len(c) :
           /\ f[i].port = c[i].port /\ f[i].locations = c[i].locations
           /\ f[i].cgi = IF i = Len(c) THEN c[i].cgi \cup (a \cup b) ELSE c[i].cgi
  BY <1>2, GrownType
<1>4. /\ h \in Seq(Servers) /\ Len(h) = Len(c)
      /\ \A i \in 1..Len(c) : /\ h[i].port = c[i].port /\ h[i].locations = c[i].locations
                              /\ h[i].cgi = IF i = Len(c) THEN c[i].cgi \cup {} ELSE c[i].cgi
  BY <1>2, GrownType
<1> HIDE DEF d
<1>5. /\ e \in Seq(Servers) /\ Len(e) = Len(d)
      /\ \A i \in 1..Len(d) : /\ e[i].port = d[i].port /\ e[i].locations = d[i].locations
                              /\ e[i].cgi = IF i = Len(d) THEN d[i].cgi \cup b ELSE d[i].cgi
  BY <1>1, GrownType
<1> HIDE DEF e, f, h
<1>6. \A r, q \in Servers : r.port = q.port /\ r.locations = q.locations /\ r.cgi = q.cgi => r = q
  BY DEF Servers
<1>7. ASSUME NEW i \in 1..Len(c) PROVE e[i] = f[i] /\ h[i] = c[i]
  <2>1. e[i] \in Servers /\ f[i] \in Servers /\ h[i] \in Servers /\ c[i] \in Servers
    BY <1>1, <1>3, <1>4, <1>5
  <2>2. e[i].port = f[i].port /\ e[i].locations = f[i].locations /\ e[i].cgi = f[i].cgi
    BY ZenonT(40), <1>1, <1>3, <1>5
  <2>3. h[i].port = c[i].port /\ h[i].locations = c[i].locations /\ h[i].cgi = c[i].cgi
    BY <1>4
  <2> QED BY <1>6, <2>1, <2>2, <2>3
<1>8. e = f /\ h = c
  BY <1>1, <1>3, <1>4, <1>5, <1>7, SeqEqual
<1> QED BY <1>8 DEF d, e, f, h

\* A server that was added last, with handlers.
LEMMA GrownLast ==
  ASSUME NEW c \in Seq(Servers), NEW s \in Servers, NEW hs \in SUBSET ConfigLines
  PROVE  Grown(Append(c, s), hs) = Append(c, [s EXCEPT !.cgi = @ \cup hs])
<1> DEFINE d == Append(c, s)
           n == Len(c) + 1
           r == [s EXCEPT !.cgi = @ \cup hs]
<1>1. d \in Seq(Servers) /\ Len(d) = n /\ d[n] = s /\ \A i \in 1..Len(c) : d[i] = c[i]
  BY AppendProperties
<1>2. r \in Servers
  BY DEF Servers
<1>3. Grown(d, hs) = [d EXCEPT ![n] = r]
  <2> HIDE DEF d, n
  <2> QED BY <1>1 DEF Grown
<1>4. n \in 1..Len(d)
  BY <1>1
<1> DEFINE e == Append(c, r)
<1>5. e \in Seq(Servers) /\ Len(e) = n /\ e[n] = r /\ \A i \in 1..Len(c) : e[i] = c[i]
  <2> HIDE DEF r
  <2> QED BY <1>2, AppendProperties
<1> HIDE DEF d, e, r
<1>6. /\ [d EXCEPT ![n] = r] \in Seq(Servers) /\ Len([d EXCEPT ![n] = r]) = n
      /\ \A i \in 1..n : [d EXCEPT ![n] = r][i] = IF i = n THEN r ELSE d[i]
  BY <1>1, <1>2, <1>4, ExceptSeq
<1>7. \A i \in 1..n : [d EXCEPT ![n] = r][i] = e[i]
  <2> TAKE i \in 1..n
  <2>1. i = n \/ i \in 1..Len(c)
    OBVIOUS
  <2> HIDE DEF n
  <2> QED BY <1>1, <1>5, <1>6, <2>1
<1>8. [d EXCEPT ![n] = r] = e
  <2> HIDE DEF n
  <2> QED BY <1>5, <1>6, <1>7, SeqEqual
<1> QED BY <1>3, <1>8 DEF d, e, r

\* The lines that name handlers: inside a CGI block they are added, to the server
\* or to the last one; in a server they are ignored.
LEMMA HandlersTaken ==
  ASSUME NEW hs \in SUBSET Handlers, IsFiniteSet(hs),
         NEW c \in Seq(Servers), NEW s \in Servers, NEW l
  PROVE  LET q == SetToSeq(hs)
         IN /\ q \in Seq(ConfigLines) /\ hs \in SUBSET ConfigLines
            /\ Takes(q, Stage("cgi", c, s, l), Stage("cgi", c, [s EXCEPT !.cgi = @ \cup hs], l))
            /\ Takes(q, Stage("cgiBehind", c, s, l), Stage("cgiBehind", Grown(c, hs), s, l))
            /\ Takes(q, Stage("server", c, s, l), Stage("server", c, s, l))
<1> DEFINE q == SetToSeq(hs)
           n == Len(q)
<1>1. /\ q \in Seq(ConfigLines) /\ {q[i] : i \in 1..n} = hs
      /\ \A i \in 1..n : q[i] \in Handlers
  BY HandlersListed
<1> HIDE DEF q
<1> DEFINE F(k) == {q[i] : i \in 1..k}
<1>2. n \in Nat
  BY <1>1
<1>3. /\ F(0) = {} /\ F(n) = hs
      /\ \A k \in 1..n : F(k) = F(k - 1) \cup {q[k]}
      /\ \A k \in 0..n : F(k) \in SUBSET ConfigLines
  <2>1. F(0) = {} /\ F(n) = hs
    BY <1>1
  <2>2. \A k \in 0..n : F(k) \in SUBSET ConfigLines
    BY <1>1
  <2>3. \A k \in 1..n : F(k) = F(k - 1) \cup {q[k]}
    <3> TAKE k \in 1..n
    <3>1. \A i : i \in 1..k <=> i \in 1..(k - 1) \/ i = k
      BY <1>2
    <3> QED BY <3>1
  <2> QED BY <2>1, <2>2, <2>3
<1>4. \A k \in 1..n : q[k] # CloseBrace /\ {q[k]} \in SUBSET ConfigLines
  <2> TAKE k \in 1..n
  <2>1. q[k].key # "closingBrace"
    BY <1>1 DEF Handlers
  <2>2. q[k] \in ConfigLines
    BY <1>1
  <2> QED BY <2>1, <2>2, LineFacts
<1> HIDE DEF n, F
<1>5. Takes(q, Stage("cgi", c, s, l), Stage("cgi", c, [s EXCEPT !.cgi = @ \cup hs], l))
  <2> DEFINE g == [k \in 0..n |-> Stage("cgi", c, [s EXCEPT !.cgi = @ \cup F(k)], l)]
  <2>1. [s EXCEPT !.cgi = @ \cup F(0)] = s
    BY <1>3 DEF Servers
  <2>2. ASSUME NEW k \in 1..n PROVE g[k] = After(g[k - 1], q[k])
    <3> DEFINE r == [s EXCEPT !.cgi = @ \cup F(k - 1)]
    <3>1. g[k - 1] = Stage("cgi", c, r, l) /\ k - 1 \in 0..n
      BY <1>2
    <3>2. [r EXCEPT !.cgi = @ \cup {q[k]}] = [s EXCEPT !.cgi = @ \cup F(k)]
      <4>1. F(k) = F(k - 1) \cup {q[k]}
        BY <1>3
      <4> QED BY <4>1 DEF Servers
    <3>3. g[k] = Stage("cgi", c, [s EXCEPT !.cgi = @ \cup F(k)], l)
      BY <1>2
    <3>4. After(Stage("cgi", c, r, l), q[k]) = InCgi(c, r, l, q[k])
      BY AfterStage
    <3> HIDE DEF r, g
    <3> QED BY <1>4, <3>1, <3>2, <3>3, <3>4 DEF InCgi
  <2>3. g[0] = Stage("cgi", c, s, l) /\ g[n] = Stage("cgi", c, [s EXCEPT !.cgi = @ \cup hs], l)
    BY <1>2, <1>3, <2>1
  <2> HIDE DEF g
  <2> QED BY <2>2, <2>3, TakesFacts DEF n
<1>6. Takes(q, Stage("cgiBehind", c, s, l), Stage("cgiBehind", Grown(c, hs), s, l))
  <2> DEFINE g == [k \in 0..n |-> Stage("cgiBehind", Grown(c, F(k)), s, l)]
  <2>1. ASSUME NEW k \in 1..n PROVE g[k] = After(g[k - 1], q[k])
    <3> DEFINE d == Grown(c, F(k - 1))
    <3>1. g[k - 1] = Stage("cgiBehind", d, s, l) /\ k - 1 \in 0..n
      BY <1>2
    <3>2. Grown(d, {q[k]}) = Grown(c, F(k))
      <4>1. F(k) = F(k - 1) \cup {q[k]} /\ F(k - 1) \in SUBSET ConfigLines
        BY <1>3, <3>1
      <4> QED BY <1>4, <4>1, GrownTwice
    <3>3. g[k] = Stage("cgiBehind", Grown(c, F(k)), s, l)
      BY <1>2
    <3>4. After(Stage("cgiBehind", d, s, l), q[k]) = InCgiBehind(d, s, l, q[k])
      BY AfterStage
    <3> HIDE DEF d, g
    <3> QED BY <1>4, <3>1, <3>2, <3>3, <3>4 DEF InCgiBehind
  <2>2. Grown(c, {}) = c
    BY GrownTwice
  <2>3. g[0] = Stage("cgiBehind", c, s, l) /\ g[n] = Stage("cgiBehind", Grown(c, hs), s, l)
    <3>1. /\ g[0] = Stage("cgiBehind", Grown(c, F(0)), s, l)
          /\ g[n] = Stage("cgiBehind", Grown(c, F(n)), s, l)
      BY <1>2
    <3> HIDE DEF g
    <3> QED BY <1>3, <2>2, <3>1
  <2> HIDE DEF g
  <2> QED BY <2>1, <2>3, TakesFacts DEF n
<1>7. Takes(q, Stage("server", c, s, l), Stage("server", c, s, l))
  <2> DEFINE t == Stage("server", c, s, l)
             g == [k \in 0..n |-> t]
  <2>1. ASSUME NEW k \in 1..n PROVE After(t, q[k]) = t
    <3>1. q[k].key \notin {"closingBrace", "location"} /\ q[k].key # "port" /\ q[k].brace = FALSE
      BY <1>1 DEF Handlers, n
    <3>2. ~IsCgi(q[k])
      BY <3>1 DEF IsCgi
    <3> QED BY <3>1, <3>2, DirectiveTaken
  <2> HIDE DEF t
  <2>2. g[0] = t /\ g[n] = t /\ \A k \in 1..n : g[k] = t /\ g[k - 1] = t
    BY <1>2
  <2> HIDE DEF g
  <2>3. \A k \in 1..Len(q) : g[k] = After(g[k - 1], q[k])
    BY <2>1, <2>2 DEF n
  <2> QED BY <2>2, <2>3, TakesFacts DEF n, t
<1>8. hs \in SUBSET ConfigLines
  BY HandlersType
<1> QED BY <1>1, <1>5, <1>6, <1>7, <1>8 DEF q

-----------------------------------------------------------------------------
(* A server. *)

WrittenServers == [port : Int, locations : Seq(WrittenLocations), cgi : SUBSET Handlers]

CgiWithin(sv, st) == IF st \in {"inline", "nextLine"} THEN CgiText(sv, st) ELSE <<>>
Handed(s, sv, st) == [s EXCEPT !.cgi = IF st = "inline" THEN sv.cgi ELSE {}]

\* A CGI block in a server gives it its handlers, with the brace in its first line;
\* with the brace in the next line it is ignored, and its end is the server's.
LEMMA CgiInside ==
  ASSUME NEW sv \in WrittenServers, IsFiniteSet(sv.cgi), NEW st,
         NEW c \in Seq(Servers), NEW s \in Servers, s.cgi = {}, NEW l
  PROVE  /\ CgiWithin(sv, st) \in Seq(ConfigLines)
         /\ \E t : /\ Takes(CgiWithin(sv, st), Stage("server", c, s, l), t)
                   /\ After(t, CloseBrace) =
                        Stage("parse", Append(c, Handed(s, sv, st)), Handed(s, sv, st), l)
<1> DEFINE hs == sv.cgi
           q == SetToSeq(hs)
           before == Stage("server", c, s, l)
           short == Line("cgi", 0, FALSE)
           long == Line("cgi", 0, TRUE)
           grown == [s EXCEPT !.cgi = hs]
<1>1. hs \in SUBSET Handlers
  BY DEF WrittenServers
<1>2. [s EXCEPT !.cgi = {}] = s /\ [s EXCEPT !.cgi = @ \cup hs] = grown
  BY DEF Servers
<1>3. After(before, CloseBrace) = Stage("parse", Append(c, s), s, l)
  BY CloseTaken
<1>4. CASE st \notin {"inline", "nextLine"} \/ hs = {}
  <2>1. CgiWithin(sv, st) = <<>>
    BY <1>4 DEF CgiText, CgiWithin
  <2>2. Handed(s, sv, st) = s
    BY <1>2, <1>4 DEF Handed
  <2>3. Takes(<<>>, before, before) /\ <<>> \in Seq(ConfigLines)
    BY TakesFacts
  <2> HIDE DEF before, hs
  <2> QED BY <1>3, <2>1, <2>2, <2>3 DEF before, hs
<1>5. /\ q \in Seq(ConfigLines)
      /\ Takes(q, Stage("cgi", c, s, l), Stage("cgi", c, grown, l))
      /\ Takes(q, before, before)
  <2> HIDE DEF hs
  <2> QED BY <1>1, <1>2, HandlersTaken DEF hs
<1>6. 0 \in Values /\ "cgi" \in Words
  BY ValuesAre, WordsAre
<1>7. CASE st = "inline" /\ hs # {}
  <2>1. After(before, long) = Stage("cgi", c, s, l)
    <3>1. long.key = "cgi" /\ long.brace = TRUE
      BY DEF Line
    <3>2. After(before, long) = InServerBlock(c, s, l, long)
      BY ZenonT(40), AfterStage
    <3> HIDE DEF long, before
    <3>3. long # CloseBrace /\ ~IsLocation(long) /\ IsCgi(long)
      BY <3>1, LineFacts DEF IsLocation, IsCgi
    <3> QED BY <3>2, <3>3 DEF InServerBlock
  <2>2. After(Stage("cgi", c, grown, l), CloseBrace) = Stage("server", c, grown, l)
    BY CloseTaken
  <2>3. CgiText(sv, st) = Block("cgi", 0, q, st)
    BY <1>7 DEF CgiText
  <2> DEFINE b == Block("cgi", 0, q, st)
             mid == Stage("cgi", c, s, l)
             end == Stage("cgi", c, grown, l)
  <2> HIDE DEF q, before, grown
  <2>4. b \in Seq(ConfigLines) /\ Takes(b, before, After(end, CloseBrace))
    <3>1. IF st = "nextLine"
            THEN mid = After(After(before, Line("cgi", 0, FALSE)), OpenBrace)
            ELSE mid = After(before, Line("cgi", 0, TRUE))
      BY <1>7, <2>1
    <3> HIDE DEF mid, end
    <3> QED BY <1>5, <1>6, <3>1, BlockTaken DEF mid, end
  <2>5. After(Stage("server", c, grown, l), CloseBrace) = Stage("parse", Append(c, grown), grown, l)
    BY CloseTaken
  <2>6. Takes(b, before, Stage("server", c, grown, l))
    BY <2>2, <2>4
  <2> HIDE DEF b, CgiWithin
  <2>7. CgiWithin(sv, st) = b
    BY <1>7, <2>3 DEF b, CgiWithin
  <2>8. Handed(s, sv, st) = grown
    BY <1>7 DEF grown, Handed
  <2> HIDE DEF hs
  <2> QED BY <2>4, <2>5, <2>6, <2>7, <2>8 DEF before, hs
<1>8. CASE st = "nextLine" /\ hs # {}
  <2>1. After(before, short) = before /\ After(before, OpenBrace) = before
    <3>1. /\ short.key = "cgi" /\ short.brace = FALSE
          /\ OpenBrace.key = "openingBrace"
      BY DEF Line, OpenBrace
    <3> HIDE DEF short
    <3>2. ~IsCgi(short) /\ ~IsCgi(OpenBrace)
      BY <3>1 DEF IsCgi
    <3> QED BY <3>1, <3>2, DirectiveTaken
  <2>2. CgiText(sv, st) = Block("cgi", 0, q, st)
    BY <1>8 DEF CgiText
  <2> DEFINE b == Block("cgi", 0, q, st)
             end == Stage("parse", Append(c, s), s, l)
  <2> HIDE DEF q, before
  <2>3. b \in Seq(ConfigLines) /\ Takes(b, before, After(before, CloseBrace))
    <3>1. IF st = "nextLine"
            THEN before = After(After(before, Line("cgi", 0, FALSE)), OpenBrace)
            ELSE before = After(before, Line("cgi", 0, TRUE))
      BY <1>8, <2>1
    <3> QED BY <1>5, <1>6, <3>1, BlockTaken
  <2>4. After(end, CloseBrace) = end
    BY CloseTaken
  <2>5. Takes(b, before, end)
    BY <1>3, <2>3
  <2> HIDE DEF b, CgiWithin
  <2>6. CgiWithin(sv, st) = b
    BY <1>8, <2>2 DEF b, CgiWithin
  <2>7. Handed(s, sv, st) = s
    BY <1>2, <1>8 DEF Handed
  <2> HIDE DEF hs
  <2> QED BY <2>3, <2>4, <2>5, <2>6, <2>7 DEF before, end, hs
<1> QED BY <1>4, <1>7, <1>8

\* One outside gives the last server its handlers, and sticks if there is none.
LEMMA CgiOutside ==
  ASSUME NEW sv \in WrittenServers, IsFiniteSet(sv.cgi), NEW st \in {"cgiBehind", "cgiAhead"},
         NEW c \in Seq(Servers), NEW s \in Servers, NEW l
  PROVE  LET text == CgiText(sv, st)
         IN /\ text \in Seq(ConfigLines)
            /\ Takes(text, Stage("parse", c, s, l),
                     IF c = <<>> /\ sv.cgi # {} THEN Stage("stuck", c, s, l)
                     ELSE Stage("parse", Grown(c, sv.cgi), s, l))
<1> DEFINE hs == sv.cgi
           q == SetToSeq(hs)
           before == Stage("parse", c, s, l)
           long == Line("cgi", 0, TRUE)
           b == Block("cgi", 0, q, st)
<1>1. hs \in SUBSET Handlers
  BY DEF WrittenServers
<1>2. CASE hs = {}
  <2>1. CgiText(sv, st) = <<>>
    BY <1>2 DEF CgiText
  <2>2. Grown(c, hs) = c
    BY <1>2, GrownTwice
  <2>3. Takes(<<>>, before, before) /\ <<>> \in Seq(ConfigLines)
    BY TakesFacts
  <2> HIDE DEF before
  <2> QED BY <1>2, <2>1, <2>2, <2>3 DEF before
<1>3. CASE hs # {}
  <2>1. After(before, long) = Stage(IF c = <<>> THEN "stuck" ELSE "cgiBehind", c, s, l)
    <3>1. long.key = "cgi" /\ long.brace = TRUE
      BY DEF Line
    <3>2. After(before, long) = InParse(c, s, l, long)
      BY ZenonT(40), AfterStage
    <3> HIDE DEF long, before
    <3>3. ~HasServer(long) /\ IsCgi(long)
      BY <3>1 DEF HasServer, IsCgi
    <3> QED BY <3>2, <3>3 DEF InParse
  <2>2. CgiText(sv, st) = b
    BY <1>3 DEF CgiText
  <2>3. /\ q \in Seq(ConfigLines)
        /\ Takes(q, Stage("cgiBehind", c, s, l), Stage("cgiBehind", Grown(c, hs), s, l))
    <3> HIDE DEF hs
    <3> QED BY <1>1, HandlersTaken DEF hs
  <2>4. Takes(q, Stage("stuck", c, s, l), Stage("stuck", c, s, l))
    BY <2>3, StuckTaken
  <2>5. /\ After(Stage("cgiBehind", Grown(c, hs), s, l), CloseBrace)
             = Stage("parse", Grown(c, hs), s, l)
        /\ After(Stage("stuck", c, s, l), CloseBrace) = Stage("stuck", c, s, l)
    BY CloseTaken, AfterStage
  <2> DEFINE mid == Stage(IF c = <<>> THEN "stuck" ELSE "cgiBehind", c, s, l)
             end == IF c = <<>> THEN Stage("stuck", c, s, l)
                                ELSE Stage("cgiBehind", Grown(c, hs), s, l)
             last == IF c = <<>> THEN Stage("stuck", c, s, l)
                                 ELSE Stage("parse", Grown(c, hs), s, l)
  <2>6. Takes(q, mid, end)
    BY <2>3, <2>4
  <2>7. After(end, CloseBrace) = last
    BY <2>5
  <2>8. 0 \in Values /\ "cgi" \in Words
    BY ValuesAre, WordsAre
  <2> HIDE DEF q, before, end, last
  <2>9. b \in Seq(ConfigLines) /\ Takes(b, before, After(end, CloseBrace))
    <3>1. IF st = "nextLine"
            THEN mid = After(After(before, Line("cgi", 0, FALSE)), OpenBrace)
            ELSE mid = After(before, Line("cgi", 0, TRUE))
      BY <2>1
    <3> HIDE DEF mid
    <3> QED BY <2>3, <2>6, <2>8, <3>1, BlockTaken
  <2> HIDE DEF b, CgiWithin
  <2> QED BY <1>3, <2>2, <2>7, <2>9 DEF before, last
<1> QED BY <1>2, <1>3

\* All parts of what is put together are at its start.
LEMMA JoinedStart ==
  ASSUME NEW S, NEW ss \in Seq(Seq(S)), NEW s, IsAt(s, FlattenSeq(ss), 1)
  PROVE  \A k \in 0..Len(ss) : /\ IsAt(s, Joined(ss, k), 1)
                              /\ Len(Joined(ss, k)) <= Len(FlattenSeq(ss))
<1> DEFINE n == Len(ss)
           T == {j \in Nat : j <= n => /\ IsAt(s, Joined(ss, n - j), 1)
                                     /\ Len(Joined(ss, n - j)) <= Len(FlattenSeq(ss))}
<1>1. n \in Nat /\ \A k \in 1..n : ss[k] \in Seq(S)
  OBVIOUS
<1>2. /\ Joined(ss, n) = FlattenSeq(ss)
      /\ \A k \in 0..n : Joined(ss, k) \in Seq(S)
      /\ \A k \in 1..n : Joined(ss, k) = Joined(ss, k - 1) \o ss[k]
  BY JoinedFacts
<1> HIDE DEF n
<1>3. 0 \in T
  <2>1. n - 0 = n /\ n \in 0..n
    BY <1>1
  <2>2. Len(FlattenSeq(ss)) \in Nat
    BY <1>2, <2>1
  <2> QED BY <1>2, <2>1, <2>2
<1>4. ASSUME NEW j \in Nat, j \in T PROVE j + 1 \in T
  <2> DEFINE k == n - j
             m == n - (j + 1)
  <2> SUFFICES ASSUME j + 1 <= n
               PROVE  IsAt(s, Joined(ss, m), 1) /\ Len(Joined(ss, m)) <= Len(FlattenSeq(ss))
    OBVIOUS
  <2>1. k \in 1..n /\ k - 1 = m /\ m \in 0..n /\ j <= n /\ k \in 0..n /\ n \in 0..n
    BY <1>1
  <2>2. IsAt(s, Joined(ss, k), 1) /\ Len(Joined(ss, k)) <= Len(FlattenSeq(ss))
    BY <1>4, <2>1
  <2> HIDE DEF k, m
  <2>3. Joined(ss, m) \in Seq(S) /\ ss[k] \in Seq(S) /\ Joined(ss, k) = Joined(ss, m) \o ss[k]
    BY <1>1, <1>2, <2>1
  <2>4. IsAt(s, Joined(ss, m), 1) /\ Len(Joined(ss, k)) = Len(Joined(ss, m)) + Len(ss[k])
        /\ Len(Joined(ss, m)) \in Nat /\ Len(ss[k]) \in Nat
    BY <2>2, <2>3, JoinAt, JoinLength
  <2>5. Len(FlattenSeq(ss)) \in Nat
    BY <1>2, <2>1
  <2> QED BY <2>2, <2>4, <2>5
<1>5. ASSUME NEW k \in 0..n
      PROVE  IsAt(s, Joined(ss, k), 1) /\ Len(Joined(ss, k)) <= Len(FlattenSeq(ss))
  <2>1. n - k \in Nat /\ n - k <= n /\ n - (n - k) = k
    BY <1>1
  <2>2. n - k \in T
    <3> HIDE DEF T
    <3> QED BY <1>3, <1>4, <2>1, Induction
  <2> QED BY <2>1, <2>2
<1> QED BY <1>5 DEF n

Placed(s, ws) == [s EXCEPT !.locations = ws]

Server(p, ls, hs) == [port |-> p, locations |-> ls, cgi |-> hs]

\* A server's record, with one part changed.
LEMMA ServerParts ==
  /\ \A p, ls, hs, x : Ported(Server(p, ls, hs), x) = Server(x, ls, hs)
  /\ \A p, ls, hs, x : Placed(Server(p, ls, hs), x) = Server(p, x, hs)
  /\ \A p, ls, hs, sv, st :
       Handed(Server(p, ls, hs), sv, st) = Server(p, ls, IF st = "inline" THEN sv.cgi ELSE {})
  /\ \A p \in Values : \A ls \in Seq(Locations) : Server(p, ls, {}) \in Servers
  /\ \A p, ls, hs : /\ Server(p, ls, hs).port = p /\ Server(p, ls, hs).locations = ls
                    /\ Server(p, ls, hs).cgi = hs
<1>1. /\ \A p, ls, hs, x : Ported(Server(p, ls, hs), x) = Server(x, ls, hs)
      /\ \A p, ls, hs, x : Placed(Server(p, ls, hs), x) = Server(p, x, hs)
      /\ \A p, ls, hs, sv, st :
           Handed(Server(p, ls, hs), sv, st) = Server(p, ls, IF st = "inline" THEN sv.cgi ELSE {})
  BY DEF Ported, Placed, Handed, Server
<1>2. /\ \A p \in Values : \A ls \in Seq(Locations) : Server(p, ls, {}) \in Servers
      /\ \A p, ls, hs : /\ Server(p, ls, hs).port = p /\ Server(p, ls, hs).locations = ls
                        /\ Server(p, ls, hs).cgi = hs
  BY DEF Server, Servers
<1> QED BY <1>1, <1>2

\* The texts of a server's locations, and what they do.
LocationTexts(ws, st) == [i \in DOMAIN ws |-> LocationText(ws[i], st)]

LEMMA LocationsTaken ==
  ASSUME NEW ws \in Seq(WrittenLocations), NEW st, NEW c, NEW s \in Servers, s.locations = <<>>,
         NEW l \in Locations
  PROVE  /\ FlattenSeq(LocationTexts(ws, st)) \in Seq(ConfigLines)
         /\ \E m \in Locations :
              Takes(FlattenSeq(LocationTexts(ws, st)), Stage("server", c, s, l),
                    Stage("server", c, Placed(s, ws), m))
<1> DEFINE n == Len(ws)
           ss == LocationTexts(ws, st)
           R(k) == Placed(s, SubSeq(ws, 1, k))
           T == [k \in 0..n |-> {Stage("server", c, R(k), m) : m \in Locations}]
<1>1. n \in Nat /\ DOMAIN ws = 1..n /\ \A k \in 1..n : ws[k] \in WrittenLocations
  OBVIOUS
<1>2. \A k \in 1..n : LocationText(ws[k], st) \in Seq(ConfigLines)
  BY <1>1, LocationTaken
<1>3. ss \in Seq(Seq(ConfigLines)) /\ Len(ss) = n
      /\ \A k \in 1..n : ss[k] = LocationText(ws[k], st)
  BY <1>1, <1>2 DEF LocationTexts
<1>4. ASSUME NEW k \in 1..n, NEW t \in T[k - 1] PROVE \E u \in T[k] : Takes(ss[k], t, u)
  <2>1. k - 1 \in 0..n /\ k \in 0..n
    BY <1>1
  <2>2. PICK m \in Locations : t = Stage("server", c, R(k - 1), m)
    BY <2>1
  <2>3. Located(R(k - 1), ws[k]) = R(k)
    <3>1. SubSeq(ws, 1, k) = Append(SubSeq(ws, 1, k - 1), ws[k])
      <4>1. SubSeq(ws, 1, k) = SubSeq(ws, 1, k - 1) \o <<ws[k]>>
        <5>1. 1 \in 1..Len(ws) /\ k \in 1..Len(ws)
          BY <1>1
        <5> HIDE DEF T, R
        <5> QED BY <5>1, SubSeqRecursiveSecond
      <4>2. SubSeq(ws, 1, k - 1) \in Seq(WrittenLocations)
        BY <1>1, PartOf
      <4> QED BY <1>1, <4>1, <4>2, AppendIsConcat
    <3> QED BY <3>1 DEF Located, Servers, Placed
  <2>4. ws[k] \in WrittenLocations /\ ws[k] \in Locations
    BY <1>1, WrittenType
  <2> DEFINE u == Stage("server", c, R(k), ws[k])
  <2>5. u \in T[k]
    BY <2>1, <2>4
  <2>6. Takes(ss[k], t, u)
    <3>1. Takes(LocationText(ws[k], st), Stage("server", c, R(k - 1), m),
                Stage("server", c, Located(R(k - 1), ws[k]), ws[k]))
      <4> HIDE DEF R
      <4> QED BY <2>4, LocationTaken
    <3> HIDE DEF R, ss
    <3> QED BY <1>3, <2>2, <2>3, <3>1
  <2> QED BY <2>5, <2>6
<1>5. R(0) = s /\ R(n) = Placed(s, ws)
  <2>1. SubSeq(ws, 1, 0) = <<>> /\ SubSeq(ws, 1, n) = ws
    BY SubSeqEmpty, SubSeqFull
  <2> QED BY <2>1 DEF Servers, Placed
<1>6. Stage("server", c, s, l) \in T[0]
  BY <1>1, <1>5
<1>7. FlattenSeq(ss) = FlattenSeq(ss)
  OBVIOUS
<1>8. FlattenSeq(ss) \in Seq(ConfigLines) /\ FlattenSeq(ss) = Joined(ss, n) /\ n \in 0..n
  <2>1. n \in 0..n
    BY <1>1
  <2> HIDE DEF ss, n
  <2> QED BY <1>3, <2>1, JoinedFacts
<1>9. \E u \in T[n] : Takes(Joined(ss, n), Stage("server", c, s, l), u)
  <2> HIDE DEF ss, n, T
  <2> QED BY <1>3, <1>4, <1>6, <1>8, TakesJoined
<1>10. \A u \in T[n] : \E m \in Locations : u = Stage("server", c, Placed(s, ws), m)
  BY <1>5, <1>8
<1> HIDE DEF ss, T, n
<1> QED BY <1>7, <1>8, <1>9, <1>10 DEF ss

\* The block of a server adds it, with its handlers if they are inside.
LEMMA ServerBlockTaken ==
  ASSUME NEW sv \in WrittenServers, IsFiniteSet(sv.cgi), NEW st,
         NEW c \in Seq(Servers), NEW s, NEW l \in Locations
  PROVE  LET text == Block("server", 0,
                       <<Line("server_name", 0, FALSE), Line("port", sv.port, FALSE)>>
                         \o FlattenSeq(LocationTexts(sv.locations, st)) \o CgiWithin(sv, st), st)
             r == Server(sv.port, sv.locations, IF st = "inline" THEN sv.cgi ELSE {})
         IN /\ text \in Seq(ConfigLines)
            /\ \E m : Takes(text, Stage("parse", c, s, l), Stage("parse", Append(c, r), r, m))
<1> DEFINE inside == CgiWithin(sv, st)
           name == Line("server_name", 0, FALSE)
           port == Line("port", sv.port, FALSE)
           short == Line("server", 0, FALSE)
           long == Line("server", 0, TRUE)
           flat == FlattenSeq(LocationTexts(sv.locations, st))
           before == Stage("parse", c, s, l)
           s0 == NewServer
           s1 == Ported(s0, sv.port)
           s2 == Placed(s1, sv.locations)
           r == Server(sv.port, sv.locations, IF st = "inline" THEN sv.cgi ELSE {})
           opened == IF st = "nextLine" THEN Stage("server", c, s0, l) ELSE Stage("opening", c, s0, l)
<1>1. /\ sv.port \in Int /\ sv.locations \in Seq(WrittenLocations) /\ sv.cgi \in SUBSET Handlers
      /\ sv.port \in Values /\ 0 \in Values
  BY ValuesAre DEF WrittenServers
<1>2. /\ s1 \in Servers /\ s1.locations = <<>> /\ s2 \in Servers /\ s2.cgi = {}
      /\ Handed(s2, sv, st) = r
  <2>1. sv.locations \in Seq(Locations)
    BY <1>1, WrittenType, SeqMonotonic
  <2>2. s0 = Server(8080, <<>>, {})
    BY DEF NewServer, Server
  <2>3. <<>> \in Seq(Locations)
    OBVIOUS
  <2> HIDE DEF s0
  <2>4. s1 = Server(sv.port, <<>>, {})
    BY <2>2, ServerParts
  <2> HIDE DEF s1
  <2>5. s2 = Server(sv.port, sv.locations, {})
    BY <2>4, ServerParts
  <2> HIDE DEF s2
  <2>6. s1 \in Servers /\ s1.locations = <<>>
    <3>1. Server(sv.port, <<>>, {}) \in Servers
      BY <1>1, <2>3, ServerParts
    <3>2. Server(sv.port, <<>>, {}).locations = <<>>
      BY DEF Server
    <3> QED BY <2>4, <3>1, <3>2
  <2>7. s2 \in Servers /\ s2.cgi = {}
    BY <1>1, <2>1, <2>5, ServerParts
  <2>8. Handed(s2, sv, st) = r
    BY <2>5, ServerParts
  <2> QED BY <2>6, <2>7, <2>8
<1>3. /\ name.key = "server_name" /\ name.brace = FALSE /\ name.value = 0
      /\ port.key = "port" /\ port.brace = FALSE /\ port.value = sv.port
      /\ short.key = "server" /\ long.key = "server" /\ long = Line("server", 0, TRUE)
      /\ name # Line("server", 0, TRUE)
  BY DEF Line
<1>4. name \in ConfigLines /\ port \in ConfigLines
  BY <1>1, LineFacts, WordsAre
<1> HIDE DEF name, port, short, before
<1>5. IF st = "nextLine" THEN opened = After(After(before, short), OpenBrace)
                         ELSE opened = After(before, long)
  <2>1. \A x : x.key = "server" => After(before, x) = Stage("opening", c, s0, l)
    <3>1. \A x : After(before, x) = InParse(c, s, l, x)
      BY AfterStage DEF before
    <3> HIDE DEF s0
    <3> QED BY <3>1 DEF InParse, HasServer, s0
  <2>2. After(Stage("opening", c, s0, l), OpenBrace) = Stage("server", c, s0, l)
    <3>1. After(Stage("opening", c, s0, l), OpenBrace) = InOpening(c, s0, l, OpenBrace)
      BY AfterStage
    <3>2. IsBlockStart(OpenBrace)
      BY DEF IsBlockStart
    <3> QED BY <3>1, <3>2 DEF InOpening
  <2>3. After(before, short) = Stage("opening", c, s0, l) /\ After(before, long) = Stage("opening", c, s0, l)
    BY <1>3, <2>1
  <2> QED BY <2>2, <2>3
<1>6. After(opened, name) = Stage("server", c, s0, l)
  <2>1. After(Stage("server", c, s0, l), name) = Stage("server", c, s0, l)
    <3>1. ~IsCgi(name)
      BY <1>3 DEF IsCgi
    <3> QED BY <1>3, <3>1, DirectiveTaken
  <2>2. After(Stage("opening", c, s0, l), name) = InServerBlock(c, s0, l, name)
    <3>1. ~IsBlockStart(name)
      BY <1>3, LineFacts DEF IsBlockStart
    <3>2. After(Stage("opening", c, s0, l), name) = InOpening(c, s0, l, name)
      BY AfterStage
    <3> QED BY <3>1, <3>2 DEF InOpening
  <2>3. After(Stage("server", c, s0, l), name) = InServerBlock(c, s0, l, name)
    BY AfterStage
  <2> QED BY <2>1, <2>2, <2>3
<1>7. After(Stage("server", c, s0, l), port) = Stage("server", c, s1, l)
  <2>1. ~IsCgi(port)
    BY <1>3 DEF IsCgi
  <2> QED BY <1>3, <2>1, DirectiveTaken
<1> HIDE DEF s0, s1, opened
<1>8. <<name, port>> \in Seq(ConfigLines) /\ Takes(<<name, port>>, opened, Stage("server", c, s1, l))
  <2>1. /\ <<name>> \in Seq(ConfigLines) /\ <<port>> \in Seq(ConfigLines)
        /\ <<name, port>> \in Seq(ConfigLines) /\ <<name, port>> = <<name>> \o <<port>>
    BY <1>4, Pair
  <2>2. /\ Takes(<<name>>, opened, Stage("server", c, s0, l))
        /\ Takes(<<port>>, Stage("server", c, s0, l), Stage("server", c, s1, l))
    BY <1>6, <1>7, TakesFacts
  <2> QED BY <2>1, <2>2, TakesBoth
<1>9. /\ flat \in Seq(ConfigLines)
      /\ \E m \in Locations : Takes(flat, Stage("server", c, s1, l), Stage("server", c, s2, m))
  BY <1>1, <1>2, LocationsTaken
<1>10. PICK m \in Locations : Takes(flat, Stage("server", c, s1, l), Stage("server", c, s2, m))
  BY <1>9
<1> HIDE DEF s2, flat
<1>11. /\ inside \in Seq(ConfigLines)
       /\ \E t : /\ Takes(inside, Stage("server", c, s2, m), t)
                 /\ After(t, CloseBrace) =
                      Stage("parse", Append(c, Handed(s2, sv, st)), Handed(s2, sv, st), m)
  BY <1>2, CgiInside
<1>12. PICK t : /\ Takes(inside, Stage("server", c, s2, m), t)
                /\ After(t, CloseBrace) = Stage("parse", Append(c, r), r, m)
  BY <1>2, <1>11
<1> HIDE DEF inside, r
<1> DEFINE head == <<name, port>> \o flat
           inner == head \o inside
<1>13. /\ head \in Seq(ConfigLines) /\ Takes(head, opened, Stage("server", c, s2, m))
  BY <1>8, <1>9, <1>10, JoinLength, TakesBoth
<1>14. inner \in Seq(ConfigLines) /\ Takes(inner, opened, t)
  <2> HIDE DEF head
  <2> QED BY <1>11, <1>12, <1>13, JoinLength, TakesBoth
<1> HIDE DEF inner, opened
<1>15. /\ Block("server", 0, inner, st) \in Seq(ConfigLines)
       /\ Takes(Block("server", 0, inner, st), before, After(t, CloseBrace))
  BY <1>1, <1>5, <1>14, WordsAre, BlockTaken DEF short
<1> QED BY <1>12, <1>15 DEF inner, inside, name, port, flat, before, r

-----------------------------------------------------------------------------
(* The file. *)

\* Handlers are known as they were written: if the CGI blocks are read, or there are none.
Exact(w, st) == st \in {"inline", "cgiBehind"} \/ \A i \in 1..Len(w) : w[i].cgi = {}

\* The first k servers, and no others, were parsed as they were written.
As(c, w, st, k) ==
  /\ Len(c) = k
  /\ \A i \in 1..k : /\ c[i].port = w[i].port /\ c[i].locations = w[i].locations
                     /\ Exact(w, st) => c[i].cgi = w[i].cgi
Good(w, st, k) ==
  {t \in Stages : t.mode = "stuck" \/ (t.mode = "parse" /\ As(t.configs, w, st, k))}

\* They were, whatever came after them.
Kept(c, w, st, k) ==
  /\ Len(c) >= k
  /\ \A i \in 1..k : /\ c[i].port = w[i].port /\ c[i].locations = w[i].locations
                     /\ st \in {"inline", "cgiBehind"} => w[i].cgi \subseteq c[i].cgi
Keeping(w, st, k) == {t \in Stages : t.mode = "stuck" \/ Kept(t.configs, w, st, k)}

FileOf(w, st) == w \in Seq(WrittenServers) /\ st \in Layouts /\ \A i \in 1..Len(w) : IsFiniteSet(w[i].cgi)

\* One server more.
LEMMA OneMore ==
  ASSUME NEW w \in Seq(WrittenServers), NEW st, NEW k \in 1..Len(w),
         NEW c \in Seq(Servers), As(c, w, st, k - 1), NEW d \in Seq(Servers), Len(d) = Len(c),
         \A i \in 1..Len(c) : /\ d[i].port = c[i].port /\ d[i].locations = c[i].locations
                              /\ Exact(w, st) => d[i].cgi = c[i].cgi,
         NEW r \in Servers, r.port = w[k].port, r.locations = w[k].locations,
         Exact(w, st) => r.cgi = w[k].cgi
  PROVE  As(Append(d, r), w, st, k)
<1> DEFINE e == Append(d, r)
<1>1. Len(c) = k - 1 /\ k \in Nat
  BY DEF As
<1>2. Len(e) = k /\ e[k] = r /\ \A i \in 1..(k - 1) : e[i] = d[i]
  BY <1>1, AppendProperties
<1> HIDE DEF e
<1> DEFINE Same(a, b) == /\ a.port = b.port /\ a.locations = b.locations
                         /\ Exact(w, st) => a.cgi = b.cgi
<1>4. (\A i \in 1..Len(c) : Same(d[i], c[i])) /\ \A i \in 1..(k - 1) : Same(c[i], w[i])
  BY DEF As
<1> HIDE DEF Same
<1>3. ASSUME NEW i \in 1..k
      PROVE  /\ e[i].port = w[i].port /\ e[i].locations = w[i].locations
             /\ Exact(w, st) => e[i].cgi = w[i].cgi
  <2>1. CASE i = k
    BY <1>2, <2>1
  <2>2. CASE i # k
    <3>1. i \in 1..(k - 1)
      BY <1>1, <2>2
    <3>2. e[i] = d[i] /\ i \in 1..Len(c)
      BY <1>1, <1>2, <3>1
    <3>3. Same(d[i], c[i]) /\ Same(c[i], w[i])
      BY <1>4, <3>1, <3>2
    <3>4. Same(e[i], w[i])
      BY <3>2, <3>3 DEF Same
    <3> QED BY <3>4 DEF Same
  <2> QED BY <2>1, <2>2
<1> QED BY <1>2, <1>3 DEF As, e

\* The text of a server adds it.
LEMMA ServerTaken ==
  ASSUME NEW w, NEW st, FileOf(w, st), NEW k \in 1..Len(w), NEW t \in Good(w, st, k - 1)
  PROVE  /\ ServerText(w[k], st) \in Seq(ConfigLines)
         /\ \E u \in Good(w, st, k) : Takes(ServerText(w[k], st), t, u)
<1> DEFINE sv == w[k]
           A == IF st = "cgiAhead" THEN CgiText(sv, st) ELSE <<>>
           B == Block("server", 0,
                  <<Line("server_name", 0, FALSE), Line("port", sv.port, FALSE)>>
                    \o FlattenSeq(LocationTexts(sv.locations, st)) \o CgiWithin(sv, st), st)
           C == IF st = "cgiBehind" THEN CgiText(sv, st) ELSE <<>>
           c == t.configs
           s == t.server
           l == t.location
           text == ServerText(sv, st)
<1>1. text = (A \o B) \o C
  BY DEF ServerText, CgiWithin, LocationTexts
<1>2. /\ w \in Seq(WrittenServers) /\ sv \in WrittenServers /\ IsFiniteSet(sv.cgi)
      /\ st \in Layouts /\ k \in Nat
  BY DEF FileOf
<1>3. /\ t \in Stages /\ t = Stage(t.mode, c, s, l) /\ c \in Seq(Servers) /\ s \in Servers /\ l \in Locations
      /\ t.mode = "stuck" \/ (t.mode = "parse" /\ As(c, w, st, k - 1))
  BY StageIs DEF Good
<1>4. sv.cgi \in SUBSET ConfigLines /\ sv.locations \in Seq(Locations) /\ sv.port \in Values
  BY <1>2, HandlersType, WrittenType, SeqMonotonic, ValuesAre DEF WrittenServers
<1> HIDE DEF sv, c, s, l
<1> DEFINE c1 == IF st = "cgiAhead" THEN Grown(c, sv.cgi) ELSE c
           r == Server(sv.port, sv.locations, IF st = "inline" THEN sv.cgi ELSE {})
           hs == IF st = "cgiBehind" THEN sv.cgi ELSE {}
           c2 == Append(c1, r)
           r3 == [r EXCEPT !.cgi = @ \cup hs]
           c3 == Append(c1, r3)
<1>5. /\ A \in Seq(ConfigLines)
      /\ t.mode = "parse" =>
           Takes(A, t, IF st = "cgiAhead" /\ c = <<>> /\ sv.cgi # {} THEN Stage("stuck", c, s, l)
                       ELSE Stage("parse", c1, s, l))
  <2>1. CASE st = "cgiAhead"
    <3>1. /\ CgiText(sv, st) \in Seq(ConfigLines)
          /\ Takes(CgiText(sv, st), Stage("parse", c, s, l),
                   IF c = <<>> /\ sv.cgi # {} THEN Stage("stuck", c, s, l)
                   ELSE Stage("parse", Grown(c, sv.cgi), s, l))
      BY <1>2, <1>3, <2>1, CgiOutside
    <3> QED BY <1>3, <2>1, <3>1
  <2>2. CASE st # "cgiAhead"
    <3>1. <<>> \in Seq(ConfigLines) /\ Takes(<<>>, t, t)
      BY TakesFacts
    <3> QED BY <1>3, <2>2, <3>1
  <2> QED BY <2>1, <2>2
<1>6. /\ c1 \in Seq(Servers) /\ Len(c1) = Len(c)
      /\ \A i \in 1..Len(c) : /\ c1[i].port = c[i].port /\ c1[i].locations = c[i].locations
                              /\ Exact(w, st) => c1[i].cgi = c[i].cgi
  <2>1. CASE st = "cgiAhead"
    <3>1. Exact(w, st) => sv.cgi = {}
      BY <2>1 DEF Exact, sv
    <3> DEFINE g == Grown(c, sv.cgi)
    <3>2. /\ g \in Seq(Servers) /\ Len(g) = Len(c)
          /\ \A i \in 1..Len(c) :
               /\ g[i].port = c[i].port /\ g[i].locations = c[i].locations
               /\ g[i].cgi = IF i = Len(c) THEN c[i].cgi \cup sv.cgi ELSE c[i].cgi
      BY <1>3, <1>4, GrownType
    <3>3. c1 = g
      BY <2>1
    <3> HIDE DEF c1, g
    <3> QED BY <3>1, <3>2, <3>3
  <2>2. CASE st # "cgiAhead"
    BY <1>3, <2>2
  <2> QED BY <2>1, <2>2
<1>7. B \in Seq(ConfigLines) /\ \E m : Takes(B, Stage("parse", c1, s, l), Stage("parse", c2, r, m))
  <2> HIDE DEF c1
  <2> QED BY <1>2, <1>3, <1>6, ServerBlockTaken
<1>8. /\ r \in Servers /\ hs \in SUBSET ConfigLines /\ r.port = sv.port /\ r.locations = sv.locations
      /\ r.cgi = IF st = "inline" THEN sv.cgi ELSE {}
  BY <1>4 DEF Server, Servers
<1>9. /\ r3 \in Servers /\ r3.port = sv.port /\ r3.locations = sv.locations
      /\ r3.cgi = IF st \in {"inline", "cgiBehind"} THEN sv.cgi ELSE {}
  <2>1. /\ r3 \in Servers /\ r3.port = r.port /\ r3.locations = r.locations
        /\ r3.cgi = r.cgi \cup hs
    <3> HIDE DEF r, hs
    <3> QED BY <1>8 DEF Servers
  <2> HIDE DEF r3
  <2> QED BY <1>8, <2>1
<1>10. C \in Seq(ConfigLines) /\ \A m : Takes(C, Stage("parse", c2, r, m), Stage("parse", c3, r, m))
  <2> SUFFICES ASSUME NEW m
               PROVE  C \in Seq(ConfigLines) /\ Takes(C, Stage("parse", c2, r, m), Stage("parse", c3, r, m))
    OBVIOUS
  <2>1. c3 = Grown(c2, hs) /\ c2 \in Seq(Servers) /\ c2 # <<>>
    <3> HIDE DEF c1, r, hs
    <3>1. c1 \in Seq(Servers) /\ r \in Servers /\ hs \in SUBSET ConfigLines
      BY <1>6, <1>8
    <3>2. Grown(Append(c1, r), hs) = Append(c1, [r EXCEPT !.cgi = @ \cup hs])
      BY <3>1, GrownLast
    <3>3. Append(c1, r) \in Seq(Servers) /\ Append(c1, r) # <<>>
      BY <3>1, AppendProperties
    <3> QED BY <3>2, <3>3
  <2>2. CASE st = "cgiBehind"
    <3>1. /\ CgiText(sv, st) \in Seq(ConfigLines)
          /\ Takes(CgiText(sv, st), Stage("parse", c2, r, m),
                   IF c2 = <<>> /\ sv.cgi # {} THEN Stage("stuck", c2, r, m)
                   ELSE Stage("parse", Grown(c2, sv.cgi), r, m))
      <4> HIDE DEF c2, r
      <4> QED BY <1>2, <1>8, <2>1, <2>2, CgiOutside
    <3>2. hs = sv.cgi /\ C = CgiText(sv, st)
      BY <2>2
    <3> HIDE DEF c2, c3, C, hs, r
    <3> QED BY <2>1, <3>1, <3>2
  <2>3. CASE st # "cgiBehind"
    <3>1. hs = {} /\ C = <<>>
      BY <2>3
    <3>2. c3 = c2
      <4>1. Grown(c2, {}) = c2
        <5> HIDE DEF c2
        <5> QED BY <2>1, GrownTwice
      <4> HIDE DEF c2, c3, hs
      <4> QED BY <2>1, <3>1, <4>1
    <3>3. <<>> \in Seq(ConfigLines) /\ Takes(<<>>, Stage("parse", c2, r, m), Stage("parse", c2, r, m))
      BY TakesFacts
    <3> HIDE DEF c2, c3, C, r
    <3> QED BY <3>1, <3>2, <3>3
  <2> QED BY <2>2, <2>3
<1> HIDE DEF A, B, C, text
<1>11. A \o B \in Seq(ConfigLines) /\ text \in Seq(ConfigLines)
  BY <1>1, <1>5, <1>7, <1>10, JoinLength
<1>12. CASE t.mode = "stuck"
  <2>1. Takes(text, t, t)
    BY <1>3, <1>11, <1>12, StuckTaken
  <2>2. t \in Good(w, st, k)
    BY <1>3, <1>12 DEF Good
  <2> QED BY <1>11, <2>1, <2>2 DEF text, sv
<1>13. CASE t.mode = "parse" /\ st = "cgiAhead" /\ c = <<>> /\ sv.cgi # {}
  <2> DEFINE u == Stage("stuck", c, s, l)
  <2>1. Takes(A, t, u)
    BY <1>5, <1>13
  <2>2. Takes(B, u, u) /\ Takes(C, u, u)
    BY <1>7, <1>10, StuckTaken
  <2>3. u \in Good(w, st, k)
    <3>1. "stuck" \in Modes
      BY DEF Modes
    <3>2. u \in Stages /\ u.mode = "stuck"
      BY <1>3, <3>1, StageType DEF Stage
    <3> QED BY <3>2 DEF Good
  <2> HIDE DEF u
  <2>4. Takes(A \o B, t, u)
    BY <1>5, <1>7, <2>1, <2>2, TakesBoth
  <2>5. Takes(text, t, u)
    BY <1>1, <1>10, <1>11, <2>2, <2>4, TakesBoth
  <2> QED BY <1>11, <2>3, <2>5 DEF text, sv
<1>14. CASE t.mode = "parse" /\ ~(st = "cgiAhead" /\ c = <<>> /\ sv.cgi # {})
  <2>1. Takes(A, t, Stage("parse", c1, s, l))
    BY <1>5, <1>14
  <2>2. PICK m : Takes(B, Stage("parse", c1, s, l), Stage("parse", c2, r, m))
    BY <1>7
  <2> DEFINE u == Stage("parse", c3, r, m)
  <2>3. Takes(C, Stage("parse", c2, r, m), u)
    BY <1>10
  <2>4. u.mode = "parse" /\ u.configs = c3
    BY DEF Stage
  <2>5. As(c3, w, st, k)
    <3>1. Exact(w, st) => r3.cgi = sv.cgi
      <4>1. Exact(w, st) => st \in {"inline", "cgiBehind"} \/ sv.cgi = {}
        BY DEF Exact, sv
      <4> HIDE DEF r3
      <4> QED BY <1>9, <4>1
    <3>2. As(c, w, st, k - 1)
      BY <1>3, <1>14
    <3> HIDE DEF c1, r3
    <3> QED BY <1>2, <1>3, <1>6, <1>9, <3>1, <3>2, OneMore DEF sv
  <2> HIDE DEF c1, c2, c3, r, u
  <2>6. Takes(A \o B, t, Stage("parse", c2, r, m))
    BY <1>5, <1>7, <2>1, <2>2, TakesBoth
  <2>7. Takes(text, t, u)
    BY <1>1, <1>10, <1>11, <2>3, <2>6, TakesBoth
  <2>8. u \in Stages
    BY <1>3, <1>11, <2>7, TakesType
  <2>9. u \in Good(w, st, k)
    BY <2>4, <2>5, <2>8 DEF Good
  <2> QED BY <1>11, <2>7, <2>9 DEF text, sv
<1> QED BY <1>3, <1>12, <1>13, <1>14

-----------------------------------------------------------------------------
(* The whole file, and what is kept of its servers whatever follows them. *)

Start == Stage("parse", <<>>, NewServer, NewLocation)
ServerTexts(w, st) == [i \in DOMAIN w |-> ServerText(w[i], st)]

Stuck == Stage("stuck", <<>>, NewServer, NewLocation)
LEMMA StartGood ==
  ASSUME NEW w, NEW st
  PROVE  /\ Start \in Stages /\ Start \in Good(w, st, 0)
         /\ \A k : Stuck \in Good(w, st, k)
<1>1. Start \in Stages /\ Stuck \in Stages /\ Stuck.mode = "stuck"
  <2>1. "parse" \in Modes /\ "stuck" \in Modes /\ <<>> \in Seq(Servers)
    BY DEF Modes
  <2>2. Stuck.mode = "stuck"
    BY DEF Stuck, Stage
  <2> QED BY <2>1, <2>2, NewType, StageType DEF Start, Stuck
<1>2. Start.mode = "parse" /\ Start.configs = <<>>
  BY DEF Start, Stage
<1>3. As(<<>>, w, st, 0)
  BY DEF As
<1> QED BY <1>1, <1>2, <1>3 DEF Good

\* A file is the texts of its servers, and each of them adds its server.
LEMMA TextTaken ==
  ASSUME NEW w, NEW st, FileOf(w, st)
  PROVE  /\ FileText(w, st) \in Seq(ConfigLines)
         /\ \A k \in 0..Len(w) :
              /\ FileText(SubSeq(w, 1, k), st) \in Seq(ConfigLines)
              /\ IsAt(FileText(w, st), FileText(SubSeq(w, 1, k), st), 1)
              /\ Len(FileText(SubSeq(w, 1, k), st)) <= Len(FileText(w, st))
              /\ \E u \in Good(w, st, k) : Takes(FileText(SubSeq(w, 1, k), st), Start, u)
         /\ \E u \in Good(w, st, Len(w)) : Takes(FileText(w, st), Start, u)
<1> DEFINE n == Len(w)
           ss == ServerTexts(w, st)
           T == [k \in 0..n |-> Good(w, st, k)]
<1>1. w \in Seq(WrittenServers) /\ n \in Nat /\ DOMAIN w = 1..n
  BY DEF FileOf
<1>2. ASSUME NEW k \in 1..n
      PROVE  /\ ss[k] = ServerText(w[k], st) /\ ss[k] \in Seq(ConfigLines)
             /\ \A t \in Good(w, st, k - 1) : \E u \in Good(w, st, k) : Takes(ss[k], t, u)
  <2>1. ss[k] = ServerText(w[k], st)
    BY <1>1 DEF ServerTexts
  <2>2. ASSUME NEW t \in Good(w, st, k - 1)
        PROVE  ss[k] \in Seq(ConfigLines) /\ \E u \in Good(w, st, k) : Takes(ss[k], t, u)
    <3> HIDE DEF n, ss
    <3>1. k \in 1..Len(w)
      BY DEF n
    <3> QED BY <2>1, <3>1, ServerTaken
  <2>3. Stuck \in Good(w, st, k - 1)
    BY StartGood
  <2> HIDE DEF ss
  <2> QED BY <2>1, <2>2, <2>3
<1>3. ss \in Seq(Seq(ConfigLines)) /\ Len(ss) = n
  <2>1. ss \in [1..n -> Seq(ConfigLines)]
    BY <1>1, <1>2 DEF ServerTexts
  <2> HIDE DEF n, ss
  <2> QED BY <1>1, <2>1
<1>4. FileText(w, st) = FlattenSeq(ss) /\ Joined(ss, n) = FlattenSeq(ss)
  <2>1. FileText(w, st) = FlattenSeq(ss)
    BY DEF FileText, ServerTexts
  <2> HIDE DEF ss, n
  <2> QED BY <1>3, <2>1, JoinedFacts
<1>5. ASSUME NEW k \in 0..n
      PROVE  FileText(SubSeq(w, 1, k), st) = Joined(ss, k)
  <2> DEFINE v == SubSeq(w, 1, k)
             p == SubSeq(ss, 1, k)
             q == ServerTexts(v, st)
  <2>1. k \in Nat /\ k <= n
    BY <1>1
  <2>2. Len(v) = k /\ DOMAIN v = 1..k /\ \A i \in 1..k : v[i] = w[i]
    <3>1. v \in Seq(WrittenServers) /\ Len(v) = k /\ \A i \in 1..k : v[i] = w[i]
      BY <1>1, <2>1, SubSeqProperties
    <3> HIDE DEF v
    <3> QED BY <3>1
  <2>3. p \in Seq(Seq(ConfigLines)) /\ Len(p) = k /\ \A i \in 1..k : p[i] = ss[i]
    <3> HIDE DEF ss, n
    <3>1. k <= Len(ss)
      BY <1>3, <2>1
    <3>2. \A i \in 1..Len(ss) : ss[i] \in Seq(ConfigLines)
      BY <1>3
    <3> QED BY <1>3, <2>1, <3>1, SubSeqProperties
  <2> HIDE DEF v
  <2>4. q = [i \in 1..k |-> ServerText(w[i], st)]
    BY <2>2 DEF ServerTexts
  <2>5. p = [i \in 1..k |-> ServerText(w[i], st)]
    <3>1. \A i \in 1..k : p[i] = ServerText(w[i], st)
      BY <1>2, <2>1, <2>3
    <3> HIDE DEF p
    <3>2. DOMAIN p = 1..k /\ p = [i \in DOMAIN p |-> p[i]]
      BY <2>3
    <3> QED BY <3>1, <3>2
  <2>6. FileText(v, st) = FlattenSeq(q)
    BY DEF FileText, ServerTexts
  <2> HIDE DEF p, q
  <2>7. FlattenSeq(p) = Joined(ss, k)
    BY DEF Joined, p
  <2> QED BY <2>4, <2>5, <2>6, <2>7 DEF v
<1>6. \A k \in 0..n : Joined(ss, k) \in Seq(ConfigLines)
  <2> HIDE DEF ss, n
  <2> QED BY <1>3, JoinedFacts
<1>7. \A k \in 0..n : IsAt(FileText(w, st), Joined(ss, k), 1) /\ Len(Joined(ss, k)) <= Len(FileText(w, st))
  <2> HIDE DEF ss, n
  <2> QED BY <1>3, <1>4, SelfAt, JoinedStart
<1>8. \A k \in 0..n : \E u \in Good(w, st, k) : Takes(Joined(ss, k), Start, u)
  <2>1. /\ \A k \in 1..Len(ss) : \A t \in T[k - 1] : \E u \in T[k] : Takes(ss[k], t, u)
        /\ Start \in T[0]
    <3>1. \A k \in 1..n : T[k] = Good(w, st, k) /\ T[k - 1] = Good(w, st, k - 1)
      BY <1>1
    <3>2. T[0] = Good(w, st, 0)
      BY <1>1
    <3> HIDE DEF T, ss, n
    <3> QED BY ZenonT(40), <1>2, <1>3, <3>1, <3>2, StartGood
  <2>2. \A k \in 0..n : T[k] = Good(w, st, k)
    OBVIOUS
  <2> HIDE DEF T, ss, n
  <2>3. \A k \in 0..Len(ss) : \E u \in T[k] : Takes(Joined(ss, k), Start, u)
    BY <1>3, <2>1, TakesJoined
  <2> QED BY <1>3, <2>2, <2>3
<1> HIDE DEF ss, T
<1>9. n \in 0..n
  BY <1>1
<1> HIDE DEF n
<1> QED BY <1>4, <1>5, <1>6, <1>7, <1>8, <1>9 DEF n

\* Later lines add a server to those parsed, or a handler to the last of them.
LEMMA ConfigsAfter ==
  ASSUME NEW t \in Stages, NEW x \in ConfigLines
  PROVE  /\ t.mode = "stuck" => After(t, x) = t
         /\ After(t, x).configs \in {t.configs, Append(t.configs, t.server), Grown(t.configs, {x})}
<1> DEFINE c == t.configs
           s == t.server
           l == t.location
           More == {c, Append(c, s), Grown(c, {x})}
<1>1. t = Stage(t.mode, c, s, l) /\ t.mode \in Modes
  BY StageIs
<1> HIDE DEF c, s, l
<1>2. \A m, d, v, w : Stage(m, d, v, w).configs = d
  BY DEF Stage
<1>3. c \in More /\ Append(c, s) \in More /\ Grown(c, {x}) \in More
  OBVIOUS
<1> HIDE DEF More
<1>4. InServerBlock(c, s, l, x).configs \in More
  BY <1>2, <1>3 DEF InServerBlock
<1>5. InParse(c, s, l, x).configs \in More /\ InOpening(c, s, l, x).configs \in More
  BY <1>2, <1>3, <1>4 DEF InParse, InOpening
<1>6. InBrace(c, s, l, x).configs \in More /\ InLocation(c, s, l, x).configs \in More
  BY <1>2, <1>3 DEF InBrace, InLocation
<1>7. InCgi(c, s, l, x).configs \in More /\ InCgiBehind(c, s, l, x).configs \in More
  BY <1>2, <1>3 DEF InCgi, InCgiBehind
<1>8. \A m \in Modes : After(Stage(m, c, s, l), x).configs \in More
  <2>1. /\ After(Stage("parse", c, s, l), x).configs \in More
        /\ After(Stage("opening", c, s, l), x).configs \in More
        /\ After(Stage("server", c, s, l), x).configs \in More
        /\ After(Stage("brace", c, s, l), x).configs \in More
        /\ After(Stage("location", c, s, l), x).configs \in More
        /\ After(Stage("cgi", c, s, l), x).configs \in More
        /\ After(Stage("cgiBehind", c, s, l), x).configs \in More
        /\ After(Stage("stuck", c, s, l), x).configs \in More
    BY <1>2, <1>3, <1>4, <1>5, <1>6, <1>7, AfterStage
  <2> QED BY <2>1 DEF Modes
<1>9. t.mode = "stuck" => After(t, x) = t
  BY <1>1, AfterStage
<1>10. After(t, x).configs \in More
  BY <1>1, <1>8
<1> QED BY <1>9, <1>10 DEF More, c, s

\* That harms none of the servers that are there.
LEMMA KeptMore ==
  ASSUME NEW w, NEW st, NEW k \in Nat, NEW c \in Seq(Servers), Kept(c, w, st, k),
         NEW s \in Servers, NEW hs \in SUBSET ConfigLines
  PROVE  Kept(Append(c, s), w, st, k) /\ Kept(Grown(c, hs), w, st, k)
<1> DEFINE read == st \in {"inline", "cgiBehind"}
           Same(a, b) == a.port = b.port /\ a.locations = b.locations /\ (read => b.cgi \subseteq a.cgi)
           d == Append(c, s)
           e == Grown(c, hs)
<1>1. \A f : Kept(f, w, st, k) <=> Len(f) >= k /\ \A i \in 1..k : Same(f[i], w[i])
  BY DEF Kept
<1>2. Len(c) \in Nat /\ Len(c) >= k
  BY DEF Kept
<1>3. Len(d) >= k /\ \A i \in 1..k : d[i] = c[i]
  <2>1. Len(d) = Len(c) + 1 /\ \A i \in 1..Len(c) : d[i] = c[i]
    BY AppendProperties
  <2> HIDE DEF d
  <2> QED BY <1>2, <2>1
<1>4. Len(e) >= k /\ \A i \in 1..k : Same(e[i], c[i])
  <2>1. /\ Len(e) = Len(c)
        /\ \A i \in 1..Len(c) : /\ e[i].port = c[i].port /\ e[i].locations = c[i].locations
                                /\ e[i].cgi = IF i = Len(c) THEN c[i].cgi \cup hs ELSE c[i].cgi
    BY GrownType
  <2> HIDE DEF e, read
  <2>2. \A i \in 1..Len(c) : Same(e[i], c[i])
    BY <2>1
  <2> HIDE DEF Same
  <2> QED BY <1>2, <2>1, <2>2
<1>5. \A x, y, z : Same(x, y) /\ Same(y, z) => Same(x, z)
  <2> HIDE DEF read
  <2> QED OBVIOUS
<1> HIDE DEF Same, d, e
<1>6. \A i \in 1..k : Same(c[i], w[i])
  BY <1>1
<1>7. Kept(d, w, st, k)
  BY <1>1, <1>3, <1>6
<1>8. Kept(e, w, st, k)
  BY <1>1, <1>4, <1>5, <1>6
<1> QED BY <1>7, <1>8 DEF d, e

LEMMA KeptAfter ==
  ASSUME NEW w, NEW st, NEW k \in Nat, NEW t \in Keeping(w, st, k), NEW x \in ConfigLines
  PROVE  After(t, x) \in Keeping(w, st, k)
<1>1. t \in Stages /\ (t.mode = "stuck" \/ Kept(t.configs, w, st, k))
  BY DEF Keeping
<1>2. After(t, x) \in Stages
  BY <1>1, AfterType
<1>3. CASE t.mode = "stuck"
  <2>1. After(t, x) = t
    BY <1>1, <1>3, ConfigsAfter
  <2> QED BY <2>1
<1>4. CASE Kept(t.configs, w, st, k)
  <2>1. t.configs \in Seq(Servers) /\ t.server \in Servers /\ {x} \in SUBSET ConfigLines
    BY <1>1, StageIs
  <2>2. Kept(Append(t.configs, t.server), w, st, k) /\ Kept(Grown(t.configs, {x}), w, st, k)
    BY <1>4, <2>1, KeptMore
  <2>3. After(t, x).configs \in {t.configs, Append(t.configs, t.server), Grown(t.configs, {x})}
    BY <1>1, ConfigsAfter
  <2>4. Kept(After(t, x).configs, w, st, k)
    BY <1>4, <2>2, <2>3
  <2> QED BY <1>2, <2>4 DEF Keeping
<1> QED BY <1>1, <1>3, <1>4

\* Servers parsed as they were written are kept.
LEMMA GoodKeeping ==
  ASSUME NEW w, NEW st, NEW k \in 0..Len(w)
  PROVE  Good(w, st, k) \subseteq Keeping(w, st, k)
<1> SUFFICES ASSUME NEW t \in Good(w, st, k), t.mode # "stuck"
             PROVE  Kept(t.configs, w, st, k)
  BY DEF Good, Keeping
<1> DEFINE c == t.configs
<1>1. Len(c) = k /\ \A i \in 1..k : /\ c[i].port = w[i].port /\ c[i].locations = w[i].locations
                                    /\ Exact(w, st) => c[i].cgi = w[i].cgi
  BY DEF Good, As
<1>2. st \in {"inline", "cgiBehind"} => Exact(w, st)
  BY DEF Exact
<1> HIDE DEF c
<1> QED BY <1>1, <1>2 DEF Kept, c

\* A line more or a line less changes nothing in front of it.
LEMMA DamageFacts ==
  ASSUME NEW t \in Seq(ConfigLines), NEW d \in 1..Len(t), NEW x \in ConfigLines
  PROVE  /\ InsertAt(t, d, x) \in Seq(ConfigLines) /\ RemoveAt(t, d) \in Seq(ConfigLines)
         /\ Len(InsertAt(t, d, x)) >= d - 1 /\ Len(RemoveAt(t, d)) >= d - 1
         /\ \A i \in 1..(d - 1) : InsertAt(t, d, x)[i] = t[i] /\ RemoveAt(t, d)[i] = t[i]
<1> DEFINE p == SubSeq(t, 1, d - 1)
           q == SubSeq(t, d, Len(t))
           r == SubSeq(t, d + 1, Len(t))
           y == <<x>> \o q
<1>1. d \in Nat \ {0} /\ d - 1 \in Nat /\ Len(t) \in Nat /\ d - 1 <= Len(t)
  OBVIOUS
<1>2. p \in Seq(ConfigLines) /\ Len(p) = d - 1 /\ \A i \in 1..(d - 1) : p[i] = t[i]
  <2>1. /\ p \in Seq(ConfigLines) /\ Len(p) = IF 1 <= d - 1 THEN d - 1 - 1 + 1 ELSE 0
        /\ \A k \in 1..(d - 1 - 1 + 1) : p[k] = t[1 + k - 1]
    BY <1>1, PartOf
  <2> HIDE DEF p
  <2> QED BY <1>1, <2>1
<1>3. q \in Seq(ConfigLines) /\ r \in Seq(ConfigLines)
  BY <1>1, PartOf
<1>4. /\ InsertAt(t, d, x) = p \o y \/ InsertAt(t, d, x) = (p \o <<x>>) \o q
      /\ RemoveAt(t, d) = p \o r
  BY DEF InsertAt, RemoveAt
<1> HIDE DEF p, q, r
<1>5. <<x>> \in Seq(ConfigLines) /\ Len(<<x>>) = 1
  OBVIOUS
<1>6. ASSUME NEW z \in Seq(ConfigLines), NEW v \in Seq(ConfigLines),
             Len(v) >= d - 1, \A i \in 1..(d - 1) : v[i] = t[i]
      PROVE  /\ v \o z \in Seq(ConfigLines) /\ Len(v \o z) >= d - 1
             /\ \A i \in 1..(d - 1) : (v \o z)[i] = t[i]
  <2>1. /\ v \o z \in Seq(ConfigLines) /\ Len(v \o z) = Len(v) + Len(z)
        /\ \A i \in 1..(Len(v) + Len(z)) : (v \o z)[i] = IF i <= Len(v) THEN v[i] ELSE z[i - Len(v)]
    BY ConcatProperties
  <2>2. Len(v) \in Nat /\ Len(z) \in Nat
    OBVIOUS
  <2> QED BY <1>1, <1>6, <2>1, <2>2
<1>7. y \in Seq(ConfigLines)
  BY <1>3, <1>5, ConcatProperties
<1> HIDE DEF y
<1>8. Len(p) >= d - 1
  BY <1>1, <1>2
<1>9. /\ p \o y \in Seq(ConfigLines) /\ Len(p \o y) >= d - 1
      /\ \A i \in 1..(d - 1) : (p \o y)[i] = t[i]
  BY <1>2, <1>6, <1>7, <1>8
<1>10. /\ p \o r \in Seq(ConfigLines) /\ Len(p \o r) >= d - 1
       /\ \A i \in 1..(d - 1) : (p \o r)[i] = t[i]
  BY <1>2, <1>3, <1>6, <1>8
<1>11. /\ (p \o <<x>>) \o q \in Seq(ConfigLines) /\ Len((p \o <<x>>) \o q) >= d - 1
       /\ \A i \in 1..(d - 1) : ((p \o <<x>>) \o q)[i] = t[i]
  <2>1. /\ p \o <<x>> \in Seq(ConfigLines) /\ Len(p \o <<x>>) >= d - 1
        /\ \A i \in 1..(d - 1) : (p \o <<x>>)[i] = t[i]
    BY <1>2, <1>5, <1>6, <1>8
  <2> QED BY <1>3, <1>6, <2>1
<1> QED BY <1>4, <1>9, <1>10, <1>11

-----------------------------------------------------------------------------
(* The lines read so far took parse() to where it is. *)

\* The file: what was written, or that with a line more or less.
FileIs ==
  /\ written \in Written /\ style \in Styles /\ damage \in 0..Len(FileText(written, style))
  /\ \E brace \in BOOLEAN :
       lines = IF damage = 0 THEN FileText(written, style)
               ELSE IF brace THEN InsertAt(FileText(written, style), damage, CloseBrace)
               ELSE RemoveAt(FileText(written, style), damage)
Before(k) == FileText(SubSeq(written, 1, k), style)

LEMMA FileFacts ==
  ASSUME FileIs
  PROVE  /\ FileOf(written, style) /\ lines \in Seq(ConfigLines)
         /\ damage = 0 => lines = FileText(written, style)
         /\ \A k \in 0..Len(written) : damage = 0 \/ Len(Before(k)) < damage =>
              Len(Before(k)) <= Len(lines) /\ IsAt(lines, Before(k), 1)
<1> DEFINE t == FileText(written, style)
<1>1. FileOf(written, style)
  <2>1. /\ written \in Seq([port : Int, locations : Seq([path : Word, methods : Seq(Word)]),
                            cgi : SUBSET Handlers])
        /\ \A i \in DOMAIN written : IsFiniteSet(written[i].cgi)
        /\ style \in {"inline", "nextLine", "cgiBehind", "cgiAhead"}
    BY ConfigAssumption DEF FileIs
  <2>2. written \in Seq(WrittenServers)
    BY <2>1 DEF WrittenServers, WrittenLocations
  <2>3. DOMAIN written = 1..Len(written)
    BY <2>2
  <2> QED BY <2>1, <2>2, <2>3 DEF FileOf, Layouts
<1>2. /\ t \in Seq(ConfigLines)
      /\ \A k \in 0..Len(written) :
           Before(k) \in Seq(ConfigLines) /\ IsAt(t, Before(k), 1) /\ Len(Before(k)) <= Len(t)
  BY <1>1, TextTaken DEF Before
<1> HIDE DEF t
<1>3. CASE damage = 0
  <2>1. lines = t
    BY <1>3 DEF FileIs, t
  <2> QED BY <1>1, <1>2, <2>1 DEF t
<1>4. CASE damage # 0
  <2>1. damage \in 1..Len(t)
    BY <1>2, <1>4 DEF FileIs, t
  <2>2. lines = InsertAt(t, damage, CloseBrace) \/ lines = RemoveAt(t, damage)
    BY <1>4 DEF FileIs, t
  <2>3. CloseBrace \in ConfigLines
    BY LineFacts
  <2>4. /\ lines \in Seq(ConfigLines) /\ Len(lines) >= damage - 1
        /\ \A i \in 1..(damage - 1) : lines[i] = t[i]
    BY <1>2, <2>1, <2>2, <2>3, DamageFacts
  <2>5. ASSUME NEW k \in 0..Len(written), Len(Before(k)) < damage
        PROVE  Len(Before(k)) <= Len(lines) /\ IsAt(lines, Before(k), 1)
    <3>1. Len(Before(k)) \in Nat /\ IsAt(t, Before(k), 1)
      BY <1>2
    <3>2. \A j \in 1..Len(Before(k)) : lines[1 + j - 1] = Before(k)[j]
      <4> TAKE j \in 1..Len(Before(k))
      <4>1. j \in 1..(damage - 1) /\ 1 + j - 1 = j
        BY <2>1, <2>5, <3>1
      <4>2. t[1 + j - 1] = Before(k)[j]
        BY <3>1 DEF IsAt
      <4> QED BY <2>4, <4>1, <4>2
    <3>3. Len(Before(k)) <= Len(lines)
      BY <2>1, <2>4, <2>5, <3>1
    <3> QED BY <3>2, <3>3 DEF IsAt
  <2> QED BY <1>1, <1>4, <2>4, <2>5
<1> QED BY <1>3, <1>4

Now == Stage(mode, configs, server, location)
Readers == Modes \ {"stuck"}

\* What parse() returns when the file ends.
Ended(t) ==
  IF t.mode \in {"parse", "cgiBehind"} THEN t.configs
  ELSE Append(t.configs, IF t.mode \in {"brace", "location"} THEN Located(t.server, t.location)
                         ELSE t.server)

ReadSoFar ==
  /\ FileIs /\ lines \in Seq(ConfigLines) /\ current \in 1..(Len(lines) + 1)
  /\ mode \in Readers \cup {"validate", "done"}
  /\ mode \in Readers => Takes(SubSeq(lines, 1, current - 1), Start, Now)
  /\ mode \in {"validate", "done"} =>
       \E t : t.mode \in Readers /\ Takes(lines, Start, t) /\ configs = Ended(t)
  /\ mode = "done" => valid = Valid(configs)

LEMMA ReadersAre ==
  /\ Readers = {"parse", "opening", "server", "brace", "location", "cgi", "cgiBehind"}
  /\ "validate" \notin Readers /\ "done" \notin Readers
BY DEF Readers, Modes

LEMMA ReadInit ==
  ASSUME ConfigInit
  PROVE  ReadSoFar
<1>1. FileIs /\ lines \in Seq(ConfigLines)
  <2>1. FileIs
    BY DEF ConfigInit, FileIs
  <2> QED BY <2>1, FileFacts
<1>2. current = 1 /\ mode = "parse" /\ Now = Start
  BY DEF ConfigInit, Now, Start
<1>3. SubSeq(lines, 1, current - 1) = <<>> /\ current \in 1..(Len(lines) + 1)
  <2>1. current - 1 = 0 /\ Len(lines) \in Nat
    BY <1>1, <1>2
  <2> QED BY <1>2, <2>1, SubSeqEmpty
<1>4. Takes(SubSeq(lines, 1, current - 1), Start, Now)
  BY <1>2, <1>3, TakesFacts
<1> QED BY <1>1, <1>2, <1>3, <1>4, ReadersAre DEF ReadSoFar

\* One more line was read.
LEMMA LineRead ==
  ASSUME ReadSoFar, mode \in Readers, HasMoreLines, current' = current + 1,
         UNCHANGED fileVars, Now' = After(Now, TheLine), mode' \in Readers
  PROVE  ReadSoFar'
<1> DEFINE n == current
           x == lines[n]
<1>1. /\ lines \in Seq(ConfigLines) /\ n \in 1..Len(lines)
      /\ Takes(SubSeq(lines, 1, n - 1), Start, Now)
  BY DEF ReadSoFar, HasMoreLines
<1>2. /\ lines' = lines /\ current' \in 1..(Len(lines) + 1) /\ current' - 1 = n
      /\ FileIs'
  BY <1>1 DEF fileVars, FileIs, ReadSoFar
<1>3. SubSeq(lines, 1, n) = SubSeq(lines, 1, n - 1) \o <<x>>
      /\ SubSeq(lines, 1, n - 1) \in Seq(ConfigLines) /\ <<x>> \in Seq(ConfigLines)
  <2> HIDE DEF n
  <2> DEFINE p == SubSeq(lines, 1, n - 1)
             q == SubSeq(lines, 1, n)
  <2>1. n \in Nat /\ n - 1 \in Nat /\ n - 1 <= Len(lines) /\ n <= Len(lines) /\ x \in ConfigLines
        /\ lines \in Seq(ConfigLines)
    BY <1>1
  <2>2. p \in Seq(ConfigLines) /\ Len(p) = n - 1 /\ \A i \in 1..(n - 1) : p[i] = lines[i]
    BY <2>1, SubSeqProperties
  <2>3. q \in Seq(ConfigLines) /\ Len(q) = n /\ \A i \in 1..n : q[i] = lines[i]
    BY <2>1, SubSeqProperties
  <2> HIDE DEF p, q, x
  <2>4. <<x>> \in Seq(ConfigLines) /\ Len(<<x>>) = 1 /\ <<x>>[1] = x
    BY <2>1
  <2>5. /\ p \o <<x>> \in Seq(ConfigLines) /\ Len(p \o <<x>>) = n
        /\ \A i \in 1..n : (p \o <<x>>)[i] = q[i]
    <3>1. /\ p \o <<x>> \in Seq(ConfigLines) /\ Len(p \o <<x>>) = Len(p) + Len(<<x>>)
          /\ \A i \in 1..(Len(p) + Len(<<x>>)) :
               (p \o <<x>>)[i] = IF i <= Len(p) THEN p[i] ELSE <<x>>[i - Len(p)]
      BY <2>2, <2>4, ConcatProperties
    <3> DEFINE y == <<x>>
    <3> HIDE DEF y
    <3>2. \A i \in 1..n : (p \o y)[i] = q[i]
      <4> TAKE i \in 1..n
      <4>1. CASE i <= n - 1
        BY <2>1, <2>2, <2>3, <2>4, <3>1, <4>1 DEF y
      <4>2. CASE ~(i <= n - 1)
        <5>1. i = n /\ i - Len(p) = 1
          BY <2>1, <2>2, <4>2
        <5>2. (p \o y)[i] = y[1]
          BY <2>1, <2>2, <2>4, <3>1, <4>2, <5>1 DEF y
        <5>3. q[i] = lines[n] /\ lines[n] = x
          BY <2>1, <2>3, <5>1 DEF x
        <5> QED BY <2>4, <5>2, <5>3 DEF y
      <4> QED BY <4>1, <4>2
    <3> QED BY <2>1, <2>2, <2>4, <3>1, <3>2 DEF y
  <2> QED BY <2>2, <2>3, <2>4, <2>5, SeqEqual DEF p, q
<1>4. Takes(<<x>>, Now, Now')
  BY TakesFacts DEF TheLine
<1>5. Takes(SubSeq(lines, 1, n), Start, Now')
  BY <1>1, <1>3, <1>4, TakesBoth
<1>6. Takes(SubSeq(lines, 1, current - 1), Start, Now)'
  BY <1>2, <1>5 DEF Start
<1> QED BY <1>1, <1>2, <1>6, ReadersAre DEF ReadSoFar

\* Each function of the parser does to the line it looks at what After says.
LEMMA ParseReads ==
  ASSUME ReadSoFar, ParseServerLine \/ ParseCgiLine \/ ParseUnexpected
  PROVE  ReadSoFar'
<1> DEFINE x == TheLine
<1>1. mode = "parse" /\ HasMoreLines /\ current' = current + 1 /\ UNCHANGED fileVars
  BY DEF ParseServerLine, ParseCgiLine, ParseUnexpected, At,
         Advance, NextLine, fileVars
<1>2. After(Now, x) = InParse(configs, server, location, x)
  BY <1>1, AfterStage DEF Now
<1>3. IsCgi(x) => ~HasServer(x)
  BY DEF IsCgi, HasServer
<1> HIDE DEF x
<1>4. mode' \in Readers /\ Now' = InParse(configs, server, location, x)
  <2>1. CASE ParseServerLine
    BY <2>1, ReadersAre DEF ParseServerLine, Advance, Now, InParse, x
  <2>2. CASE ParseCgiLine
    BY <1>3, <2>2, ReadersAre DEF ParseCgiLine, Advance, Now, InParse, x
  <2>3. CASE ParseUnexpected
    BY <1>1, <2>3, ReadersAre DEF ParseUnexpected, AfterError, Now, InParse, x
  <2> QED BY <2>1, <2>2, <2>3
<1>5. Now' = After(Now, TheLine)
  BY <1>2, <1>4 DEF x
<1> QED BY <1>1, <1>4, <1>5, LineRead, ReadersAre

LEMMA ServerReads ==
  ASSUME ReadSoFar,
         \/ SkipOpening \/ ServerEnd \/ ServerLocation \/ ServerCgi
         \/ ServerDirective
  PROVE  ReadSoFar'
<1> DEFINE x == TheLine
<1>1. /\ mode = "opening" \/ (mode = "server" /\ ~SkipOpening)
      /\ HasMoreLines /\ current' = current + 1 /\ UNCHANGED fileVars
  BY DEF SkipOpening, ServerEnd, ServerLocation, ServerCgi,
         ServerDirective, InServer, At, Advance, fileVars
<1>2. CASE SkipOpening
  <2>1. After(Now, x) = InOpening(configs, server, location, x)
    BY <1>2, AfterStage DEF Now, SkipOpening, At
  <2>2. mode' \in Readers /\ Now' = InOpening(configs, server, location, x)
    BY <1>2, ReadersAre DEF SkipOpening, Advance, Now, InOpening
  <2>3. Now' = After(Now, TheLine)
    BY <2>1, <2>2
  <2> QED BY <1>1, <2>2, <2>3, LineRead, ReadersAre
<1>3. CASE ServerEnd \/ ServerLocation \/ ServerCgi \/ ServerDirective
  <2>1. After(Now, x) = InServerBlock(configs, server, location, x)
    <3>1. CASE mode = "server"
      BY <3>1, AfterStage DEF Now
    <3>2. CASE mode = "opening" /\ ~IsBlockStart(x)
      BY <3>2, AfterStage DEF Now, InOpening
    <3> QED BY <1>3, <3>1, <3>2 DEF ServerEnd, ServerLocation, ServerCgi,
                                    ServerDirective, InServer, At
  <2>2. /\ IsLocation(x) => x # CloseBrace
        /\ IsCgi(x) => x # CloseBrace /\ ~IsLocation(x)
    BY LineFacts DEF IsLocation, IsCgi
  <2> HIDE DEF x
  <2>3. mode' \in Readers /\ Now' = InServerBlock(configs, server, location, x)
    <3>1. CASE ServerEnd
      BY <3>1, ReadersAre DEF ServerEnd, Advance, Now, InServerBlock, x
    <3>2. CASE ServerLocation
      BY <2>2, <3>2, ReadersAre DEF ServerLocation, Advance, Now, InServerBlock, x
    <3>3. CASE ServerCgi
      BY <2>2, <3>3, ReadersAre DEF ServerCgi, Advance, Now, InServerBlock, x
    <3>4. CASE ServerDirective
      BY <3>4, ReadersAre DEF ServerDirective, Advance, Now, InServerBlock, Ported, x
    <3> QED BY <1>3, <3>1, <3>2, <3>3, <3>4
  <2>4. Now' = After(Now, TheLine)
    BY <2>1, <2>3 DEF x
  <2> QED BY <1>1, <2>3, <2>4, LineRead, ReadersAre
<1> QED BY <1>2, <1>3

LEMMA LocationReads ==
  ASSUME ReadSoFar, LocationBrace \/ LocationEnd \/ LocationDirective
  PROVE  ReadSoFar'
<1> DEFINE x == TheLine
<1>1. /\ mode \in {"brace", "location"} /\ HasMoreLines /\ current' = current + 1
      /\ UNCHANGED fileVars
  BY DEF LocationBrace, LocationEnd, LocationDirective, At,
         Advance, fileVars
<1>2. mode' \in Readers /\ Now' = After(Now, x)
  <2>1. CASE LocationBrace
    <3>1. After(Now, x) = InBrace(configs, server, location, x)
      BY <2>1, AfterStage DEF Now, LocationBrace, At
    <3>2. mode' \in Readers /\ Now' = InBrace(configs, server, location, x)
      BY <2>1, ReadersAre DEF LocationBrace, Advance, Now, InBrace
    <3> QED BY <3>1, <3>2
  <2>2. CASE LocationEnd \/ LocationDirective
    <3>1. After(Now, x) = InLocation(configs, server, location, x)
      BY <2>2, AfterStage DEF Now, LocationEnd, LocationDirective, At
    <3>2. mode' \in Readers /\ Now' = InLocation(configs, server, location, x)
      <4>1. CASE LocationEnd
        BY <4>1, ReadersAre DEF LocationEnd, Advance, PushLocation, Now,
                                InLocation, Located
      <4>2. CASE LocationDirective
        <5>1. mode = "location" /\ mode' = mode
          BY <4>2 DEF LocationDirective, At
        <5> QED BY <4>2, <5>1, ReadersAre DEF LocationDirective, Advance,
                                              Methods, Now, InLocation
      <4> QED BY <2>2, <4>1, <4>2
    <3> QED BY <3>1, <3>2
  <2> QED BY <2>1, <2>2
<1> QED BY <1>1, <1>2, LineRead, ReadersAre

LEMMA CgiReads ==
  ASSUME ReadSoFar, CgiEnd \/ CgiHandler \/ CgiHandlerBehind
  PROVE  ReadSoFar'
<1> DEFINE x == TheLine
<1>1. /\ mode \in {"cgi", "cgiBehind"} /\ HasMoreLines /\ current' = current + 1
      /\ UNCHANGED fileVars
  BY DEF CgiEnd, CgiHandler, CgiHandlerBehind, At,
         Advance, fileVars
<1>2. CASE mode = "cgi"
  <2>1. After(Now, x) = InCgi(configs, server, location, x)
    BY <1>2, AfterStage DEF Now
  <2>2. mode' \in Readers /\ Now' = InCgi(configs, server, location, x)
    <3>1. CASE CgiEnd
      BY <1>2, <3>1, ReadersAre DEF CgiEnd, Advance, Now, InCgi
    <3>2. CASE CgiHandler
      <4>1. mode' = "cgi"
        BY <1>2, <3>2 DEF CgiHandler
      <4> QED BY <3>2, <4>1, ReadersAre DEF CgiHandler, Advance, Now, InCgi
    <3>3. ~CgiHandlerBehind
      BY <1>2 DEF CgiHandlerBehind, At
    <3> QED BY <3>1, <3>2, <3>3
  <2>3. Now' = After(Now, TheLine)
    BY <2>1, <2>2
  <2> QED BY <1>1, <2>2, <2>3, <1>2, LineRead, ReadersAre
<1>3. CASE mode = "cgiBehind"
  <2>1. After(Now, x) = InCgiBehind(configs, server, location, x)
    BY <1>3, AfterStage DEF Now
  <2>2. mode' \in Readers /\ Now' = InCgiBehind(configs, server, location, x)
    <3>1. CASE CgiEnd
      BY <1>3, <3>1, ReadersAre DEF CgiEnd, Advance, Now, InCgiBehind
    <3>2. CASE CgiHandlerBehind
      <4>1. mode' = "cgiBehind"
        BY <1>3, <3>2 DEF CgiHandlerBehind
      <4> QED BY <3>2, <4>1, ReadersAre DEF CgiHandlerBehind, CgiOwner,
                                            Advance, Now, InCgiBehind, Grown
    <3>3. ~CgiHandler
      BY <1>3 DEF CgiHandler, At
    <3> QED BY <3>1, <3>2, <3>3
  <2>3. Now' = After(Now, TheLine)
    BY <2>1, <2>2
  <2> QED BY <1>1, <2>2, <2>3, <1>3, LineRead, ReadersAre
<1> QED BY <1>1, <1>2, <1>3

\* The end of the file, and what is looked at after it.
LEMMA EndReads ==
  ASSUME ReadSoFar, EndOfFile \/ Validate \/ ParseCgiFirst \/ UNCHANGED configVars
  PROVE  ReadSoFar'
<1>1. /\ UNCHANGED <<written, style, damage, lines, current>>
      /\ FileIs' /\ (lines \in Seq(ConfigLines))' /\ (current \in 1..(Len(lines) + 1))'
  BY DEF ReadSoFar, FileIs, EndOfFile, Validate, ParseCgiFirst, configVars,
         fileVars
<1>2. CASE EndOfFile
  <2>1. /\ mode \in Readers /\ current = Len(lines) + 1 /\ lines \in Seq(ConfigLines)
        /\ Takes(SubSeq(lines, 1, current - 1), Start, Now)
    BY <1>2 DEF ReadSoFar, EndOfFile, HasMoreLines
  <2>2. SubSeq(lines, 1, current - 1) = lines
    <3>1. current - 1 = Len(lines)
      BY <2>1
    <3> QED BY <2>1, <3>1, SubSeqFull
  <2>3. Now.mode = mode /\ Now.configs = configs /\ Now.server = server /\ Now.location = location
    BY DEF Now, Stage
  <2>4. configs' = Ended(Now) /\ mode' = "validate"
    BY <1>2, <2>3 DEF EndOfFile, Ended, Located
  <2>5. \E t : t.mode \in Readers /\ Takes(lines', Start, t) /\ configs' = Ended(t)
    BY <1>1, <2>1, <2>2, <2>3, <2>4
  <2> QED BY <1>1, <2>4, <2>5, ReadersAre DEF ReadSoFar
<1>3. CASE Validate
  <2>1. /\ mode = "validate" /\ mode' = "done" /\ configs' = configs
        /\ valid' = Valid(configs)
    BY <1>3 DEF Validate
  <2>2. \E t : t.mode \in Readers /\ Takes(lines, Start, t) /\ configs = Ended(t)
    BY <2>1 DEF ReadSoFar
  <2>3. \E t : t.mode \in Readers /\ Takes(lines', Start, t) /\ configs' = Ended(t)
    BY <1>1, <2>1, <2>2
  <2>4. valid' = Valid(configs)'
    BY <2>1 DEF Valid
  <2> QED BY <1>1, <2>1, <2>3, <2>4, ReadersAre DEF ReadSoFar
<1>4. CASE ParseCgiFirst \/ UNCHANGED configVars
  <2>1. UNCHANGED <<written, style, damage, lines, current, mode, configs, server, location, valid>>
    BY <1>4 DEF ParseCgiFirst, fileVars, configVars
  <2>2. Now' = Now
    BY <2>1 DEF Now
  <2>3. Valid(configs)' = Valid(configs)
    BY <2>1 DEF Valid
  <2> QED BY <1>1, <2>1, <2>2, <2>3 DEF ReadSoFar
<1> QED BY <1>2, <1>3, <1>4

LEMMA AlwaysReadSoFar == ConfigSpec => []ReadSoFar
<1>1. ConfigInit => ReadSoFar
  BY ReadInit
<1>2. ReadSoFar /\ [ConfigNext]_configVars => ReadSoFar'
  BY ParseReads, ServerReads, LocationReads, CgiReads, EndReads DEF ConfigNext
<1> QED BY <1>1, <1>2, PTL DEF ConfigSpec

-----------------------------------------------------------------------------
(* What validate() asks of the paths of a server is that they are as many as its locations. *)

LEMMA DistinctPaths ==
  ASSUME NEW S, NEW q \in Seq(S)
  PROVE  Distinct([j \in DOMAIN q |-> q[j].path])
           <=> PathsDiffer(q)
<1> DEFINE n == Len(q)
           f == [j \in 1..n |-> q[j].path]
           T == {l.path : l \in Range(q)}
<1>1. n \in Nat /\ DOMAIN q = 1..n
  OBVIOUS
<1>2. T = {q[j].path : j \in 1..n}
  BY <1>1 DEF Range
<1>3. f \in Surjection(1..n, T)
  <2> HIDE DEF n, T
  <2> QED BY <1>2 DEF Surjection
<1>4. IsFiniteSet(1..n) /\ Cardinality(1..n) = n
  <2> HIDE DEF n
  <2> QED BY <1>1, FS_Interval
<1>5. Cardinality(T) = n <=> f \in Injection(1..n, T)
  <2> HIDE DEF n, T, f
  <2> QED BY <1>3, <1>4, FS_Surjection
<1>6. f \in Injection(1..n, T) <=> Distinct([j \in DOMAIN q |-> q[j].path])
  <2>1. f \in [1..n -> T]
    <3> HIDE DEF n, T
    <3> QED BY <1>2
  <2>2. f = [j \in DOMAIN q |-> q[j].path] /\ DOMAIN f = 1..n
    BY <1>1
  <2> HIDE DEF n, T, f
  <2> QED BY <2>1, <2>2 DEF Injection, IsInjective, Distinct
<1>7. PathsDiffer(q) <=> Cardinality(T) = n
  BY DEF PathsDiffer, T
<1> QED BY <1>5, <1>6, <1>7

LEMMA ValidMeans ==
  ASSUME NEW w \in Seq(WrittenServers)
  PROVE  Valid(w) <=> Acceptable(w)
<1> DEFINE Paths(i) == Distinct([j \in DOMAIN w[i].locations |-> w[i].locations[j].path])
<1>1. ASSUME NEW i \in DOMAIN w
      PROVE  w[i].port \in Int /\ (Paths(i) <=> PathsDiffer(w[i].locations))
  <2>1. w[i] \in WrittenServers
    OBVIOUS
  <2>2. w[i].port \in Int /\ w[i].locations \in Seq(WrittenLocations)
    BY <2>1 DEF WrittenServers
  <2> QED BY <2>2, DistinctPaths
<1>2. Valid(w) <=>
        /\ \A i, j \in DOMAIN w : w[i].port = w[j].port => i = j
        /\ \A i \in DOMAIN w : w[i].port > 0 /\ w[i].port < 65536 /\ Paths(i)
  <2>1. Distinct([i \in DOMAIN w |-> w[i].port])
          <=> \A i, j \in DOMAIN w : w[i].port = w[j].port => i = j
    BY DEF Distinct
  <2> QED BY SMTT(30), <2>1 DEF Valid
<1>3. \A i \in DOMAIN w :
        (w[i].port \in 1..MaxPort) <=> (w[i].port > 0 /\ w[i].port < 65536)
  <2>1. \A p \in Int : (p \in 1..MaxPort) <=> (p > 0 /\ p < 65536)
    <3>1. MaxPort = 65535
      BY DEF MaxPort
    <3> QED BY SMTT(30), <3>1
  <2> HIDE DEF Paths
  <2> QED BY <1>1, <2>1
<1> HIDE DEF Paths
<1>4. Acceptable(w) <=>
        /\ \A i, j \in DOMAIN w : i # j => w[i].port # w[j].port
        /\ \A i \in DOMAIN w : (w[i].port \in 1..MaxPort) /\ PathsDiffer(w[i].locations)
  BY DEF Acceptable
<1> QED BY <1>1, <1>2, <1>3, <1>4

-----------------------------------------------------------------------------
(* The results of parse(). *)

LEMMA LocatedType ==
  ASSUME NEW s \in Servers, NEW l \in Locations
  PROVE  Located(s, l) \in Servers
<1>1. s.locations \in Seq(Locations)
  BY DEF Servers
<1>2. Append(s.locations, l) \in Seq(Locations)
  BY <1>1
<1> QED BY <1>2 DEF Located, Servers

LEMMA WrittenServersType == WrittenServers \subseteq Servers
<1> SUFFICES ASSUME NEW v \in WrittenServers PROVE v \in Servers
  OBVIOUS
<1>1. v = [port |-> v.port, locations |-> v.locations, cgi |-> v.cgi]
      /\ v.port \in Int /\ v.locations \in Seq(WrittenLocations) /\ v.cgi \in SUBSET Handlers
  BY DEF WrittenServers
<1>2. v.port \in Values
  BY <1>1, ValuesAre
<1>3. v.locations \in Seq(Locations)
  BY <1>1, WrittenType, SeqMonotonic
<1>4. v.cgi \in SUBSET ConfigLines
  BY <1>1, HandlersType
<1> HIDE DEF Servers
<1>5. [port |-> v.port, locations |-> v.locations, cgi |-> v.cgi] \in Servers
  BY <1>2, <1>3, <1>4 DEF Servers
<1> QED BY <1>1, <1>5

\* Once parse() is done, its servers are those of a stage the whole file leads to.
LEMMA DoneIs ==
  ASSUME ReadSoFar, mode = "done"
  PROVE  \E t \in Stages : /\ t.mode # "stuck" /\ Takes(lines, Start, t) /\ configs = Ended(t)
                           /\ valid = Valid(configs)
<1>1. PICK t : t.mode \in Readers /\ Takes(lines, Start, t) /\ configs = Ended(t)
  BY DEF ReadSoFar
<1>2. t \in Stages
  BY <1>1, StartGood, TakesType DEF ReadSoFar
<1> QED BY <1>1, <1>2 DEF ReadSoFar, Readers

\* However a file is laid out, and whatever line is missing from it or brace is too
\* many in it: the servers in front of that place are parsed as they were written.
THEOREM DamageSparesEarlierServers == ConfigSpec => []EarlierServersKept
<1>1. ReadSoFar => EarlierServersKept
  <2> SUFFICES ASSUME ReadSoFar, mode = "done", NEW k \in DOMAIN written,
                      damage = 0 \/ Len(Before(k)) < damage
               PROVE  KeptUpTo(k)
    BY DEF EarlierServersKept, Before
  <2> DEFINE Z == Keeping(written, style, k)
  <2>1. PICK t \in Stages : t.mode # "stuck" /\ Takes(lines, Start, t) /\ configs = Ended(t)
    BY DoneIs
  <2>2. /\ FileOf(written, style) /\ lines \in Seq(ConfigLines) /\ k \in 0..Len(written) /\ k \in Nat
        /\ Len(Before(k)) <= Len(lines) /\ IsAt(lines, Before(k), 1)
    <3>1. FileOf(written, style) /\ lines \in Seq(ConfigLines) /\ k \in 0..Len(written) /\ k \in Nat
      BY FileFacts DEF ReadSoFar, FileOf
    <3> QED BY <3>1, FileFacts DEF ReadSoFar
  <2>3. PICK u \in Good(written, style, k) : Takes(Before(k), Start, u)
    BY <2>2, TextTaken DEF Before
  <2>4. Before(k) \in Seq(ConfigLines) /\ u \in Z
    BY <2>2, TextTaken, GoodKeeping DEF Before
  <2>5. \A i \in (Len(Before(k)) + 1)..Len(lines) : \A z \in Z : After(z, lines[i]) \in Z
    <3> TAKE i \in (Len(Before(k)) + 1)..Len(lines)
    <3>1. lines[i] \in ConfigLines
      <4>1. i \in 1..Len(lines)
        BY <2>2, <2>4
      <4> QED BY <2>2, <4>1
    <3> QED BY <2>2, <3>1, KeptAfter
  <2> HIDE DEF Z
  <2>6. t \in Z
    BY <2>1, <2>2, <2>3, <2>4, <2>5, TakesOnce
  <2>7. Kept(t.configs, written, style, k)
    BY <2>1, <2>6 DEF Keeping, Z
  <2>8. Kept(configs, written, style, k)
    <3>1. t.configs \in Seq(Servers) /\ t.server \in Servers /\ Located(t.server, t.location) \in Servers
      <4>1. t.configs \in Seq(Servers) /\ t.server \in Servers /\ t.location \in Locations
        BY <2>1, StageIs
      <4> QED BY <4>1, LocatedType
    <3>2. \A s \in Servers : Kept(Append(t.configs, s), written, style, k)
      BY <2>2, <2>7, <3>1, KeptMore
    <3> QED BY <2>1, <2>7, <3>1, <3>2 DEF Ended
  <2> QED BY <2>8 DEF Kept, KeptUpTo, CgiIsRead
<1> QED BY <1>1, AlwaysReadSoFar, PTL

\* A well-formed file of any size, laid out in any of the ways, gives the
\* configuration it was written for, and validate() accepts exactly the right ones.
THEOREM WellFormedFileParsed == ConfigSpec => []ParsedAsWritten
<1>1. ReadSoFar => ParsedAsWritten
  <2> SUFFICES ASSUME ReadSoFar, mode = "done", damage = 0,
                      CgiIsRead \/ \A i \in DOMAIN written : written[i].cgi = {}
               PROVE  configs = written /\ (valid <=> Acceptable(written))
    BY DEF ParsedAsWritten
  <2> DEFINE n == Len(written)
  <2>1. PICK t \in Stages : /\ t.mode # "stuck" /\ Takes(lines, Start, t) /\ configs = Ended(t)
                            /\ valid = Valid(configs)
    BY DoneIs
  <2>2. /\ FileOf(written, style) /\ lines \in Seq(ConfigLines)
        /\ lines = FileText(written, style) /\ written \in Seq(WrittenServers)
    BY FileFacts DEF ReadSoFar, FileOf
  <2>3. PICK u \in Good(written, style, n) : Takes(lines, Start, u)
    BY <2>2, TextTaken
  <2>4. t \in {u}
    <3> DEFINE Z == {u}
    <3>1. /\ Len(lines) <= Len(lines) /\ IsAt(lines, lines, 1)
          /\ \A i \in (Len(lines) + 1)..Len(lines) : \A z \in Z : After(z, lines[i]) \in Z
      BY <2>2, SelfAt
    <3>2. lines \in Seq(ConfigLines) /\ u \in Z /\ Takes(lines, Start, t) /\ Takes(lines, Start, u)
      BY <2>1, <2>2, <2>3
    <3> HIDE DEF Z
    <3>3. t \in Z
      BY <3>1, <3>2, TakesOnce
    <3> QED BY <3>3 DEF Z
  <2>5. t.mode = "parse" /\ As(t.configs, written, style, n) /\ configs = t.configs
    BY <2>1, <2>3, <2>4 DEF Good, Ended
  <2>6. Exact(written, style)
    BY <2>2 DEF Exact, CgiIsRead
  <2>7. configs = written
    <3>1. configs \in Seq(Servers)
      BY <2>1, <2>5, StageIs
    <3>2. written \in Seq(Servers)
      BY <2>2, WrittenServersType, SeqMonotonic
    <3>3. Len(configs) = Len(written) /\ \A i \in 1..n : configs[i] = written[i]
      <4>1. Len(configs) = n
        BY <2>5 DEF As
      <4>2. \A i \in 1..n : configs[i] = written[i]
        <5> TAKE i \in 1..n
        <5>1. /\ configs[i].port = written[i].port /\ configs[i].locations = written[i].locations
              /\ configs[i].cgi = written[i].cgi
          BY <2>5, <2>6 DEF As
        <5>2. configs[i] \in Servers /\ written[i] \in Servers
          BY <3>1, <3>2, <4>1
        <5> QED BY <5>1, <5>2 DEF Servers
      <4> QED BY <4>1, <4>2
    <3> QED BY <3>1, <3>2, <3>3, SeqEqual
  <2>8. Valid(configs) <=> Acceptable(written)
    BY <2>2, <2>7, ValidMeans
  <2> QED BY <2>1, <2>7, <2>8
<1> QED BY <1>1, AlwaysReadSoFar, PTL

\* A file whose first CGI block precedes all servers is never done with: parse()
\* adds an error for its first line again and again.
THEOREM EarlyCgiNeverEnds == ConfigSpec => [](Hangs(lines) => mode # "done")
<1>1. ReadSoFar => (Hangs(lines) => mode # "done")
  <2> SUFFICES ASSUME ReadSoFar, mode = "done", Hangs(lines) PROVE FALSE
    OBVIOUS
  <2>1. PICK t \in Stages : t.mode # "stuck" /\ Takes(lines, Start, t)
    BY DoneIs
  <2>2. PICK g : /\ g[0] = Start /\ g[Len(lines)] = t
                 /\ \A k \in 1..Len(lines) : g[k] = After(g[k - 1], lines[k])
    BY <2>1 DEF Takes
  <2>3. lines \in Seq(ConfigLines) /\ Len(lines) \in Nat
    BY DEF ReadSoFar
  <2>4. PICK i \in 1..Len(lines) :
          IsCgi(lines[i]) /\ \A j \in 1..(i - 1) : ~HasServer(lines[j])
    BY <2>3 DEF Hangs
  <2> DEFINE Stopped == {z \in Stages : z.mode = "stuck"}
             Empty == {z \in Stages : z.mode = "parse" /\ z.configs = <<>>}
             T == {k \in Nat : k <= Len(lines) => g[k] \in IF k < i THEN Empty \cup Stopped ELSE Stopped}
  <2>5. ASSUME NEW z \in Stopped, NEW x \in ConfigLines PROVE After(z, x) \in Stopped
    BY ConfigsAfter
  <2>6. ASSUME NEW z \in Empty, NEW x \in ConfigLines, ~HasServer(x)
        PROVE  After(z, x) \in IF IsCgi(x) THEN Stopped ELSE Empty
    <3>1. After(z, x) \in Stages
      BY AfterType
    <3>2. After(z, x) = InParse(<<>>, z.server, z.location, x)
      BY StageIs, AfterStage
    <3>3. \A m, c, s, l : Stage(m, c, s, l).mode = m /\ Stage(m, c, s, l).configs = c
      BY DEF Stage
    <3> QED BY <2>6, <3>1, <3>2, <3>3 DEF InParse
  <2>7. 0 \in T
    <3>1. Start \in Empty
      BY StartGood DEF Start, Stage
    <3>2. 0 < i
      OBVIOUS
    <3> HIDE DEF Empty, Stopped
    <3> QED BY <2>2, <3>1, <3>2
  <2>8. ASSUME NEW k \in Nat, k \in T PROVE k + 1 \in T
    <3> DEFINE q == k + 1
               x == lines[q]
    <3> SUFFICES ASSUME q <= Len(lines)
                 PROVE  g[q] \in IF q < i THEN Empty \cup Stopped ELSE Stopped
      OBVIOUS
    <3>1. q \in 1..Len(lines) /\ q - 1 = k /\ k <= Len(lines) /\ x \in ConfigLines
      BY <2>3
    <3>2. g[q] = After(g[k], x)
      BY <2>2, <3>1
    <3>3. g[k] \in IF k < i THEN Empty \cup Stopped ELSE Stopped
      BY <2>8, <3>1
    <3>4. q = i => IsCgi(x)
      BY <2>4
    <3>5. q <= i => ~HasServer(x)
      <4>1. CASE q = i
        BY <2>4, <4>1 DEF IsCgi, HasServer
      <4>2. CASE q < i
        BY <2>4, <3>1, <4>2
      <4> QED BY <2>3, <3>1, <4>1, <4>2
    <3>6. (k < i <=> q <= i) /\ (q < i => q <= i) /\ (q <= i => q < i \/ q = i)
      BY <3>1
    <3> HIDE DEF Empty, Stopped, q, x
    <3> QED BY <2>5, <2>6, <3>1, <3>2, <3>3, <3>4, <3>5, <3>6
  <2>9. Len(lines) \in T
    <3> HIDE DEF T
    <3> QED BY <2>3, <2>7, <2>8, Induction
  <2>10. g[Len(lines)] \in Stopped
    <3> HIDE DEF Empty, Stopped
    <3> QED BY <2>3, <2>4, <2>9
  <2> QED BY <2>1, <2>2, <2>10
<1> QED BY <1>1, AlwaysReadSoFar, PTL

===============================================================================
