---------------------------- MODULE TelnetProofs ----------------------------
(***************************************************************************)
(* Proofs about the byte streams of a telnet session, for any messages,    *)
(* any sizes of the buffers and streams of any length.                     *)
(***************************************************************************)
EXTENDS Telnet, SequenceTheorems, WellFoundedInduction, TLAPS

-----------------------------------------------------------------------------
(* Induction over the bytes of a stream.                                   *)

\* A set of numbers that holds 0 and the successor of each of its members below
\* n holds all numbers up to n: else take the first that it lacks.
LEMMA FirstOf ==
    ASSUME NEW F, F \subseteq Nat, F # {}
    PROVE  \E f \in F : \A g \in F : f <= g
<1>1. PICK f \in F : \A g \in F : <<g, f>> \notin OpToRel(<, Nat)
  BY WFMin, NatLessThanWellFounded
<1>2. \A g \in F : ~ (g < f)
  BY <1>1 DEF OpToRel
<1> QED BY <1>2, SMT

LEMMA Upwards ==
    ASSUME NEW n \in Nat, NEW S, 0 \in S,
           \A i \in 0 .. n - 1 : i \in S => i + 1 \in S
    PROVE  0 .. n \subseteq S
<1> SUFFICES ASSUME (0 .. n) \ S # {} PROVE FALSE
  OBVIOUS
<1>1. PICK f \in (0 .. n) \ S : \A g \in (0 .. n) \ S : f <= g
  <2>1. (0 .. n) \ S \subseteq Nat
    OBVIOUS
  <2> QED BY <2>1, FirstOf
<1>2. f - 1 \in 0 .. n - 1
  OBVIOUS
<1>3. f - 1 \in S
  BY <1>1, <1>2
<1> QED BY <1>2, <1>3

\* A set of sequences that holds the empty one and, with each, those longer by
\* one holds all of them.
LEMMA ByAppending ==
    ASSUME NEW S, NEW P, <<>> \in P,
           \A w \in Seq(S), x \in S : w \in P => Append(w, x) \in P
    PROVE  Seq(S) \subseteq P
<1> SUFFICES ASSUME NEW w \in Seq(S) PROVE w \in P
  OBVIOUS
<1> DEFINE n == Len(w)
           E == {i \in 0 .. n : SubSeq(w, 1, i) \in P}
<1>0. n \in Nat /\ \A i \in 1 .. n : w[i] \in S
  OBVIOUS
<1>1. 0 \in E
  <2>1. SubSeq(w, 1, 0) = <<>>
    BY SubSeqEmpty
  <2>2. SubSeq(w, 1, 0) \in P
    BY <2>1
  <2>3. 0 \in 0 .. n
    BY <1>0
  <2> QED BY <2>2, <2>3
<1>2. ASSUME NEW i \in 0 .. n - 1, i \in E PROVE i + 1 \in E
  <2> DEFINE v == SubSeq(w, 1, i)
             x == w[i + 1]
  <2>1. i + 1 \in 1 .. n /\ i + 1 \in 0 .. n /\ x \in S
    BY <1>0
  <2>2. v \in Seq(S) /\ v \in P
    <3>1. \A j \in 1 .. i : w[j] \in S
      BY <1>0
    <3> QED BY <1>2, <3>1, SubSeqProperties
  <2>3. SubSeq(w, 1, i + 1) = v \o <<x>>
    <3>1. 1 \in 1 .. Len(w) /\ i + 1 \in 1 .. Len(w) /\ (i + 1) - 1 = i
      BY <2>1
    <3>2. SubSeq(w, 1, i + 1) = SubSeq(w, 1, (i + 1) - 1) \o <<w[i + 1]>>
      BY <3>1, SubSeqRecursiveSecond
    <3> QED BY <3>1, <3>2
  <2> HIDE DEF v, x
  <2>4. Append(v, x) = v \o <<x>>
    BY <2>1, <2>2, AppendIsConcat
  <2>5. Append(v, x) \in P
    BY <2>1, <2>2
  <2> QED BY <2>1, <2>3, <2>4, <2>5
<1>3. \A i \in 0 .. n - 1 : i \in E => i + 1 \in E
  BY <1>2
<1> HIDE DEF E
<1>4. n \in E
  <2>1. 0 .. n \subseteq E
    BY <1>0, <1>1, <1>3, Upwards
  <2> QED BY <1>0, <2>1
<1>5. SubSeq(w, 1, n) = w
  BY SubSeqFull
<1> QED BY <1>4, <1>5 DEF E

\* The two parts of a sequence cut after n.
LEMMA Cut ==
    ASSUME NEW S, NEW w \in Seq(S), NEW n \in 0 .. Len(w)
    PROVE  LET a == SubSeq(w, 1, n)
               b == SubSeq(w, n + 1, Len(w))
           IN  /\ a \in Seq(S) /\ b \in Seq(S) /\ a \o b = w
               /\ Len(a) = n /\ Len(b) = Len(w) - n
               /\ \A i \in 1 .. n : a[i] = w[i]
               /\ \A i \in 1 .. Len(w) - n : b[i] = w[n + i]
<1> DEFINE a == SubSeq(w, 1, n)
           b == SubSeq(w, n + 1, Len(w))
<1>1. Len(w) \in Nat /\ \A i \in 1 .. Len(w) : w[i] \in S
  OBVIOUS
<1>2. /\ a \in Seq(S) /\ Len(a) = (IF 1 <= n THEN n - 1 + 1 ELSE 0)
      /\ \A i \in 1 .. n - 1 + 1 : a[i] = w[1 + i - 1]
  <2>1. \A i \in 1 .. n : w[i] \in S
    BY <1>1
  <2> QED BY <1>1, <2>1, SubSeqProperties
<1>3. /\ b \in Seq(S)
      /\ Len(b) = (IF n + 1 <= Len(w) THEN Len(w) - (n + 1) + 1 ELSE 0)
      /\ \A i \in 1 .. Len(w) - (n + 1) + 1 : b[i] = w[(n + 1) + i - 1]
  <2>1. \A i \in n + 1 .. Len(w) : w[i] \in S
    BY <1>1
  <2>2. n + 1 \in Int /\ Len(w) \in Int
    BY <1>1
  <2> QED BY <2>1, <2>2, SubSeqProperties
<1>4. a \o b = w
  <2>1. 1 \in 1 .. Len(w) + 1 /\ n \in 1 - 1 .. Len(w) /\ Len(w) \in n .. Len(w)
    BY <1>1
  <2>2. a \o b = SubSeq(w, 1, Len(w))
    BY <2>1, ConcatAdjacentSubSeq
  <2> QED BY <2>2, SubSeqFull
<1> HIDE DEF a, b
<1>5. Len(a) = n /\ \A i \in 1 .. n : a[i] = w[i]
  BY <1>1, <1>2
<1>6. Len(b) = Len(w) - n /\ \A i \in 1 .. Len(w) - n : b[i] = w[n + i]
  <2>1. Len(b) = Len(w) - n
    BY <1>1, <1>3
  <2>2. ASSUME NEW i \in 1 .. Len(w) - n PROVE b[i] = w[n + i]
    <3>1. i \in 1 .. Len(w) - (n + 1) + 1 /\ (n + 1) + i - 1 = n + i
      BY <1>1
    <3>2. b[i] = w[(n + 1) + i - 1]
      BY <1>3, <3>1
    <3> QED BY <3>1, <3>2
  <2> QED BY <2>1, <2>2
<1> QED BY <1>2, <1>3, <1>4, <1>5, <1>6 DEF a, b

-----------------------------------------------------------------------------
(* Definition by recursion.                                                *)

\* A function that starts with a and goes on by F; there is one.
Runs(f, n, a, F) == f[0] = a /\ \A i \in 1 .. n : f[i] = F[i][f[i - 1]]

LEMMA RunExists ==
    ASSUME NEW S, NEW n \in Nat, NEW a \in S, NEW F \in [1 .. n -> [S -> S]]
    PROVE  \E f \in [0 .. n -> S] : Runs(f, n, a, F)
<1> DEFINE P(f, i) == f[0] = a /\ \A j \in 1 .. i : f[j] = F[j][f[j - 1]]
           E == {i \in 0 .. n : \E f \in [0 .. i -> S] : P(f, i)}
<1>1. 0 \in E
  <2> DEFINE e == [j \in 0 .. 0 |-> a]
  <2>1. e \in [0 .. 0 -> S]
    OBVIOUS
  <2>2. e[0] = a /\ 1 .. 0 = {}
    OBVIOUS
  <2> HIDE DEF e
  <2>3. P(e, 0)
    BY <2>2
  <2> HIDE DEF P
  <2> QED BY <2>1, <2>3
<1>2. ASSUME NEW i \in 0 .. n - 1, i \in E PROVE i + 1 \in E
  <2>1. PICK f \in [0 .. i -> S] : P(f, i)
    BY <1>2
  <2> DEFINE g == [j \in 0 .. i + 1 |-> IF j <= i THEN f[j] ELSE F[i + 1][f[i]]]
  <2>2. f[i] \in S /\ i + 1 \in 1 .. n /\ i + 1 \in 0 .. n
    OBVIOUS
  <2>3. F[i + 1][f[i]] \in S
    BY <2>2
  <2>4. g \in [0 .. i + 1 -> S]
    BY <2>3
  <2>5. /\ \A j \in 0 .. i : g[j] = f[j]
        /\ g[i + 1] = F[i + 1][f[i]]
    OBVIOUS
  <2> HIDE DEF g
  <2>6. g[0] = a
    BY <2>1, <2>5
  <2>7. ASSUME NEW j \in 1 .. i + 1 PROVE g[j] = F[j][g[j - 1]]
    <3>1. CASE j \in 1 .. i
      <4>1. g[j] = f[j] /\ g[j - 1] = f[j - 1]
        BY <2>5, <3>1
      <4> QED BY <2>1, <3>1, <4>1
    <3>2. CASE j = i + 1
      <4>1. g[j - 1] = f[i]
        BY <2>5, <3>2
      <4> QED BY <2>5, <3>2, <4>1
    <3> QED BY <3>1, <3>2
  <2>8. P(g, i + 1)
    BY <2>6, <2>7
  <2> HIDE DEF P
  <2> QED BY <2>2, <2>4, <2>8
<1> HIDE DEF E
<1>3. \A i \in 0 .. n - 1 : i \in E => i + 1 \in E
  BY <1>2
<1>4. n \in E
  <2>1. 0 .. n \subseteq E
    BY <1>1, <1>3, Upwards
  <2> QED BY <2>1
<1> QED BY <1>4 DEF E, Runs

\* The recursive function of FlattenSeq: the first i pieces of w, for every i.
Pieces(f, w) ==
    f = [i \in 1 .. Len(w) |-> IF i = 1 THEN w[i] ELSE f[i - 1] \o w[i]]

LEMMA PiecesExist ==
    ASSUME NEW S, NEW w \in Seq(Seq(S))
    PROVE  \E f : Pieces(f, w)
<1> DEFINE n == Len(w)
           F == [i \in 1 .. n |-> [v \in Seq(S) |-> v \o w[i]]]
<1>0. n \in Nat /\ \A i \in 1 .. n : w[i] \in Seq(S)
  OBVIOUS
<1>1. F \in [1 .. n -> [Seq(S) -> Seq(S)]]
  <2>1. ASSUME NEW i \in 1 .. n, NEW v \in Seq(S) PROVE v \o w[i] \in Seq(S)
    BY <1>0, ConcatProperties
  <2> QED BY <2>1
<1>2. \A v \in Seq(S), i \in 1 .. n : F[i][v] = v \o w[i]
  OBVIOUS
<1>3. <<>> \in Seq(S)
  OBVIOUS
<1> HIDE DEF F, n
<1>4. PICK h \in [0 .. n -> Seq(S)] :
            h[0] = <<>> /\ \A i \in 1 .. n : h[i] = F[i][h[i - 1]]
  <2>1. n \in Nat
    BY <1>0
  <2> DEFINE T == Seq(S)
             a == <<>>
  <2>2. F \in [1 .. n -> [T -> T]]
    BY <1>1
  <2>4. a \in T
    BY <1>3
  <2> HIDE DEF T, a
  <2>3. \E h \in [0 .. n -> T] : Runs(h, n, a, F)
    BY <2>1, <2>2, <2>4, RunExists
  <2> QED BY <2>3 DEF T, a, Runs
<1> DEFINE f == [i \in 1 .. n |-> h[i]]
<1>5. ASSUME NEW i \in 1 .. n
      PROVE  h[i] = IF i = 1 THEN w[i] ELSE f[i - 1] \o w[i]
  <2>1. h[i] = h[i - 1] \o w[i]
    <3>1. h[i - 1] \in Seq(S)
      BY <1>0, <1>4
    <3> QED BY <1>2, <1>4, <3>1
  <2>2. CASE i = 1
    <3>1. h[i] = <<>> \o w[i]
      <4>1. i - 1 = 0
        BY <2>2
      <4> QED BY <1>4, <2>1, <4>1
    <3>2. w[i] \in Seq(S)
      BY <1>0
    <3>3. <<>> \o w[i] = w[i]
      BY <3>2, ConcatEmptySeq
    <3> QED BY <2>2, <3>1, <3>3
  <2>3. CASE i # 1
    <3>1. f[i - 1] = h[i - 1]
      BY <1>0, <2>3
    <3> QED BY <2>1, <2>3, <3>1
  <2> QED BY <2>2, <2>3
<1>6. f = [i \in 1 .. n |-> IF i = 1 THEN w[i] ELSE f[i - 1] \o w[i]]
  <2> DEFINE g == [i \in 1 .. n |-> IF i = 1 THEN w[i] ELSE f[i - 1] \o w[i]]
  <2>1. \A i \in 1 .. n : f[i] = g[i]
    BY <1>5
  <2> QED BY <2>1
<1> QED BY <1>6 DEF Pieces, n

LEMMA PiecesStep ==
    ASSUME NEW S, NEW w \in Seq(Seq(S)), NEW f, Pieces(f, w)
    PROVE  \A i \in 1 .. Len(w) :
                f[i] = IF i = 1 THEN w[i] ELSE f[i - 1] \o w[i]
<1> DEFINE g == [i \in 1 .. Len(w) |-> IF i = 1 THEN w[i] ELSE f[i - 1] \o w[i]]
<1>1. f = g
  BY DEF Pieces
<1>2. \A i \in 1 .. Len(w) :
            g[i] = IF i = 1 THEN w[i] ELSE f[i - 1] \o w[i]
  OBVIOUS
<1> HIDE DEF g
<1> QED BY <1>1, <1>2

LEMMA PiecesType ==
    ASSUME NEW S, NEW w \in Seq(Seq(S)), NEW f, Pieces(f, w)
    PROVE  \A i \in 1 .. Len(w) : f[i] \in Seq(S)
<1> DEFINE n == Len(w)
           E == {i \in 0 .. n : i > 0 => f[i] \in Seq(S)}
<1>0. n \in Nat /\ \A i \in 1 .. n : w[i] \in Seq(S)
  OBVIOUS
<1>1. \A i \in 1 .. n : f[i] = IF i = 1 THEN w[i] ELSE f[i - 1] \o w[i]
  BY PiecesStep
<1> HIDE DEF n
<1>2. 0 \in E
  BY <1>0
<1>3. ASSUME NEW i \in 0 .. n - 1, i \in E PROVE i + 1 \in E
  <2>1. i + 1 \in 1 .. n
    BY <1>0
  <2>2. f[i + 1] \in Seq(S)
    <3>1. CASE i = 0
      BY <1>0, <1>1, <2>1, <3>1
    <3>2. CASE i > 0
      <4>1. f[i + 1] = f[i] \o w[i + 1]
        <5>1. (i + 1) - 1 = i /\ i + 1 # 1
          BY <1>0, <3>2
        <5> QED BY <1>1, <2>1, <5>1
      <4>2. f[i] \in Seq(S) /\ w[i + 1] \in Seq(S)
        BY <1>0, <1>3, <2>1, <3>2
      <4> QED BY <4>1, <4>2, ConcatProperties
    <3> QED BY <1>0, <3>1, <3>2
  <2> QED BY <1>0, <2>1, <2>2
<1>4. \A i \in 0 .. n - 1 : i \in E => i + 1 \in E
  BY <1>3
<1> HIDE DEF E
<1>5. 0 .. n \subseteq E
  BY <1>0, <1>2, <1>4, Upwards
<1>6. \A i \in 1 .. n : i \in E /\ i > 0
  BY <1>0, <1>5
<1> QED BY <1>6 DEF E, n

\* Two such functions agree on the pieces their sequences share.
LEMMA PiecesAgree ==
    ASSUME NEW S, NEW w \in Seq(Seq(S)), NEW x \in Seq(S),
           NEW f, Pieces(f, w), NEW g, Pieces(g, Append(w, x))
    PROVE  /\ \A i \in 1 .. Len(w) : g[i] = f[i]
           /\ g[Len(w) + 1] = IF Len(w) = 0 THEN x ELSE g[Len(w)] \o x
<1> DEFINE n == Len(w)
           v == Append(w, x)
           E == {i \in 0 .. n : i > 0 => g[i] = f[i]}
<1>0. /\ n \in Nat /\ Len(v) = n + 1 /\ v \in Seq(Seq(S)) /\ v[n + 1] = x
      /\ \A i \in 1 .. n : v[i] = w[i]
  OBVIOUS
<1>1. \A i \in 1 .. n : f[i] = IF i = 1 THEN w[i] ELSE f[i - 1] \o w[i]
  BY PiecesStep
<1>2. \A i \in 1 .. n + 1 : g[i] = IF i = 1 THEN v[i] ELSE g[i - 1] \o v[i]
  <2>1. Pieces(g, v)
    OBVIOUS
  <2> HIDE DEF v
  <2> QED BY <1>0, <2>1, PiecesStep
<1> HIDE DEF n, v
<1>3. 0 \in E
  BY <1>0
<1>4. ASSUME NEW i \in 0 .. n - 1, i \in E PROVE i + 1 \in E
  <2>1. i + 1 \in 1 .. n /\ i + 1 \in 1 .. n + 1 /\ i + 1 \in 0 .. n
        /\ (i + 1) - 1 = i
    BY <1>0
  <2>2. /\ f[i + 1] = IF i + 1 = 1 THEN w[i + 1] ELSE f[i] \o w[i + 1]
        /\ g[i + 1] = IF i + 1 = 1 THEN w[i + 1] ELSE g[i] \o w[i + 1]
    BY <1>0, <1>1, <1>2, <2>1
  <2>3. i + 1 # 1 => g[i] = f[i]
    BY <1>0, <1>4
  <2> QED BY <2>1, <2>2, <2>3
<1>5. \A i \in 0 .. n - 1 : i \in E => i + 1 \in E
  BY <1>4
<1> HIDE DEF E
<1>6. 0 .. n \subseteq E
  BY <1>0, <1>3, <1>5, Upwards
<1>7. \A i \in 1 .. n : i \in E /\ i > 0
  BY <1>0, <1>6
<1>8. g[n + 1] = IF n = 0 THEN x ELSE g[n] \o x
  <2>1. n + 1 \in 1 .. n + 1 /\ (n + 1) - 1 = n /\ (n + 1 = 1 <=> n = 0)
    BY <1>0
  <2> QED BY <1>0, <1>2, <2>1
<1> QED BY <1>7, <1>8 DEF E, n

\* FlattenSeq puts pieces together, one by one.
LEMMA FlattenType ==
    ASSUME NEW S, NEW w \in Seq(Seq(S)) PROVE FlattenSeq(w) \in Seq(S)
<1>0. Len(w) \in Nat
  OBVIOUS
<1>1. CASE Len(w) = 0
  <2>1. FlattenSeq(w) = w
    BY <1>1 DEF FlattenSeq
  <2>2. w = <<>>
    BY <1>1
  <2> QED BY <2>1, <2>2
<1>2. CASE Len(w) > 0
  <2> DEFINE f == CHOOSE f : Pieces(f, w)
  <2>1. Pieces(f, w)
    BY PiecesExist
  <2>2. FlattenSeq(w) = f[Len(w)]
    BY <1>2 DEF FlattenSeq, Pieces
  <2> HIDE DEF f
  <2>3. Len(w) \in 1 .. Len(w)
    BY <1>0, <1>2
  <2> QED BY <2>1, <2>2, <2>3, PiecesType
<1> QED BY <1>0, <1>1, <1>2

LEMMA FlattenAppend ==
    ASSUME NEW S, NEW w \in Seq(Seq(S)), NEW x \in Seq(S)
    PROVE  FlattenSeq(Append(w, x)) = FlattenSeq(w) \o x
<1> DEFINE v == Append(w, x)
           f == CHOOSE f : Pieces(f, w)
           g == CHOOSE g : Pieces(g, v)
<1>0. /\ v \in Seq(Seq(S)) /\ Len(v) = Len(w) + 1 /\ v[Len(w) + 1] = x
      /\ Len(w) \in Nat
  OBVIOUS
<1>a. Pieces(f, w)
  BY PiecesExist
<1>b. Pieces(g, v)
  <2>1. \E h : Pieces(h, v)
    <3> HIDE DEF v
    <3> QED BY <1>0, PiecesExist
  <2> HIDE DEF v
  <2> QED BY <2>1
<1>1. /\ \A i \in 1 .. Len(w) : g[i] = f[i]
      /\ g[Len(w) + 1] = IF Len(w) = 0 THEN x ELSE g[Len(w)] \o x
  <2> HIDE DEF f, g
  <2> QED BY <1>a, <1>b, PiecesAgree
<1>2. FlattenSeq(v) = g[Len(w) + 1]
  <2> HIDE DEF v
  <2>1. Len(v) # 0
    BY <1>0
  <2> QED BY <1>0, <2>1 DEF FlattenSeq, Pieces
<1>3. CASE Len(w) = 0
  <2>1. FlattenSeq(w) = w
    BY <1>3 DEF FlattenSeq
  <2>2. w = <<>>
    BY <1>3
  <2>3. <<>> \o x = x
    BY ConcatEmptySeq
  <2> HIDE DEF v, g
  <2> QED BY <1>1, <1>2, <1>3, <2>1, <2>2, <2>3 DEF v
<1>4. CASE Len(w) > 0
  <2>1. FlattenSeq(w) = f[Len(w)]
    BY <1>4 DEF FlattenSeq, Pieces
  <2> HIDE DEF f, g
  <2>2. g[Len(w)] = f[Len(w)] /\ Len(w) # 0
    <3>1. Len(w) \in 1 .. Len(w)
      BY <1>0, <1>4
    <3> QED BY <1>1, <1>4, <3>1
  <2> HIDE DEF v
  <2> QED BY <1>1, <1>2, <2>1, <2>2 DEF v
<1> QED BY <1>0, <1>3, <1>4

-----------------------------------------------------------------------------
(* The parser.                                                             *)

Events == [kind : Commanding, what : Seq(Bytes)]

\* What process_telnet_data works on.
States == [cmd : Seq(Bytes), iac : BOOLEAN, data : Seq(Bytes),
           events : Seq(Events), out : Outgoing, error : BOOLEAN]

\* Where the parser is: only an option is longer than three bytes, and only
\* within its argument can an IAC be the last byte.
Tidy(s) ==
    /\ Len(s.cmd) <= MaxCmd + 1
    /\ s.iac => Len(s.cmd) > 3
    /\ Len(s.cmd) = 2 => s.cmd[2] \in {"SB", "WILL"}
    /\ Len(s.cmd) > 2 => s.cmd[2] = "SB"
    /\ Len(s.out) <= MaxXmit

\* A prefix of a sequence of bytes.
LEMMA UptoType ==
    ASSUME NEW S, NEW w \in Seq(S), NEW n \in Nat
    PROVE  /\ Upto(w, n) \in Seq(S)
           /\ Len(Upto(w, n)) = IF n < Len(w) THEN n ELSE Len(w)
           /\ \A i \in 1 .. Len(Upto(w, n)) : Upto(w, n)[i] = w[i]
<1> DEFINE m == IF n < Len(w) THEN n ELSE Len(w)
<1>1. m \in Nat /\ m <= Len(w)
  OBVIOUS
<1>2. \A i \in 1 .. m : w[i] \in S
  BY <1>1
<1> HIDE DEF m
<1>3. /\ SubSeq(w, 1, m) \in Seq(S)
      /\ Len(SubSeq(w, 1, m)) = IF 1 <= m THEN m - 1 + 1 ELSE 0
      /\ \A i \in 1 .. m - 1 + 1 : SubSeq(w, 1, m)[i] = w[1 + i - 1]
  BY <1>1, <1>2, SubSeqProperties
<1>4. Upto(w, n) = SubSeq(w, 1, m)
  BY DEF Upto, m
<1>5. Len(SubSeq(w, 1, m)) = m
  BY <1>1, <1>3
<1> QED BY <1>1, <1>3, <1>4, <1>5 DEF m

\* A function on 1 .. n is a sequence.
LEMMA ListType ==
    ASSUME NEW S, NEW n \in Nat, NEW f \in [1 .. n -> S]
    PROVE  f \in Seq(S) /\ Len(f) = n
<1>1. Len(f) = n
  OBVIOUS
<1>2. f \in Seq(S)
  OBVIOUS
<1> QED BY <1>1, <1>2

LEMMA FirstTwo ==
    ASSUME NEW S, NEW w \in Seq(S), Len(w) >= 2
    PROVE  SubSeq(w, 1, 2) = <<w[1], w[2]>>
<1>1. w[1] \in S /\ w[2] \in S /\ \A i \in 1 .. 2 : w[i] \in S
  OBVIOUS
<1> DEFINE u == SubSeq(w, 1, 2)
           v == <<w[1], w[2]>>
<1>2. /\ u \in Seq(S) /\ Len(u) = IF 1 <= 2 THEN 2 - 1 + 1 ELSE 0
      /\ \A i \in 1 .. 2 - 1 + 1 : u[i] = w[1 + i - 1]
  BY <1>1, SubSeqProperties
<1>3. v \in Seq(S) /\ Len(v) = 2 /\ v[1] = w[1] /\ v[2] = w[2]
  BY <1>1
<1> HIDE DEF u, v
<1>4. Len(u) = 2 /\ u[1] = w[1] /\ u[2] = w[2]
  BY <1>2
<1>5. \A i \in 1 .. Len(u) : u[i] = v[i]
  BY <1>3, <1>4
<1>6. u = v
  BY <1>2, <1>3, <1>4, <1>5, SeqEqual
<1> QED BY <1>6 DEF u, v

\* The bytes of a command on their way to the client.
LEMMA CommandBytesType ==
    ASSUME NEW w \in Seq(Bytes)
    PROVE  /\ CommandBytes(w) \in Outgoing /\ Len(CommandBytes(w)) = Len(w)
           /\ \A i \in 1 .. Len(w) : CommandBytes(w)[i] =
                [byte |-> w[i], role |-> "command"]
<1> DEFINE c == CommandBytes(w)
<1>1. c = [i \in 1 .. Len(w) |-> [byte |-> w[i], role |-> "command"]]
  BY DEF CommandBytes
<1>2. c \in [1 .. Len(w) -> [byte : Bytes, role : Roles]]
  BY <1>1 DEF Roles
<1>3. Len(w) \in Nat
  OBVIOUS
<1> HIDE DEF c
<1>4. c \in Outgoing /\ Len(c) = Len(w)
  BY <1>2, <1>3, ListType DEF Outgoing
<1> QED BY <1>1, <1>4 DEF c

\* Doubling keeps a sequence of bytes one.
LEMMA DoubledType ==
    ASSUME NEW w \in Seq(Bytes) PROVE DoubleIACs(w) \in Seq(Bytes)
<1> DEFINE d == [i \in 1 .. Len(w) |->
                    IF w[i] = "IAC" THEN <<"IAC", "IAC">> ELSE <<w[i]>>]
<1>1. ASSUME NEW i \in 1 .. Len(w)
      PROVE  (IF w[i] = "IAC" THEN <<"IAC", "IAC">> ELSE <<w[i]>>) \in Seq(Bytes)
  <2>1. w[i] \in Bytes /\ "IAC" \in Bytes
    BY DEF Bytes
  <2>2. <<w[i]>> \in Seq(Bytes) /\ <<"IAC", "IAC">> \in Seq(Bytes)
    BY <2>1
  <2> QED BY <2>2
<1>2. d \in [1 .. Len(w) -> Seq(Bytes)] /\ Len(w) \in Nat
  BY <1>1
<1>3. DoubleIACs(w) = FlattenSeq(d)
  BY DEF DoubleIACs
<1> HIDE DEF d
<1>4. d \in Seq(Seq(Bytes))
  <2> DEFINE T == Seq(Bytes)
  <2>1. d \in [1 .. Len(w) -> T]
    BY <1>2
  <2> HIDE DEF T
  <2>2. d \in Seq(T)
    BY <1>2, <2>1, ListType
  <2> QED BY <2>2 DEF T
<1> QED BY <1>3, <1>4, FlattenType

-----------------------------------------------------------------------------
(* The answers of the parser.                                              *)

OptionBytes(option) == <<"IAC", "SB">> \o DoubleIACs(option) \o <<"IAC", "SE">>

\* What the port may answer: its refusal to negotiate, or the first argument
\* of an option that it knows.
Replies == {telnet_init_seq} \cup {OptionBytes(<<"a", x>>) : x \in Bytes}

\* out as it is, or with one answer more.
Answered(o, p) == p = o \/ \E w \in Replies : p = o \o CommandBytes(w)

LEMMA OptionBytesType ==
    ASSUME NEW w \in Seq(Bytes) PROVE OptionBytes(w) \in Seq(Bytes)
<1> DEFINE d == DoubleIACs(w)
           l == <<"IAC", "SB">>
           r == <<"IAC", "SE">>
<1>1. d \in Seq(Bytes)
  BY DoubledType
<1>2. l \in Seq(Bytes) /\ r \in Seq(Bytes)
  BY DEF Bytes
<1> HIDE DEF d, l, r
<1>3. l \o d \in Seq(Bytes)
  BY <1>1, <1>2, ConcatProperties
<1>4. l \o d \o r \in Seq(Bytes)
  BY <1>2, <1>3, ConcatProperties
<1> QED BY <1>4 DEF OptionBytes, d, l, r

LEMMA RepliesType == Replies \subseteq Seq(Bytes)
<1>1. telnet_init_seq \in Seq(Bytes)
  BY DEF telnet_init_seq, Bytes
<1>2. ASSUME NEW x \in Bytes PROVE OptionBytes(<<"a", x>>) \in Seq(Bytes)
  <2>1. <<"a", x>> \in Seq(Bytes)
    BY DEF Bytes
  <2> QED BY <2>1, OptionBytesType
<1> QED BY <1>1, <1>2 DEF Replies

\* telnet_cmd_send touches the output alone.
LEMMA CmdSend ==
    ASSUME NEW s \in States, Len(s.out) <= MaxXmit, NEW w \in Replies
    PROVE  LET r == telnet_cmd_send(s, w)
           IN  /\ r \in States /\ Len(r.out) <= MaxXmit
               /\ r.cmd = s.cmd /\ r.iac = s.iac /\ r.data = s.data
               /\ Answered(s.out, r.out)
<1> DEFINE c == CommandBytes(w)
<1>0. w \in Seq(Bytes)
  BY RepliesType
<1>1. c \in Outgoing /\ Len(c) = Len(w) /\ Len(w) \in Nat
  BY <1>0, CommandBytesType
<1>2. s.out \in Outgoing /\ Len(s.out) \in Nat
  BY DEF States, Outgoing
<1>3. MaxXmit \in Nat
  BY TelnetSizesAssumption
<1> DEFINE o == s.out \o c
<1>4. o \in Outgoing /\ Len(o) = Len(s.out) + Len(w)
  <2> HIDE DEF c
  <2>1. c \in Seq([byte : Bytes, role : Roles])
        /\ s.out \in Seq([byte : Bytes, role : Roles])
    BY <1>1, <1>2 DEF Outgoing
  <2>2. s.out \o c \in Seq([byte : Bytes, role : Roles])
        /\ Len(s.out \o c) = Len(s.out) + Len(c)
    BY <2>1, ConcatProperties
  <2> QED BY <1>1, <2>2 DEF Outgoing
<1> HIDE DEF o
<1>5. CASE Len(s.out) + Len(w) > MaxXmit
  <2>1. telnet_cmd_send(s, w) = [s EXCEPT !.error = TRUE]
    BY <1>5 DEF telnet_cmd_send
  <2> QED BY <2>1 DEF States, Answered
<1>6. CASE ~ (Len(s.out) + Len(w) > MaxXmit)
  <2>1. telnet_cmd_send(s, w) = [s EXCEPT !.out = o]
    BY <1>6 DEF telnet_cmd_send, o
  <2>2. [s EXCEPT !.out = o] \in States
    BY <1>4 DEF States
  <2>3. Len(o) <= MaxXmit
    BY <1>1, <1>2, <1>3, <1>4, <1>6
  <2>4. Answered(s.out, o)
    BY DEF Answered, o
  <2> QED BY <2>1, <2>2, <2>3, <2>4 DEF States
<1> QED BY <1>5, <1>6

\* A command is taken off telnet_cmd, noted, and answered at most once.
LEMMA HandleCmd ==
    ASSUME NEW s \in States, Len(s.out) <= MaxXmit,
           NEW cmd \in Seq(Bytes), Len(cmd) > 1, cmd[2] = "SB" => Len(cmd) > 2
    PROVE  LET r == handle_telnet_cmd(s, cmd)
           IN  /\ r \in States /\ Len(r.out) <= MaxXmit
               /\ r.cmd = <<>> /\ r.iac = FALSE /\ r.data = s.data
               /\ Answered(s.out, r.out)
<1> DEFINE what == SubSeq(cmd, 2, Len(cmd))
           Done(k, v) == [s EXCEPT !.cmd = <<>>, !.iac = FALSE,
                              !.events = Append(@, [kind |-> k, what |-> v])]
<1>1. /\ what \in Seq(Bytes) /\ Len(what) = Len(cmd) - 1 /\ Len(cmd) \in Nat
      /\ \A i \in 1 .. Len(cmd) - 1 : what[i] = cmd[i + 1]
  <2>1. Len(cmd) \in Nat /\ \A i \in 2 .. Len(cmd) : cmd[i] \in Bytes
    OBVIOUS
  <2>2. /\ what \in Seq(Bytes)
        /\ Len(what) = IF 2 <= Len(cmd) THEN Len(cmd) - 2 + 1 ELSE 0
        /\ \A i \in 1 .. Len(cmd) - 2 + 1 : what[i] = cmd[2 + i - 1]
    BY <2>1, SubSeqProperties
  <2> QED BY <2>1, <2>2
<1> HIDE DEF what
<1>2. ASSUME NEW k \in Commanding, NEW v \in Seq(Bytes)
      PROVE  /\ Done(k, v) \in States
             /\ Done(k, v).cmd = <<>> /\ Done(k, v).iac = FALSE
             /\ Done(k, v).data = s.data /\ Done(k, v).out = s.out
  <2>1. [kind |-> k, what |-> v] \in Events
    BY DEF Events
  <2>2. Append(s.events, [kind |-> k, what |-> v]) \in Seq(Events)
    BY <2>1 DEF States
  <2>3. <<>> \in Seq(Bytes)
    OBVIOUS
  <2> QED BY <2>2, <2>3 DEF States
<1>3. {"negotiation", "option", "command"} \subseteq Commanding
  BY DEF Kinds, Data, Commanding
<1>4. CASE cmd[2] = "WILL"
  <2> DEFINE t == Done("negotiation", what)
  <2>1. handle_telnet_cmd(s, cmd) = telnet_cmd_send(t, telnet_init_seq)
    BY <1>4 DEF handle_telnet_cmd, what, telnet_init_seq
  <2>2. t \in States /\ t.cmd = <<>> /\ t.iac = FALSE /\ t.data = s.data
        /\ t.out = s.out
    BY <1>1, <1>2, <1>3
  <2> HIDE DEF t
  <2>3. telnet_init_seq \in Replies
    BY DEF Replies
  <2> QED BY <2>1, <2>2, <2>3, CmdSend
<1>5. CASE cmd[2] = "SB"
  <2> DEFINE option == Tail(what)
             t == Done("option", option)
  <2>1. /\ option \in Seq(Bytes) /\ Len(option) = Len(cmd) - 2
        /\ option[1] = cmd[3]
        /\ Len(option) >= 2 => option[2] \in Bytes
    BY <1>1, <1>5
  <2>2. t \in States /\ t.cmd = <<>> /\ t.iac = FALSE /\ t.data = s.data
        /\ t.out = s.out
    BY <1>2, <1>3, <2>1
  <2>3. CASE cmd[3] = "a" /\ Len(option) >= 2
    <3> DEFINE w == OptionBytes(<<"a", option[2]>>)
    <3>1. SubSeq(option, 1, 2) = <<"a", option[2]>>
      <4>1. option[1] = "a"
        BY <2>1, <2>3
      <4> HIDE DEF option
      <4> QED BY <2>1, <2>3, <4>1, FirstTwo
    <3>2. handle_telnet_cmd(s, cmd) = com_port_handler(t, option)
      BY <1>5, <2>3 DEF handle_telnet_cmd, what
    <3> HIDE DEF t, option
    <3>3. com_port_handler(t, option) = telnet_cmd_send(t, w)
      <4>1. ~ (Len(option) < 2)
        BY <2>1, <2>3
      <4>2. com_port_handler(t, option) = telnet_send_option(t, SubSeq(option, 1, 2))
        BY <4>1 DEF com_port_handler
      <4> QED BY <3>1, <4>2 DEF telnet_send_option, OptionBytes
    <3>4. w \in Replies
      BY <2>1, <2>3 DEF Replies
    <3> HIDE DEF w
    <3> QED BY <2>2, <3>2, <3>3, <3>4, CmdSend
  <2>4. CASE ~ (cmd[3] = "a" /\ Len(option) >= 2)
    <3>1. handle_telnet_cmd(s, cmd) = t
      BY <1>1, <1>5, <2>1, <2>4 DEF handle_telnet_cmd, what, com_port_handler
    <3> HIDE DEF t
    <3> QED BY <2>2, <3>1 DEF Answered
  <2> QED BY <2>3, <2>4
<1>6. CASE cmd[2] # "WILL" /\ cmd[2] # "SB"
  <2>1. handle_telnet_cmd(s, cmd) = Done("command", what)
    BY <1>6 DEF handle_telnet_cmd, what
  <2> QED BY <1>1, <1>2, <1>3, <2>1 DEF Answered
<1> QED BY <1>4, <1>5, <1>6

-----------------------------------------------------------------------------
(* One byte.  What the parser does next depends on where it is: within      *)
(* data, after an IAC, within a negotiation, before the name of an option,  *)
(* within an option, or after an IAC within one.                            *)

Where(s) ==
    CASE s.cmd = <<>>                       -> "data"
      [] Len(s.cmd) = 1                     -> "iac"
      [] Len(s.cmd) = 2 /\ s.cmd[2] # "SB"  -> "negotiation"
      [] Len(s.cmd) = 2 /\ s.cmd[2] = "SB"  -> "name"
      [] Len(s.cmd) > 2 /\ ~ s.iac          -> "option"
      [] Len(s.cmd) > 2 /\ s.iac            -> "end"

Places == {"data", "iac", "negotiation", "name", "option", "end"}

Then(p, b) ==
    CASE p = "data"   -> IF b = "IAC" THEN "iac" ELSE "data"
      [] p = "iac"    -> IF b = "SB" THEN "name"
                         ELSE IF b = "WILL" THEN "negotiation" ELSE "data"
      [] p = "negotiation" -> "data"
      [] p = "name"   -> "option"
      [] p = "option" -> IF b = "IAC" THEN "end" ELSE "option"
      [] p = "end"    -> IF b = "SE" THEN "data" ELSE "option"

\* Whether the byte is data.
Through(p, b) == (p = "data" /\ b # "IAC") \/ (p = "iac" /\ b = "IAC")

\* The states process_telnet_data is in, between two bytes.
Parser == {s \in States : Tidy(s)}

\* What a byte does to the parser.
ByteStep(s, b, r) ==
    /\ r \in Parser
    /\ Where(r) = Then(Where(s), b)
    /\ r.data = IF Through(Where(s), b) THEN Append(s.data, b) ELSE s.data
    /\ Answered(s.out, r.out)

LEMMA Small ==
    ASSUME NEW n \in Nat PROVE n = 0 \/ n = 1 \/ n = 2 \/ n > 2
OBVIOUS

LEMMA WhereIs ==
    ASSUME NEW s \in Parser
    PROVE  /\ Len(s.cmd) \in Nat /\ s.cmd \in Seq(Bytes)
           /\ \A i \in 1 .. Len(s.cmd) : s.cmd[i] \in Bytes
           /\ Len(s.cmd) = 0 => Where(s) = "data" /\ s.cmd = <<>>
           /\ Len(s.cmd) = 1 => Where(s) = "iac"
           /\ Len(s.cmd) = 2 => Where(s) = IF s.cmd[2] = "SB" THEN "name"
                                           ELSE "negotiation"
           /\ Len(s.cmd) > 2 => Where(s) = IF s.iac THEN "end" ELSE "option"
           /\ Where(s) \in Places
<1>1. s.cmd \in Seq(Bytes) /\ s.iac \in BOOLEAN
  BY DEF Parser, States
<1>2. Len(s.cmd) \in Nat /\ (Len(s.cmd) = 0 <=> s.cmd = <<>>)
      /\ \A i \in 1 .. Len(s.cmd) : s.cmd[i] \in Bytes
  BY <1>1
<1>3. CASE Len(s.cmd) = 0
  BY <1>1, <1>2, <1>3 DEF Where, Places
<1>4. CASE Len(s.cmd) = 1
  BY <1>1, <1>2, <1>4 DEF Where, Places
<1>5. CASE Len(s.cmd) = 2
  BY <1>1, <1>2, <1>5 DEF Where, Places
<1>6. CASE Len(s.cmd) > 2
  BY <1>1, <1>2, <1>6 DEF Where, Places
<1>7. Len(s.cmd) = 0 \/ Len(s.cmd) = 1 \/ Len(s.cmd) = 2 \/ Len(s.cmd) > 2
  <2>1. Len(s.cmd) \in Nat
    BY <1>2
  <2> QED BY <2>1, Small
<1> QED BY <1>3, <1>4, <1>5, <1>6, <1>7

\* A byte that ends a command.
LEMMA HandleStep ==
    ASSUME NEW s \in Parser, NEW b \in Bytes, NEW cmd \in Seq(Bytes),
           Len(cmd) > 1, cmd[2] = "SB" => Len(cmd) > 2,
           ~ Through(Where(s), b), Then(Where(s), b) = "data"
    PROVE  ByteStep(s, b, handle_telnet_cmd(s, cmd))
<1> DEFINE r == handle_telnet_cmd(s, cmd)
<1>1. s \in States /\ Len(s.out) <= MaxXmit
  BY DEF Parser, Tidy
<1>2. /\ r \in States /\ Len(r.out) <= MaxXmit
      /\ r.cmd = <<>> /\ r.iac = FALSE /\ r.data = s.data
      /\ Answered(s.out, r.out)
  BY <1>1, HandleCmd
<1> HIDE DEF r
<1>3. Len(r.cmd) = 0
  BY <1>2
<1>4. r \in Parser
  BY <1>2, <1>3, TelnetSizesAssumption DEF Parser, Tidy
<1>5. Where(r) = "data"
  BY <1>3, <1>4, WhereIs
<1> QED BY <1>2, <1>4, <1>5 DEF ByteStep, r

\* A byte that is kept in telnet_cmd, or dropped with others.
Collecting(s, c, f) == [s EXCEPT !.cmd = c, !.iac = f]

PlaceOf(c, f) ==
    IF Len(c) = 0 THEN "data"
    ELSE IF Len(c) = 1 THEN "iac"
    ELSE IF Len(c) = 2 THEN IF c[2] = "SB" THEN "name" ELSE "negotiation"
    ELSE IF f THEN "end" ELSE "option"

LEMMA KeepStep ==
    ASSUME NEW s \in Parser, NEW b \in Bytes,
           NEW c \in Seq(Bytes), NEW f \in BOOLEAN,
           Len(c) <= MaxCmd + 1, f => Len(c) > 3,
           Len(c) = 2 => c[2] \in {"SB", "WILL"}, Len(c) > 2 => c[2] = "SB",
           ~ Through(Where(s), b), Then(Where(s), b) = PlaceOf(c, f)
    PROVE  ByteStep(s, b, Collecting(s, c, f))
<1> DEFINE r == Collecting(s, c, f)
<1>1. /\ s \in States /\ Len(s.out) <= MaxXmit
  BY DEF Parser, Tidy
<1>2. /\ r \in States /\ r.cmd = c /\ r.iac = f /\ r.data = s.data
      /\ r.out = s.out
  BY <1>1 DEF States, Collecting
<1> HIDE DEF r
<1>3. r \in Parser
  BY <1>1, <1>2 DEF Parser, Tidy
<1>4. Len(c) \in Nat
  OBVIOUS
<1>5. Where(r) = PlaceOf(c, f)
  <2>1. Where(r) = PlaceOf(r.cmd, r.iac)
    <3>1. Len(r.cmd) = 0 \/ Len(r.cmd) = 1 \/ Len(r.cmd) = 2 \/ Len(r.cmd) > 2
      <4>1. Len(r.cmd) \in Nat
        BY <1>2, <1>4
      <4> QED BY <4>1, Small
    <3>2. /\ Len(r.cmd) = 0 => Where(r) = "data"
          /\ Len(r.cmd) = 1 => Where(r) = "iac"
          /\ Len(r.cmd) = 2 => Where(r) = IF r.cmd[2] = "SB" THEN "name"
                                          ELSE "negotiation"
          /\ Len(r.cmd) > 2 => Where(r) = IF r.iac THEN "end" ELSE "option"
      BY <1>3, WhereIs
    <3> QED BY <1>2, <1>4, <3>1, <3>2 DEF PlaceOf
  <2> QED BY <1>2, <2>1
<1> QED BY <1>2, <1>3, <1>5 DEF ByteStep, Answered, r

\* A byte of an option, or the IAC that may end it, is stored.
LEMMA StoredType ==
    ASSUME NEW c \in Seq(Bytes), NEW b \in Bytes, Len(c) > 2
    PROVE  /\ Stored(c, b) \in Seq(Bytes) /\ Stored(c, b)[2] = c[2]
           /\ Len(Stored(c, b)) = 1 + IF MaxCmd < Len(c) THEN MaxCmd ELSE Len(c)
           /\ Len(Stored(c, b)) > 3 /\ Len(Stored(c, b)) <= MaxCmd + 1
<1> DEFINE u == Upto(c, MaxCmd)
<1>1. MaxCmd \in Nat /\ MaxCmd > 3 /\ Len(c) \in Nat
  BY TelnetSizesAssumption
<1>2. /\ u \in Seq(Bytes)
      /\ Len(u) = IF MaxCmd < Len(c) THEN MaxCmd ELSE Len(c)
      /\ \A i \in 1 .. Len(u) : u[i] = c[i]
  BY <1>1, UptoType
<1> HIDE DEF u
<1>3. Len(u) > 2 /\ u[2] = c[2]
  BY <1>1, <1>2
<1>4. Append(u, b) \in Seq(Bytes) /\ Len(Append(u, b)) = Len(u) + 1
      /\ Append(u, b)[2] = u[2]
  BY <1>2, <1>3
<1>5. Stored(c, b) = Append(u, b)
  BY DEF Stored, u
<1> QED BY <1>1, <1>2, <1>3, <1>4, <1>5

\* The last byte is taken back.
LEMMA FrontType ==
    ASSUME NEW S, NEW c \in Seq(S), Len(c) > 2
    PROVE  /\ Front(c) \in Seq(S) /\ Len(Front(c)) = Len(c) - 1
           /\ Front(c)[2] = c[2]
<1>1. Len(c) \in Nat /\ \A i \in 1 .. Len(c) - 1 : c[i] \in S
  OBVIOUS
<1>2. /\ SubSeq(c, 1, Len(c) - 1) \in Seq(S)
      /\ Len(SubSeq(c, 1, Len(c) - 1))
            = IF 1 <= Len(c) - 1 THEN Len(c) - 1 - 1 + 1 ELSE 0
      /\ \A i \in 1 .. Len(c) - 1 - 1 + 1 : SubSeq(c, 1, Len(c) - 1)[i] = c[1 + i - 1]
  BY <1>1, SubSeqProperties
<1>3. Front(c) = SubSeq(c, 1, Len(c) - 1)
  BY DEF Front
<1>4. 2 \in 1 .. Len(c) - 1 - 1 + 1 \/ Len(c) = 2
  BY <1>1
<1>5. Front(c)[2] = c[2]
  BY <1>1, <1>2, <1>3
<1> QED BY <1>1, <1>2, <1>3, <1>5

LEMMA ByteProcessed ==
    ASSUME NEW s \in Parser, NEW b \in Bytes
    PROVE  ByteStep(s, b, process_byte(s, b))
<1> DEFINE c == s.cmd
           d == Append(c, b)
           r == process_byte(s, b)
<1>1. /\ s \in States /\ s.iac \in BOOLEAN /\ c \in Seq(Bytes)
      /\ Len(c) \in Nat /\ \A i \in 1 .. Len(c) : c[i] \in Bytes
      /\ s.data \in Seq(Bytes)
  BY DEF Parser, States
<1>2. /\ Len(c) <= MaxCmd + 1 /\ Len(s.out) <= MaxXmit
      /\ s.iac => Len(c) > 3
      /\ Len(c) = 2 => c[2] \in {"SB", "WILL"}
      /\ Len(c) > 2 => c[2] = "SB"
  BY DEF Parser, Tidy
<1>3. /\ d \in Seq(Bytes) /\ Len(d) = Len(c) + 1 /\ d[Len(c) + 1] = b
      /\ \A i \in 1 .. Len(c) : d[i] = c[i]
  BY <1>1
<1>4. MaxCmd \in Nat /\ MaxCmd > 3
  BY TelnetSizesAssumption
<1>5. s.iac = FALSE => [s EXCEPT !.cmd = d] = Collecting(s, d, FALSE)
  BY <1>1 DEF States, Collecting
<1>6. CASE Len(c) = 0
  <2>1. Where(s) = "data" /\ c = <<>>
    BY <1>6, WhereIs
  <2>2. CASE b = "IAC"
    <3>1. r = Collecting(s, d, FALSE)
      BY <1>6, <2>2 DEF process_byte, Collecting
    <3>2. Then(Where(s), b) = PlaceOf(d, FALSE) /\ ~ Through(Where(s), b)
      BY <1>3, <1>6, <2>1, <2>2 DEF Then, Through, PlaceOf
    <3>4. d \in Seq(Bytes) /\ Len(d) = 1
      BY <1>3, <1>6
    <3> HIDE DEF r, d
    <3>5. Len(d) <= MaxCmd + 1 /\ ~ (Len(d) > 2) /\ ~ (Len(d) = 2)
      BY <1>4, <3>4
    <3>3. ByteStep(s, b, Collecting(s, d, FALSE))
      BY <3>2, <3>4, <3>5, KeepStep
    <3> QED BY <3>1, <3>3 DEF r
  <2>3. CASE b # "IAC"
    <3> DEFINE e == Append(s.data, b)
    <3>1. r = [s EXCEPT !.data = e]
      BY <1>6, <2>3 DEF process_byte
    <3>2. Then(Where(s), b) = "data" /\ Through(Where(s), b)
      BY <2>1, <2>3 DEF Then, Through
    <3>3. e \in Seq(Bytes)
      BY <1>1
    <3> HIDE DEF e, r
    <3>4. r \in States /\ r.cmd = c /\ r.iac = s.iac /\ r.out = s.out /\ r.data = e
      BY <1>1, <3>1, <3>3 DEF States
    <3>5. r \in Parser
      BY <1>2, <3>4 DEF Parser, Tidy
    <3>6. Where(r) = "data"
      BY <1>6, <3>4, <3>5, WhereIs
    <3> QED BY <3>2, <3>4, <3>5, <3>6 DEF ByteStep, Answered, r, e
  <2> QED BY <2>2, <2>3
<1>7. CASE Len(c) = 1
  <2>1. Where(s) = "iac" /\ s.iac = FALSE
    BY <1>1, <1>2, <1>7, WhereIs
  <2>2. CASE b = "IAC"
    <3> DEFINE e == Append(s.data, b)
    <3>1. r = [s EXCEPT !.cmd = <<>>, !.data = e]
      BY <1>7, <2>2 DEF process_byte
    <3>2. Then(Where(s), b) = "data" /\ Through(Where(s), b)
      BY <2>1, <2>2 DEF Then, Through
    <3>3. e \in Seq(Bytes) /\ <<>> \in Seq(Bytes)
      BY <1>1
    <3> HIDE DEF e, r
    <3>4. r \in States /\ r.cmd = <<>> /\ r.iac = FALSE /\ r.out = s.out /\ r.data = e
      BY <1>1, <2>1, <3>1, <3>3 DEF States
    <3>5. Len(r.cmd) = 0
      BY <3>4
    <3>6. r \in Parser
      BY <1>2, <1>4, <3>4, <3>5 DEF Parser, Tidy
    <3>7. Where(r) = "data"
      BY <3>5, <3>6, WhereIs
    <3> QED BY <3>2, <3>4, <3>6, <3>7 DEF ByteStep, Answered, r, e
  <2>3. CASE b \in {"a", "e", "SE"}
    <3>1. r = handle_telnet_cmd(s, d)
      BY <1>7, <2>3 DEF process_byte
    <3>2. Then(Where(s), b) = "data" /\ ~ Through(Where(s), b)
      BY <2>1, <2>3 DEF Then, Through
    <3>3. Len(d) > 1 /\ d[2] # "SB"
      BY <1>3, <1>7, <2>3
    <3> HIDE DEF d, r
    <3>4. ByteStep(s, b, handle_telnet_cmd(s, d))
      BY <1>3, <3>2, <3>3, HandleStep
    <3> QED BY <3>1, <3>4 DEF r
  <2>4. CASE b \in {"SB", "WILL"}
    <3>1. r = Collecting(s, d, FALSE)
      <4>1. r = [s EXCEPT !.cmd = d]
        BY <1>7, <2>4 DEF process_byte
      <4> QED BY <1>5, <2>1, <4>1
    <3>3. Len(d) = 2 /\ d[2] = b
      BY <1>3, <1>7
    <3>2. Then(Where(s), b) = PlaceOf(d, FALSE) /\ ~ Through(Where(s), b)
      BY <2>1, <2>4, <3>3 DEF Then, Through, PlaceOf
    <3> HIDE DEF d, r
    <3>5. Len(d) <= MaxCmd + 1 /\ ~ (Len(d) > 2) /\ d[2] \in {"SB", "WILL"}
      BY <1>4, <2>4, <3>3
    <3>6. d \in Seq(Bytes)
      BY <1>3
    <3>4. ByteStep(s, b, Collecting(s, d, FALSE))
      BY <3>2, <3>5, <3>6, KeepStep
    <3> QED BY <3>1, <3>4 DEF r
  <2> QED BY <2>2, <2>3, <2>4 DEF Bytes
<1>8. CASE Len(c) = 2
  <2>0. s.iac = FALSE
    BY <1>1, <1>2, <1>8
  <2>1. CASE c[2] # "SB"
    <3>1. Where(s) = "negotiation"
      BY <1>8, <2>1, WhereIs
    <3>2. r = handle_telnet_cmd(s, d)
      BY <1>8, <2>1 DEF process_byte
    <3>3. Then(Where(s), b) = "data" /\ ~ Through(Where(s), b)
      BY <3>1 DEF Then, Through
    <3>4. Len(d) > 1 /\ d[2] # "SB"
      BY <1>3, <1>8, <2>1
    <3> HIDE DEF d, r
    <3>5. ByteStep(s, b, handle_telnet_cmd(s, d))
      BY <1>3, <3>3, <3>4, HandleStep
    <3> QED BY <3>2, <3>5 DEF r
  <2>2. CASE c[2] = "SB"
    <3>1. Where(s) = "name"
      BY <1>8, <2>2, WhereIs
    <3>2. r = Collecting(s, d, FALSE)
      <4>1. r = [s EXCEPT !.cmd = d]
        BY <1>8, <2>2 DEF process_byte
      <4> QED BY <1>5, <2>0, <4>1
    <3>4. Len(d) = 3 /\ d[2] = "SB"
      BY <1>3, <1>8, <2>2
    <3>3. Then(Where(s), b) = PlaceOf(d, FALSE) /\ ~ Through(Where(s), b)
      BY <3>1, <3>4 DEF Then, Through, PlaceOf
    <3> HIDE DEF d, r
    <3>6. Len(d) <= MaxCmd + 1 /\ ~ (Len(d) = 2) /\ d[2] = "SB"
      BY <1>4, <3>4
    <3>7. d \in Seq(Bytes)
      BY <1>3
    <3>5. ByteStep(s, b, Collecting(s, d, FALSE))
      BY <3>3, <3>6, <3>7, KeepStep
    <3> QED BY <3>2, <3>5 DEF r
  <2> QED BY <2>1, <2>2
<1>9. CASE Len(c) > 2 /\ s.iac
  <2>1. Where(s) = "end" /\ Len(c) > 3 /\ c[2] = "SB"
    BY <1>2, <1>9, WhereIs
  <2>2. r = AfterIac(s, b)
    BY <1>1, <1>9 DEF process_byte
  <2>3. /\ Front(c) \in Seq(Bytes) /\ Len(Front(c)) = Len(c) - 1
        /\ Front(c)[2] = "SB"
    BY <1>1, <2>1, FrontType
  <2> HIDE DEF d, r
  <2>4. ~ Through(Where(s), b)
    BY <2>1 DEF Through
  <2>5. CASE b = "SE"
    <3>1. AfterIac(s, b) = handle_telnet_cmd(s, Front(c))
      BY <2>5 DEF AfterIac
    <3>2. Then(Where(s), b) = "data"
      BY <2>1, <2>5 DEF Then
    <3>3. Len(Front(c)) > 2
      BY <1>1, <2>1, <2>3
    <3>4. ByteStep(s, b, handle_telnet_cmd(s, Front(c)))
      <4> DEFINE f == Front(c)
      <4>1. f \in Seq(Bytes) /\ Len(f) > 2 /\ Len(f) > 1
        BY <2>3, <3>3
      <4> HIDE DEF f
      <4>2. ByteStep(s, b, handle_telnet_cmd(s, f))
        BY <2>4, <3>2, <4>1, HandleStep
      <4> QED BY <4>2 DEF f
    <3> QED BY <2>2, <3>1, <3>4 DEF r
  <2>6. CASE b = "IAC"
    <3>1. AfterIac(s, b) = Collecting(s, c, FALSE)
      BY <1>1, <2>6 DEF AfterIac, States, Collecting
    <3>2. Then(Where(s), b) = PlaceOf(c, FALSE)
      BY <1>1, <2>1, <2>6 DEF Then, PlaceOf
    <3> HIDE DEF c
    <3>3. ByteStep(s, b, Collecting(s, c, FALSE))
      BY <1>1, <1>2, <1>9, <2>1, <2>4, <3>2, KeepStep
    <3> QED BY <2>2, <3>1, <3>3 DEF r
  <2>7. CASE b # "SE" /\ b # "IAC"
    <3> DEFINE f == Front(c)
    <3>1. AfterIac(s, b) = Collecting(s, f, FALSE)
      BY <2>7 DEF AfterIac, Collecting
    <3>3. f \in Seq(Bytes) /\ Len(f) > 2 /\ Len(f) <= MaxCmd + 1 /\ f[2] = "SB"
          /\ Len(f) \in Nat
      BY <1>1, <1>2, <1>4, <2>1, <2>3
    <3> HIDE DEF f
    <3>2. Then(Where(s), b) = PlaceOf(f, FALSE)
      BY <2>1, <2>7, <3>3 DEF Then, PlaceOf
    <3>4. ByteStep(s, b, Collecting(s, f, FALSE))
      BY <2>4, <3>2, <3>3, KeepStep
    <3> QED BY <2>2, <3>1, <3>4 DEF r
  <2> QED BY <2>5, <2>6, <2>7
<1>10. CASE Len(c) > 2 /\ ~ s.iac
  <2> DEFINE e == Stored(c, b)
             f == (b = "IAC")
  <2>1. Where(s) = "option" /\ c[2] = "SB"
    BY <1>2, <1>10, WhereIs
  <2>2. r = Collecting(s, e, f)
    BY <1>1, <1>10 DEF process_byte, Collecting
  <2>4. e \in Seq(Bytes) /\ Len(e) > 3 /\ Len(e) <= MaxCmd + 1 /\ e[2] = "SB"
    BY <1>1, <1>10, <2>1, StoredType
  <2>3. Then(Where(s), b) = PlaceOf(e, f) /\ ~ Through(Where(s), b)
    <3> HIDE DEF e
    <3>1. Len(e) \in Nat
      BY <2>4
    <3>2. PlaceOf(e, f) = IF b = "IAC" THEN "end" ELSE "option"
      <4>1. ~ (Len(e) = 0) /\ ~ (Len(e) = 1) /\ ~ (Len(e) = 2)
        BY <2>4, <3>1
      <4> QED BY <4>1 DEF PlaceOf
    <3> HIDE DEF f
    <3> QED BY <2>1, <3>2 DEF Then, Through
  <2>5. f \in BOOLEAN
    OBVIOUS
  <2> HIDE DEF e, f, r
  <2>6. ByteStep(s, b, Collecting(s, e, f))
    BY <2>3, <2>4, <2>5, KeepStep
  <2> QED BY <2>2, <2>6 DEF r
<1>11. Len(c) = 0 \/ Len(c) = 1 \/ Len(c) = 2 \/ Len(c) > 2
  BY <1>1, Small
<1> QED BY <1>6, <1>7, <1>8, <1>9, <1>10, <1>11

-----------------------------------------------------------------------------
(* Many bytes.                                                             *)

\* The recursive function of process_telnet_data.
Steps(f, s, w) ==
    f = [i \in 0 .. Len(w) |->
            IF i = 0 THEN s ELSE process_byte(f[i - 1], w[i])]

LEMMA StepsExist ==
    ASSUME NEW s \in Parser, NEW w \in Seq(Bytes) PROVE \E f : Steps(f, s, w)
<1> DEFINE n == Len(w)
           F == [i \in 1 .. n |-> [v \in Parser |-> process_byte(v, w[i])]]
<1>1. n \in Nat /\ \A i \in 1 .. n : w[i] \in Bytes
  OBVIOUS
<1>2. F \in [1 .. n -> [Parser -> Parser]]
  <2>1. ASSUME NEW i \in 1 .. n, NEW v \in Parser
        PROVE  process_byte(v, w[i]) \in Parser
    <3>1. w[i] \in Bytes
      BY <1>1
    <3> QED BY <3>1, ByteProcessed DEF ByteStep
  <2> QED BY <2>1
<1>3. \A i \in 1 .. n, v \in Parser : F[i][v] = process_byte(v, w[i])
  OBVIOUS
<1> HIDE DEF F, n
<1>4. PICK f \in [0 .. n -> Parser] : Runs(f, n, s, F)
  BY <1>1, <1>2, RunExists
<1>5. \A i \in 1 .. n : f[i] = process_byte(f[i - 1], w[i])
  <2>1. \A i \in 1 .. n : f[i - 1] \in Parser
    BY <1>1, <1>4
  <2> QED BY <1>3, <1>4, <2>1 DEF Runs
<1>6. f = [i \in 0 .. n |-> IF i = 0 THEN s ELSE process_byte(f[i - 1], w[i])]
  <2> DEFINE g == [i \in 0 .. n |->
                    IF i = 0 THEN s ELSE process_byte(f[i - 1], w[i])]
  <2>1. ASSUME NEW i \in 0 .. n PROVE f[i] = g[i]
    <3>1. CASE i = 0
      BY <1>4, <3>1 DEF Runs
    <3>2. CASE i # 0
      <4>1. i \in 1 .. n
        BY <1>1, <3>2
      <4> QED BY <1>5, <3>2, <4>1
    <3> QED BY <3>1, <3>2
  <2>2. f = [i \in 0 .. n |-> f[i]]
    BY <1>4
  <2>3. g = [i \in 0 .. n |-> g[i]]
    OBVIOUS
  <2> HIDE DEF g
  <2>4. f = g
    BY <2>1, <2>2, <2>3
  <2> QED BY <2>4 DEF g
<1> QED BY <1>6 DEF Steps, n

\* The parser goes on byte by byte and stays what it is.
LEMMA TakenSteps ==
    ASSUME NEW s \in Parser, NEW w \in Seq(Bytes)
    PROVE  /\ Taken(s, w)[0] = s
           /\ \A i \in 1 .. Len(w) :
                Taken(s, w)[i] = process_byte(Taken(s, w)[i - 1], w[i])
           /\ \A i \in 0 .. Len(w) : Taken(s, w)[i] \in Parser
<1> DEFINE n == Len(w)
           f == CHOOSE f : Steps(f, s, w)
           E == {i \in 0 .. n : f[i] \in Parser}
<1>0. n \in Nat /\ \A i \in 1 .. n : w[i] \in Bytes
  OBVIOUS
<1>1. Steps(f, s, w)
  BY StepsExist
<1>2. Taken(s, w) = f
  BY DEF Taken, Steps
<1> HIDE DEF f
<1>3. f[0] = s /\ \A i \in 1 .. n : f[i] = process_byte(f[i - 1], w[i])
  <2> DEFINE g == [i \in 0 .. n |->
                    IF i = 0 THEN s ELSE process_byte(f[i - 1], w[i])]
  <2>1. f = g
    BY <1>1 DEF Steps
  <2>2. g[0] = s
    BY <1>0
  <2>3. \A i \in 1 .. n : g[i] = process_byte(f[i - 1], w[i])
    BY <1>0
  <2> HIDE DEF g
  <2> QED BY <2>1, <2>2, <2>3
<1> HIDE DEF n
<1>4. 0 \in E
  BY <1>0, <1>3
<1>5. ASSUME NEW i \in 0 .. n - 1, i \in E PROVE i + 1 \in E
  <2>1. i + 1 \in 1 .. n /\ i + 1 \in 0 .. n /\ (i + 1) - 1 = i
    BY <1>0
  <2>2. f[i + 1] = process_byte(f[i], w[i + 1])
    BY <1>3, <2>1
  <2>3. f[i] \in Parser /\ w[i + 1] \in Bytes
    BY <1>0, <1>5, <2>1
  <2>4. f[i + 1] \in Parser
    BY <2>2, <2>3, ByteProcessed DEF ByteStep
  <2> QED BY <2>1, <2>4
<1>6. \A i \in 0 .. n - 1 : i \in E => i + 1 \in E
  BY <1>5
<1> HIDE DEF E
<1>7. 0 .. n \subseteq E
  BY <1>0, <1>4, <1>6, Upwards
<1>8. \A i \in 0 .. n : f[i] \in Parser
  BY <1>7 DEF E
<1> QED BY <1>2, <1>3, <1>8 DEF n

\* What it has done after n bytes depends on those n alone.
LEMMA TakenAgree ==
    ASSUME NEW s \in Parser, NEW v \in Seq(Bytes), NEW w \in Seq(Bytes),
           NEW n \in Nat, n <= Len(v), n <= Len(w),
           \A i \in 1 .. n : v[i] = w[i]
    PROVE  \A i \in 0 .. n : Taken(s, v)[i] = Taken(s, w)[i]
<1> DEFINE E == {i \in 0 .. n : Taken(s, v)[i] = Taken(s, w)[i]}
<1>1. 0 \in E
  BY TakenSteps
<1>2. ASSUME NEW i \in 0 .. n - 1, i \in E PROVE i + 1 \in E
  <2>1. /\ i + 1 \in 1 .. n /\ i + 1 \in 0 .. n /\ (i + 1) - 1 = i
        /\ i + 1 \in 1 .. Len(v) /\ i + 1 \in 1 .. Len(w)
    OBVIOUS
  <2>2. Taken(s, v)[i + 1] = process_byte(Taken(s, v)[i], v[i + 1])
    BY <2>1, TakenSteps
  <2>3. Taken(s, w)[i + 1] = process_byte(Taken(s, w)[i], w[i + 1])
    BY <2>1, TakenSteps
  <2>4. Taken(s, v)[i] = Taken(s, w)[i] /\ v[i + 1] = w[i + 1]
    BY <1>2, <2>1
  <2> QED BY <2>1, <2>2, <2>3, <2>4
<1>3. \A i \in 0 .. n - 1 : i \in E => i + 1 \in E
  BY <1>2
<1> HIDE DEF E
<1>4. 0 .. n \subseteq E
  BY <1>1, <1>3, Upwards
<1> QED BY <1>4 DEF E

\* However the stream is cut, the parser goes on where it was.
LEMMA ProcessType ==
    ASSUME NEW s \in Parser, NEW w \in Seq(Bytes)
    PROVE  process_telnet_data(s, w) \in Parser
<1>1. Len(w) \in 0 .. Len(w)
  OBVIOUS
<1> QED BY <1>1, TakenSteps DEF process_telnet_data

LEMMA ProcessNothing ==
    ASSUME NEW s \in Parser PROVE process_telnet_data(s, <<>>) = s
<1>1. <<>> \in Seq(Bytes) /\ Len(<<>>) = 0
  OBVIOUS
<1> QED BY <1>1, TakenSteps DEF process_telnet_data

LEMMA ProcessConcat ==
    ASSUME NEW s \in Parser, NEW v \in Seq(Bytes), NEW w \in Seq(Bytes)
    PROVE  process_telnet_data(s, v \o w)
                = process_telnet_data(process_telnet_data(s, v), w)
<1> DEFINE u == v \o w
           k == Len(v)
           n == Len(w)
           t == process_telnet_data(s, v)
           E == {i \in 0 .. n : Taken(s, u)[k + i] = Taken(t, w)[i]}
<1>0. /\ u \in Seq(Bytes) /\ Len(u) = k + n /\ k \in Nat /\ n \in Nat
      /\ \A i \in 1 .. k : u[i] = v[i]
      /\ \A i \in 1 .. n : u[k + i] = w[i]
  <2>1. /\ u \in Seq(Bytes) /\ Len(u) = k + n
        /\ \A i \in 1 .. k + n : u[i] = IF i <= k THEN v[i] ELSE w[i - k]
    BY ConcatProperties
  <2>2. k \in Nat /\ n \in Nat
    OBVIOUS
  <2> HIDE DEF u, k, n
  <2>3. \A i \in 1 .. k : u[i] = v[i]
    BY <2>1, <2>2
  <2>4. ASSUME NEW i \in 1 .. n PROVE u[k + i] = w[i]
    <3>1. k + i \in 1 .. k + n /\ ~ (k + i <= k) /\ (k + i) - k = i
      BY <2>2
    <3> QED BY <2>1, <3>1
  <2> QED BY <2>1, <2>2, <2>3, <2>4
<1>1. t \in Parser
  BY ProcessType
<1>2. t = Taken(s, v)[k]
  BY DEF process_telnet_data
<1> HIDE DEF u, k, n, t
<1>3. Taken(s, u)[k] = t
  <2>1. \A i \in 0 .. k : Taken(s, u)[i] = Taken(s, v)[i]
    <3>1. k <= Len(u) /\ k <= Len(v)
      BY <1>0 DEF k
    <3> QED BY <1>0, <3>1, TakenAgree
  <2>2. k \in 0 .. k
    BY <1>0
  <2> QED BY <1>2, <2>1, <2>2
<1>4. 0 \in E
  BY <1>0, <1>1, <1>3, TakenSteps
<1>5. ASSUME NEW i \in 0 .. n - 1, i \in E PROVE i + 1 \in E
  <2>1. /\ i + 1 \in 0 .. n /\ i + 1 \in 1 .. n /\ (i + 1) - 1 = i
        /\ k + (i + 1) \in 1 .. Len(u) /\ (k + (i + 1)) - 1 = k + i
    BY <1>0
  <2>2. Taken(s, u)[k + (i + 1)] = process_byte(Taken(s, u)[k + i], u[k + (i + 1)])
    <3>1. \A j \in 1 .. Len(u) :
                Taken(s, u)[j] = process_byte(Taken(s, u)[j - 1], u[j])
      <4>1. u \in Seq(Bytes)
        BY <1>0
      <4> QED BY <4>1, TakenSteps
    <3>2. Taken(s, u)[k + (i + 1)]
            = process_byte(Taken(s, u)[(k + (i + 1)) - 1], u[k + (i + 1)])
      BY <2>1, <3>1
    <3> QED BY <2>1, <3>2
  <2>3. Taken(t, w)[i + 1] = process_byte(Taken(t, w)[i], w[i + 1])
    BY <1>1, <2>1, TakenSteps DEF n
  <2>4. Taken(s, u)[k + i] = Taken(t, w)[i] /\ u[k + (i + 1)] = w[i + 1]
    BY <1>0, <1>5, <2>1
  <2> QED BY <2>1, <2>2, <2>3, <2>4
<1>6. \A i \in 0 .. n - 1 : i \in E => i + 1 \in E
  BY <1>5
<1> HIDE DEF E
<1>7. n \in E
  <2>1. 0 .. n \subseteq E
    BY <1>0, <1>4, <1>6, Upwards
  <2> QED BY <1>0, <2>1
<1>8. Taken(s, u)[k + n] = Taken(t, w)[n]
  BY <1>7 DEF E
<1> QED BY <1>0, <1>8 DEF process_telnet_data, u, k, n, t

LEMMA ProcessOne ==
    ASSUME NEW s \in Parser, NEW b \in Bytes
    PROVE  process_telnet_data(s, <<b>>) = process_byte(s, b)
<1>1. <<b>> \in Seq(Bytes) /\ Len(<<b>>) = 1 /\ <<b>>[1] = b
  OBVIOUS
<1> DEFINE w == <<b>>
<1> HIDE DEF w
<1>2. w \in Seq(Bytes) /\ Len(w) = 1 /\ w[1] = b
  BY <1>1 DEF w
<1>3. Taken(s, w)[1] = process_byte(Taken(s, w)[0], w[1]) /\ Taken(s, w)[0] = s
  <2>1. 1 \in 1 .. Len(w) /\ 1 - 1 = 0
    BY <1>2
  <2> QED BY <1>2, <2>1, TakenSteps
<1>4. process_telnet_data(s, w) = process_byte(s, b)
  BY <1>2, <1>3 DEF process_telnet_data
<1> QED BY <1>4 DEF w

-----------------------------------------------------------------------------
(* What is told of the parser: where it is and the data let through.       *)

Alike(s, t) == Where(s) = Where(t) /\ s.data = t.data

\* What it does next, it does from that alone.
LEMMA ProcessAlike ==
    ASSUME NEW s \in Parser, NEW t \in Parser, Alike(s, t), NEW w \in Seq(Bytes)
    PROVE  Alike(process_telnet_data(s, w), process_telnet_data(t, w))
<1> DEFINE n == Len(w)
           E == {i \in 0 .. n : Alike(Taken(s, w)[i], Taken(t, w)[i])}
<1>0. n \in Nat /\ \A i \in 1 .. n : w[i] \in Bytes
  OBVIOUS
<1>1. 0 \in E
  BY <1>0, TakenSteps
<1>2. ASSUME NEW i \in 0 .. n - 1, i \in E PROVE i + 1 \in E
  <2> DEFINE a == Taken(s, w)[i]
             b == Taken(t, w)[i]
             x == w[i + 1]
  <2>1. /\ i + 1 \in 0 .. n /\ i + 1 \in 1 .. n /\ (i + 1) - 1 = i
        /\ i \in 0 .. n
    BY <1>0
  <2>2. a \in Parser /\ b \in Parser /\ x \in Bytes
    BY <1>0, <2>1, TakenSteps
  <2>3. Taken(s, w)[i + 1] = process_byte(a, x)
        /\ Taken(t, w)[i + 1] = process_byte(b, x)
    BY <2>1, TakenSteps
  <2>4. Alike(a, b)
    BY <1>2
  <2> HIDE DEF a, b, x
  <2>5. ByteStep(a, x, process_byte(a, x)) /\ ByteStep(b, x, process_byte(b, x))
    BY <2>2, ByteProcessed
  <2>6. Alike(process_byte(a, x), process_byte(b, x))
    BY <2>4, <2>5 DEF ByteStep, Alike
  <2> QED BY <2>1, <2>3, <2>6
<1>3. \A i \in 0 .. n - 1 : i \in E => i + 1 \in E
  BY <1>2
<1> HIDE DEF E
<1>4. n \in E
  <2>1. 0 .. n \subseteq E
    BY <1>0, <1>1, <1>3, Upwards
  <2> QED BY <1>0, <2>1
<1> QED BY <1>4 DEF E, process_telnet_data

\* One byte more.
LEMMA ProcessAppend ==
    ASSUME NEW s \in Parser, NEW w \in Seq(Bytes), NEW b \in Bytes
    PROVE  LET t == process_telnet_data(s, w)
           IN  /\ t \in Parser
               /\ process_telnet_data(s, Append(w, b)) = process_byte(t, b)
               /\ ByteStep(t, b, process_byte(t, b))
<1> DEFINE t == process_telnet_data(s, w)
<1>1. t \in Parser
  BY ProcessType
<1>2. Append(w, b) = w \o <<b>> /\ <<b>> \in Seq(Bytes)
  BY AppendIsConcat
<1>3. process_telnet_data(s, w \o <<b>>) = process_telnet_data(t, <<b>>)
  BY <1>2, ProcessConcat
<1> HIDE DEF t
<1>4. process_telnet_data(t, <<b>>) = process_byte(t, b)
  BY <1>1, ProcessOne
<1>5. ByteStep(t, b, process_byte(t, b))
  BY <1>1, ByteProcessed
<1> QED BY <1>1, <1>2, <1>3, <1>4, <1>5 DEF t

\* Data is let through in order: none is taken back.
LEMMA DataGrows ==
    ASSUME NEW s \in Parser, NEW w \in Seq(Bytes)
    PROVE  \E d \in Seq(Bytes) : process_telnet_data(s, w).data = s.data \o d
<1> DEFINE P == {v \in Seq(Bytes) :
                    \E d \in Seq(Bytes) :
                        process_telnet_data(s, v).data = s.data \o d}
<1>0. s.data \in Seq(Bytes) /\ <<>> \in Seq(Bytes)
  BY DEF Parser, States
<1>1. <<>> \in P
  <2>1. process_telnet_data(s, <<>>).data = s.data \o <<>>
    BY <1>0, ProcessNothing, ConcatEmptySeq
  <2> QED BY <1>0, <2>1
<1>2. ASSUME NEW v \in Seq(Bytes), NEW b \in Bytes, v \in P
      PROVE  Append(v, b) \in P
  <2> DEFINE t == process_telnet_data(s, v)
             r == process_telnet_data(s, Append(v, b))
  <2>1. PICK d \in Seq(Bytes) : t.data = s.data \o d
    BY <1>2
  <2>2. r.data = t.data \/ r.data = Append(t.data, b)
    <3>1. ByteStep(t, b, r)
      BY ProcessAppend
    <3> QED BY <3>1 DEF ByteStep
  <2>3. Append(v, b) \in Seq(Bytes)
    OBVIOUS
  <2> HIDE DEF t, r
  <2>4. \E e \in Seq(Bytes) : r.data = s.data \o e
    <3>1. CASE r.data = t.data
      BY <2>1, <3>1
    <3>2. CASE r.data = Append(t.data, b)
      <4>1. s.data \o d \in Seq(Bytes) /\ <<b>> \in Seq(Bytes)
        BY <1>0, ConcatProperties
      <4>2. Append(s.data \o d, b) = (s.data \o d) \o <<b>>
        BY <4>1, AppendIsConcat
      <4>3. (s.data \o d) \o <<b>> = s.data \o (d \o <<b>>)
        <5> DEFINE x == s.data
                   y == <<b>>
        <5>1. x \in Seq(Bytes) /\ y \in Seq(Bytes)
          BY <1>0, <4>1
        <5> HIDE DEF x, y
        <5>2. (x \o d) \o y = x \o (d \o y)
          BY <5>1, ConcatAssociative
        <5> QED BY <5>2 DEF x, y
      <4>4. d \o <<b>> \in Seq(Bytes)
        BY <4>1, ConcatProperties
      <4> QED BY <2>1, <3>2, <4>2, <4>3, <4>4
    <3> QED BY <2>2, <3>1, <3>2
  <2> QED BY <2>3, <2>4 DEF r
<1>3. \A v \in Seq(Bytes), b \in Bytes : v \in P => Append(v, b) \in P
  BY <1>2
<1> HIDE DEF P
<1>4. Seq(Bytes) \subseteq P
  BY <1>1, <1>3, ByAppending
<1> QED BY <1>4 DEF P

-----------------------------------------------------------------------------
(* A telnet client on the other side of the port's bytes.                  *)

Byte == [byte : Bytes, role : Roles]
BytesOf(o) == [i \in DOMAIN o |-> o[i].byte]
After(s, o) == process_telnet_data(s, BytesOf(o))

LEMMA BytesOfType ==
    ASSUME NEW o \in Seq(Byte)
    PROVE  /\ BytesOf(o) \in Seq(Bytes) /\ Len(BytesOf(o)) = Len(o)
           /\ \A i \in 1 .. Len(o) : BytesOf(o)[i] = o[i].byte
<1>1. Len(o) \in Nat /\ \A i \in 1 .. Len(o) : o[i].byte \in Bytes
  <2>1. Len(o) \in Nat /\ \A i \in 1 .. Len(o) : o[i] \in Byte
    OBVIOUS
  <2> QED BY <2>1 DEF Byte
<1>2. BytesOf(o) = [i \in 1 .. Len(o) |-> o[i].byte]
  BY DEF BytesOf
<1>3. BytesOf(o) \in [1 .. Len(o) -> Bytes]
  BY <1>1, <1>2
<1> QED BY <1>1, <1>2, <1>3, ListType

LEMMA BytesOfConcat ==
    ASSUME NEW o \in Seq(Byte), NEW p \in Seq(Byte)
    PROVE  BytesOf(o \o p) = BytesOf(o) \o BytesOf(p)
<1> DEFINE q == o \o p
           a == BytesOf(q)
           b == BytesOf(o) \o BytesOf(p)
<1>1. /\ q \in Seq(Byte) /\ Len(q) = Len(o) + Len(p)
      /\ \A i \in 1 .. Len(o) + Len(p) :
            q[i] = IF i <= Len(o) THEN o[i] ELSE p[i - Len(o)]
  BY ConcatProperties
<1>2. /\ BytesOf(o) \in Seq(Bytes) /\ Len(BytesOf(o)) = Len(o)
      /\ BytesOf(p) \in Seq(Bytes) /\ Len(BytesOf(p)) = Len(p)
      /\ \A i \in 1 .. Len(o) : BytesOf(o)[i] = o[i].byte
      /\ \A i \in 1 .. Len(p) : BytesOf(p)[i] = p[i].byte
      /\ Len(o) \in Nat /\ Len(p) \in Nat
  BY BytesOfType
<1> HIDE DEF q
<1>3. a \in Seq(Bytes) /\ Len(a) = Len(q) /\ \A i \in 1 .. Len(q) : a[i] = q[i].byte
  BY <1>1, BytesOfType
<1>4. /\ b \in Seq(Bytes) /\ Len(b) = Len(o) + Len(p)
      /\ \A i \in 1 .. Len(o) + Len(p) :
            b[i] = IF i <= Len(o) THEN BytesOf(o)[i] ELSE BytesOf(p)[i - Len(o)]
  <2> DEFINE x == BytesOf(o)
             y == BytesOf(p)
  <2>1. x \in Seq(Bytes) /\ y \in Seq(Bytes) /\ Len(x) = Len(o) /\ Len(y) = Len(p)
    BY <1>2
  <2> HIDE DEF x, y
  <2>2. /\ x \o y \in Seq(Bytes) /\ Len(x \o y) = Len(x) + Len(y)
        /\ \A i \in 1 .. Len(x) + Len(y) :
                (x \o y)[i] = IF i <= Len(x) THEN x[i] ELSE y[i - Len(x)]
    BY <2>1, ConcatProperties
  <2> QED BY <2>1, <2>2 DEF x, y
<1> HIDE DEF a, b
<1>5. ASSUME NEW i \in 1 .. Len(a) PROVE a[i] = b[i]
  <2>1. i \in 1 .. Len(o) + Len(p) /\ i \in 1 .. Len(q)
    BY <1>1, <1>3
  <2>2. CASE i <= Len(o)
    <3>1. i \in 1 .. Len(o)
      BY <1>2, <2>1, <2>2
    <3> QED BY <1>1, <1>2, <1>3, <1>4, <2>1, <2>2, <3>1
  <2>3. CASE ~ (i <= Len(o))
    <3>1. i - Len(o) \in 1 .. Len(p)
      BY <1>2, <2>1, <2>3
    <3> QED BY <1>1, <1>2, <1>3, <1>4, <2>1, <2>3, <3>1
  <2> QED BY <2>2, <2>3
<1>6. a = b
  <2>1. Len(a) = Len(b)
    BY <1>1, <1>3, <1>4
  <2> QED BY <1>3, <1>4, <1>5, <2>1, SeqEqual
<1> QED BY <1>6 DEF a, b, q

LEMMA AfterType ==
    ASSUME NEW s \in Parser, NEW o \in Seq(Byte) PROVE After(s, o) \in Parser
BY BytesOfType, ProcessType DEF After

LEMMA AfterNothing == ASSUME NEW s \in Parser PROVE After(s, <<>>) = s
<1>1. BytesOf(<<>>) = <<>>
  BY DEF BytesOf
<1> QED BY <1>1, ProcessNothing DEF After

LEMMA AfterConcat ==
    ASSUME NEW s \in Parser, NEW o \in Seq(Byte), NEW p \in Seq(Byte)
    PROVE  After(s, o \o p) = After(After(s, o), p)
<1>1. BytesOf(o) \in Seq(Bytes) /\ BytesOf(p) \in Seq(Bytes)
  BY BytesOfType
<1> DEFINE x == BytesOf(o)
           y == BytesOf(p)
<1>2. BytesOf(o \o p) = x \o y
  BY BytesOfConcat
<1>3. x \in Seq(Bytes) /\ y \in Seq(Bytes)
  BY <1>1
<1> HIDE DEF x, y
<1>4. process_telnet_data(s, x \o y)
            = process_telnet_data(process_telnet_data(s, x), y)
  BY <1>3, ProcessConcat
<1> QED BY <1>2, <1>4 DEF After, x, y

LEMMA AfterAlike ==
    ASSUME NEW s \in Parser, NEW t \in Parser, Alike(s, t), NEW o \in Seq(Byte)
    PROVE  Alike(After(s, o), After(t, o))
BY BytesOfType, ProcessAlike DEF After

LEMMA AfterGrows ==
    ASSUME NEW s \in Parser, NEW o \in Seq(Byte)
    PROVE  \E d \in Seq(Bytes) : After(s, o).data = s.data \o d
BY BytesOfType, DataGrows DEF After

-----------------------------------------------------------------------------
(* What the port says of its own does not change what a client reads.      *)

Commands(o) == o \in Seq(Byte) /\ \A i \in 1 .. Len(o) : o[i].role = "command"

Neutral(o) ==
    /\ Commands(o)
    /\ \A q \in Parser : Where(q) = "data" => Alike(After(q, o), q)

LEMMA CommandsOf ==
    ASSUME NEW w \in Seq(Bytes)
    PROVE  Commands(CommandBytes(w)) /\ BytesOf(CommandBytes(w)) = w
<1> DEFINE o == CommandBytes(w)
           v == BytesOf(o)
<1>1. /\ o \in Seq(Byte) /\ Len(o) = Len(w)
      /\ \A i \in 1 .. Len(w) : o[i] = [byte |-> w[i], role |-> "command"]
  BY CommandBytesType DEF Outgoing, Byte
<1> HIDE DEF o
<1>2. v \in Seq(Bytes) /\ Len(v) = Len(o) /\ \A i \in 1 .. Len(o) : v[i] = o[i].byte
  BY <1>1, BytesOfType
<1> HIDE DEF v
<1>3. v = w
  <2>1. ASSUME NEW i \in 1 .. Len(v) PROVE v[i] = w[i]
    <3>1. i \in 1 .. Len(o) /\ i \in 1 .. Len(w)
      BY <1>1, <1>2
    <3>2. v[i] = o[i].byte /\ o[i] = [byte |-> w[i], role |-> "command"]
      BY <1>1, <1>2, <3>1
    <3> QED BY <3>2
  <2>2. Len(v) = Len(w) /\ v \in Seq(Bytes) /\ w \in Seq(Bytes)
    BY <1>1, <1>2
  <2> QED BY <2>1, <2>2, SeqEqual
<1>4. ASSUME NEW i \in 1 .. Len(o) PROVE o[i].role = "command"
  <2>1. o[i] = [byte |-> w[i], role |-> "command"]
    BY <1>1
  <2> QED BY <2>1
<1>5. Commands(o)
  BY <1>1, <1>4 DEF Commands
<1> QED BY <1>3, <1>5 DEF o, v

\* The client is at place p after i bytes of w, and has read no data in them.
At(q, w, i, p) == Where(Taken(q, w)[i]) = p /\ Taken(q, w)[i].data = q.data

LEMMA WalkOn ==
    ASSUME NEW q \in Parser, NEW w \in Seq(Bytes), NEW i \in 0 .. Len(w) - 1,
           NEW p, At(q, w, i, p), ~ Through(p, w[i + 1])
    PROVE  At(q, w, i + 1, Then(p, w[i + 1]))
<1> DEFINE t == Taken(q, w)[i]
           b == w[i + 1]
           r == Taken(q, w)[i + 1]
<1>1. i + 1 \in 1 .. Len(w) /\ i \in 0 .. Len(w) /\ (i + 1) - 1 = i
  OBVIOUS
<1>2. t \in Parser /\ b \in Bytes /\ r = process_byte(t, b)
  BY <1>1, TakenSteps
<1>3. Where(t) = p /\ t.data = q.data /\ ~ Through(p, b)
  BY DEF At
<1> HIDE DEF t, b, r
<1>4. ByteStep(t, b, r)
  BY <1>2, ByteProcessed
<1>5. Where(r) = Then(p, b) /\ r.data = q.data
  BY <1>3, <1>4 DEF ByteStep
<1> QED BY <1>5 DEF At, t, b, r

LEMMA NeutralInit == Neutral(CommandBytes(telnet_init_seq))
<1> DEFINE o == CommandBytes(telnet_init_seq)
           w == telnet_init_seq
<1>1. w \in Seq(Bytes) /\ Len(w) = 3 /\ w[1] = "IAC" /\ w[2] = "WILL" /\ w[3] = "a"
  BY RepliesType DEF Replies, telnet_init_seq
<1>2. Commands(o) /\ BytesOf(o) = w
  BY <1>1, CommandsOf
<1> HIDE DEF o, w
<1>3. ASSUME NEW q \in Parser, Where(q) = "data" PROVE Alike(After(q, o), q)
  <2>1. At(q, w, 0, "data")
    BY <1>1, <1>3, TakenSteps DEF At
  <2>2. At(q, w, 1, "iac")
    <3>1. ~ Through("data", w[0 + 1]) /\ Then("data", w[0 + 1]) = "iac"
      BY <1>1 DEF Through, Then
    <3>2. 0 \in 0 .. Len(w) - 1 /\ 0 + 1 = 1
      BY <1>1
    <3> QED BY <1>1, <2>1, <3>1, <3>2, WalkOn
  <2>3. At(q, w, 2, "negotiation")
    <3>1. ~ Through("iac", w[1 + 1]) /\ Then("iac", w[1 + 1]) = "negotiation"
      BY <1>1 DEF Through, Then
    <3>2. 1 \in 0 .. Len(w) - 1 /\ 1 + 1 = 2
      BY <1>1
    <3> QED BY <1>1, <2>2, <3>1, <3>2, WalkOn
  <2>4. At(q, w, 3, "data")
    <3>1. ~ Through("negotiation", w[2 + 1]) /\ Then("negotiation", w[2 + 1]) = "data"
      BY <1>1 DEF Through, Then
    <3>2. 2 \in 0 .. Len(w) - 1 /\ 2 + 1 = 3
      BY <1>1
    <3> QED BY <1>1, <2>3, <3>1, <3>2, WalkOn
  <2> QED BY <1>1, <1>2, <1>3, <2>4 DEF At, Alike, After, process_telnet_data
<1> QED BY <1>2, <1>3 DEF Neutral, o, w

\* The argument of an answer: the name of the option and one byte, doubled.
LEMMA DoubledTwo ==
    ASSUME NEW x \in Bytes
    PROVE  LET d == DoubleIACs(<<"a", x>>)
           IN  /\ d \in Seq(Bytes) /\ Len(d) = IF x = "IAC" THEN 3 ELSE 2
               /\ d[1] = "a" /\ d[2] = x /\ (x = "IAC" => d[3] = "IAC")
<1> DEFINE y == IF x = "IAC" THEN <<"IAC", "IAC">> ELSE <<x>>
           v == <<"a", x>>
           w == [i \in DOMAIN v |->
                    IF v[i] = "IAC" THEN <<"IAC", "IAC">> ELSE <<v[i]>>]
           f == CHOOSE f : Pieces(f, w)
           one == <<"a">>
<1>1. v \in Seq(Bytes) /\ DOMAIN v = 1 .. 2 /\ v[1] = "a" /\ v[2] = x
  BY DEF Bytes
<1>2. DoubleIACs(v) = FlattenSeq(w)
  BY DEF DoubleIACs
<1> HIDE DEF v
<1>3. w[1] = one /\ w[2] = y
  BY <1>1
<1>4. y \in Seq(Bytes) /\ one \in Seq(Bytes)
  <2>1. "IAC" \in Bytes /\ "a" \in Bytes
    BY DEF Bytes
  <2>2. <<"IAC", "IAC">> \in Seq(Bytes) /\ <<x>> \in Seq(Bytes)
    BY <2>1
  <2> QED BY <2>1, <2>2
<1>5. Len(y) = (IF x = "IAC" THEN 2 ELSE 1) /\ y[1] = x /\ (x = "IAC" => y[2] = "IAC")
  OBVIOUS
<1>6. Len(one) = 1 /\ one[1] = "a"
  OBVIOUS
<1>7. w \in Seq(Seq(Bytes)) /\ Len(w) = 2
  <2> DEFINE T == Seq(Bytes)
  <2>1. w = [i \in 1 .. 2 |-> w[i]]
    BY <1>1
  <2> HIDE DEF w, y, one
  <2>2. w \in [1 .. 2 -> T]
    <3>1. \A i \in 1 .. 2 : w[i] \in T
      BY <1>3, <1>4
    <3> HIDE DEF T
    <3> QED BY <2>1, <3>1
  <2> HIDE DEF T
  <2>3. w \in Seq(T) /\ Len(w) = 2
    BY <2>2, ListType
  <2> QED BY <2>3 DEF T
<1> HIDE DEF w, y, one
<1>8. Pieces(f, w)
  BY <1>7, PiecesExist
<1>9. FlattenSeq(w) = f[2]
  BY <1>7 DEF FlattenSeq, Pieces
<1> HIDE DEF f
<1>10. f[2] = one \o y
  <2>1. \A i \in 1 .. 2 : f[i] = IF i = 1 THEN w[i] ELSE f[i - 1] \o w[i]
    <3>1. \A i \in 1 .. Len(w) : f[i] = IF i = 1 THEN w[i] ELSE f[i - 1] \o w[i]
      BY <1>7, <1>8, PiecesStep
    <3> QED BY <1>7, <3>1, Zenon
  <2>2. f[1] = w[1]
    BY <2>1
  <2>3. 2 \in 1 .. 2 /\ 2 # 1 /\ 2 - 1 = 1
    OBVIOUS
  <2>4. f[2] = f[2 - 1] \o w[2]
    BY <2>1, <2>3, Zenon
  <2>5. f[2] = f[1] \o w[2]
    BY <2>3, <2>4, Zenon
  <2> QED BY <1>3, <2>2, <2>5, Zenon
<1> DEFINE d == one \o y
<1>11. /\ d \in Seq(Bytes) /\ Len(d) = Len(one) + Len(y)
       /\ \A i \in 1 .. Len(one) + Len(y) :
            d[i] = IF i <= Len(one) THEN one[i] ELSE y[i - Len(one)]
  BY <1>4, ConcatProperties
<1> HIDE DEF d
<1>12. d[1] = "a" /\ d[2] = x
  <2>1. 1 \in 1 .. Len(one) + Len(y) /\ 2 \in 1 .. Len(one) + Len(y)
    BY <1>5, <1>6
  <2>2. d[2] = y[2 - Len(one)] /\ 2 - Len(one) = 1
    BY <1>6, <1>11, <2>1
  <2> QED BY <1>5, <1>6, <1>11, <2>1, <2>2
<1>13. ASSUME x = "IAC" PROVE d[3] = "IAC"
  <2>1. 3 \in 1 .. Len(one) + Len(y) /\ 3 - Len(one) = 2
    BY <1>5, <1>6, <1>13
  <2> QED BY <1>5, <1>6, <1>11, <1>13, <2>1
<1>14. Len(d) = IF x = "IAC" THEN 3 ELSE 2
  BY <1>5, <1>6, <1>11
<1> QED BY <1>2, <1>9, <1>10, <1>11, <1>12, <1>13, <1>14 DEF d, v

LEMMA OptionBytesAre ==
    ASSUME NEW x \in Bytes
    PROVE  LET w == OptionBytes(<<"a", x>>)
               n == IF x = "IAC" THEN 7 ELSE 6
           IN  /\ w \in Seq(Bytes) /\ Len(w) = n
               /\ w[1] = "IAC" /\ w[2] = "SB" /\ w[3] = "a" /\ w[4] = x
               /\ x = "IAC" => w[5] = "IAC"
               /\ w[n - 1] = "IAC" /\ w[n] = "SE"
<1> DEFINE d == DoubleIACs(<<"a", x>>)
           l == <<"IAC", "SB">>
           r == <<"IAC", "SE">>
           u == l \o d
           w == u \o r
           m == IF x = "IAC" THEN 3 ELSE 2
<1>1. /\ d \in Seq(Bytes) /\ Len(d) = m
      /\ d[1] = "a" /\ d[2] = x /\ (x = "IAC" => d[3] = "IAC")
  BY DoubledTwo
<1>2. /\ l \in Seq(Bytes) /\ Len(l) = 2 /\ l[1] = "IAC" /\ l[2] = "SB"
      /\ r \in Seq(Bytes) /\ Len(r) = 2 /\ r[1] = "IAC" /\ r[2] = "SE"
  BY DEF Bytes
<1>3. OptionBytes(<<"a", x>>) = w
  BY DEF OptionBytes
<1> HIDE DEF d, l, r
<1>4. /\ u \in Seq(Bytes) /\ Len(u) = 2 + m
      /\ \A i \in 1 .. 2 + m : u[i] = IF i <= 2 THEN l[i] ELSE d[i - 2]
  <2>1. /\ u \in Seq(Bytes) /\ Len(u) = Len(l) + Len(d)
        /\ \A i \in 1 .. Len(l) + Len(d) :
                u[i] = IF i <= Len(l) THEN l[i] ELSE d[i - Len(l)]
    BY <1>1, <1>2, ConcatProperties
  <2> HIDE DEF m
  <2> QED BY <1>1, <1>2, <2>1
<1>5. u[1] = "IAC" /\ u[2] = "SB" /\ u[3] = "a" /\ u[4] = x
      /\ (x = "IAC" => u[5] = "IAC")
  <2>1. 1 \in 1 .. 2 + m /\ 2 \in 1 .. 2 + m /\ 3 \in 1 .. 2 + m /\ 4 \in 1 .. 2 + m
    OBVIOUS
  <2> HIDE DEF u
  <2>2. u[1] = l[1] /\ u[2] = l[2] /\ u[3] = d[1] /\ u[4] = d[2]
    BY <1>4, <2>1
  <2>3. x = "IAC" => u[5] = d[3]
    BY <1>4
  <2> QED BY <1>1, <1>2, <2>2, <2>3
<1> HIDE DEF u
<1>6. /\ w \in Seq(Bytes) /\ Len(w) = 4 + m
      /\ \A i \in 1 .. 4 + m : w[i] = IF i <= 2 + m THEN u[i] ELSE r[i - (2 + m)]
  <2>1. /\ w \in Seq(Bytes) /\ Len(w) = Len(u) + Len(r)
        /\ \A i \in 1 .. Len(u) + Len(r) :
                w[i] = IF i <= Len(u) THEN u[i] ELSE r[i - Len(u)]
    BY <1>2, <1>4, ConcatProperties
  <2>2. Len(u) + Len(r) = 4 + m
    BY <1>2, <1>4
  <2> HIDE DEF m, w
  <2> QED BY <1>4, <2>1, <2>2
<1> HIDE DEF w
<1>7. CASE x = "IAC"
  <2>1. m = 3
    BY <1>7
  <2>2. w[1] = u[1] /\ w[2] = u[2] /\ w[3] = u[3] /\ w[4] = u[4] /\ w[5] = u[5]
        /\ w[6] = r[1] /\ w[7] = r[2] /\ Len(w) = 7
    BY <1>6, <2>1
  <2> QED BY <1>2, <1>3, <1>5, <1>6, <1>7, <2>2
<1>8. CASE x # "IAC"
  <2>1. m = 2
    BY <1>8
  <2>2. w[1] = u[1] /\ w[2] = u[2] /\ w[3] = u[3] /\ w[4] = u[4]
        /\ w[5] = r[1] /\ w[6] = r[2] /\ Len(w) = 6
    BY <1>6, <2>1
  <2> QED BY <1>2, <1>3, <1>5, <1>6, <1>8, <2>2
<1> QED BY <1>7, <1>8

LEMMA NeutralOption ==
    ASSUME NEW x \in Bytes
    PROVE  Neutral(CommandBytes(OptionBytes(<<"a", x>>)))
<1> DEFINE w == OptionBytes(<<"a", x>>)
           o == CommandBytes(w)
           n == IF x = "IAC" THEN 7 ELSE 6
<1>1. /\ w \in Seq(Bytes) /\ Len(w) = n
      /\ w[1] = "IAC" /\ w[2] = "SB" /\ w[3] = "a" /\ w[4] = x
      /\ x = "IAC" => w[5] = "IAC"
      /\ w[n - 1] = "IAC" /\ w[n] = "SE"
  BY OptionBytesAre
<1>2. Commands(o) /\ BytesOf(o) = w
  BY <1>1, CommandsOf
<1> HIDE DEF o, w
<1>3. ASSUME NEW q \in Parser, Where(q) = "data" PROVE Alike(After(q, o), q)
  <2>1. At(q, w, 0, "data")
    BY <1>1, <1>3, TakenSteps DEF At
  <2>2. At(q, w, 1, "iac")
    <3>1. ~ Through("data", w[0 + 1]) /\ Then("data", w[0 + 1]) = "iac"
      BY <1>1 DEF Through, Then
    <3>2. 0 \in 0 .. Len(w) - 1 /\ 0 + 1 = 1
      BY <1>1
    <3> QED BY <1>1, <2>1, <3>1, <3>2, WalkOn
  <2>3. At(q, w, 2, "name")
    <3>1. ~ Through("iac", w[1 + 1]) /\ Then("iac", w[1 + 1]) = "name"
      BY <1>1 DEF Through, Then
    <3>2. 1 \in 0 .. Len(w) - 1 /\ 1 + 1 = 2
      BY <1>1
    <3> QED BY <1>1, <2>2, <3>1, <3>2, WalkOn
  <2>4. At(q, w, 3, "option")
    <3>1. ~ Through("name", w[2 + 1]) /\ Then("name", w[2 + 1]) = "option"
      BY <1>1 DEF Through, Then
    <3>2. 2 \in 0 .. Len(w) - 1 /\ 2 + 1 = 3
      BY <1>1
    <3> QED BY <1>1, <2>3, <3>1, <3>2, WalkOn
  <2>5. CASE x = "IAC"
    <3>0. Len(w) = 7 /\ w[4] = "IAC" /\ w[5] = "IAC" /\ w[6] = "IAC" /\ w[7] = "SE"
      <4>1. n = 7
        BY <2>5
      <4> QED BY <1>1, <2>5, <4>1
    <3>1. At(q, w, 4, "end")
      <4>1. ~ Through("option", w[3 + 1]) /\ Then("option", w[3 + 1]) = "end"
        BY <1>1, <3>0 DEF Through, Then
      <4>2. 3 \in 0 .. Len(w) - 1 /\ 3 + 1 = 4
        BY <1>1, <3>0
      <4> QED BY <1>1, <2>4, <4>1, <4>2, WalkOn
    <3>2. At(q, w, 5, "option")
      <4>1. ~ Through("end", w[4 + 1]) /\ Then("end", w[4 + 1]) = "option"
        BY <1>1, <3>0 DEF Through, Then
      <4>2. 4 \in 0 .. Len(w) - 1 /\ 4 + 1 = 5
        BY <1>1, <3>0
      <4> QED BY <1>1, <3>1, <4>1, <4>2, WalkOn
    <3>3. At(q, w, 6, "end")
      <4>1. ~ Through("option", w[5 + 1]) /\ Then("option", w[5 + 1]) = "end"
        BY <1>1, <3>0 DEF Through, Then
      <4>2. 5 \in 0 .. Len(w) - 1 /\ 5 + 1 = 6
        BY <1>1, <3>0
      <4> QED BY <1>1, <3>2, <4>1, <4>2, WalkOn
    <3>4. At(q, w, 7, "data")
      <4>1. ~ Through("end", w[6 + 1]) /\ Then("end", w[6 + 1]) = "data"
        BY <1>1, <3>0 DEF Through, Then
      <4>2. 6 \in 0 .. Len(w) - 1 /\ 6 + 1 = 7
        BY <1>1, <3>0
      <4> QED BY <1>1, <3>3, <4>1, <4>2, WalkOn
    <3> QED BY <1>1, <1>2, <1>3, <3>0, <3>4 DEF At, Alike, After, process_telnet_data
  <2>6. CASE x # "IAC"
    <3>0. Len(w) = 6 /\ w[4] # "IAC" /\ w[5] = "IAC" /\ w[6] = "SE"
      <4>1. n = 6
        BY <2>6
      <4> QED BY <1>1, <2>6, <4>1
    <3>1. At(q, w, 4, "option")
      <4>1. ~ Through("option", w[3 + 1]) /\ Then("option", w[3 + 1]) = "option"
        BY <1>1, <3>0 DEF Through, Then
      <4>2. 3 \in 0 .. Len(w) - 1 /\ 3 + 1 = 4
        BY <1>1, <3>0
      <4> QED BY <1>1, <2>4, <4>1, <4>2, WalkOn
    <3>2. At(q, w, 5, "end")
      <4>1. ~ Through("option", w[4 + 1]) /\ Then("option", w[4 + 1]) = "end"
        BY <1>1, <3>0 DEF Through, Then
      <4>2. 4 \in 0 .. Len(w) - 1 /\ 4 + 1 = 5
        BY <1>1, <3>0
      <4> QED BY <1>1, <3>1, <4>1, <4>2, WalkOn
    <3>3. At(q, w, 6, "data")
      <4>1. ~ Through("end", w[5 + 1]) /\ Then("end", w[5 + 1]) = "data"
        BY <1>1, <3>0 DEF Through, Then
      <4>2. 5 \in 0 .. Len(w) - 1 /\ 5 + 1 = 6
        BY <1>1, <3>0
      <4> QED BY <1>1, <3>2, <4>1, <4>2, WalkOn
    <3> QED BY <1>1, <1>2, <1>3, <3>0, <3>3 DEF At, Alike, After, process_telnet_data
  <2> QED BY <2>5, <2>6
<1> QED BY <1>2, <1>3 DEF Neutral, o, w

LEMMA NeutralReply ==
    ASSUME NEW w \in Replies PROVE Neutral(CommandBytes(w))
BY NeutralInit, NeutralOption DEF Replies

LEMMA NeutralNothing == Neutral(<<>>)
<1>1. Commands(<<>>)
  BY DEF Commands
<1>2. \A q \in Parser : Alike(After(q, <<>>), q)
  BY AfterNothing DEF Alike
<1> QED BY <1>1, <1>2 DEF Neutral

LEMMA CommandsConcat ==
    ASSUME NEW o, NEW p, Commands(o), Commands(p)
    PROVE  Commands(o \o p)
<1> DEFINE q == o \o p
<1>1. o \in Seq(Byte) /\ p \in Seq(Byte) /\ Len(o) \in Nat /\ Len(p) \in Nat
  BY DEF Commands
<1>2. /\ q \in Seq(Byte) /\ Len(q) = Len(o) + Len(p)
      /\ \A i \in 1 .. Len(o) + Len(p) :
            q[i] = IF i <= Len(o) THEN o[i] ELSE p[i - Len(o)]
  BY <1>1, ConcatProperties
<1> HIDE DEF q
<1>3. ASSUME NEW i \in 1 .. Len(q) PROVE q[i].role = "command"
  <2>1. CASE i <= Len(o)
    <3>1. i \in 1 .. Len(o) /\ q[i] = o[i]
      BY <1>1, <1>2, <2>1
    <3> QED BY <3>1 DEF Commands
  <2>2. CASE ~ (i <= Len(o))
    <3>1. i - Len(o) \in 1 .. Len(p) /\ q[i] = p[i - Len(o)]
      BY <1>1, <1>2, <2>2
    <3> QED BY <3>1 DEF Commands
  <2> QED BY <2>1, <2>2
<1> QED BY <1>2, <1>3 DEF Commands, q

LEMMA NeutralConcat ==
    ASSUME NEW o, NEW p, Neutral(o), Neutral(p)
    PROVE  Neutral(o \o p)
<1>1. o \in Seq(Byte) /\ p \in Seq(Byte)
  BY DEF Neutral, Commands
<1>2. Commands(o \o p)
  BY CommandsConcat DEF Neutral
<1>3. ASSUME NEW q \in Parser, Where(q) = "data"
      PROVE  Alike(After(q, o \o p), q)
  <2> DEFINE t == After(q, o)
  <2>1. t \in Parser /\ Alike(t, q)
    BY <1>1, <1>3, AfterType DEF Neutral
  <2>2. After(q, o \o p) = After(t, p)
    BY <1>1, AfterConcat
  <2> HIDE DEF t
  <2>3. Where(t) = "data"
    BY <1>3, <2>1 DEF Alike
  <2>4. Alike(After(t, p), t)
    BY <2>1, <2>3 DEF Neutral
  <2> QED BY <2>1, <2>2, <2>4 DEF Alike
<1> QED BY <1>2, <1>3 DEF Neutral

\* What is queued while a read is taken apart.
LEMMA ProcessAnswers ==
    ASSUME NEW s \in Parser, NEW w \in Seq(Bytes)
    PROVE  \E o : Neutral(o) /\ process_telnet_data(s, w).out = s.out \o o
<1> DEFINE P == {v \in Seq(Bytes) :
                    \E o : Neutral(o) /\ process_telnet_data(s, v).out = s.out \o o}
<1>0. s.out \in Seq(Byte)
  BY DEF Parser, States, Outgoing, Byte
<1>1. <<>> \in P
  <2>1. process_telnet_data(s, <<>>).out = s.out \o <<>>
    BY <1>0, ProcessNothing, ConcatEmptySeq
  <2>2. <<>> \in Seq(Bytes)
    OBVIOUS
  <2> QED BY <2>1, <2>2, NeutralNothing
<1>2. ASSUME NEW v \in Seq(Bytes), NEW b \in Bytes, v \in P
      PROVE  Append(v, b) \in P
  <2> DEFINE t == process_telnet_data(s, v)
             r == process_telnet_data(s, Append(v, b))
  <2>1. PICK o : Neutral(o) /\ t.out = s.out \o o
    BY <1>2
  <2>2. Answered(t.out, r.out)
    <3>1. ByteStep(t, b, r)
      BY ProcessAppend
    <3> QED BY <3>1 DEF ByteStep
  <2>3. Append(v, b) \in Seq(Bytes)
    OBVIOUS
  <2> HIDE DEF t, r
  <2>4. \E p : Neutral(p) /\ r.out = s.out \o p
    <3>1. CASE r.out = t.out
      BY <2>1, <3>1
    <3>2. ASSUME NEW a \in Replies, r.out = t.out \o CommandBytes(a)
          PROVE  \E p : Neutral(p) /\ r.out = s.out \o p
      <4> DEFINE c == CommandBytes(a)
                 x == s.out
      <4>1. Neutral(c)
        BY NeutralReply
      <4> HIDE DEF c
      <4>2. c \in Seq(Byte) /\ o \in Seq(Byte) /\ x \in Seq(Byte)
        BY <1>0, <2>1, <4>1 DEF Neutral, Commands
      <4> HIDE DEF x
      <4>3. (x \o o) \o c = x \o (o \o c)
        BY <4>2, ConcatAssociative
      <4>4. Neutral(o \o c)
        BY <2>1, <4>1, NeutralConcat
      <4> QED BY <2>1, <3>2, <4>3, <4>4 DEF c, x
    <3> QED BY <2>2, <3>1, <3>2 DEF Answered
  <2> QED BY <2>3, <2>4 DEF r
<1>3. \A v \in Seq(Bytes), b \in Bytes : v \in P => Append(v, b) \in P
  BY <1>2
<1> HIDE DEF P
<1>4. Seq(Bytes) \subseteq P
  BY <1>1, <1>3, ByAppending
<1> QED BY <1>4 DEF P

-----------------------------------------------------------------------------
(* The device's data on its way to the client.                             *)

ByteOut(x) ==
    IF x = "IAC" THEN <<[byte |-> "IAC", role |-> "first"],
                        [byte |-> "IAC", role |-> "second"]>>
    ELSE <<[byte |-> x, role |-> "data"]>>

\* A part of it: what is first is followed by a second, and only a first is,
\* unless the part begins with a second.
Doubled(o) ==
    \A i \in 1 .. Len(o) :
        /\ o[i].role \in {"data", "first", "second"}
        /\ o[i].role = "data" => o[i].byte # "IAC"
        /\ o[i].role # "data" => o[i].byte = "IAC"
        /\ o[i].role = "first" => i < Len(o) /\ o[i + 1].role = "second"
        /\ o[i].role = "second" /\ i > 1 => o[i - 1].role = "first"

\* The client has the first of two IACs and waits for the other.
Awaits(o) == Len(o) > 0 /\ o[1].role = "second"

LEMMA ByteOutType ==
    ASSUME NEW x \in Bytes
    PROVE  /\ ByteOut(x) \in Seq(Byte)
           /\ x = "IAC" => /\ Len(ByteOut(x)) = 2
                           /\ ByteOut(x)[1] = [byte |-> "IAC", role |-> "first"]
                           /\ ByteOut(x)[2] = [byte |-> "IAC", role |-> "second"]
           /\ x # "IAC" => /\ Len(ByteOut(x)) = 1
                           /\ ByteOut(x)[1] = [byte |-> x, role |-> "data"]
<1> DEFINE f == [byte |-> "IAC", role |-> "first"]
           g == [byte |-> "IAC", role |-> "second"]
           h == [byte |-> x, role |-> "data"]
<1>1. f \in Byte /\ g \in Byte /\ h \in Byte
  BY DEF Byte, Bytes, Roles
<1>2. ByteOut(x) = IF x = "IAC" THEN <<f, g>> ELSE <<h>>
  BY DEF ByteOut
<1> HIDE DEF f, g, h
<1>3. <<f, g>> \in Seq(Byte) /\ <<h>> \in Seq(Byte)
  BY <1>1
<1> QED BY <1>2, <1>3 DEF f, g, h

LEMMA DataBytesNothing == DataBytes(<<>>) = <<>>
<1> DEFINE g == [i \in DOMAIN <<>> |-> ByteOut(<<>>[i])]
<1>1. DataBytes(<<>>) = FlattenSeq(g)
  BY DEF DataBytes, ByteOut
<1>2. g = <<>>
  OBVIOUS
<1> HIDE DEF g
<1>3. FlattenSeq(<<>>) = <<>>
  BY DEF FlattenSeq
<1> QED BY <1>1, <1>2, <1>3

LEMMA DataBytesAppend ==
    ASSUME NEW r \in Seq(Bytes), NEW x \in Bytes
    PROVE  DataBytes(Append(r, x)) = DataBytes(r) \o ByteOut(x)
<1> DEFINE v == Append(r, x)
           g == [i \in 1 .. Len(r) |-> ByteOut(r[i])]
           h == [i \in 1 .. Len(r) + 1 |-> ByteOut(v[i])]
           T == Seq(Byte)
<1>1. /\ Len(r) \in Nat /\ DOMAIN r = 1 .. Len(r) /\ DOMAIN v = 1 .. Len(r) + 1
      /\ \A i \in 1 .. Len(r) : r[i] \in Bytes /\ v[i] = r[i]
      /\ v[Len(r) + 1] = x /\ \A i \in 1 .. Len(r) + 1 : v[i] \in Bytes
  OBVIOUS
<1>2. DataBytes(r) = FlattenSeq(g)
  BY <1>1 DEF DataBytes, ByteOut
<1>3. DataBytes(v) = FlattenSeq(h)
  <2> HIDE DEF v
  <2> QED BY <1>1 DEF DataBytes, ByteOut
<1> HIDE DEF v
<1>4. \A y \in Bytes : ByteOut(y) \in T
  BY ByteOutType
<1> HIDE DEF T
<1>5. g \in Seq(T) /\ Len(g) = Len(r)
  <2>1. g \in [1 .. Len(r) -> T]
    BY <1>1, <1>4
  <2> HIDE DEF g
  <2> QED BY <1>1, <2>1, ListType
<1>6. h \in Seq(T) /\ Len(h) = Len(r) + 1
  <2>1. h \in [1 .. Len(r) + 1 -> T]
    BY <1>1, <1>4
  <2>2. Len(r) + 1 \in Nat
    BY <1>1
  <2> HIDE DEF h
  <2> QED BY <2>1, <2>2, ListType
<1>7. /\ \A i \in 1 .. Len(r) : g[i] = ByteOut(r[i]) /\ h[i] = ByteOut(r[i])
      /\ h[Len(r) + 1] = ByteOut(x)
  BY <1>1
<1> HIDE DEF g, h
<1> DEFINE y == ByteOut(x)
           a == Append(g, y)
<1>8. y \in T
  BY <1>4
<1> HIDE DEF y
<1>9. /\ a \in Seq(T) /\ Len(a) = Len(g) + 1
      /\ \A i \in 1 .. Len(g) : a[i] = g[i]
      /\ a[Len(g) + 1] = y
  BY <1>5, <1>8, AppendProperties
<1> HIDE DEF a
<1>10. \A i \in 1 .. Len(h) : h[i] = a[i]
  <2> SUFFICES ASSUME NEW i \in 1 .. Len(h) PROVE h[i] = a[i]
    OBVIOUS
  <2>1. CASE i \in 1 .. Len(r)
    BY <1>5, <1>7, <1>9, <2>1
  <2>2. CASE i = Len(r) + 1
    BY <1>5, <1>7, <1>9, <2>2 DEF y
  <2> QED BY <1>1, <1>6, <2>1, <2>2
<1>11. h = a
  <2>1. Len(h) = Len(a)
    BY <1>5, <1>6, <1>9
  <2> QED BY <1>6, <1>9, <1>10, <2>1, SeqEqual
<1>12. FlattenSeq(Append(g, y)) = FlattenSeq(g) \o y
  BY <1>5, <1>8, FlattenAppend DEF T
<1> QED BY <1>2, <1>3, <1>11, <1>12 DEF v, y, a

\* A byte of the device is read as what it is.
LEMMA AfterByteOut ==
    ASSUME NEW q \in Parser, Where(q) = "data", NEW x \in Bytes
    PROVE  /\ Where(After(q, ByteOut(x))) = "data"
           /\ After(q, ByteOut(x)).data = Append(q.data, x)
<1> DEFINE o == ByteOut(x)
           w == BytesOf(o)
<1>1. /\ o \in Seq(Byte)
      /\ x = "IAC" => Len(o) = 2 /\ o[1].byte = "IAC" /\ o[2].byte = "IAC"
      /\ x # "IAC" => Len(o) = 1 /\ o[1].byte = x
  <2>1. CASE x = "IAC"
    <3>1. /\ o \in Seq(Byte) /\ Len(o) = 2
          /\ o[1] = [byte |-> "IAC", role |-> "first"]
          /\ o[2] = [byte |-> "IAC", role |-> "second"]
      BY <2>1, ByteOutType
    <3> HIDE DEF o
    <3> QED BY <2>1, <3>1
  <2>2. CASE x # "IAC"
    <3>1. o \in Seq(Byte) /\ Len(o) = 1 /\ o[1] = [byte |-> x, role |-> "data"]
      BY <2>2, ByteOutType
    <3> HIDE DEF o
    <3> QED BY <2>2, <3>1
  <2> QED BY <2>1, <2>2
<1> HIDE DEF o
<1>2. /\ w \in Seq(Bytes) /\ Len(w) = Len(o)
      /\ \A i \in 1 .. Len(o) : w[i] = o[i].byte
  BY <1>1, BytesOfType
<1>3. After(q, o) = Taken(q, w)[Len(w)]
  BY DEF After, process_telnet_data
<1> HIDE DEF w
<1>4. /\ Taken(q, w)[0] = q
      /\ \A i \in 1 .. Len(w) :
            /\ Taken(q, w)[i - 1] \in Parser
            /\ ByteStep(Taken(q, w)[i - 1], w[i], Taken(q, w)[i])
  <2>1. Taken(q, w)[0] = q
    BY <1>2, TakenSteps
  <2>2. ASSUME NEW i \in 1 .. Len(w)
        PROVE  /\ Taken(q, w)[i - 1] \in Parser
               /\ ByteStep(Taken(q, w)[i - 1], w[i], Taken(q, w)[i])
    <3>1. i - 1 \in 0 .. Len(w) /\ w[i] \in Bytes
      BY <1>2
    <3>2. /\ Taken(q, w)[i - 1] \in Parser
          /\ Taken(q, w)[i] = process_byte(Taken(q, w)[i - 1], w[i])
      BY <1>2, <3>1, TakenSteps
    <3> QED BY <3>1, <3>2, ByteProcessed
  <2> QED BY <2>1, <2>2
<1>5. CASE x # "IAC"
  <2>1. Len(w) = 1 /\ w[1] = x
    BY <1>1, <1>2, <1>5
  <2>2. ByteStep(q, x, Taken(q, w)[1])
    <3>1. 1 \in 1 .. Len(w) /\ 1 - 1 = 0
      BY <2>1
    <3>2. ByteStep(Taken(q, w)[1 - 1], w[1], Taken(q, w)[1])
      BY <1>4, <3>1
    <3> QED BY <1>4, <2>1, <3>1, <3>2
  <2>3. Through("data", x) /\ Then("data", x) = "data"
    BY <1>5 DEF Through, Then
  <2> QED BY <1>3, <2>1, <2>2, <2>3 DEF ByteStep, o
<1>6. CASE x = "IAC"
  <2> DEFINE t == Taken(q, w)[1]
             u == Taken(q, w)[2]
  <2>1. Len(w) = 2 /\ w[1] = "IAC" /\ w[2] = "IAC"
    BY <1>1, <1>2, <1>6
  <2>2. ByteStep(q, "IAC", t)
    <3>1. 1 \in 1 .. Len(w) /\ 1 - 1 = 0
      BY <2>1
    <3>2. ByteStep(Taken(q, w)[1 - 1], w[1], Taken(q, w)[1])
      BY <1>4, <3>1
    <3> QED BY <1>4, <2>1, <3>1, <3>2
  <2>3. ByteStep(t, "IAC", u)
    <3>1. 2 \in 1 .. Len(w) /\ 2 - 1 = 1
      BY <2>1
    <3>2. ByteStep(Taken(q, w)[2 - 1], w[2], Taken(q, w)[2])
      BY <1>4, <3>1
    <3> QED BY <2>1, <3>1, <3>2
  <2> HIDE DEF t, u
  <2>4. ~ Through("data", "IAC") /\ Then("data", "IAC") = "iac"
        /\ Through("iac", "IAC") /\ Then("iac", "IAC") = "data"
    BY DEF Through, Then
  <2>5. Where(t) = "iac" /\ t.data = q.data
    BY <2>2, <2>4 DEF ByteStep
  <2>6. Where(u) = "data" /\ u.data = Append(q.data, "IAC")
    BY <2>3, <2>4, <2>5 DEF ByteStep
  <2> QED BY <1>3, <1>6, <2>1, <2>6 DEF o, u
<1> QED BY <1>5, <1>6

LEMMA DoubledAppend ==
    ASSUME NEW o \in Seq(Byte), Doubled(o), ~ Awaits(o), NEW x \in Bytes
    PROVE  Doubled(o \o ByteOut(x)) /\ ~ Awaits(o \o ByteOut(x))
<1> DEFINE e == ByteOut(x)
           p == o \o e
           n == Len(o)
<1>1. /\ e \in Seq(Byte)
      /\ x = "IAC" => /\ Len(e) = 2
                      /\ e[1] = [byte |-> "IAC", role |-> "first"]
                      /\ e[2] = [byte |-> "IAC", role |-> "second"]
      /\ x # "IAC" => Len(e) = 1 /\ e[1] = [byte |-> x, role |-> "data"]
  BY ByteOutType
<1> HIDE DEF e
<1>2. /\ p \in Seq(Byte) /\ Len(p) = n + Len(e) /\ n \in Nat /\ Len(e) \in Nat
      /\ \A i \in 1 .. n + Len(e) : p[i] = IF i <= n THEN o[i] ELSE e[i - n]
  BY <1>1, ConcatProperties
<1>3. \A i \in 1 .. n :
        /\ o[i].role \in {"data", "first", "second"}
        /\ o[i].role = "data" => o[i].byte # "IAC"
        /\ o[i].role # "data" => o[i].byte = "IAC"
        /\ o[i].role = "first" => i < n /\ o[i + 1].role = "second"
        /\ o[i].role = "second" /\ i > 1 => o[i - 1].role = "first"
  BY DEF Doubled
<1>4. n > 0 => o[1].role # "second"
  BY DEF Awaits
<1> HIDE DEF p, n
<1>5. \A i \in 1 .. n : p[i] = o[i] /\ i \in 1 .. Len(p)
  BY <1>2
<1>6. /\ x = "IAC" => /\ Len(p) = n + 2
                      /\ p[n + 1].byte = "IAC" /\ p[n + 1].role = "first"
                      /\ p[n + 2].byte = "IAC" /\ p[n + 2].role = "second"
      /\ x # "IAC" => /\ Len(p) = n + 1
                      /\ p[n + 1].byte = x /\ p[n + 1].role = "data"
  <2>1. CASE x = "IAC"
    <3>0. /\ Len(e) = 2 /\ e[1] = [byte |-> "IAC", role |-> "first"]
          /\ e[2] = [byte |-> "IAC", role |-> "second"]
      BY <1>1, <2>1
    <3>1. n + 1 \in 1 .. n + Len(e) /\ ~ (n + 1 <= n) /\ (n + 1) - n = 1
          /\ n + 2 \in 1 .. n + Len(e) /\ ~ (n + 2 <= n) /\ (n + 2) - n = 2
      <4>1. n \in Nat /\ Len(e) = 2
        BY <1>2, <3>0
      <4> QED BY <4>1
    <3>2. p[n + 1] = e[1] /\ p[n + 2] = e[2]
      BY <1>2, <3>1
    <3>3. Len(p) = n + 2
      BY <1>2, <3>0
    <3> QED BY <2>1, <3>0, <3>2, <3>3
  <2>2. CASE x # "IAC"
    <3>0. Len(e) = 1 /\ e[1] = [byte |-> x, role |-> "data"]
      BY <1>1, <2>2
    <3>1. n + 1 \in 1 .. n + Len(e) /\ ~ (n + 1 <= n) /\ (n + 1) - n = 1
      <4>1. n \in Nat /\ Len(e) = 1
        BY <1>2, <3>0
      <4> QED BY <4>1
    <3>2. p[n + 1] = e[1]
      BY <1>2, <3>1
    <3>3. Len(p) = n + 1
      BY <1>2, <3>0
    <3> QED BY <2>2, <3>0, <3>2, <3>3
  <2> QED BY <2>1, <2>2
<1>7. ASSUME NEW i \in 1 .. Len(p)
      PROVE  /\ p[i].role \in {"data", "first", "second"}
             /\ p[i].role = "data" => p[i].byte # "IAC"
             /\ p[i].role # "data" => p[i].byte = "IAC"
             /\ p[i].role = "first" => i < Len(p) /\ p[i + 1].role = "second"
             /\ p[i].role = "second" /\ i > 1 => p[i - 1].role = "first"
  <2>1. CASE i <= n
    <3>1. i \in 1 .. n /\ p[i] = o[i] /\ i - 1 \in 0 .. n /\ Len(p) > n
      BY <1>1, <1>2, <1>5, <2>1
    <3>2. i > 1 => p[i - 1] = o[i - 1]
      <4>1. i > 1 => i - 1 \in 1 .. n
        BY <1>2, <3>1
      <4> QED BY <1>5, <4>1
    <3>3. i < n => p[i + 1] = o[i + 1]
      <4>1. i < n => i + 1 \in 1 .. n
        BY <1>2, <3>1
      <4> QED BY <1>5, <4>1
    <3>4. /\ o[i].role \in {"data", "first", "second"}
          /\ o[i].role = "data" => o[i].byte # "IAC"
          /\ o[i].role # "data" => o[i].byte = "IAC"
          /\ o[i].role = "first" => i < n /\ o[i + 1].role = "second"
          /\ o[i].role = "second" /\ i > 1 => o[i - 1].role = "first"
      BY <1>3, <3>1
    <3>5. i < Len(p)
      <4>1. n \in Nat /\ Len(p) \in Nat
        BY <1>2
      <4> QED BY <2>1, <3>1, <4>1
    <3> HIDE DEF e
    <3> QED BY <3>1, <3>2, <3>3, <3>4, <3>5
  <2>2. CASE i = n + 1
    <3>1. CASE x = "IAC"
      <4>1. i + 1 = n + 2 /\ i < Len(p)
        BY <1>2, <1>6, <2>2, <3>1
      <4> QED BY <1>6, <2>2, <3>1, <4>1
    <3>2. CASE x # "IAC"
      BY <1>6, <2>2, <3>2
    <3> QED BY <3>1, <3>2
  <2>3. CASE i = n + 2
    <3>1. x = "IAC" /\ i - 1 = n + 1
      BY <1>2, <1>6, <2>3
    <3> QED BY <1>6, <2>3, <3>1
  <2>4. i <= n \/ i = n + 1 \/ i = n + 2
    <3>1. Len(p) = n + 1 \/ Len(p) = n + 2
      BY <1>6
    <3>2. n \in Nat
      BY <1>2
    <3> QED BY <3>1, <3>2
  <2> QED BY <2>1, <2>2, <2>3, <2>4
<1>8. p[1].role # "second"
  <2>1. CASE n = 0
    <3>1. n + 1 = 1
      BY <2>1
    <3> QED BY <1>6, <3>1
  <2>2. CASE n > 0
    <3>1. 1 \in 1 .. n
      BY <1>2, <2>2
    <3> QED BY <1>4, <1>5, <2>2, <3>1
  <2> QED BY <1>2, <2>1, <2>2
<1> QED BY <1>7, <1>8 DEF Doubled, Awaits, p, e

\* All of the device's data: it is doubled, at most twice as long, and a client
\* that is in no command reads it.
LEMMA DataBytesAre ==
    ASSUME NEW r \in Seq(Bytes)
    PROVE  /\ DataBytes(r) \in Seq(Byte) /\ Len(DataBytes(r)) <= 2 * Len(r)
           /\ Doubled(DataBytes(r)) /\ ~ Awaits(DataBytes(r))
           /\ \A q \in Parser : Where(q) = "data" =>
                    /\ Where(After(q, DataBytes(r))) = "data"
                    /\ After(q, DataBytes(r)).data = q.data \o r
<1> DEFINE Read(o, v) == \A q \in Parser : Where(q) = "data" =>
                            /\ Where(After(q, o)) = "data"
                            /\ After(q, o).data = q.data \o v
           P == {v \in Seq(Bytes) :
                    /\ DataBytes(v) \in Seq(Byte) /\ Len(DataBytes(v)) <= 2 * Len(v)
                    /\ Doubled(DataBytes(v)) /\ ~ Awaits(DataBytes(v))
                    /\ Read(DataBytes(v), v)}
<1>1. <<>> \in P
  <2>1. /\ <<>> \in Seq(Bytes) /\ <<>> \in Seq(Byte) /\ Len(<<>>) = 0
        /\ Len(<<>>) <= 2 * Len(<<>>)
    OBVIOUS
  <2>2. Doubled(<<>>) /\ ~ Awaits(<<>>)
    BY DEF Doubled, Awaits
  <2>3. ASSUME NEW q \in Parser, Where(q) = "data"
        PROVE  Where(After(q, <<>>)) = "data" /\ After(q, <<>>).data = q.data \o <<>>
    <3>1. q.data \in Seq(Bytes)
      BY DEF Parser, States
    <3> QED BY <2>3, <3>1, AfterNothing, ConcatEmptySeq
  <2>4. Read(<<>>, <<>>)
    BY <2>3
  <2> HIDE DEF Read
  <2> QED BY <2>1, <2>2, <2>4, DataBytesNothing
<1>2. ASSUME NEW v \in Seq(Bytes), NEW x \in Bytes, v \in P
      PROVE  Append(v, x) \in P
  <2> DEFINE o == DataBytes(v)
             e == ByteOut(x)
             a == Append(v, x)
  <2>1. /\ o \in Seq(Byte) /\ Len(o) <= 2 * Len(v)
        /\ Doubled(o) /\ ~ Awaits(o) /\ Read(o, v)
    BY <1>2
  <2>2. e \in Seq(Byte) /\ Len(e) <= 2 /\ Len(e) \in Nat
    <3>1. e \in Seq(Byte)
      BY ByteOutType
    <3>2. Len(e) = 1 \/ Len(e) = 2
      <4>1. CASE x = "IAC"
        BY <4>1, ByteOutType
      <4>2. CASE x # "IAC"
        BY <4>2, ByteOutType
      <4> QED BY <4>1, <4>2
    <3> HIDE DEF e
    <3>3. Len(e) \in Nat
      BY <3>1
    <3>4. Len(e) <= 2
      <4>1. CASE Len(e) = 1
        BY <4>1
      <4>2. CASE Len(e) = 2
        BY <4>2
      <4> QED BY <3>2, <4>1, <4>2
    <3> QED BY <3>1, <3>3, <3>4
  <2>3. DataBytes(a) = o \o e
    BY DataBytesAppend
  <2>4. /\ a \in Seq(Bytes) /\ Len(a) = Len(v) + 1 /\ Len(v) \in Nat
        /\ a = v \o <<x>> /\ <<x>> \in Seq(Bytes)
    BY AppendIsConcat
  <2> HIDE DEF o, e, a
  <2>5. o \o e \in Seq(Byte) /\ Len(o \o e) = Len(o) + Len(e) /\ Len(o) \in Nat
    BY <2>1, <2>2, ConcatProperties
  <2>6. Len(o \o e) <= 2 * Len(a)
    BY <2>1, <2>2, <2>4, <2>5
  <2>7. Doubled(o \o e) /\ ~ Awaits(o \o e)
    BY <2>1, DoubledAppend DEF e
  <2>8. ASSUME NEW q \in Parser, Where(q) = "data"
        PROVE  Where(After(q, o \o e)) = "data" /\ After(q, o \o e).data = q.data \o a
    <3> DEFINE t == After(q, o)
    <3>1. t \in Parser /\ Where(t) = "data" /\ t.data = q.data \o v
      BY <2>1, <2>8, AfterType
    <3>2. After(q, o \o e) = After(t, e)
      BY <2>1, <2>2, AfterConcat
    <3> HIDE DEF t
    <3>3. Where(After(t, e)) = "data" /\ After(t, e).data = Append(t.data, x)
      BY <3>1, AfterByteOut DEF e
    <3>4. Append(t.data, x) = q.data \o a
      <4> DEFINE d == q.data
                 y == <<x>>
      <4>1. d \in Seq(Bytes) /\ y \in Seq(Bytes)
        BY <2>4 DEF Parser, States
      <4>2. d \o v \in Seq(Bytes)
        BY <4>1, ConcatProperties
      <4>3. Append(d \o v, x) = (d \o v) \o y
        BY <4>2, AppendIsConcat
      <4> HIDE DEF d, y
      <4>4. (d \o v) \o y = d \o (v \o y)
        BY <4>1, ConcatAssociative
      <4> QED BY <2>4, <3>1, <4>3, <4>4 DEF d, y
    <3> QED BY <3>2, <3>3, <3>4
  <2>9. Read(o \o e, a)
    BY <2>8
  <2> HIDE DEF Read
  <2> QED BY <2>3, <2>4, <2>5, <2>6, <2>7, <2>9 DEF a
<1>3. \A v \in Seq(Bytes), x \in Bytes : v \in P => Append(v, x) \in P
  BY <1>2
<1> HIDE DEF P
<1>4. r \in P
  <2>1. Seq(Bytes) \subseteq P
    BY <1>1, <1>3, ByAppending
  <2> QED BY <2>1
<1> QED BY <1>4 DEF P

\* Where the device's data is cut.
LEMMA DoubledCut ==
    ASSUME NEW o \in Seq(Byte), Doubled(o), NEW n \in 0 .. Len(o)
    PROVE  LET b == SubSeq(o, n + 1, Len(o))
           IN  /\ Doubled(b)
               /\ Awaits(b) <=> n < Len(o) /\ o[n + 1].role = "second"
               /\ n > 0 => (o[n].role = "first" <=> Awaits(b))
<1> DEFINE b == SubSeq(o, n + 1, Len(o))
           m == Len(o)
<1>1. /\ b \in Seq(Byte) /\ Len(b) = m - n /\ m \in Nat /\ n \in 0 .. m
      /\ \A i \in 1 .. m - n : b[i] = o[n + i]
  BY Cut
<1>2. \A i \in 1 .. m :
        /\ o[i].role \in {"data", "first", "second"}
        /\ o[i].role = "data" => o[i].byte # "IAC"
        /\ o[i].role # "data" => o[i].byte = "IAC"
        /\ o[i].role = "first" => i < m /\ o[i + 1].role = "second"
        /\ o[i].role = "second" /\ i > 1 => o[i - 1].role = "first"
  BY DEF Doubled
<1> HIDE DEF b, m
<1>3. ASSUME NEW i \in 1 .. Len(b)
      PROVE  /\ b[i].role \in {"data", "first", "second"}
             /\ b[i].role = "data" => b[i].byte # "IAC"
             /\ b[i].role # "data" => b[i].byte = "IAC"
             /\ b[i].role = "first" => i < Len(b) /\ b[i + 1].role = "second"
             /\ b[i].role = "second" /\ i > 1 => b[i - 1].role = "first"
  <2> DEFINE j == n + i
  <2>1. j \in 1 .. m /\ b[i] = o[j] /\ (i < Len(b) <=> j < m) /\ (i > 1 => j > 1)
    BY <1>1
  <2>2. i < Len(b) => b[i + 1] = o[j + 1]
    <3>1. i < Len(b) => i + 1 \in 1 .. m - n /\ n + (i + 1) = j + 1
      BY <1>1
    <3> QED BY <1>1, <3>1
  <2>3. i > 1 => b[i - 1] = o[j - 1]
    <3>1. i > 1 => i - 1 \in 1 .. m - n /\ n + (i - 1) = j - 1
      BY <1>1
    <3> QED BY <1>1, <3>1
  <2> HIDE DEF j
  <2> QED BY <1>2, <2>1, <2>2, <2>3
<1>4. Awaits(b) <=> n < m /\ o[n + 1].role = "second"
  <2>1. Len(b) > 0 <=> n < m
    BY <1>1
  <2>2. n < m => b[1] = o[n + 1]
    BY <1>1
  <2> QED BY <2>1, <2>2 DEF Awaits
<1>5. ASSUME n > 0 PROVE o[n].role = "first" <=> n < m /\ o[n + 1].role = "second"
  <2>1. n \in 1 .. m /\ (n < m => n + 1 \in 1 .. m /\ n + 1 > 1 /\ (n + 1) - 1 = n)
    BY <1>1, <1>5
  <2> QED BY <1>2, <2>1
<1> QED BY <1>3, <1>4, <1>5 DEF Doubled, b, m

\* A client that reads it byte by byte is in no command, but between two IACs.
LEMMA ReadPart ==
    ASSUME NEW s \in Parser, NEW o \in Seq(Byte), Doubled(o),
           Where(s) = IF Awaits(o) THEN "iac" ELSE "data", NEW n \in 0 .. Len(o)
    PROVE  LET a == SubSeq(o, 1, n)
               b == SubSeq(o, n + 1, Len(o))
           IN  /\ Where(After(s, a)) = IF Awaits(b) THEN "iac" ELSE "data"
               /\ After(s, o) = After(After(s, a), b)
<1> DEFINE m == Len(o)
           w == BytesOf(o)
           Second(i) == i < m /\ o[i + 1].role = "second"
           E == {i \in 0 .. m : Where(Taken(s, w)[i])
                                    = IF Second(i) THEN "iac" ELSE "data"}
           a == SubSeq(o, 1, n)
           b == SubSeq(o, n + 1, Len(o))
<1>1. /\ w \in Seq(Bytes) /\ Len(w) = m /\ m \in Nat
      /\ \A i \in 1 .. m : w[i] = o[i].byte
  BY BytesOfType
<1>2. \A i \in 1 .. m :
        /\ o[i].role \in {"data", "first", "second"}
        /\ o[i].role = "data" => o[i].byte # "IAC"
        /\ o[i].role # "data" => o[i].byte = "IAC"
        /\ o[i].role = "first" => i < m /\ o[i + 1].role = "second"
        /\ o[i].role = "second" /\ i > 1 => o[i - 1].role = "first"
  BY DEF Doubled
<1>3. Where(s) = IF Second(0) THEN "iac" ELSE "data"
  BY <1>1 DEF Awaits
<1>z. n \in 0 .. m
  OBVIOUS
<1> HIDE DEF w, m
<1>4. 0 \in E
  BY <1>1, <1>3, TakenSteps
<1>5. ASSUME NEW i \in 0 .. m - 1, i \in E PROVE i + 1 \in E
  <2> DEFINE j == i + 1
             t == Taken(s, w)[i]
             r == Taken(s, w)[j]
             x == o[j].byte
             role == o[j].role
  <2>1. /\ j \in 1 .. m /\ j \in 0 .. m /\ j - 1 = i /\ i \in 0 .. m
        /\ j \in 1 .. Len(w) /\ i \in 0 .. Len(w)
    BY <1>1
  <2>2. /\ role \in {"data", "first", "second"}
        /\ role = "data" => x # "IAC"
        /\ role # "data" => x = "IAC"
        /\ role = "first" => j < m /\ o[j + 1].role = "second"
    BY <1>2, <2>1
  <2>3. j < m /\ o[j + 1].role = "second" => role = "first"
    <3>1. j < m => j + 1 \in 1 .. m /\ j + 1 > 1 /\ (j + 1) - 1 = j
      BY <1>1, <2>1
    <3> QED BY <1>2, <3>1
  <2>4. ByteStep(t, x, r)
    <3>1. t \in Parser
      BY <1>1, <2>1, TakenSteps
    <3>2. r = process_byte(t, w[j])
      <4>1. \A k \in 1 .. Len(w) :
                Taken(s, w)[k] = process_byte(Taken(s, w)[k - 1], w[k])
        BY <1>1, TakenSteps
      <4> HIDE DEF j
      <4> QED BY <2>1, <4>1
    <3>3. w[j] = x /\ w[j] \in Bytes
      <4> HIDE DEF j
      <4> QED BY <1>1, <2>1
    <3> HIDE DEF t, r, x
    <3> QED BY <3>1, <3>2, <3>3, ByteProcessed
  <2>5. Where(t) = IF role = "second" THEN "iac" ELSE "data"
    <3>1. Where(t) = IF Second(i) THEN "iac" ELSE "data"
      BY <1>5
    <3>2. Second(i) <=> role = "second"
      BY <1>1, <2>1
    <3> HIDE DEF t, role
    <3> QED BY <3>1, <3>2
  <2>6. Second(j) <=> role = "first"
    BY <2>2, <2>3
  <2> HIDE DEF t, r, x, role
  <2>7. Where(r) = IF role = "first" THEN "iac" ELSE "data"
    <3>1. Where(r) = Then(Where(t), x)
      BY <2>4 DEF ByteStep
    <3>2. CASE role = "data"
      <4>1. Where(t) = "data" /\ x # "IAC"
        BY <2>2, <2>5, <3>2
      <4> QED BY <3>1, <3>2, <4>1 DEF Then
    <3>3. CASE role = "first"
      <4>1. Where(t) = "data" /\ x = "IAC"
        BY <2>2, <2>5, <3>3
      <4> QED BY <3>1, <3>3, <4>1 DEF Then
    <3>4. CASE role = "second"
      <4>1. Where(t) = "iac" /\ x = "IAC"
        BY <2>2, <2>5, <3>4
      <4> QED BY <3>1, <3>4, <4>1 DEF Then
    <3> QED BY <2>2, <3>2, <3>3, <3>4
  <2>8. Where(r) = IF Second(j) THEN "iac" ELSE "data"
    BY <2>6, <2>7
  <2> HIDE DEF Second
  <2>9. j \in E
    BY <2>1, <2>8 DEF r
  <2> QED BY <2>9 DEF j
<1>6. \A i \in 0 .. m - 1 : i \in E => i + 1 \in E
  BY <1>5
<1> HIDE DEF E
<1>7. n \in E
  <2>1. 0 .. m \subseteq E
    BY <1>1, <1>4, <1>6, Upwards
  <2> QED BY <1>z, <2>1
<1>8. Where(Taken(s, w)[n]) = IF Second(n) THEN "iac" ELSE "data"
  BY <1>7 DEF E
<1>9. /\ a \in Seq(Byte) /\ b \in Seq(Byte) /\ a \o b = o /\ Len(a) = n
      /\ \A i \in 1 .. n : a[i] = o[i]
  BY Cut
<1>10. Awaits(b) <=> Second(n)
  BY DoubledCut DEF m
<1> HIDE DEF a, b, Second
<1>11. After(s, o) = After(After(s, a), b)
  BY <1>9, AfterConcat
<1>12. After(s, a) = Taken(s, w)[n]
  <2> DEFINE v == BytesOf(a)
  <2>1. v \in Seq(Bytes) /\ Len(v) = n /\ \A i \in 1 .. n : v[i] = a[i].byte
    BY <1>9, BytesOfType
  <2>2. After(s, a) = Taken(s, v)[n]
    BY <2>1 DEF After, process_telnet_data
  <2> HIDE DEF v
  <2>3. n \in Nat /\ n <= Len(v) /\ n <= Len(w)
    BY <1>1, <1>z, <2>1
  <2>4. \A i \in 1 .. n : v[i] = w[i]
    BY <1>1, <1>9, <1>z, <2>1
  <2>5. \A i \in 0 .. n : Taken(s, v)[i] = Taken(s, w)[i]
    BY <1>1, <2>1, <2>3, <2>4, TakenAgree
  <2> QED BY <2>2, <2>3, <2>5
<1> QED BY <1>8, <1>10, <1>11, <1>12 DEF a, b

-----------------------------------------------------------------------------
(* What holds of the bytes d written to the client, the commands o and the  *)
(* data u that wait, and the data f of the device, as long as no command    *)
(* came between two IACs.                                                   *)

LastRole(d) == IF Len(d) > 0 THEN d[Len(d)].role ELSE "none"

\* Between two IACs: the rest of the data completes what the client reads.
Between(d, u, f) ==
    LET p == After(AtRest, d)
    IN  /\ Where(p) = "iac" /\ LastRole(d) = "first"
        /\ After(p, u).data = f

\* Else: the commands bring nothing to read, and the data the rest.
Outside(d, o, u, f) ==
    LET p == After(AtRest, d)
        q == After(p, o)
    IN  /\ Where(q) = "data" /\ q.data = p.data /\ LastRole(d) # "first"
        /\ After(q, u).data = f

ClientOf(d, o, u, f) ==
    IF Awaits(u) THEN Between(d, u, f) ELSE Outside(d, o, u, f)

LEMMA AtRestIs == AtRest \in Parser /\ Where(AtRest) = "data" /\ AtRest.data = <<>>
<1>1. <<>> \in Seq(Bytes) /\ <<>> \in Seq(Events) /\ <<>> \in Seq(Byte)
      /\ Len(<<>>) = 0
  OBVIOUS
<1>2. AtRest \in States /\ Len(AtRest.cmd) = 0 /\ Len(AtRest.out) = 0
      /\ AtRest.iac = FALSE /\ AtRest.data = <<>>
  BY <1>1 DEF AtRest, States, Outgoing, Byte
<1>3. AtRest \in Parser
  BY <1>2, TelnetSizesAssumption DEF Parser, Tidy
<1> QED BY <1>2, <1>3, WhereIs

\* The role of the last byte, when more is written.
LEMMA LastRoleOf ==
    ASSUME NEW d \in Seq(Byte), NEW e \in Seq(Byte)
    PROVE  LastRole(d \o e) = IF Len(e) > 0 THEN e[Len(e)].role ELSE LastRole(d)
<1> DEFINE w == d \o e
<1>1. /\ w \in Seq(Byte) /\ Len(w) = Len(d) + Len(e)
      /\ \A i \in 1 .. Len(d) + Len(e) :
            w[i] = IF i <= Len(d) THEN d[i] ELSE e[i - Len(d)]
  BY ConcatProperties
<1>2. Len(d) \in Nat /\ Len(e) \in Nat
  OBVIOUS
<1> HIDE DEF w
<1>3. CASE Len(e) > 0
  <2>1. Len(w) \in 1 .. Len(d) + Len(e) /\ ~ (Len(w) <= Len(d))
        /\ Len(w) - Len(d) = Len(e) /\ Len(w) > 0
    BY <1>1, <1>2, <1>3
  <2>2. w[Len(w)] = e[Len(e)]
    BY <1>1, <2>1
  <2> QED BY <1>3, <2>1, <2>2 DEF LastRole, w
<1>4. CASE ~ (Len(e) > 0)
  <2>1. Len(w) = Len(d)
    BY <1>1, <1>2, <1>4
  <2>2. Len(d) > 0 => w[Len(w)] = d[Len(d)]
    <3>1. Len(d) > 0 => Len(d) \in 1 .. Len(d) + Len(e)
      BY <1>2
    <3> QED BY <1>1, <1>2, <2>1, <3>1
  <2> QED BY <1>4, <2>1, <2>2 DEF LastRole, w
<1> QED BY <1>3, <1>4

\* Answers are queued.
LEMMA ClientAnswered ==
    ASSUME NEW d \in Seq(Byte), NEW o \in Seq(Byte), NEW u \in Seq(Byte), NEW f,
           ClientOf(d, o, u, f), NEW n, Neutral(n)
    PROVE  ClientOf(d, o \o n, u, f)
<1>1. CASE Awaits(u)
  BY <1>1 DEF ClientOf
<1>2. CASE ~ Awaits(u)
  <2> DEFINE p == After(AtRest, d)
             q == After(p, o)
             r == After(p, o \o n)
  <2>1. p \in Parser /\ q \in Parser
    BY AtRestIs, AfterType
  <2>2. Where(q) = "data" /\ q.data = p.data /\ LastRole(d) # "first"
        /\ After(q, u).data = f
    BY <1>2 DEF ClientOf, Outside
  <2>3. n \in Seq(Byte)
    BY DEF Neutral, Commands
  <2> HIDE DEF p
  <2>4. r = After(q, n)
    BY <2>1, <2>3, AfterConcat
  <2> HIDE DEF q, r
  <2>5. r \in Parser /\ Alike(r, q)
    BY <2>1, <2>2, <2>3, <2>4, AfterType DEF Neutral
  <2>6. Alike(After(r, u), After(q, u))
    BY <2>1, <2>5, AfterAlike
  <2>7. Where(r) = "data" /\ r.data = p.data /\ After(r, u).data = f
    BY <2>2, <2>5, <2>6 DEF Alike
  <2> QED BY <1>2, <2>2, <2>7 DEF ClientOf, Outside, p, r
<1> QED BY <1>1, <1>2

\* Commands are written, all that wait or a part of them.
LEMMA ClientCommanded ==
    ASSUME NEW d \in Seq(Byte), NEW o, Commands(o), NEW u \in Seq(Byte), NEW f,
           ~ Awaits(u), ClientOf(d, o, u, f), NEW c \in 0 .. Len(o)
    PROVE  ClientOf(d \o SubSeq(o, 1, c), SubSeq(o, c + 1, Len(o)), u, f)
<1> DEFINE a == SubSeq(o, 1, c)
           b == SubSeq(o, c + 1, Len(o))
           p == After(AtRest, d)
           q == After(p, o)
           r == After(p, a)
<1>0. o \in Seq(Byte) /\ \A i \in 1 .. Len(o) : o[i].role = "command"
  BY DEF Commands
<1>1. /\ a \in Seq(Byte) /\ b \in Seq(Byte) /\ a \o b = o /\ Len(a) = c
      /\ \A i \in 1 .. c : a[i] = o[i]
  BY <1>0, Cut
<1> HIDE DEF a, b
<1>2. AtRest \in Parser /\ p \in Parser
  BY AtRestIs, AfterType
<1>3. After(AtRest, d \o a) = r
  BY <1>1, <1>2, AfterConcat
<1>4. Where(q) = "data" /\ q.data = p.data /\ LastRole(d) # "first"
      /\ After(q, u).data = f
  BY DEF ClientOf, Outside
<1> HIDE DEF p
<1>5. q = After(r, b) /\ r \in Parser
  BY <1>1, <1>2, AfterConcat, AfterType
<1> HIDE DEF q, r
<1>6. r.data = p.data
  <2>1. PICK x \in Seq(Bytes) : r.data = p.data \o x
    BY <1>1, <1>2, AfterGrows DEF r
  <2>2. PICK y \in Seq(Bytes) : q.data = r.data \o y
    BY <1>1, <1>5, AfterGrows
  <2>3. p.data \in Seq(Bytes) /\ r.data \in Seq(Bytes)
    BY <1>2, <1>5 DEF Parser, States
  <2> DEFINE e == p.data
             g == r.data
  <2>4. e \in Seq(Bytes) /\ g \in Seq(Bytes) /\ g = e \o x /\ e = g \o y
    BY <1>4, <2>1, <2>2, <2>3
  <2> HIDE DEF e, g
  <2>5. Len(g) = Len(e) + Len(x) /\ Len(e) = Len(g) + Len(y)
    BY <2>4, ConcatProperties
  <2>6. Len(x) = 0
    <3>1. Len(e) \in Nat /\ Len(g) \in Nat /\ Len(x) \in Nat /\ Len(y) \in Nat
      BY <2>4
    <3> QED BY <2>5, <3>1
  <2>7. x = <<>>
    BY <2>6
  <2> QED BY <2>4, <2>7, ConcatEmptySeq DEF e, g
<1>7. LastRole(d \o a) # "first"
  <2>1. CASE c > 0
    <3>1. c \in 1 .. c /\ c \in 1 .. Len(o)
      BY <2>1
    <3>2. a[Len(a)].role = "command" /\ Len(a) > 0
      BY <1>0, <1>1, <2>1, <3>1
    <3> QED BY <1>1, <3>2, LastRoleOf
  <2>2. CASE c = 0
    BY <1>1, <1>4, <2>2, LastRoleOf
  <2> QED BY <2>1, <2>2
<1>8. Outside(d \o a, b, u, f)
  BY <1>3, <1>4, <1>5, <1>6, <1>7 DEF Outside
<1> QED BY <1>8 DEF ClientOf, a, b

\* Data is written, when no command waits.
LEMMA ClientWritten ==
    ASSUME NEW d \in Seq(Byte), NEW u \in Seq(Byte), Doubled(u), NEW f,
           ClientOf(d, <<>>, u, f), NEW n \in 0 .. Len(u)
    PROVE  ClientOf(d \o SubSeq(u, 1, n), <<>>, SubSeq(u, n + 1, Len(u)), f)
<1> DEFINE a == SubSeq(u, 1, n)
           b == SubSeq(u, n + 1, Len(u))
           p == After(AtRest, d)
           r == After(p, a)
<1>1. p \in Parser /\ AtRest \in Parser
  BY AtRestIs, AfterType
<1>2. /\ a \in Seq(Byte) /\ b \in Seq(Byte) /\ Len(a) = n
      /\ \A i \in 1 .. n : a[i] = u[i]
  BY Cut
<1>3. n > 0 => (u[n].role = "first" <=> Awaits(b))
  BY DoubledCut
<1>4. /\ Where(p) = IF Awaits(u) THEN "iac" ELSE "data"
      /\ After(p, u).data = f
      /\ Awaits(u) <=> LastRole(d) = "first"
  <2>1. After(p, <<>>) = p
    BY <1>1, AfterNothing
  <2> HIDE DEF p
  <2> QED BY <2>1 DEF ClientOf, Between, Outside, p
<1> HIDE DEF p
<1>5. /\ Where(r) = IF Awaits(b) THEN "iac" ELSE "data"
      /\ After(p, u) = After(r, b)
  BY <1>1, <1>4, ReadPart
<1>6. (b = u /\ a = <<>>) \/ n > 0
  <2>1. CASE n = 0
    <3>1. a = <<>>
      BY <1>2, <2>1
    <3>2. b = u
      BY <2>1, SubSeqFull
    <3> QED BY <3>1, <3>2
  <2> QED BY <2>1
<1> HIDE DEF a, b
<1>7. After(AtRest, d \o a) = r /\ r \in Parser
  BY <1>1, <1>2, AfterConcat, AfterType DEF p
<1>8. Awaits(b) <=> LastRole(d \o a) = "first"
  <2>1. CASE n > 0
    <3>1. n \in 1 .. n
      BY <2>1
    <3>2. a[Len(a)] = u[n] /\ Len(a) > 0
      BY <1>2, <2>1, <3>1
    <3> QED BY <1>2, <1>3, <2>1, <3>2, LastRoleOf
  <2>2. CASE ~ (n > 0)
    <3>1. b = u /\ Len(a) = 0
      BY <1>2, <1>6, <2>2
    <3> QED BY <1>2, <1>4, <3>1, LastRoleOf
  <2> QED BY <2>1, <2>2
<1> HIDE DEF r
<1>9. After(r, <<>>) = r
  BY <1>7, AfterNothing
<1>10. ClientOf(d \o a, <<>>, b, f)
  BY <1>4, <1>5, <1>7, <1>8, <1>9 DEF ClientOf, Between, Outside
<1> QED BY <1>10 DEF a, b

\* The device is read, when nothing waits.
LEMMA ClientFed ==
    ASSUME NEW d \in Seq(Byte), NEW f \in Seq(Bytes), ClientOf(d, <<>>, <<>>, f),
           NEW r \in Seq(Bytes)
    PROVE  ClientOf(d, <<>>, DataBytes(r), f \o r)
<1> DEFINE p == After(AtRest, d)
           o == DataBytes(r)
<1>1. p \in Parser
  BY AtRestIs, AfterType
<1>2. ~ Awaits(<<>>)
  BY DEF Awaits
<1>3. After(p, <<>>) = p
  BY <1>1, AfterNothing
<1>4. Where(p) = "data" /\ p.data = f /\ LastRole(d) # "first"
  <2> HIDE DEF p
  <2> QED BY <1>2, <1>3 DEF ClientOf, Outside, p
<1>5. ~ Awaits(o) /\ After(p, o).data = p.data \o r
  <2> HIDE DEF p
  <2> QED BY <1>1, <1>4, DataBytesAre
<1> HIDE DEF p, o
<1> QED BY <1>3, <1>4, <1>5 DEF ClientOf, Outside, p, o

-----------------------------------------------------------------------------
(* The types.                                                              *)

\* The parser between two reads.
Start(c, f, o) == [AtRest EXCEPT !.cmd = c, !.iac = f, !.out = o]
Now == Start(telnet_cmd, suboption_iac, out_telnet_cmd)

\* What the variables of the parser satisfy then.
Collected(c, f, o) ==
    /\ c \in Seq(Bytes) /\ f \in BOOLEAN /\ o \in Outgoing
    /\ Len(c) <= MaxCmd + 1 /\ Len(o) <= MaxXmit
    /\ f => Len(c) > 3
    /\ Len(c) = 2 => c[2] \in {"SB", "WILL"}
    /\ Len(c) > 2 => c[2] = "SB"

\* TypeOK alone is not inductive: that telnet_cmd stays within its array is due
\* to the shape of what is in it.
TInv == TypeOK /\ Now \in Parser

LEMMA EncodeType ==
    ASSUME NEW m \in Messages PROVE Encode(m) \in Seq(Bytes)
<1> DEFINE w == m.what
           d == DoubleIACs(w)
<1>1. w \in Seq(Bytes)
  BY MessagesAssumption
<1>2. d \in Seq(Bytes)
  BY <1>1, DoubledType
<1>3. /\ <<"IAC", "SB">> \in Seq(Bytes) /\ <<"IAC", "SE">> \in Seq(Bytes)
      /\ <<"IAC", "a", "IAC", "SE">> \in Seq(Bytes) /\ <<"IAC">> \in Seq(Bytes)
  <2>1. "IAC" \in Bytes /\ "SB" \in Bytes /\ "SE" \in Bytes /\ "a" \in Bytes
    BY DEF Bytes
  <2> QED BY <2>1
<1>4. /\ <<"IAC", "SB">> \o d \o <<"IAC", "SE">> \in Seq(Bytes)
      /\ <<"IAC", "SB">> \o d \o <<"IAC", "a", "IAC", "SE">> \in Seq(Bytes)
      /\ <<"IAC">> \o w \in Seq(Bytes)
  <2> HIDE DEF d, w
  <2>1. <<"IAC", "SB">> \o d \in Seq(Bytes) /\ <<"IAC">> \o w \in Seq(Bytes)
    BY <1>1, <1>2, <1>3, ConcatProperties
  <2> QED BY <1>3, <2>1, ConcatProperties
<1> HIDE DEF d
<1>5. Encode(m) \in {d, <<"IAC", "SB">> \o d \o <<"IAC", "SE">>,
                     <<"IAC", "SB">> \o d \o <<"IAC", "a", "IAC", "SE">>,
                     <<"IAC">> \o w}
  BY DEF Encode, d
<1> QED BY <1>2, <1>4, <1>5

\* What a state of the parser says of the variables it is made of.
LEMMA NowIs ==
    ASSUME NEW c, NEW f, NEW o
    PROVE  LET s == Start(c, f, o)
           IN  /\ s.cmd = c /\ s.iac = f /\ s.out = o
               /\ s.data = <<>> /\ s.events = <<>> /\ s.error = FALSE
               /\ s \in Parser <=> Collected(c, f, o)
<1> DEFINE s == Start(c, f, o)
<1>1. /\ s.cmd = c /\ s.iac = f /\ s.out = o
      /\ s.data = <<>> /\ s.events = <<>> /\ s.error = FALSE
  BY DEF AtRest, Start
<1>2. s \in States <=> c \in Seq(Bytes) /\ f \in BOOLEAN /\ o \in Outgoing
  <2>1. ASSUME s \in States PROVE c \in Seq(Bytes) /\ f \in BOOLEAN /\ o \in Outgoing
    <3>1. s.cmd \in Seq(Bytes) /\ s.iac \in BOOLEAN /\ s.out \in Outgoing
      <4> HIDE DEF s
      <4> QED BY <2>1 DEF States
    <3> QED BY <1>1, <3>1
  <2>2. ASSUME c \in Seq(Bytes), f \in BOOLEAN, o \in Outgoing PROVE s \in States
    <3>1. AtRest \in States
      BY AtRestIs DEF Parser
    <3> QED BY <2>2, <3>1 DEF States, Start
  <2> QED BY <2>1, <2>2
<1> HIDE DEF s
<1>3. s \in Parser <=> Collected(c, f, o)
  BY <1>1, <1>2 DEF Parser, Tidy, Collected
<1> QED BY <1>1, <1>3 DEF s

\* The same of the variables.
LEMMA NowParser ==
    /\ Now.out = out_telnet_cmd
    /\ Now \in Parser <=> Collected(telnet_cmd, suboption_iac, out_telnet_cmd)
<1>1. Now.out = out_telnet_cmd
  BY DEF Now, Start, AtRest
<1>2. Now \in Parser => Collected(telnet_cmd, suboption_iac, out_telnet_cmd)
  BY NowIs DEF Now
<1>3. Collected(telnet_cmd, suboption_iac, out_telnet_cmd) => Now \in Parser
  BY NowIs DEF Now
<1> QED BY <1>1, <1>2, <1>3

\* Of what a read leaves, the next starts with these.
LEMMA Again ==
    ASSUME NEW s \in Parser PROVE Start(s.cmd, s.iac, s.out) \in Parser
<1>1. Collected(s.cmd, s.iac, s.out)
  BY DEF Parser, States, Tidy, Collected
<1> QED BY <1>1, NowIs

LEMMA TInvInit == ASSUME Init PROVE TInv
<1>1. telnet_init_seq \in Seq(Bytes) /\ Len(telnet_init_seq) = 3
  <2>1. "IAC" \in Bytes /\ "WILL" \in Bytes /\ "a" \in Bytes
    BY DEF Bytes
  <2> QED BY <2>1 DEF telnet_init_seq
<1>2. out_telnet_cmd \in Outgoing /\ Len(out_telnet_cmd) = 3
  BY <1>1, CommandBytesType DEF Init
<1>3. /\ <<>> \in Seq(Bytes) /\ <<>> \in Outgoing /\ Len(<<>>) = 0
  BY DEF Outgoing
<1>4. 3 <= MaxXmit /\ 0 <= MaxCmd + 1 /\ 0 <= BufSize
  BY TelnetSizesAssumption
<1>5. TypeOK
  BY <1>2, <1>3, <1>4 DEF TypeOK, Init
<1>6. Now \in Parser
  <2>1. telnet_cmd = <<>> /\ suboption_iac = FALSE
    BY DEF Init
  <2>2. FALSE \in BOOLEAN
    OBVIOUS
  <2>3. Collected(<<>>, FALSE, out_telnet_cmd)
    BY <1>2, <1>3, <1>4, <2>2 DEF Collected
  <2> QED BY <2>1, <2>3, NowParser
<1> QED BY <1>5, <1>6 DEF TInv

LEMMA TInvSends ==
    ASSUME TInv, NEW m \in Messages, ClientSends(m) PROVE TInv'
<1>1. up' \in Seq(Bytes)
  BY EncodeType, ConcatProperties DEF TInv, TypeOK, ClientSends
<1> QED BY <1>1 DEF TInv, TypeOK, ClientSends, Now

\* What a read does, in terms of the parser.
LEMMA ReadIs ==
    ASSUME TInv, NEW n \in 1 .. BufSize, handle_tcp_fd_read(n)
    PROVE  \E w \in Seq(Bytes) :
             LET s == process_telnet_data(Now, w)
             IN  /\ s \in Parser
                 /\ telnet_cmd' = s.cmd /\ suboption_iac' = s.iac
                 /\ out_telnet_cmd' = s.out
                 /\ over' \in BOOLEAN /\ crashed' \in BOOLEAN
                 /\ up' \in Seq(Bytes)
<1> DEFINE w == SubSeq(up, 1, n)
           s == process_telnet_data(Now, w)
<1>1. n \in 0 .. Len(up) /\ up \in Seq(Bytes)
  BY DEF handle_tcp_fd_read, TInv, TypeOK
<1>2. w \in Seq(Bytes) /\ SubSeq(up, n + 1, Len(up)) \in Seq(Bytes)
  BY <1>1, Cut
<1>3. /\ telnet_cmd' = s.cmd /\ suboption_iac' = s.iac
      /\ out_telnet_cmd' = s.out
      /\ over' \in BOOLEAN /\ crashed' \in BOOLEAN
      /\ up' = SubSeq(up, n + 1, Len(up))
  BY DEF handle_tcp_fd_read, Now, Start
<1> HIDE DEF w
<1>4. s \in Parser
  BY <1>2, ProcessType DEF TInv
<1> QED BY <1>2, <1>3, <1>4

LEMMA TInvReads ==
    ASSUME TInv, NEW n \in 1 .. BufSize, handle_tcp_fd_read(n) PROVE TInv'
<1>1. PICK s \in Parser :
        /\ telnet_cmd' = s.cmd /\ suboption_iac' = s.iac
        /\ out_telnet_cmd' = s.out /\ up' \in Seq(Bytes)
        /\ over' \in BOOLEAN /\ crashed' \in BOOLEAN
  BY ReadIs
<1>2. /\ s.cmd \in Seq(Bytes) /\ Len(s.cmd) <= MaxCmd + 1
      /\ s.out \in Outgoing /\ Len(s.out) <= MaxXmit
      /\ s.iac \in BOOLEAN
  BY DEF Parser, States, Tidy
<1>3. UNCHANGED <<sent, fromDev, dev_to_tcp, down>>
  BY DEF handle_tcp_fd_read
<1>4. TypeOK'
  BY <1>1, <1>2, <1>3 DEF TInv, TypeOK
<1>5. Now' \in Parser
  BY <1>1, Again DEF Now
<1> QED BY <1>4, <1>5 DEF TInv

\* What is read from the device.
LEMMA ReadFromDev ==
    ASSUME NEW r \in UNION {[1 .. n -> DevBytes] : n \in 1 .. BufSize \div 2}
    PROVE  r \in Seq(Bytes) /\ Len(r) <= BufSize \div 2
<1>1. PICK n \in 1 .. BufSize \div 2 : r \in [1 .. n -> DevBytes]
  OBVIOUS
<1>2. n \in Nat /\ r \in [1 .. n -> Bytes] /\ n <= BufSize \div 2
  BY <1>1, DevBytesAssumption, TelnetSizesAssumption
<1> QED BY <1>2, ListType

LEMMA TInvDev ==
    ASSUME TInv, NEW r \in Seq(Bytes), Len(r) <= BufSize \div 2,
           handle_dev_fd_read(r)
    PROVE  TInv'
<1> DEFINE o == DataBytes(r)
<1>1. o \in Seq(Byte) /\ Len(o) <= 2 * Len(r) /\ Len(o) \in Nat
  <2>1. o \in Seq(Byte) /\ Len(o) <= 2 * Len(r)
    BY DataBytesAre
  <2> QED BY <2>1
<1>2. Len(o) <= BufSize
  <2>1. Len(r) \in Nat /\ BufSize \in Nat
    BY TelnetSizesAssumption
  <2> QED BY <1>1, <2>1
<1>3. PICK w \in 0 .. Len(o) :
        /\ down' = down \o SubSeq(o, 1, w)
        /\ dev_to_tcp' = SubSeq(o, w + 1, Len(o))
  BY DEF handle_dev_fd_read
<1>4. fromDev' = fromDev \o r
      /\ UNCHANGED <<sent, up, telnet_cmd, suboption_iac, got, out_telnet_cmd,
                     over, crashed>>
  BY DEF handle_dev_fd_read
<1> HIDE DEF o
<1>5. SubSeq(o, 1, w) \in Seq(Byte) /\ SubSeq(o, w + 1, Len(o)) \in Seq(Byte)
      /\ Len(SubSeq(o, w + 1, Len(o))) = Len(o) - w
  BY <1>1, Cut
<1>6. down' \in Outgoing /\ dev_to_tcp' \in Outgoing /\ Len(dev_to_tcp') <= BufSize
  <2>1. down \in Seq(Byte)
    BY DEF TInv, TypeOK, Outgoing, Byte
  <2>2. down' \in Seq(Byte)
    BY <1>3, <1>5, <2>1, ConcatProperties
  <2>3. BufSize \in Nat
    BY TelnetSizesAssumption
  <2>4. Len(dev_to_tcp') <= BufSize
    BY <1>1, <1>2, <1>3, <1>5, <2>3
  <2> QED BY <1>3, <1>5, <2>2, <2>4 DEF Outgoing, Byte
<1>7. fromDev' \in Seq(Bytes)
  BY <1>4, ConcatProperties DEF TInv, TypeOK
<1> QED BY <1>4, <1>6, <1>7 DEF TInv, TypeOK, Now

LEMMA TInvWrites ==
    ASSUME TInv, NEW c \in 0 .. MaxXmit, NEW d \in 0 .. BufSize,
           handle_tcp_fd_write(c, d)
    PROVE  TInv'
<1>1. /\ out_telnet_cmd \in Seq(Byte) /\ dev_to_tcp \in Seq(Byte)
      /\ down \in Seq(Byte)
  BY DEF TInv, TypeOK, Outgoing, Byte
<1>2. c \in 0 .. Len(out_telnet_cmd) /\ d \in 0 .. Len(dev_to_tcp)
  <2>1. Len(out_telnet_cmd) \in Nat /\ Len(dev_to_tcp) \in Nat
    BY <1>1
  <2> QED BY <2>1 DEF handle_tcp_fd_write, Writes
<1> DEFINE a == SubSeq(out_telnet_cmd, 1, c)
           b == SubSeq(out_telnet_cmd, c + 1, Len(out_telnet_cmd))
           e == SubSeq(dev_to_tcp, 1, d)
           g == SubSeq(dev_to_tcp, d + 1, Len(dev_to_tcp))
<1>3. a \in Seq(Byte) /\ b \in Seq(Byte) /\ Len(b) = Len(out_telnet_cmd) - c
  BY <1>1, <1>2, Cut
<1>4. e \in Seq(Byte) /\ g \in Seq(Byte) /\ Len(g) = Len(dev_to_tcp) - d
  BY <1>1, <1>2, Cut
<1>5. /\ down' = down \o a \o e /\ out_telnet_cmd' = b /\ dev_to_tcp' = g
      /\ UNCHANGED <<sent, up, telnet_cmd, suboption_iac, got, fromDev, over,
                     crashed>>
  BY DEF handle_tcp_fd_write
<1> HIDE DEF a, b, e, g
<1>6. down' \in Seq(Byte)
  <2>1. down \o a \in Seq(Byte)
    BY <1>1, <1>3, ConcatProperties
  <2> QED BY <1>4, <1>5, <2>1, ConcatProperties
<1>7. Len(out_telnet_cmd') <= MaxXmit /\ Len(dev_to_tcp') <= BufSize
  <2>1. Len(out_telnet_cmd) <= MaxXmit /\ Len(dev_to_tcp) <= BufSize
    BY DEF TInv, TypeOK
  <2>2. Len(out_telnet_cmd) \in Nat /\ Len(dev_to_tcp) \in Nat
        /\ MaxXmit \in Nat /\ BufSize \in Nat
    BY <1>1, TelnetSizesAssumption
  <2> QED BY <1>3, <1>4, <1>5, <2>1, <2>2
<1>8. TypeOK'
  BY <1>3, <1>4, <1>5, <1>6, <1>7 DEF TInv, TypeOK, Outgoing, Byte
<1>9. Now' \in Parser
  <2>1. Collected(telnet_cmd, suboption_iac, out_telnet_cmd)
    BY NowParser DEF TInv
  <2>2. out_telnet_cmd' \in Outgoing /\ telnet_cmd' = telnet_cmd
        /\ suboption_iac' = suboption_iac
    BY <1>5, <1>8 DEF TypeOK
  <2>3. Collected(telnet_cmd, suboption_iac, out_telnet_cmd')
    BY <1>7, <2>1, <2>2 DEF Collected
  <2>4. Now' = Start(telnet_cmd, suboption_iac, out_telnet_cmd')
    BY <2>2 DEF Now
  <2> QED BY <2>3, <2>4, NowIs
<1> QED BY <1>8, <1>9 DEF TInv

LEMMA TInvStutters == ASSUME TInv, UNCHANGED vars PROVE TInv'
BY DEF TInv, TypeOK, Now, vars

LEMMA TInvStep == ASSUME TInv, [Next]_vars PROVE TInv'
<1>1. ASSUME NEW m \in Messages, ClientSends(m) PROVE TInv'
  BY <1>1, TInvSends
<1>2. ASSUME NEW n \in 1 .. BufSize, handle_tcp_fd_read(n) PROVE TInv'
  BY <1>2, TInvReads
<1>3. ASSUME NEW r \in UNION {[1 .. n -> DevBytes] : n \in 1 .. BufSize \div 2},
             handle_dev_fd_read(r)
      PROVE  TInv'
  BY <1>3, ReadFromDev, TInvDev
<1>4. ASSUME NEW c \in 0 .. MaxXmit, NEW d \in 0 .. BufSize,
             handle_tcp_fd_write(c, d)
      PROVE  TInv'
  BY <1>4, TInvWrites
<1>5. CASE UNCHANGED vars
  BY <1>5, TInvStutters
<1> QED BY <1>1, <1>2, <1>3, <1>4, <1>5 DEF Next

\* The variables have their types whatever is sent: an option of any length
\* fits telnet_cmd, the answers fit out_telnet_cmd and the doubled data of the
\* device fits dev_to_tcp.
THEOREM TypeCorrect == Spec => []TypeOK
<1>1. Init => TInv
  BY TInvInit
<1>2. TInv /\ [Next]_vars => TInv'
  BY TInvStep
<1>3. TInv => TypeOK
  BY DEF TInv
<1> QED BY <1>1, <1>2, <1>3, PTL DEF Spec

-----------------------------------------------------------------------------
(* What the client reads.                                                  *)

SplitIn(d) == \E i \in 1 .. Len(d) :
                d[i].role = "first" /\ i < Len(d) /\ d[i + 1].role # "second"

LEMMA SplitIs == ASSUME down \in Seq(Byte) PROVE Split <=> SplitIn(down)
<1>1. DOMAIN down = 1 .. Len(down)
  OBVIOUS
<1> QED BY <1>1 DEF Split, SplitIn

\* What was split stays so.
LEMMA SplitStays ==
    ASSUME NEW d \in Seq(Byte), NEW e \in Seq(Byte), SplitIn(d)
    PROVE  SplitIn(d \o e)
<1> DEFINE w == d \o e
<1>1. /\ Len(w) = Len(d) + Len(e) /\ Len(d) \in Nat /\ Len(e) \in Nat
      /\ \A i \in 1 .. Len(d) + Len(e) :
            w[i] = IF i <= Len(d) THEN d[i] ELSE e[i - Len(d)]
  BY ConcatProperties
<1> HIDE DEF w
<1>2. PICK i \in 1 .. Len(d) :
        d[i].role = "first" /\ i < Len(d) /\ d[i + 1].role # "second"
  BY DEF SplitIn
<1>3. i \in 1 .. Len(w) /\ i < Len(w) /\ w[i] = d[i] /\ w[i + 1] = d[i + 1]
  <2>1. i + 1 \in 1 .. Len(d) + Len(e) /\ i \in 1 .. Len(d) + Len(e)
        /\ i + 1 <= Len(d) /\ i <= Len(d)
    BY <1>1, <1>2
  <2> QED BY <1>1, <2>1
<1> QED BY <1>2, <1>3 DEF SplitIn, w

\* After the first of two IACs anything but the second splits them.
LEMMA SplitMade ==
    ASSUME NEW d \in Seq(Byte), NEW e \in Seq(Byte), LastRole(d) = "first",
           Len(e) > 0, e[1].role # "second"
    PROVE  SplitIn(d \o e)
<1> DEFINE w == d \o e
           n == Len(d)
<1>1. /\ Len(w) = n + Len(e) /\ n \in Nat /\ Len(e) \in Nat
      /\ \A i \in 1 .. n + Len(e) : w[i] = IF i <= n THEN d[i] ELSE e[i - n]
  BY ConcatProperties
<1>2. n > 0 /\ d[n].role = "first"
  BY DEF LastRole
<1> HIDE DEF w, n
<1>3. n \in 1 .. Len(w) /\ n < Len(w) /\ w[n] = d[n] /\ w[n + 1] = e[1]
  <2> DEFINE k == Len(e)
  <2>0. n \in Nat /\ n > 0 /\ k \in Nat /\ k > 0
    BY <1>1, <1>2
  <2> HIDE DEF k
  <2>1. n \in 1 .. n + k /\ n + 1 \in 1 .. n + k
        /\ ~ (n + 1 <= n) /\ (n + 1) - n = 1 /\ n <= n
    BY <2>0
  <2> USE DEF k
  <2> QED BY <1>1, <2>1
<1> QED BY <1>2, <1>3 DEF SplitIn, w

\* The inductive invariant: what waits is what the client lacks.
ClientInv ==
    /\ TInv /\ Doubled(dev_to_tcp) /\ Commands(out_telnet_cmd)
    /\ ~ Split => ClientOf(down, out_telnet_cmd, dev_to_tcp, fromDev)

LEMMA ClientTypes ==
    ASSUME TInv
    PROVE  /\ down \in Seq(Byte) /\ dev_to_tcp \in Seq(Byte)
           /\ out_telnet_cmd \in Seq(Byte) /\ fromDev \in Seq(Bytes)
           /\ Split <=> SplitIn(down)
<1>1. down \in Seq(Byte) /\ dev_to_tcp \in Seq(Byte)
      /\ out_telnet_cmd \in Seq(Byte) /\ fromDev \in Seq(Bytes)
  BY DEF TInv, TypeOK, Outgoing, Byte
<1> QED BY <1>1, SplitIs

LEMMA ClientInit == ASSUME Init PROVE ClientInv
<1>1. TInv
  BY TInvInit
<1>2. Doubled(dev_to_tcp) /\ ~ Awaits(dev_to_tcp)
  <2>1. dev_to_tcp = <<>> /\ Len(<<>>) = 0
    BY DEF Init
  <2> QED BY <2>1 DEF Doubled, Awaits
<1>3. Neutral(out_telnet_cmd)
  BY NeutralInit DEF Init
<1>4. ClientOf(down, out_telnet_cmd, dev_to_tcp, fromDev)
  <2> DEFINE q == After(AtRest, out_telnet_cmd)
  <2>1. down = <<>> /\ dev_to_tcp = <<>> /\ fromDev = <<>>
    BY DEF Init
  <2>2. After(AtRest, down) = AtRest
    BY <2>1, AtRestIs, AfterNothing
  <2>3. q \in Parser
    BY <1>3, AtRestIs, AfterType DEF Neutral, Commands
  <2>4. Where(q) = "data" /\ q.data = AtRest.data
    BY <1>3, AtRestIs DEF Neutral, Alike
  <2> HIDE DEF q
  <2>5. After(q, dev_to_tcp) = q
    BY <2>1, <2>3, AfterNothing
  <2>6. LastRole(down) # "first"
    <3>1. ~ (Len(down) > 0)
      BY <2>1
    <3> QED BY <3>1 DEF LastRole
  <2>7. q.data = fromDev
    BY <2>1, <2>4, AtRestIs
  <2> QED BY <1>2, <2>2, <2>4, <2>5, <2>6, <2>7 DEF ClientOf, Outside, q
<1> QED BY <1>1, <1>2, <1>3, <1>4 DEF ClientInv, Neutral

LEMMA ClientSame ==
    ASSUME ClientInv, TInv',
           UNCHANGED <<fromDev, dev_to_tcp, out_telnet_cmd, down>>
    PROVE  ClientInv'
<1>1. Split' = Split
  BY DEF Split
<1> QED BY <1>1 DEF ClientInv

LEMMA ClientReadsStep ==
    ASSUME ClientInv, TInv', NEW n \in 1 .. BufSize, handle_tcp_fd_read(n)
    PROVE  ClientInv'
<1>1. PICK w \in Seq(Bytes) : out_telnet_cmd' = process_telnet_data(Now, w).out
  BY ReadIs DEF ClientInv
<1>2. Now \in Parser /\ Now.out = out_telnet_cmd
  BY NowParser DEF ClientInv, TInv
<1>3. PICK o : Neutral(o) /\ out_telnet_cmd' = out_telnet_cmd \o o
  BY <1>1, <1>2, ProcessAnswers
<1>4. UNCHANGED <<fromDev, dev_to_tcp, down>>
  BY DEF handle_tcp_fd_read
<1>5. Commands(out_telnet_cmd')
  BY <1>3, CommandsConcat DEF ClientInv, Neutral
<1>6. Split' = Split
  BY <1>4 DEF Split
<1>7. ASSUME ~ Split
      PROVE  ClientOf(down, out_telnet_cmd \o o, dev_to_tcp, fromDev)
  BY <1>3, <1>7, ClientTypes, ClientAnswered DEF ClientInv
<1> QED BY <1>3, <1>4, <1>5, <1>6, <1>7 DEF ClientInv

LEMMA ClientDevStep ==
    ASSUME ClientInv, TInv', NEW r \in Seq(Bytes), handle_dev_fd_read(r)
    PROVE  ClientInv'
<1> DEFINE o == DataBytes(r)
<1>1. o \in Seq(Byte) /\ Doubled(o)
  BY DataBytesAre
<1>2. PICK w \in 0 .. Len(o) :
        /\ down' = down \o SubSeq(o, 1, w)
        /\ dev_to_tcp' = SubSeq(o, w + 1, Len(o))
  BY DEF handle_dev_fd_read
<1>3. /\ fromDev' = fromDev \o r /\ UNCHANGED out_telnet_cmd
      /\ out_telnet_cmd = <<>> /\ dev_to_tcp = <<>>
  BY DEF handle_dev_fd_read
<1>4. TInv /\ (~ Split => ClientOf(down, <<>>, <<>>, fromDev))
  BY <1>3 DEF ClientInv
<1>5. /\ down \in Seq(Byte) /\ fromDev \in Seq(Bytes)
      /\ Split <=> SplitIn(down)
  BY <1>4, ClientTypes
<1>6. Split' <=> SplitIn(down')
  <2>1. down' \in Seq(Byte)
    BY DEF TInv, TypeOK, Outgoing, Byte
  <2>2. DOMAIN down' = 1 .. Len(down')
    BY <2>1
  <2> QED BY <2>2 DEF Split, SplitIn
<1>7. ClientOf(down, <<>>, <<>>, fromDev) => ClientOf(down, <<>>, o, fromDev \o r)
  BY <1>5, ClientFed
<1> HIDE DEF o
<1>8. SubSeq(o, 1, w) \in Seq(Byte) /\ Doubled(SubSeq(o, w + 1, Len(o)))
  BY <1>1, Cut, DoubledCut
<1>9. ASSUME ~ Split'
      PROVE  ClientOf(down', <<>>, dev_to_tcp', fromDev \o r)
  <2>1. ~ Split
    BY <1>2, <1>5, <1>6, <1>8, <1>9, SplitStays
  <2>2. ClientOf(down, <<>>, o, fromDev \o r)
    BY <1>4, <1>7, <2>1
  <2> QED BY <1>1, <1>2, <1>5, <2>2, ClientWritten
<1> QED BY <1>2, <1>3, <1>8, <1>9 DEF ClientInv

LEMMA ClientWritesStep ==
    ASSUME ClientInv, TInv', NEW c \in 0 .. MaxXmit, NEW d \in 0 .. BufSize,
           handle_tcp_fd_write(c, d)
    PROVE  ClientInv'
<1> DEFINE o == out_telnet_cmd
           u == dev_to_tcp
           a == SubSeq(o, 1, c)
           b == SubSeq(o, c + 1, Len(o))
           e == SubSeq(u, 1, d)
           g == SubSeq(u, d + 1, Len(u))
<1>1. /\ o \in Seq(Byte) /\ u \in Seq(Byte) /\ down \in Seq(Byte)
      /\ Split <=> SplitIn(down)
      /\ Doubled(u) /\ Commands(o) /\ (~ Split => ClientOf(down, o, u, fromDev))
  BY ClientTypes DEF ClientInv
<1>2. /\ c \in 0 .. Len(o) /\ d \in 0 .. Len(u)
      /\ (d = 0 \/ c = Len(o))
  <2>1. Len(o) \in Nat /\ Len(u) \in Nat
    BY <1>1
  <2> QED BY <2>1 DEF handle_tcp_fd_write, Writes
<1>3. /\ down' = (down \o a) \o e /\ out_telnet_cmd' = b /\ dev_to_tcp' = g
      /\ fromDev' = fromDev
  BY DEF handle_tcp_fd_write
<1>4. Split' <=> SplitIn(down')
  <2>1. down' \in Seq(Byte)
    BY DEF TInv, TypeOK, Outgoing, Byte
  <2>2. DOMAIN down' = 1 .. Len(down')
    BY <2>1
  <2> QED BY <2>2 DEF Split, SplitIn
<1> HIDE DEF o, u
<1>5. /\ a \in Seq(Byte) /\ b \in Seq(Byte) /\ Len(a) = c /\ Len(b) = Len(o) - c
      /\ \A i \in 1 .. c : a[i] = o[i]
      /\ \A i \in 1 .. Len(o) - c : b[i] = o[c + i]
  BY <1>1, <1>2, Cut
<1>6. e \in Seq(Byte) /\ g \in Seq(Byte) /\ Doubled(g)
  BY <1>1, <1>2, Cut, DoubledCut
<1>7. Commands(b)
  <2>1. ASSUME NEW i \in 1 .. Len(b) PROVE b[i].role = "command"
    <3>1. Len(o) \in Nat
      BY <1>1
    <3>2. i \in 1 .. Len(o) - c /\ c + i \in 1 .. Len(o)
      BY <1>2, <1>5, <3>1
    <3> QED BY <1>1, <1>5, <3>2 DEF Commands
  <2> QED BY <1>5, <2>1 DEF Commands
<1>8. ASSUME ~ SplitIn((down \o a) \o e)
      PROVE  ClientOf((down \o a) \o e, b, g, fromDev)
  <2>1. ~ SplitIn(down \o a) /\ ~ SplitIn(down)
    <3>1. down \o a \in Seq(Byte)
      BY <1>1, <1>5, ConcatProperties
    <3>2. ~ SplitIn(down \o a)
      BY <1>6, <1>8, <3>1, SplitStays
    <3> QED BY <1>1, <1>5, <3>2, SplitStays
  <2>2. ClientOf(down, o, u, fromDev)
    BY <1>1, <2>1
  \* No command is written between two IACs, else they are split.
  <2>3. ClientOf(down \o a, b, u, fromDev)
    <3>1. CASE ~ Awaits(u)
      BY <1>1, <1>2, <2>2, <3>1, ClientCommanded
    <3>2. CASE Awaits(u)
      <4>1. LastRole(down) = "first"
        BY <2>2, <3>2 DEF ClientOf, Between
      <4>2. c = 0
        <5>1. SUFFICES ASSUME c > 0 PROVE FALSE
          BY <1>2
        <5>2. 1 \in 1 .. c /\ 1 \in 1 .. Len(o)
          BY <1>2, <5>1
        <5>3. Len(a) > 0 /\ a[1].role = "command"
          BY <1>1, <1>5, <5>1, <5>2 DEF Commands
        <5> QED BY <1>1, <1>5, <2>1, <4>1, <5>3, SplitMade
      <4>3. a = <<>> /\ b = o
        BY <1>5, <4>2, SubSeqFull, <1>1
      <4>4. down \o a = down
        BY <1>1, <4>3, ConcatEmptySeq
      <4> QED BY <2>2, <4>3, <4>4
    <3> QED BY <3>1, <3>2
  <2>4. CASE d = 0
    <3>1. e = <<>> /\ g = u
      <4>1. Len(e) = 0 /\ e \in Seq(Byte)
        BY <1>1, <1>2, <2>4, Cut
      <4>2. e = <<>>
        <5> HIDE DEF e
        <5> QED BY <4>1
      <4>3. g = u
        BY <1>1, <2>4, SubSeqFull
      <4> QED BY <4>2, <4>3
    <3>2. (down \o a) \o e = down \o a
      <4>1. down \o a \in Seq(Byte)
        BY <1>1, <1>5, ConcatProperties
      <4> QED BY <3>1, <4>1, ConcatEmptySeq
    <3> QED BY <2>3, <3>1, <3>2
  <2>5. CASE c = Len(o)
    <3>1. b = <<>>
      <4>1. Len(b) = 0 /\ b \in Seq(Byte)
        <5>1. Len(o) \in Nat
          BY <1>1
        <5> QED BY <1>5, <2>5, <5>1
      <4> HIDE DEF b
      <4> QED BY <4>1
    <3>2. ClientOf(down \o a, <<>>, u, fromDev) /\ down \o a \in Seq(Byte)
      BY <1>1, <1>5, <2>3, <3>1, ConcatProperties
    <3> HIDE DEF a
    <3>3. ClientOf((down \o a) \o e, <<>>, g, fromDev)
      BY <1>1, <1>2, <3>2, ClientWritten
    <3> QED BY <3>1, <3>3
  <2> QED BY <1>2, <2>4, <2>5
<1> HIDE DEF a, b, e, g
<1> QED BY <1>3, <1>4, <1>6, <1>7, <1>8 DEF ClientInv

LEMMA ClientStep == ASSUME ClientInv, [Next]_vars PROVE ClientInv'
<1>0. TInv'
  BY TInvStep DEF ClientInv
<1>1. ASSUME NEW m \in Messages, ClientSends(m) PROVE ClientInv'
  BY <1>0, <1>1, ClientSame DEF ClientSends
<1>2. ASSUME NEW n \in 1 .. BufSize, handle_tcp_fd_read(n) PROVE ClientInv'
  BY <1>0, <1>2, ClientReadsStep
<1>3. ASSUME NEW r \in UNION {[1 .. n -> DevBytes] : n \in 1 .. BufSize \div 2},
             handle_dev_fd_read(r)
      PROVE  ClientInv'
  BY <1>0, <1>3, ReadFromDev, ClientDevStep
<1>4. ASSUME NEW c \in 0 .. MaxXmit, NEW d \in 0 .. BufSize,
             handle_tcp_fd_write(c, d)
      PROVE  ClientInv'
  BY <1>0, <1>4, ClientWritesStep
<1>5. CASE UNCHANGED vars
  BY <1>0, <1>5, ClientSame DEF vars
<1> QED BY <1>1, <1>2, <1>3, <1>4, <1>5 DEF Next

\* What the client has read is the beginning of what the device sent, and all
\* of it when nothing waits.
LEMMA ClientInvReads == ASSUME ClientInv PROVE ClientReads
<1> SUFFICES ASSUME ~ Split
             PROVE  IsPrefix(Reads, fromDev) /\ (dev_to_tcp = <<>> => Reads = fromDev)
  BY DEF ClientReads
<1> DEFINE p == After(AtRest, down)
           q == After(p, out_telnet_cmd)
           u == dev_to_tcp
<1>1. /\ down \in Seq(Byte) /\ u \in Seq(Byte) /\ out_telnet_cmd \in Seq(Byte)
      /\ fromDev \in Seq(Bytes)
  BY ClientTypes DEF ClientInv
<1>2. Reads = p.data
  BY DEF Reads, After, BytesOf
<1>3. ClientOf(down, out_telnet_cmd, u, fromDev)
  BY DEF ClientInv
<1>4. p \in Parser /\ q \in Parser
  BY <1>1, AtRestIs, AfterType
<1>5. \/ Awaits(u) /\ After(p, u).data = fromDev
      \/ ~ Awaits(u) /\ q.data = p.data /\ After(q, u).data = fromDev
  BY <1>3 DEF ClientOf, Between, Outside
<1> HIDE DEF p, q
<1>6. \E d \in Seq(Bytes) : fromDev = p.data \o d
  <2>1. CASE Awaits(u)
    BY <1>1, <1>4, <1>5, <2>1, AfterGrows
  <2>2. CASE ~ Awaits(u)
    BY <1>1, <1>4, <1>5, <2>2, AfterGrows
  <2> QED BY <2>1, <2>2
<1>7. p.data \in Seq(Bytes)
  BY <1>4 DEF Parser, States
<1>8. IsPrefix(p.data, fromDev)
  <2>1. PICK d \in Seq(Bytes) : fromDev = p.data \o d
    BY <1>6
  <2> DEFINE s == p.data
             t == s \o d
  <2>2. s \in Seq(Bytes)
    BY <1>7
  <2> HIDE DEF s
  <2>3. Len(t) = Len(s) + Len(d) /\ Len(s) \in Nat /\ Len(d) \in Nat
    BY <2>2, ConcatProperties
  <2>4. SubSeq(s, 1, Len(s)) = SubSeq(t, 1, Len(s))
    <3>1. CASE Len(s) = 0
      BY <3>1, SubSeqEmpty
    <3>2. CASE Len(s) # 0
      <4>1. 1 \in 1 .. Len(s) /\ Len(s) \in 1 .. Len(s)
        BY <2>3, <3>2
      <4> QED BY <2>2, <4>1, SubSeqOfConcat1
    <3> QED BY <3>1, <3>2
  <2> HIDE DEF t
  <2>5. IsPrefix(s, t)
    BY <2>3, <2>4 DEF IsPrefix
  <2> QED BY <2>1, <2>5 DEF s, t
<1>9. ASSUME u = <<>> PROVE p.data = fromDev
  <2>1. ~ Awaits(u)
    <3>1. Len(u) = 0
      BY <1>9
    <3> QED BY <3>1 DEF Awaits
  <2>2. After(q, u) = q
    BY <1>4, <1>9, AfterNothing
  <2> QED BY <1>5, <2>1, <2>2
<1> QED BY <1>2, <1>8, <1>9

\* Whatever the device sends, however the writes are cut and whatever commands
\* and answers the port writes in between, the client reads what the device
\* sent, unless one of them came between a doubled IAC.
THEOREM ClientReadsThm == Spec => []ClientReads
<1>1. Init => ClientInv
  BY ClientInit
<1>2. ClientInv /\ [Next]_vars => ClientInv'
  BY ClientStep
<1>3. ClientInv => ClientReads
  BY ClientInvReads
<1> QED BY <1>1, <1>2, <1>3, PTL DEF Spec

-----------------------------------------------------------------------------
(* The commands the parser takes out of the stream.                        *)

EventOf(cmd) ==
    LET what == SubSeq(cmd, 2, Len(cmd))
    IN  IF cmd[2] = "SB" THEN [kind |-> "option", what |-> Tail(what)]
        ELSE [kind |-> IF cmd[2] = "WILL" THEN "negotiation" ELSE "command",
              what |-> what]

LEMMA EventOfType ==
    ASSUME NEW cmd \in Seq(Bytes), Len(cmd) > 1, cmd[2] = "SB" => Len(cmd) > 2
    PROVE  EventOf(cmd) \in Events
<1> DEFINE what == SubSeq(cmd, 2, Len(cmd))
<1>1. what \in Seq(Bytes) /\ (cmd[2] = "SB" => Tail(what) \in Seq(Bytes))
  <2>1. 1 \in 0 .. Len(cmd)
    OBVIOUS
  <2>2. what \in Seq(Bytes) /\ Len(what) = Len(cmd) - 1
    BY <2>1, Cut
  <2> HIDE DEF what
  <2>3. cmd[2] = "SB" => what # <<>>
    BY <2>2
  <2> QED BY <2>2, <2>3
<1>2. {"negotiation", "option", "command"} \subseteq Commanding
  BY DEF Kinds, Data, Commanding
<1> HIDE DEF what
<1> QED BY <1>1, <1>2 DEF EventOf, Events, what

LEMMA SendKeeps ==
    ASSUME NEW s \in States, NEW w
    PROVE  LET r == telnet_cmd_send(s, w)
           IN  /\ r.cmd = s.cmd /\ r.iac = s.iac /\ r.data = s.data
               /\ r.events = s.events
BY DEF telnet_cmd_send, States

\* A command is noted as what it is, whether and however it is answered.
LEMMA HandleEvent ==
    ASSUME NEW s \in States, NEW cmd \in Seq(Bytes), Len(cmd) > 1,
           cmd[2] = "SB" => Len(cmd) > 2
    PROVE  LET r == handle_telnet_cmd(s, cmd)
           IN  /\ r.cmd = <<>> /\ r.iac = FALSE /\ r.data = s.data
               /\ r.events = Append(s.events, EventOf(cmd))
<1> DEFINE what == SubSeq(cmd, 2, Len(cmd))
           Done(k, v) == [s EXCEPT !.cmd = <<>>, !.iac = FALSE,
                              !.events = Append(@, [kind |-> k, what |-> v])]
           e == EventOf(cmd)
           t == Done(e.kind, e.what)
<1>1. e \in Events /\ e = [kind |-> e.kind, what |-> e.what]
  BY EventOfType DEF Events
<1>2. /\ t \in States /\ t.cmd = <<>> /\ t.iac = FALSE /\ t.data = s.data
      /\ t.events = Append(s.events, e)
  <2>1. Append(s.events, e) \in Seq(Events)
    BY <1>1 DEF States
  <2>2. <<>> \in Seq(Bytes)
    OBVIOUS
  <2> HIDE DEF e
  <2> QED BY <1>1, <2>1, <2>2 DEF States
<1>3. \/ handle_telnet_cmd(s, cmd) = t
      \/ \E w : handle_telnet_cmd(s, cmd) = telnet_cmd_send(t, w)
  <2>1. CASE cmd[2] = "WILL"
    BY <2>1 DEF handle_telnet_cmd, EventOf
  <2>2. CASE cmd[2] = "SB" /\ cmd[3] = "a"
    <3>1. handle_telnet_cmd(s, cmd) = com_port_handler(t, Tail(what))
      BY <2>2 DEF handle_telnet_cmd, EventOf
    <3> HIDE DEF t, what
    <3> QED BY <3>1 DEF com_port_handler, telnet_send_option
  <2>3. CASE cmd[2] = "SB" /\ cmd[3] # "a"
    BY <2>3 DEF handle_telnet_cmd, EventOf
  <2>4. CASE cmd[2] # "WILL" /\ cmd[2] # "SB"
    BY <2>4 DEF handle_telnet_cmd, EventOf
  <2> QED BY <2>1, <2>2, <2>3, <2>4
<1> HIDE DEF t, e
<1> QED BY <1>2, <1>3, SendKeeps DEF e

\* When a byte ends a command, and which; else what of one has been collected.
Ends(c, f, b) ==
    \/ Len(c) = 1 /\ b \in {"a", "e", "SE"}
    \/ Len(c) = 2 /\ c[2] # "SB"
    \/ Len(c) > 2 /\ f /\ b = "SE"
Whole(c, b) == IF Len(c) > 2 THEN Front(c) ELSE Append(c, b)

NextCmd(c, f, b) ==
    IF Ends(c, f, b) THEN <<>>
    ELSE IF Len(c) = 0 THEN IF b = "IAC" THEN Append(c, b) ELSE <<>>
    ELSE IF Len(c) = 1 THEN IF b = "IAC" THEN <<>> ELSE Append(c, b)
    ELSE IF Len(c) = 2 THEN Append(c, b)
    ELSE IF f THEN IF b = "IAC" THEN c ELSE Front(c)
    ELSE Stored(c, b)
NextIac(c, f, b) == Len(c) > 2 /\ ~ f /\ b = "IAC"

\* What a byte does to the command being collected and to the events.
ByteDoes(s, b, r) ==
    /\ r.cmd = NextCmd(s.cmd, s.iac, b)
    /\ r.iac = NextIac(s.cmd, s.iac, b)
    /\ r.events = IF Ends(s.cmd, s.iac, b)
                  THEN Append(s.events, EventOf(Whole(s.cmd, b))) ELSE s.events
    /\ Ends(s.cmd, s.iac, b) => EventOf(Whole(s.cmd, b)) \in Events

LEMMA Bigger ==
    ASSUME NEW n \in Nat PROVE n > 2 => n # 0 /\ n # 1 /\ n # 2
OBVIOUS

LEMMA EndDoes ==
    ASSUME NEW s \in Parser, NEW b \in Bytes, Ends(s.cmd, s.iac, b),
           NEW c \in Seq(Bytes), c = Whole(s.cmd, b),
           Len(c) > 1, c[2] = "SB" => Len(c) > 2,
           process_byte(s, b) = handle_telnet_cmd(s, c)
    PROVE  ByteDoes(s, b, process_byte(s, b))
<1> DEFINE r == handle_telnet_cmd(s, c)
<1>0. s \in States /\ Len(s.cmd) \in Nat
  BY DEF Parser, States
<1>1. s \in States /\ ~ NextIac(s.cmd, s.iac, b)
  <2> DEFINE n == Len(s.cmd)
  <2>1. n = 1 \/ n = 2 \/ (n > 2 /\ s.iac)
    BY DEF Ends
  <2>2. ~ (n > 2 /\ ~ s.iac)
    <3>1. n > 2 => n # 1 /\ n # 2
      BY <1>0, Bigger
    <3> QED BY <2>1, <3>1, Zenon
  <2> QED BY <1>0, <2>2 DEF NextIac
<1>2. r.cmd = <<>> /\ r.iac = FALSE /\ r.events = Append(s.events, EventOf(c))
  BY <1>1, HandleEvent
<1>3. EventOf(c) \in Events
  BY EventOfType
<1> HIDE DEF r
<1>4. NextCmd(s.cmd, s.iac, b) = <<>> /\ NextIac(s.cmd, s.iac, b) = FALSE
  BY <1>1 DEF NextCmd, NextIac
<1> QED BY <1>2, <1>3, <1>4 DEF ByteDoes, r

LEMMA ByteIs ==
    ASSUME NEW s \in Parser, NEW b \in Bytes
    PROVE  ByteDoes(s, b, process_byte(s, b))
<1> DEFINE c == s.cmd
           f == s.iac
           d == Append(c, b)
           r == process_byte(s, b)
<1>1. /\ s \in States /\ f \in BOOLEAN /\ c \in Seq(Bytes) /\ Len(c) \in Nat
      /\ s = [s EXCEPT !.cmd = c]
  BY DEF Parser, States
<1>a. Len(c) > 2 => Len(c) # 0 /\ Len(c) # 1 /\ Len(c) # 2
  BY <1>1, Bigger
<1>2. /\ f => Len(c) > 3
      /\ Len(c) = 2 => c[2] \in {"SB", "WILL"}
      /\ Len(c) > 2 => c[2] = "SB"
  BY DEF Parser, Tidy
<1>3. /\ d \in Seq(Bytes) /\ Len(d) = Len(c) + 1 /\ d[Len(c) + 1] = b
      /\ \A i \in 1 .. Len(c) : d[i] = c[i]
  BY <1>1
<1>4. CASE Len(c) = 0
  <2>1. ~ Ends(c, f, b) /\ ~ NextIac(c, f, b) /\ f = FALSE /\ c = <<>>
    BY <1>1, <1>2, <1>4 DEF Ends, NextIac
  <2>2. r.cmd = (IF b = "IAC" THEN d ELSE <<>>) /\ r.iac = FALSE
        /\ r.events = s.events
    BY <1>1, <1>4, <2>1 DEF process_byte, States
  <2>3. NextCmd(c, f, b) = IF b = "IAC" THEN d ELSE <<>>
    BY <1>4, <2>1 DEF NextCmd
  <2>4. NextIac(c, f, b) = FALSE
    BY <2>1 DEF NextIac
  <2> HIDE DEF c, d, f, r
  <2> QED BY <2>1, <2>2, <2>3, <2>4 DEF ByteDoes, c, d, f, r
<1>5. CASE Len(c) = 1 /\ b = "IAC"
  <2>1. ~ Ends(c, f, b) /\ ~ NextIac(c, f, b) /\ f = FALSE
    BY <1>1, <1>2, <1>5 DEF Ends, NextIac
  <2>2. r.cmd = <<>> /\ r.iac = FALSE /\ r.events = s.events
    <3>1. r = [s EXCEPT !.cmd = <<>>, !.data = Append(@, b)]
      BY <1>5 DEF process_byte
    <3> HIDE DEF r
    <3> QED BY <1>1, <2>1, <3>1 DEF States
  <2>3. NextCmd(c, f, b) = <<>>
    BY <1>5, <2>1 DEF NextCmd
  <2>4. NextIac(c, f, b) = FALSE
    BY <2>1 DEF NextIac
  <2> HIDE DEF c, d, f, r
  <2> QED BY <2>1, <2>2, <2>3, <2>4 DEF ByteDoes, c, d, f, r
<1>6. CASE Len(c) = 1 /\ b \in {"a", "e", "SE"}
  <2>1. Ends(c, f, b) /\ d = Whole(c, b)
    BY <1>6 DEF Ends, Whole
  <2>2. r = handle_telnet_cmd(s, d)
    BY <1>6 DEF process_byte
  <2>3. d \in Seq(Bytes) /\ Len(d) > 1 /\ d[2] # "SB"
    BY <1>3, <1>6
  <2> HIDE DEF d
  <2> QED BY <2>1, <2>2, <2>3, EndDoes
<1>7. CASE Len(c) = 2 /\ c[2] # "SB"
  <2>1. Ends(c, f, b) /\ d = Whole(c, b)
    BY <1>7 DEF Ends, Whole
  <2>2. r = handle_telnet_cmd(s, d)
    BY <1>7 DEF process_byte
  <2>3. d \in Seq(Bytes) /\ Len(d) > 1 /\ d[2] # "SB"
    BY <1>3, <1>7
  <2> HIDE DEF d
  <2> QED BY <2>1, <2>2, <2>3, EndDoes
<1>8. CASE \/ Len(c) = 1 /\ b \in {"SB", "WILL"}
           \/ Len(c) = 2 /\ c[2] = "SB"
  <2>1. ~ Ends(c, f, b) /\ ~ NextIac(c, f, b) /\ f = FALSE
    <3>1. CASE Len(c) = 1 /\ b \in {"SB", "WILL"}
      BY <1>1, <1>2, <3>1 DEF Ends, NextIac
    <3>2. CASE Len(c) = 2 /\ c[2] = "SB"
      BY <1>1, <1>2, <3>2 DEF Ends, NextIac
    <3> QED BY <1>8, <3>1, <3>2
  <2>2. r = [s EXCEPT !.cmd = d]
    <3>1. CASE Len(c) = 1 /\ b \in {"SB", "WILL"}
      BY <3>1 DEF process_byte
    <3>2. CASE Len(c) = 2 /\ c[2] = "SB"
      BY <3>2 DEF process_byte
    <3> QED BY <1>8, <3>1, <3>2
  <2>3. r.cmd = d /\ r.iac = FALSE /\ r.events = s.events
    <3> HIDE DEF r
    <3> QED BY <1>1, <2>1, <2>2 DEF States
  <2>4. NextCmd(c, f, b) = d
    BY <1>8, <2>1 DEF NextCmd
  <2>5. NextIac(c, f, b) = FALSE
    BY <2>1 DEF NextIac
  <2> HIDE DEF c, d, f, r
  <2> QED BY <2>1, <2>3, <2>4, <2>5 DEF ByteDoes, c, d, f, r
<1>9. CASE Len(c) > 2 /\ f
  <2>1. r = AfterIac(s, b)
    BY <1>9 DEF process_byte
  <2>2. NextIac(c, f, b) = FALSE
    BY <1>9 DEF NextIac
  <2>3. CASE b = "SE"
    <3> DEFINE e == Front(c)
    <3>1. Ends(c, f, b) /\ e = Whole(c, b)
      BY <1>9, <2>3 DEF Ends, Whole
    <3>2. r = handle_telnet_cmd(s, e)
      BY <2>1, <2>3 DEF AfterIac
    <3>3. e \in Seq(Bytes) /\ Len(e) > 2 /\ Len(e) > 1
      BY <1>1, <1>2, <1>9, FrontType
    <3> HIDE DEF e
    <3> QED BY <3>1, <3>2, <3>3, EndDoes
  <2>4. CASE b # "SE"
    <3>1. ~ Ends(c, f, b)
      BY <1>a, <1>9, <2>4, Zenon DEF Ends
    <3>2. r.cmd = (IF b = "IAC" THEN c ELSE Front(c)) /\ r.iac = FALSE
          /\ r.events = s.events
      BY <1>1, <2>1, <2>4 DEF AfterIac, States
    <3>3. NextCmd(c, f, b) = IF b = "IAC" THEN c ELSE Front(c)
      <4>1. Len(c) # 0 /\ Len(c) # 1 /\ Len(c) # 2
        BY <1>a, <1>9, Zenon
      <4> HIDE DEF c, f
      <4> QED BY <1>9, <3>1, <4>1 DEF NextCmd
    <3> HIDE DEF c, d, f, r
    <3> QED BY <2>2, <3>1, <3>2, <3>3 DEF ByteDoes, c, d, f, r
  <2> QED BY <2>3, <2>4
<1>10. CASE Len(c) > 2 /\ ~ f
  <2>1. ~ Ends(c, f, b)
    BY <1>a, <1>10, Zenon DEF Ends
  <2>2. r.cmd = Stored(c, b) /\ r.iac = (b = "IAC") /\ r.events = s.events
    <3>1. r = [s EXCEPT !.cmd = Stored(@, b), !.iac = (b = "IAC")]
      <4>1. Len(c) # 0 /\ Len(c) # 1 /\ Len(c) # 2
        BY <1>a, <1>10, Zenon
      <4> QED BY <1>1, <1>10, <4>1 DEF process_byte
    <3> HIDE DEF r
    <3> QED BY <1>1, <3>1 DEF States
  <2>3. NextCmd(c, f, b) = Stored(c, b)
    <3>1. Len(c) # 0 /\ Len(c) # 1 /\ Len(c) # 2
      BY <1>a, <1>10, Zenon
    <3> HIDE DEF c, f
    <3> QED BY <1>10, <2>1, <3>1 DEF NextCmd
  <2>4. NextIac(c, f, b) = (b = "IAC")
    BY <1>10 DEF NextIac
  <2> HIDE DEF c, d, f, r
  <2> QED BY <2>1, <2>2, <2>3, <2>4 DEF ByteDoes, c, d, f, r
<1>11. Len(c) = 0 \/ Len(c) = 1 \/ Len(c) = 2 \/ Len(c) > 2
  BY <1>1, Small
<1> QED BY <1>4, <1>5, <1>6, <1>7, <1>8, <1>9, <1>10, <1>11 DEF Bytes

-----------------------------------------------------------------------------
(* Two parsers that have collected the same, whatever they did before.     *)

Same(s, t) == s.cmd = t.cmd /\ s.iac = t.iac

\* They let the same data through and carry out the same commands.
Grown(s, t, q, r) ==
    \E d \in Seq(Bytes), e \in Seq(Events) :
        /\ q.data = s.data \o d /\ q.events = s.events \o e
        /\ r.data = t.data \o d /\ r.events = t.events \o e

LEMMA TwinByte ==
    ASSUME NEW s \in Parser, NEW t \in Parser, Same(s, t), NEW b \in Bytes
    PROVE  LET q == process_byte(s, b)
               r == process_byte(t, b)
           IN  Same(q, r) /\ Grown(s, t, q, r)
<1> DEFINE q == process_byte(s, b)
           r == process_byte(t, b)
           c == s.cmd
           f == s.iac
           x == EventOf(Whole(c, b))
           d == IF Through(Where(s), b) THEN <<b>> ELSE <<>>
           e == IF Ends(c, f, b) THEN <<x>> ELSE <<>>
<1>1. /\ s.data \in Seq(Bytes) /\ t.data \in Seq(Bytes)
      /\ s.events \in Seq(Events) /\ t.events \in Seq(Events)
  BY DEF Parser, States
<1>2. t.cmd = c /\ t.iac = f /\ Where(t) = Where(s)
  BY DEF Same, Where
<1>3. ByteStep(s, b, q) /\ ByteStep(t, b, r)
  BY ByteProcessed
<1>4. ByteDoes(s, b, q) /\ ByteDoes(t, b, r)
  BY ByteIs
<1> HIDE DEF q, r, c, f, x
<1>5. Same(q, r)
  BY <1>2, <1>4 DEF Same, ByteDoes, c, f
<1>6. Ends(c, f, b) => x \in Events
  BY <1>4 DEF ByteDoes, c, f, x
<1>7. d \in Seq(Bytes) /\ e \in Seq(Events)
  BY <1>6
<1>8. q.data = s.data \o d /\ r.data = t.data \o d
  <2>1. CASE Through(Where(s), b)
    BY <1>1, <1>2, <1>3, <2>1, AppendIsConcat DEF ByteStep
  <2>2. CASE ~ Through(Where(s), b)
    BY <1>1, <1>2, <1>3, <2>2, ConcatEmptySeq DEF ByteStep
  <2> QED BY <2>1, <2>2
<1>9. q.events = s.events \o e /\ r.events = t.events \o e
  <2>1. CASE Ends(c, f, b)
    <3>1. q.events = Append(s.events, x) /\ r.events = Append(t.events, x)
      BY <1>2, <1>4, <2>1 DEF ByteDoes, c, f, x
    <3> QED BY <1>1, <1>6, <2>1, <3>1, AppendIsConcat
  <2>2. CASE ~ Ends(c, f, b)
    <3>1. q.events = s.events /\ r.events = t.events
      BY <1>2, <1>4, <2>2 DEF ByteDoes, c, f, x
    <3> QED BY <1>1, <2>2, <3>1, ConcatEmptySeq
  <2> QED BY <2>1, <2>2
<1> HIDE DEF d, e
<1> QED BY <1>5, <1>7, <1>8, <1>9 DEF Grown, q, r

\* Concatenation under another name, which keeps provers from rewriting it.
Joined(x, y) == x \o y

LEMMA Regroup ==
    \A S : \A x, y, z \in Seq(S) :
        Joined(Joined(x, y), z) = Joined(x, Joined(y, z))
BY ConcatAssociative DEF Joined

\* One growth after the other.
LEMMA GrownOn ==
    ASSUME NEW s \in Parser, NEW t \in Parser, NEW q, NEW r, NEW v, NEW w,
           Grown(s, t, q, r), Grown(q, r, v, w)
    PROVE  Grown(s, t, v, w)
<1> DEFINE a == s.data
           b == t.data
           g == s.events
           h == t.events
<1>1. a \in Seq(Bytes) /\ b \in Seq(Bytes) /\ g \in Seq(Events) /\ h \in Seq(Events)
  BY DEF Parser, States
<1>2. PICK d \in Seq(Bytes), e \in Seq(Events) :
        /\ q.data = a \o d /\ q.events = g \o e
        /\ r.data = b \o d /\ r.events = h \o e
  BY DEF Grown
<1>3. PICK i \in Seq(Bytes), j \in Seq(Events) :
        /\ v.data = q.data \o i /\ v.events = q.events \o j
        /\ w.data = r.data \o i /\ w.events = r.events \o j
  BY DEF Grown
<1> HIDE DEF a, b, g, h
<1>4. d \o i \in Seq(Bytes) /\ e \o j \in Seq(Events)
  BY ConcatProperties
<1>5. /\ Joined(Joined(a, d), i) = Joined(a, Joined(d, i))
      /\ Joined(Joined(b, d), i) = Joined(b, Joined(d, i))
      /\ Joined(Joined(g, e), j) = Joined(g, Joined(e, j))
      /\ Joined(Joined(h, e), j) = Joined(h, Joined(e, j))
  BY <1>1, Regroup
<1>6. /\ v.data = a \o (d \o i) /\ w.data = b \o (d \o i)
      /\ v.events = g \o (e \o j) /\ w.events = h \o (e \o j)
  BY <1>2, <1>3, <1>5, Zenon DEF Joined
<1> QED BY <1>4, <1>5, <1>6 DEF Grown, a, b, g, h

LEMMA Twin ==
    ASSUME NEW s \in Parser, NEW t \in Parser, Same(s, t), NEW w \in Seq(Bytes)
    PROVE  LET q == process_telnet_data(s, w)
               r == process_telnet_data(t, w)
           IN  Same(q, r) /\ Grown(s, t, q, r)
<1> DEFINE Q(v) == process_telnet_data(s, v)
           R(v) == process_telnet_data(t, v)
           P == {v \in Seq(Bytes) : Same(Q(v), R(v)) /\ Grown(s, t, Q(v), R(v))}
<1>1. <<>> \in P
  <2>1. Q(<<>>) = s /\ R(<<>>) = t
    BY ProcessNothing
  <2>2. <<>> \in Seq(Bytes) /\ <<>> \in Seq(Events)
    OBVIOUS
  <2>3. s.data \in Seq(Bytes) /\ t.data \in Seq(Bytes)
        /\ s.events \in Seq(Events) /\ t.events \in Seq(Events)
    BY DEF Parser, States
  <2>4. Grown(s, t, s, t)
    <3>1. /\ s.data \o <<>> = s.data /\ s.events \o <<>> = s.events
          /\ t.data \o <<>> = t.data /\ t.events \o <<>> = t.events
      BY <2>3, ConcatEmptySeq
    <3> QED BY <2>2, <3>1 DEF Grown
  <2> QED BY <2>1, <2>2, <2>4
<1>2. ASSUME NEW v \in Seq(Bytes), NEW b \in Bytes, v \in P
      PROVE  Append(v, b) \in P
  <2> DEFINE q == Q(v)
             r == R(v)
             u == Append(v, b)
  <2>1. Same(q, r) /\ Grown(s, t, q, r)
    BY <1>2
  <2>2. q \in Parser /\ r \in Parser
        /\ Q(u) = process_byte(q, b) /\ R(u) = process_byte(r, b)
    BY ProcessAppend
  <2>3. u \in Seq(Bytes)
    OBVIOUS
  <2> HIDE DEF q, r, u
  <2>4. Same(Q(u), R(u)) /\ Grown(q, r, Q(u), R(u))
    <3> HIDE DEF Q, R
    <3> QED BY <2>1, <2>2, TwinByte
  <2> HIDE DEF Q, R
  <2>5. Grown(s, t, Q(u), R(u))
    BY <2>1, <2>4, GrownOn
  <2> QED BY <2>3, <2>4, <2>5 DEF u
<1>3. \A v \in Seq(Bytes), b \in Bytes : v \in P => Append(v, b) \in P
  BY <1>2
<1> HIDE DEF P
<1>4. Seq(Bytes) \subseteq P
  BY <1>1, <1>3, ByAppending
<1> QED BY <1>4 DEF P

-----------------------------------------------------------------------------
(* What each member of a sequence gives, put together.                     *)

Each(G, w) == [i \in DOMAIN w |-> G[w[i]]]
Spread(G, w) == FlattenSeq(Each(G, w))

LEMMA EachType ==
    ASSUME NEW S, NEW T, NEW G \in [S -> T], NEW w \in Seq(S)
    PROVE  Each(G, w) \in Seq(T)
<1> DEFINE g == [i \in 1 .. Len(w) |-> G[w[i]]]
<1>1. Len(w) \in Nat /\ DOMAIN w = 1 .. Len(w) /\ \A i \in 1 .. Len(w) : w[i] \in S
  OBVIOUS
<1>2. g \in [1 .. Len(w) -> T]
  BY <1>1
<1> HIDE DEF g
<1>4. g \in Seq(T)
  BY <1>1, <1>2, ListType
<1>5. g = Each(G, w)
  BY <1>1 DEF g, Each
<1> QED BY <1>4, <1>5

LEMMA EachLength ==
    ASSUME NEW S, NEW G, NEW w \in Seq(S) PROVE Len(Each(G, w)) = Len(w)
<1>1. Len(w) \in Nat /\ DOMAIN w = 1 .. Len(w)
  OBVIOUS
<1> DEFINE g == [i \in 1 .. Len(w) |-> G[w[i]]]
<1>2. g \in [1 .. Len(w) -> {G[x] : x \in S}]
  BY <1>1
<1> HIDE DEF g
<1>3. Len(g) = Len(w)
  BY <1>1, <1>2, ListType
<1>4. g = Each(G, w)
  BY <1>1 DEF g, Each
<1> QED BY <1>3, <1>4

LEMMA EachIs ==
    ASSUME NEW S, NEW G, NEW w \in Seq(S), NEW i \in 1 .. Len(w)
    PROVE  Each(G, w)[i] = G[w[i]]
BY DEF Each

LEMMA SpreadType ==
    ASSUME NEW S, NEW T, NEW G \in [S -> Seq(T)], NEW w \in Seq(S)
    PROVE  Spread(G, w) \in Seq(T)
<1> DEFINE g == Each(G, w)
           U == Seq(T)
<1>1. G \in [S -> U]
  OBVIOUS
<1> HIDE DEF U
<1>2. g \in Seq(U)
  BY <1>1, EachType
<1> HIDE DEF g
<1>3. FlattenSeq(g) \in Seq(T)
  BY <1>2, FlattenType DEF U
<1> QED BY <1>3 DEF Spread, g

LEMMA SpreadNothing == ASSUME NEW G PROVE Spread(G, <<>>) = <<>>
<1> DEFINE g == Each(G, <<>>)
<1>1. g = <<>>
  BY DEF Each
<1> HIDE DEF g
<1>2. FlattenSeq(<<>>) = <<>>
  BY DEF FlattenSeq
<1> QED BY <1>1, <1>2 DEF Spread, g

\* The same for pieces of any kind.
LEMMA EachAppend ==
    ASSUME NEW S, NEW T, NEW G \in [S -> T], NEW w \in Seq(S), NEW x \in S
    PROVE  Each(G, Append(w, x)) = Append(Each(G, w), G[x])
<1> DEFINE v == Append(w, x)
           g == Each(G, w)
           h == Each(G, v)
           y == G[x]
           a == Append(g, y)
<1>1. /\ Len(w) \in Nat /\ v \in Seq(S) /\ Len(v) = Len(w) + 1
      /\ \A i \in 1 .. Len(w) : v[i] = w[i]
      /\ v[Len(w) + 1] = x
  OBVIOUS
<1>2. g \in Seq(T) /\ Len(g) = Len(w) /\ \A i \in 1 .. Len(w) : g[i] = G[w[i]]
  <2>1. g \in Seq(T)
    BY EachType
  <2>2. Len(g) = Len(w) /\ \A i \in 1 .. Len(w) : g[i] = G[w[i]]
    BY EachLength, EachIs
  <2> QED BY <2>1, <2>2
<1> HIDE DEF v
<1>3. h \in Seq(T) /\ Len(h) = Len(v) /\ \A i \in 1 .. Len(v) : h[i] = G[v[i]]
  <2>1. v \in Seq(S)
    BY <1>1
  <2>2. h \in Seq(T)
    BY <2>1, EachType
  <2>3. Len(h) = Len(v) /\ \A i \in 1 .. Len(v) : h[i] = G[v[i]]
    BY <2>1, EachLength, EachIs
  <2> QED BY <2>2, <2>3
<1>4. y \in T
  OBVIOUS
<1> HIDE DEF g, h, y
<1>5. /\ a \in Seq(T) /\ Len(a) = Len(g) + 1
      /\ \A i \in 1 .. Len(g) : a[i] = g[i]
      /\ a[Len(g) + 1] = y
  BY <1>2, <1>4, AppendProperties
<1> HIDE DEF a
<1>6. ASSUME NEW i \in 1 .. Len(h) PROVE h[i] = a[i]
  <2>1. CASE i \in 1 .. Len(w)
    BY <1>1, <1>2, <1>3, <1>5, <2>1
  <2>2. CASE i = Len(w) + 1
    BY <1>1, <1>2, <1>3, <1>5, <2>2 DEF y
  <2> QED BY <1>1, <1>3, <2>1, <2>2
<1>7. h = a
  <2>1. Len(h) = Len(a)
    BY <1>1, <1>2, <1>3, <1>5
  <2> QED BY <1>3, <1>5, <1>6, <2>1, SeqEqual
<1> QED BY <1>7 DEF v, g, h, y, a

LEMMA SpreadAppend ==
    ASSUME NEW S, NEW T, NEW G \in [S -> Seq(T)], NEW w \in Seq(S), NEW x \in S
    PROVE  Spread(G, Append(w, x)) = Spread(G, w) \o G[x]
<1> DEFINE v == Append(w, x)
           g == Each(G, w)
           h == Each(G, v)
           y == G[x]
           U == Seq(T)
<1>1. G \in [S -> U] /\ y \in U
  OBVIOUS
<1> HIDE DEF U
<1>2. g \in Seq(U)
  BY <1>1, EachType
<1>3. h = Append(g, y)
  BY <1>1, EachAppend
<1> HIDE DEF g, h, y
<1>4. FlattenSeq(Append(g, y)) = FlattenSeq(g) \o y
  BY <1>1, <1>2, FlattenAppend DEF U
<1> HIDE DEF v
<1> QED BY <1>3, <1>4 DEF Spread, v, g, h, y

\* The type of G, for where a conclusion does not name it.
Maps(G, S, T) == G \in [S -> T]

LEMMA SpreadConcat ==
    ASSUME NEW S, NEW T, NEW G, Maps(G, S, Seq(T)), NEW v \in Seq(S)
    PROVE  \A w \in Seq(S) : Spread(G, v \o w) = Spread(G, v) \o Spread(G, w)
<1>s. G \in [S -> Seq(T)]
  BY DEF Maps
<1> DEFINE F(w) == Spread(G, w)
           P == {w \in Seq(S) : F(v \o w) = F(v) \o F(w)}
<1>0. \A w \in Seq(S) : F(w) \in Seq(T)
  BY <1>s, SpreadType
<1>1. <<>> \in P
  <2>1. F(<<>>) = <<>>
    BY SpreadNothing
  <2>2. F(v) \in Seq(T) /\ <<>> \in Seq(S)
    BY <1>0
  <2> HIDE DEF F
  <2>3. v \o <<>> = v /\ F(v) \o <<>> = F(v)
    BY <2>2, ConcatEmptySeq
  <2> QED BY <2>1, <2>2, <2>3
<1>2. ASSUME NEW w \in Seq(S), NEW x \in S, w \in P PROVE Append(w, x) \in P
  <2> DEFINE u == v \o w
             r == Append(w, x)
  <2>1. u \in Seq(S) /\ r \in Seq(S)
    BY ConcatProperties
  <2>2. F(Append(u, x)) = F(u) \o G[x] /\ F(r) = F(w) \o G[x]
    <3> HIDE DEF u
    <3> QED BY <1>s, <2>1, SpreadAppend
  <2>3. v \o r = Append(u, x)
    <3> DEFINE o == <<x>>
    <3>1. o \in Seq(S)
      OBVIOUS
    <3>2. r = Joined(w, o) /\ Append(u, x) = Joined(Joined(v, w), o)
      BY <2>1, AppendIsConcat DEF Joined
    <3> HIDE DEF u, r, o
    <3>3. Joined(v, Joined(w, o)) = Joined(Joined(v, w), o)
      BY <3>1, Regroup
    <3>4. v \o r = Joined(v, r)
      BY DEF Joined
    <3> QED BY <3>2, <3>3, <3>4
  <2>4. F(u) = F(v) \o F(w)
    BY <1>2
  <2>5. F(v) \in Seq(T) /\ F(w) \in Seq(T) /\ G[x] \in Seq(T)
    BY <1>0, <1>s
  <2>6. F(v \o r) = Joined(Joined(F(v), F(w)), G[x])
        /\ F(v) \o F(r) = Joined(F(v), Joined(F(w), G[x]))
    <3> HIDE DEF F, u, r
    <3> QED BY <2>2, <2>3, <2>4 DEF Joined
  <2> HIDE DEF F, u, r
  <2>7. F(v \o r) = F(v) \o F(r)
    BY <2>5, <2>6, Regroup
  <2> QED BY <2>1, <2>7 DEF r
<1>3. \A w \in Seq(S), x \in S : w \in P => Append(w, x) \in P
  BY <1>2
<1> HIDE DEF P
<1>4. Seq(S) \subseteq P
  BY <1>1, <1>3, ByAppending
<1> QED BY <1>4 DEF P

-----------------------------------------------------------------------------
(* Doubled IACs, byte by byte.                                             *)

Twice(x) == IF x = "IAC" THEN <<"IAC", "IAC">> ELSE <<x>>

LEMMA TwiceType == ASSUME NEW x \in Bytes PROVE Twice(x) \in Seq(Bytes)
<1>1. "IAC" \in Bytes
  BY DEF Bytes
<1>2. <<"IAC", "IAC">> \in Seq(Bytes) /\ <<x>> \in Seq(Bytes)
  BY <1>1
<1> QED BY <1>2 DEF Twice

Twices == [x \in Bytes |-> Twice(x)]

LEMMA TwicesType ==
    Twices \in [Bytes -> Seq(Bytes)] /\ \A x \in Bytes : Twices[x] = Twice(x)
BY TwiceType DEF Twices

LEMMA DoubledSpread ==
    ASSUME NEW w \in Seq(Bytes) PROVE DoubleIACs(w) = Spread(Twices, w)
<1> DEFINE g == [i \in DOMAIN w |->
                    IF w[i] = "IAC" THEN <<"IAC", "IAC">> ELSE <<w[i]>>]
           h == [i \in DOMAIN w |-> Twices[w[i]]]
<1>1. \A i \in DOMAIN w : w[i] \in Bytes
  OBVIOUS
<1>2. \A i \in DOMAIN w : Twices[w[i]] = Twice(w[i])
  BY <1>1, TwicesType
<1>3. g = h
  BY <1>2 DEF Twice
<1>4. DoubleIACs(w) = FlattenSeq(g)
  BY DEF DoubleIACs
<1>5. Spread(Twices, w) = FlattenSeq(h)
  BY DEF Spread, Each
<1> HIDE DEF g, h
<1> QED BY <1>3, <1>4, <1>5

LEMMA DoubledOn ==
    ASSUME NEW w \in Seq(Bytes), NEW x \in Bytes
    PROVE  DoubleIACs(Append(w, x)) = DoubleIACs(w) \o Twice(x)
<1> DEFINE v == Append(w, x)
<1>1. v \in Seq(Bytes)
  OBVIOUS
<1>2. Spread(Twices, v) = Spread(Twices, w) \o Twices[x]
  BY TwicesType, SpreadAppend
<1> HIDE DEF v
<1>3. DoubleIACs(v) = Spread(Twices, v) /\ DoubleIACs(w) = Spread(Twices, w)
  BY <1>1, DoubledSpread
<1> QED BY <1>2, <1>3, TwicesType DEF v

LEMMA DoubledNone == DoubleIACs(<<>>) = <<>>
<1>1. <<>> \in Seq(Bytes)
  OBVIOUS
<1> QED BY <1>1, DoubledSpread, SpreadNothing

LEMMA DoubledOnce ==
    ASSUME NEW x \in Bytes PROVE DoubleIACs(<<x>>) = Twice(x)
<1>1. <<>> \in Seq(Bytes) /\ Append(<<>>, x) = <<x>>
  OBVIOUS
<1>2. DoubleIACs(<<x>>) = DoubleIACs(<<>>) \o Twice(x)
  BY <1>1, DoubledOn
<1>3. <<>> \o Twice(x) = Twice(x)
  BY TwiceType, ConcatEmptySeq
<1> QED BY <1>2, <1>3, DoubledNone

-----------------------------------------------------------------------------
(* What of an option fits.                                                 *)

LEMMA UptoSame ==
    ASSUME NEW v \in Seq(Bytes), NEW w \in Seq(Bytes), NEW n \in Nat,
           (IF n < Len(v) THEN n ELSE Len(v)) = IF n < Len(w) THEN n ELSE Len(w),
           \A i \in 1 .. Len(v) : i <= n => v[i] = w[i]
    PROVE  Upto(v, n) = Upto(w, n)
<1> DEFINE a == Upto(v, n)
           b == Upto(w, n)
<1>1. /\ a \in Seq(Bytes) /\ Len(a) = IF n < Len(v) THEN n ELSE Len(v)
      /\ \A i \in 1 .. Len(a) : a[i] = v[i]
  BY UptoType
<1>2. /\ b \in Seq(Bytes) /\ Len(b) = IF n < Len(w) THEN n ELSE Len(w)
      /\ \A i \in 1 .. Len(b) : b[i] = w[i]
  BY UptoType
<1> HIDE DEF a, b
<1>3. Len(a) = Len(b) /\ Len(a) <= n /\ Len(a) <= Len(v)
  BY <1>1, <1>2
<1>4. \A i \in 1 .. Len(a) : a[i] = b[i]
  BY <1>1, <1>2, <1>3
<1>5. a = b
  BY <1>1, <1>2, <1>3, <1>4, SeqEqual
<1> QED BY <1>5 DEF a, b

\* One byte more, whether it fits or not.
LEMMA UptoOn ==
    ASSUME NEW w \in Seq(Bytes), NEW n \in Nat, NEW x \in Bytes
    PROVE  Upto(Append(Upto(w, n), x), n) = Upto(Append(w, x), n)
<1> DEFINE u == Upto(w, n)
           a == Append(u, x)
           b == Append(w, x)
<1>1. /\ u \in Seq(Bytes) /\ Len(u) = IF n < Len(w) THEN n ELSE Len(w)
      /\ \A i \in 1 .. Len(u) : u[i] = w[i]
  BY UptoType
<1> HIDE DEF u
<1>2. /\ a \in Seq(Bytes) /\ Len(a) = Len(u) + 1 /\ a[Len(u) + 1] = x
      /\ \A i \in 1 .. Len(u) : a[i] = u[i]
  BY <1>1
<1>3. /\ b \in Seq(Bytes) /\ Len(b) = Len(w) + 1 /\ b[Len(w) + 1] = x
      /\ \A i \in 1 .. Len(w) : b[i] = w[i]
  OBVIOUS
<1>4. Len(w) \in Nat
  OBVIOUS
<1> HIDE DEF a, b
<1>5. (IF n < Len(a) THEN n ELSE Len(a)) = IF n < Len(b) THEN n ELSE Len(b)
  BY <1>1, <1>2, <1>3, <1>4
<1>6. ASSUME NEW i \in 1 .. Len(a), i <= n PROVE a[i] = b[i]
  <2>1. CASE i \in 1 .. Len(u)
    <3>1. i \in 1 .. Len(w)
      BY <1>1, <1>4, <2>1
    <3> QED BY <1>1, <1>2, <1>3, <2>1, <3>1
  <2>2. CASE i = Len(u) + 1
    <3>1. Len(u) = Len(w)
      BY <1>1, <1>4, <1>6, <2>2
    <3> QED BY <1>2, <1>3, <2>2, <3>1
  <2>3. Len(u) \in Nat
    BY <1>1
  <2> QED BY <1>2, <2>1, <2>2, <2>3
<1>7. Upto(a, n) = Upto(b, n)
  BY <1>2, <1>3, <1>5, <1>6, UptoSame
<1> QED BY <1>7 DEF a, b, u

LEMMA UptoAgain ==
    ASSUME NEW w \in Seq(Bytes), NEW n \in Nat
    PROVE  Upto(Upto(w, n), n) = Upto(w, n)
<1> DEFINE u == Upto(w, n)
<1>1. /\ u \in Seq(Bytes) /\ Len(u) = IF n < Len(w) THEN n ELSE Len(w)
      /\ \A i \in 1 .. Len(u) : u[i] = w[i]
  BY UptoType
<1> HIDE DEF u
<1>2. Len(w) \in Nat
  OBVIOUS
<1>3. (IF n < Len(u) THEN n ELSE Len(u)) = IF n < Len(w) THEN n ELSE Len(w)
  BY <1>1, <1>2
<1>4. Upto(u, n) = Upto(w, n)
  BY <1>1, <1>3, UptoSame
<1> QED BY <1>4 DEF u

\* An option of the client, as it stands in telnet_cmd and as it is carried out.
Named(v) == <<"IAC", "SB">> \o v

LEMMA NamedIs ==
    ASSUME NEW v \in Seq(Bytes)
    PROVE  /\ Named(v) \in Seq(Bytes) /\ Len(Named(v)) = Len(v) + 2
           /\ Named(v)[1] = "IAC" /\ Named(v)[2] = "SB"
           /\ \A i \in 1 .. Len(v) : Named(v)[i + 2] = v[i]
<1> DEFINE l == <<"IAC", "SB">>
           c == l \o v
<1>1. l \in Seq(Bytes) /\ Len(l) = 2 /\ l[1] = "IAC" /\ l[2] = "SB"
  BY DEF Bytes
<1>2. Len(v) \in Nat
  OBVIOUS
<1> HIDE DEF l
<1>3. /\ c \in Seq(Bytes) /\ Len(c) = Len(l) + Len(v)
      /\ \A i \in 1 .. Len(l) + Len(v) :
            c[i] = IF i <= Len(l) THEN l[i] ELSE v[i - Len(l)]
  BY <1>1, ConcatProperties
<1> HIDE DEF c
<1>4. c[1] = "IAC" /\ c[2] = "SB"
  BY <1>1, <1>2, <1>3
<1>5. ASSUME NEW i \in 1 .. Len(v) PROVE c[i + 2] = v[i]
  <2>1. i + 2 \in 1 .. Len(l) + Len(v) /\ ~ (i + 2 <= Len(l)) /\ (i + 2) - Len(l) = i
    BY <1>1, <1>2
  <2> QED BY <1>3, <2>1
<1> QED BY <1>1, <1>2, <1>3, <1>4, <1>5 DEF Named, c, l

LEMMA OptionWhat ==
    ASSUME NEW v \in Seq(Bytes), v # <<>>
    PROVE  LET u == Upto(Named(v), MaxCmd)
           IN  /\ u \in Seq(Bytes) /\ Len(u) > 2
               /\ EventOf(u) = [kind |-> "option", what |-> Upto(v, MaxCmd - 2)]
<1> DEFINE c == Named(v)
           u == Upto(c, MaxCmd)
           r == SubSeq(u, 2, Len(u))
           t == Tail(r)
           x == Upto(v, MaxCmd - 2)
<1>1. MaxCmd \in Nat /\ MaxCmd > 3 /\ MaxCmd - 2 \in Nat
  BY TelnetSizesAssumption
<1>2. Len(v) \in Nat /\ Len(v) > 0
  OBVIOUS
<1>3. /\ c \in Seq(Bytes) /\ Len(c) = Len(v) + 2 /\ c[2] = "SB"
      /\ \A i \in 1 .. Len(v) : c[i + 2] = v[i]
  BY NamedIs
<1> HIDE DEF c
<1>4. /\ u \in Seq(Bytes) /\ Len(u) = IF MaxCmd < Len(c) THEN MaxCmd ELSE Len(c)
      /\ \A i \in 1 .. Len(u) : u[i] = c[i]
  BY <1>1, <1>3, UptoType
<1>5. /\ x \in Seq(Bytes)
      /\ Len(x) = IF MaxCmd - 2 < Len(v) THEN MaxCmd - 2 ELSE Len(v)
      /\ \A i \in 1 .. Len(x) : x[i] = v[i]
  BY <1>1, UptoType
<1> HIDE DEF u, x
<1>6. Len(u) > 2 /\ u[2] = "SB" /\ Len(u) = Len(x) + 2 /\ Len(u) \in Nat
  BY <1>1, <1>2, <1>3, <1>4, <1>5
<1>7. r \in Seq(Bytes) /\ Len(r) = Len(u) - 1
      /\ \A i \in 1 .. Len(u) - 1 : r[i] = u[1 + i]
  <2>1. 1 \in 0 .. Len(u)
    BY <1>6
  <2> QED BY <1>4, <2>1, Cut
<1> HIDE DEF r
<1>8. t \in Seq(Bytes) /\ Len(t) = Len(x) /\ \A i \in 1 .. Len(t) : t[i] = r[i + 1]
  <2>1. r # <<>>
    BY <1>6, <1>7
  <2> QED BY <1>6, <1>7, <2>1
<1> HIDE DEF t
<1>9. ASSUME NEW i \in 1 .. Len(t) PROVE t[i] = x[i]
  <2>1. /\ i + 1 \in 1 .. Len(u) - 1 /\ 1 + (i + 1) = i + 2
        /\ i + 2 \in 1 .. Len(u) /\ i \in 1 .. Len(x) /\ i \in 1 .. Len(v)
    BY <1>1, <1>2, <1>5, <1>6, <1>8
  <2>2. t[i] = u[i + 2]
    BY <1>7, <1>8, <2>1
  <2> QED BY <1>3, <1>4, <1>5, <2>1, <2>2
<1>10. t = x
  BY <1>5, <1>8, <1>9, SeqEqual
<1>11. EventOf(u) = [kind |-> "option", what |-> t]
  BY <1>6 DEF EventOf, t, r
<1> QED BY <1>4, <1>6, <1>10, <1>11 DEF u, c, x

-----------------------------------------------------------------------------
(* What a message does to a parser at rest.                                *)

\* All that is told of a step of the parser: what it has collected, the data
\* let through and the commands carried out.
Does(r, c, f, d, e) == r \in Parser /\ r.cmd = c /\ r.iac = f /\ r.data = d /\ r.events = e

LEMMA ParserIs ==
    ASSUME NEW s \in Parser
    PROVE  /\ s.cmd \in Seq(Bytes) /\ s.iac \in BOOLEAN /\ s.data \in Seq(Bytes)
           /\ s.events \in Seq(Events) /\ Len(s.cmd) \in Nat
           /\ Len(s.cmd) <= 3 => s.iac = FALSE
<1>1. /\ s.cmd \in Seq(Bytes) /\ s.iac \in BOOLEAN /\ s.data \in Seq(Bytes)
      /\ s.events \in Seq(Events)
  BY DEF Parser, States
<1>2. s.iac => Len(s.cmd) > 3
  BY DEF Parser, Tidy
<1>3. Len(s.cmd) \in Nat
  BY <1>1
<1> HIDE DEF Parser
<1> QED BY <1>1, <1>2, <1>3

\* Two bytes.
LEMMA ProcessTwo ==
    ASSUME NEW s \in Parser, NEW x \in Bytes, NEW y \in Bytes
    PROVE  LET t == process_byte(s, x)
           IN  /\ t \in Parser /\ process_byte(t, y) \in Parser
               /\ process_telnet_data(s, <<x, y>>) = process_byte(t, y)
<1> DEFINE t == process_byte(s, x)
           w == <<x>>
<1>1. w \in Seq(Bytes) /\ <<x, y>> = Append(w, y)
  OBVIOUS
<1>2. process_telnet_data(s, w) = t
  BY ProcessOne
<1> HIDE DEF w, t
<1>3. /\ t \in Parser
      /\ process_telnet_data(s, Append(w, y)) = process_byte(t, y)
      /\ ByteStep(t, y, process_byte(t, y))
  BY <1>1, <1>2, ProcessAppend
<1>4. process_byte(t, y) \in Parser
  BY <1>3 DEF ByteStep
<1> QED BY <1>1, <1>3, <1>4 DEF t

\* An IAC begins a command, or the second of a doubled one is data.
LEMMA EscapeByte ==
    ASSUME NEW s \in Parser, s.cmd = <<>>
    PROVE  Does(process_byte(s, "IAC"), <<"IAC">>, FALSE, s.data, s.events)
<1> DEFINE r == process_byte(s, "IAC")
<1>1. "IAC" \in Bytes /\ Len(s.cmd) = 0 /\ Append(s.cmd, "IAC") = <<"IAC">>
  BY DEF Bytes
<1>2. ByteStep(s, "IAC", r) /\ ByteDoes(s, "IAC", r)
  BY <1>1, ByteProcessed, ByteIs
<1> HIDE DEF r
<1>3. Where(s) = "data" /\ ~ Through(Where(s), "IAC")
  BY <1>1, WhereIs DEF Through
<1>4. ~ Ends(s.cmd, s.iac, "IAC") /\ NextIac(s.cmd, s.iac, "IAC") = FALSE
      /\ NextCmd(s.cmd, s.iac, "IAC") = <<"IAC">>
  <2>1. ~ Ends(s.cmd, s.iac, "IAC")
    BY <1>1 DEF Ends
  <2>2. NextIac(s.cmd, s.iac, "IAC") = FALSE
    BY <1>1 DEF NextIac
  <2> QED BY <1>1, <2>1, <2>2 DEF NextCmd
<1> QED BY <1>2, <1>3, <1>4 DEF ByteStep, ByteDoes, Does, r

LEMMA DataRead ==
    ASSUME NEW s \in Parser, s.cmd = <<>>, NEW x \in Bytes
    PROVE  Does(process_telnet_data(s, Twice(x)), <<>>, FALSE,
                Append(s.data, x), s.events)
<1>0. Len(s.cmd) = 0 /\ "IAC" \in Bytes
  BY DEF Bytes
<1>1. CASE x = "IAC"
  <2> DEFINE t == process_byte(s, "IAC")
             r == process_byte(t, "IAC")
  <2>1. Does(t, <<"IAC">>, FALSE, s.data, s.events)
    BY EscapeByte
  <2>2. process_telnet_data(s, Twice(x)) = r
    BY <1>0, <1>1, ProcessTwo DEF Twice
  <2> HIDE DEF t
  <2>3. ByteStep(t, "IAC", r) /\ ByteDoes(t, "IAC", r)
    BY <1>0, <2>1, ByteProcessed, ByteIs DEF Does
  <2> HIDE DEF r
  <2>4. t \in Parser /\ t.cmd = <<"IAC">> /\ Len(t.cmd) = 1 /\ t.iac = FALSE
    BY <2>1 DEF Does
  <2>5. Where(t) = "iac" /\ Through(Where(t), "IAC")
    BY <2>4, WhereIs DEF Through
  <2>6. ~ Ends(t.cmd, t.iac, "IAC")
    BY <2>4 DEF Ends
  <2>7. NextIac(t.cmd, t.iac, "IAC") = FALSE
    BY <2>4 DEF NextIac
  <2>8. NextCmd(t.cmd, t.iac, "IAC") = <<>>
    BY <2>4, <2>6 DEF NextCmd
  <2> QED BY <1>1, <2>1, <2>2, <2>3, <2>5, <2>6, <2>7, <2>8
          DEF ByteStep, ByteDoes, Does
<1>2. CASE x # "IAC"
  <2> DEFINE r == process_byte(s, x)
  <2>1. process_telnet_data(s, Twice(x)) = r
    BY <1>2, ProcessOne DEF Twice
  <2>2. ByteStep(s, x, r) /\ ByteDoes(s, x, r)
    BY ByteProcessed, ByteIs
  <2> HIDE DEF r
  <2>3. Where(s) = "data" /\ Through(Where(s), x)
    BY <1>0, <1>2, WhereIs DEF Through
  <2>4. ~ Ends(s.cmd, s.iac, x)
    BY <1>0 DEF Ends
  <2>5. NextIac(s.cmd, s.iac, x) = FALSE
    BY <1>0 DEF NextIac
  <2>6. NextCmd(s.cmd, s.iac, x) = <<>>
    BY <1>0, <1>2, <2>4 DEF NextCmd
  <2> QED BY <2>1, <2>2, <2>3, <2>4, <2>5, <2>6 DEF ByteStep, ByteDoes, Does
<1> QED BY <1>1, <1>2

\* Short commands.
LEMMA One ==
    ASSUME NEW x \in Bytes
    PROVE  <<x>> \in Seq(Bytes) /\ Len(<<x>>) = 1 /\ <<x>>[1] = x
OBVIOUS

LEMMA Two ==
    ASSUME NEW x \in Bytes, NEW y \in Bytes
    PROVE  /\ <<x, y>> \in Seq(Bytes) /\ Len(<<x, y>>) = 2
           /\ <<x, y>>[1] = x /\ <<x, y>>[2] = y
           /\ Append(<<x>>, y) = <<x, y>>
           /\ SubSeq(<<x, y>>, 2, Len(<<x, y>>)) = <<y>>
<1> DEFINE w == <<x, y>>
           v == SubSeq(w, 2, Len(w))
           u == <<y>>
<1>1. w \in Seq(Bytes) /\ Len(w) = 2 /\ w[1] = x /\ w[2] = y
  OBVIOUS
<1>2. Append(<<x>>, y) = w
  <2> DEFINE p == <<x>>
             q == Append(p, y)
  <2>1. /\ p \in Seq(Bytes) /\ Len(p) = 1
        /\ \A i \in 1 .. 1 : p[i] = w[i]
    OBVIOUS
  <2> HIDE DEF p, w
  <2>2. /\ q \in Seq(Bytes) /\ Len(q) = 2 /\ q[2] = y
        /\ \A i \in 1 .. 1 : q[i] = p[i]
    <3>1. /\ q \in Seq(Bytes) /\ Len(q) = Len(p) + 1 /\ q[Len(p) + 1] = y
          /\ \A i \in 1 .. Len(p) : q[i] = p[i]
      <4>1. p \in Seq(Bytes)
        BY <2>1
      <4> QED BY <4>1, AppendProperties
    <3> HIDE DEF q
    <3> QED BY <2>1, <3>1
  <2> HIDE DEF q
  <2>3. \A i \in 1 .. Len(q) : q[i] = w[i]
    BY <1>1, <2>1, <2>2
  <2>4. q = w
    BY <1>1, <2>2, <2>3, SeqEqual
  <2> QED BY <2>4 DEF p, q
<1>3. u \in Seq(Bytes) /\ Len(u) = 1 /\ u[1] = y
  OBVIOUS
<1> HIDE DEF w, u
<1>4. v \in Seq(Bytes) /\ Len(v) = 1 /\ v[1] = y
  <2>1. 1 \in 0 .. Len(w) /\ 1 + 1 = 2 /\ Len(w) - 1 = 1
    BY <1>1
  <2>2. /\ v \in Seq(Bytes) /\ Len(v) = Len(w) - 1
        /\ \A i \in 1 .. Len(w) - 1 : v[i] = w[1 + i]
    BY <1>1, <2>1, Cut
  <2> HIDE DEF v
  <2> QED BY <1>1, <2>1, <2>2
<1> HIDE DEF v
<1>5. v = u
  <2>1. \A i \in 1 .. Len(v) : v[i] = u[i]
    BY <1>3, <1>4
  <2> QED BY <1>3, <1>4, <2>1, SeqEqual
<1> QED BY <1>1, <1>2, <1>5 DEF w, u, v

LEMMA ThreeAppend ==
    ASSUME NEW x \in Bytes, NEW y \in Bytes, NEW z \in Bytes
    PROVE  Append(<<x, y>>, z) = <<x, y, z>>
<1> DEFINE w == <<x, y, z>>
<1>1. w \in Seq(Bytes) /\ Len(w) = 3 /\ w[1] = x /\ w[2] = y /\ w[3] = z
  OBVIOUS
<1>2. Append(<<x, y>>, z) = w
  <2> DEFINE p == <<x, y>>
             q == Append(p, z)
  <2>1. /\ p \in Seq(Bytes) /\ Len(p) = 2
        /\ \A i \in 1 .. 2 : p[i] = w[i]
    OBVIOUS
  <2> HIDE DEF p, w
  <2>2. /\ q \in Seq(Bytes) /\ Len(q) = 3 /\ q[3] = z
        /\ \A i \in 1 .. 2 : q[i] = p[i]
    <3>1. /\ q \in Seq(Bytes) /\ Len(q) = Len(p) + 1 /\ q[Len(p) + 1] = z
          /\ \A i \in 1 .. Len(p) : q[i] = p[i]
      <4>1. p \in Seq(Bytes)
        BY <2>1
      <4> QED BY <4>1, AppendProperties
    <3> HIDE DEF q
    <3> QED BY <2>1, <3>1
  <2> HIDE DEF q
  <2>3. \A i \in 1 .. Len(q) : q[i] = w[i]
    BY <1>1, <2>1, <2>2
  <2>4. q = w
    BY <1>1, <2>2, <2>3, SeqEqual
  <2> QED BY <2>4 DEF p, q
<1> QED BY <1>2

LEMMA Three ==
    ASSUME NEW x \in Bytes, NEW y \in Bytes, NEW z \in Bytes
    PROVE  /\ <<x, y, z>> \in Seq(Bytes) /\ Len(<<x, y, z>>) = 3
           /\ <<x, y, z>>[1] = x /\ <<x, y, z>>[2] = y /\ <<x, y, z>>[3] = z
           /\ Append(<<x, y>>, z) = <<x, y, z>>
           /\ SubSeq(<<x, y, z>>, 2, Len(<<x, y, z>>)) = <<y, z>>
<1> DEFINE w == <<x, y, z>>
           v == SubSeq(w, 2, Len(w))
           u == <<y, z>>
<1>1. w \in Seq(Bytes) /\ Len(w) = 3 /\ w[1] = x /\ w[2] = y /\ w[3] = z
  OBVIOUS
<1>2. Append(<<x, y>>, z) = w
  BY ThreeAppend
<1>3. u \in Seq(Bytes) /\ Len(u) = 2 /\ u[1] = y /\ u[2] = z
  BY Two
<1> HIDE DEF w, u
<1>4. v \in Seq(Bytes) /\ Len(v) = 2 /\ v[1] = y /\ v[2] = z
  <2>1. 1 \in 0 .. Len(w) /\ 1 + 1 = 2 /\ 1 + 2 = 3 /\ Len(w) - 1 = 2
    BY <1>1
  <2>2. /\ v \in Seq(Bytes) /\ Len(v) = Len(w) - 1
        /\ \A i \in 1 .. Len(w) - 1 : v[i] = w[1 + i]
    BY <1>1, <2>1, Cut
  <2> HIDE DEF v
  <2> QED BY <1>1, <2>1, <2>2
<1> HIDE DEF v
<1>5. v = u
  <2>1. \A i \in 1 .. Len(v) : v[i] = u[i]
    BY <1>3, <1>4
  <2> QED BY <1>3, <1>4, <2>1, SeqEqual
<1> QED BY <1>1, <1>2, <1>5 DEF w, u, v

LEMMA FourAppend ==
    ASSUME NEW x \in Bytes, NEW y \in Bytes, NEW z \in Bytes, NEW t \in Bytes
    PROVE  Append(<<x, y, z>>, t) = <<x, y, z, t>>
<1> DEFINE p == <<x, y, z>>
           w == <<x, y, z, t>>
           q == Append(p, t)
<1>1. /\ w \in Seq(Bytes) /\ Len(w) = 4
      /\ w[1] = x /\ w[2] = y /\ w[3] = z /\ w[4] = t
  OBVIOUS
<1>2. /\ p \in Seq(Bytes) /\ Len(p) = 3
      /\ p[1] = x /\ p[2] = y /\ p[3] = z
  OBVIOUS
<1> HIDE DEF p, w
<1>3. /\ q \in Seq(Bytes) /\ Len(q) = Len(p) + 1
      /\ \A i \in 1 .. Len(p) : q[i] = p[i]
      /\ q[Len(p) + 1] = t
  <2>1. p \in Seq(Bytes)
    BY <1>2
  <2> QED BY <2>1, AppendProperties
<1> HIDE DEF q
<1>4. \A i \in 1 .. Len(q) : q[i] = w[i]
  BY <1>1, <1>2, <1>3
<1>5. q = w
  BY <1>1, <1>2, <1>3, <1>4, SeqEqual
<1> QED BY <1>5 DEF p, q, w

\* The same for a byte in front, and for two commands.
LEMMA TwoConcat ==
    ASSUME NEW x \in Bytes, NEW y \in Bytes PROVE <<x>> \o <<y>> = <<x, y>>
<1> DEFINE a == <<x>>
           ab == <<x, y>>
<1>1. a \in Seq(Bytes) /\ Append(a, y) = ab
  BY One, Two
<1> HIDE DEF a, ab
<1>2. a \o <<y>> = ab
  BY <1>1, AppendIsConcat
<1> QED BY <1>2 DEF a, ab

LEMMA ThreeConcat ==
    ASSUME NEW x \in Bytes, NEW y \in Bytes, NEW z \in Bytes
    PROVE  /\ <<x>> \o <<y, z>> = <<x, y, z>>
           /\ <<x, y>> \o <<z>> = <<x, y, z>>
<1> DEFINE a == <<x>>
           b == <<y>>
           c == <<z>>
           ab == <<x, y>>
           bc == <<y, z>>
           abc == <<x, y, z>>
<1>1. a \in Seq(Bytes) /\ b \in Seq(Bytes) /\ c \in Seq(Bytes)
  BY One
<1>2. ab \in Seq(Bytes)
  BY Two
<1>3. a \o b = ab /\ b \o c = bc
  BY TwoConcat
<1>4. Append(ab, z) = abc
  BY ThreeAppend
<1> HIDE DEF a, b, ab, bc, abc
<1>5. ab \o c = abc
  BY <1>2, <1>4, AppendIsConcat
<1> HIDE DEF c
<1>6. Joined(Joined(a, b), c) = Joined(a, Joined(b, c))
  BY <1>1, Regroup
<1>7. a \o bc = abc
  BY <1>3, <1>5, <1>6 DEF Joined
<1> QED BY <1>5, <1>7 DEF a, b, c, ab, bc, abc

LEMMA FourConcat ==
    ASSUME NEW x \in Bytes, NEW y \in Bytes, NEW z \in Bytes, NEW t \in Bytes
    PROVE  <<x, y>> \o <<z, t>> = <<x, y, z, t>>
<1> DEFINE c == <<z>>
           d == <<t>>
           ab == <<x, y>>
           cd == <<z, t>>
           abc == <<x, y, z>>
           abcd == <<x, y, z, t>>
<1>1. c \in Seq(Bytes) /\ d \in Seq(Bytes)
  BY One
<1>2. ab \in Seq(Bytes)
  BY Two
<1>3. c \o d = cd
  BY TwoConcat
<1>4. ab \o c = abc
  BY ThreeConcat
<1>5. abc \in Seq(Bytes)
  BY Three
<1>6. Append(abc, t) = abcd
  BY FourAppend
<1> HIDE DEF c, ab, cd, abc, abcd
<1>7. abc \o d = abcd
  BY <1>5, <1>6, AppendIsConcat
<1> HIDE DEF d
<1>8. Joined(Joined(ab, c), d) = Joined(ab, Joined(c, d))
  BY <1>1, <1>2, Regroup
<1>9. ab \o cd = abcd
  BY <1>3, <1>4, <1>7, <1>8 DEF Joined
<1> QED BY <1>9 DEF ab, cd, abcd

\* A byte that is collected, and one that ends a command.
LEMMA Collects ==
    ASSUME NEW s \in Parser, NEW b \in Bytes,
           ~ Through(Where(s), b), ~ Ends(s.cmd, s.iac, b)
    PROVE  Does(process_byte(s, b), NextCmd(s.cmd, s.iac, b),
                NextIac(s.cmd, s.iac, b), s.data, s.events)
<1>1. ByteStep(s, b, process_byte(s, b)) /\ ByteDoes(s, b, process_byte(s, b))
  BY ByteProcessed, ByteIs
<1> QED BY <1>1 DEF ByteStep, ByteDoes, Does

LEMMA Concludes ==
    ASSUME NEW s \in Parser, NEW b \in Bytes,
           ~ Through(Where(s), b), Ends(s.cmd, s.iac, b)
    PROVE  Does(process_byte(s, b), <<>>, FALSE, s.data,
                Append(s.events, EventOf(Whole(s.cmd, b))))
<1>1. ByteStep(s, b, process_byte(s, b)) /\ ByteDoes(s, b, process_byte(s, b))
  BY ByteProcessed, ByteIs
<1>2. NextCmd(s.cmd, s.iac, b) = <<>>
  BY DEF NextCmd
<1>3. NextIac(s.cmd, s.iac, b) = FALSE
  <2> DEFINE n == Len(s.cmd)
  <2>1. n = 1 \/ n = 2 \/ (n > 2 /\ s.iac)
    BY DEF Ends
  <2>2. n > 2 => n # 1 /\ n # 2
    BY ParserIs, Bigger
  <2>3. ~ (n > 2 /\ ~ s.iac)
    BY <2>1, <2>2, Zenon
  <2> QED BY <2>3 DEF NextIac
<1> QED BY <1>1, <1>2, <1>3 DEF ByteStep, ByteDoes, Does

LEMMA CommandRead ==
    ASSUME NEW s \in Parser, s.cmd = <<>>, NEW x \in {"a", "e", "SE"}
    PROVE  Does(process_telnet_data(s, <<"IAC", x>>), <<>>, FALSE, s.data,
                Append(s.events, [kind |-> "command", what |-> <<x>>]))
<1> DEFINE t == process_byte(s, "IAC")
           r == process_byte(t, x)
           c == <<"IAC">>
           d == <<"IAC", x>>
<1>0. "IAC" \in Bytes /\ x \in Bytes
  BY DEF Bytes
<1>1. Does(t, c, FALSE, s.data, s.events)
  BY EscapeByte
<1>2. process_telnet_data(s, d) = r
  BY <1>0, ProcessTwo
<1>3. Len(c) = 1 /\ Append(c, x) = d /\ ~ (Len(c) > 2)
  <2>1. Append(c, x) = d
    BY <1>0, Two
  <2> QED BY <2>1
<1>4. EventOf(d) = [kind |-> "command", what |-> <<x>>]
  <2>1. d[2] # "SB" /\ d[2] # "WILL" /\ SubSeq(d, 2, Len(d)) = <<x>>
    BY <1>0, Two
  <2> HIDE DEF d
  <2> QED BY <2>1 DEF EventOf
<1> HIDE DEF t, c, d
<1>5. t \in Parser /\ t.cmd = c /\ t.iac = FALSE /\ t.data = s.data
      /\ t.events = s.events
  BY <1>1 DEF Does
<1>6. Where(t) = "iac" /\ ~ Through(Where(t), x)
  BY <1>3, <1>5, WhereIs DEF Through
<1>7. Ends(t.cmd, t.iac, x) /\ Whole(t.cmd, x) = d
  BY <1>3, <1>5 DEF Ends, Whole
<1>8. Does(r, <<>>, FALSE, t.data, Append(t.events, EventOf(d)))
  BY <1>0, <1>5, <1>6, <1>7, Concludes
<1> HIDE DEF r
<1> QED BY <1>2, <1>4, <1>5, <1>8 DEF d

LEMMA NegotiationRead ==
    ASSUME NEW s \in Parser, s.cmd = <<>>, NEW x \in Bytes
    PROVE  Does(process_telnet_data(s, <<"IAC", "WILL", x>>), <<>>, FALSE, s.data,
                Append(s.events, [kind |-> "negotiation", what |-> <<"WILL", x>>]))
<1> DEFINE t == process_byte(s, "IAC")
           q == process_byte(t, "WILL")
           r == process_byte(q, x)
           c == <<"IAC">>
           d == <<"IAC", "WILL">>
           e == <<"IAC", "WILL", x>>
<1>0. "IAC" \in Bytes /\ "WILL" \in Bytes
  BY DEF Bytes
<1>1. Does(t, c, FALSE, s.data, s.events)
  BY EscapeByte
<1>2. q \in Parser /\ process_telnet_data(s, d) = q
  BY <1>0, ProcessTwo
<1>3. /\ Len(c) = 1 /\ Append(c, "WILL") = d /\ ~ (Len(c) > 2)
      /\ d \in Seq(Bytes) /\ Len(d) = 2 /\ Append(d, x) = e /\ d[2] = "WILL"
      /\ ~ (Len(d) > 2)
  <2>1. Append(c, "WILL") = d
    BY <1>0, Two
  <2>2. Append(d, x) = e
    <3>1. \A i, j \in Bytes : Append(<<i, j>>, x) = <<i, j, x>>
      BY Three
    <3> QED BY <1>0, <3>1
  <2> QED BY <1>0, <2>1, <2>2
<1>4. EventOf(e) = [kind |-> "negotiation", what |-> <<"WILL", x>>]
  <2>1. e[2] = "WILL"
    OBVIOUS
  <2>2. SubSeq(e, 2, Len(e)) = <<"WILL", x>>
    <3>1. \A i, j \in Bytes :
                SubSeq(<<i, j, x>>, 2, Len(<<i, j, x>>)) = <<j, x>>
      BY Three
    <3> QED BY <1>0, <3>1
  <2> HIDE DEF e
  <2> QED BY <2>1, <2>2 DEF EventOf
<1> HIDE DEF t, c, d, e
<1>a. process_telnet_data(s, e) = r
  <2> HIDE DEF q
  <2>1. process_telnet_data(s, Append(d, x)) = process_byte(q, x)
    BY <1>2, <1>3, ProcessAppend
  <2> QED BY <1>3, <2>1
<1>5. t \in Parser /\ t.cmd = c /\ t.iac = FALSE /\ t.data = s.data
      /\ t.events = s.events
  BY <1>1 DEF Does
<1>6. Where(t) = "iac" /\ ~ Through(Where(t), "WILL")
  BY <1>3, <1>5, WhereIs DEF Through
<1>7. ~ Ends(t.cmd, t.iac, "WILL")
  BY <1>3, <1>5 DEF Ends
<1>b. NextCmd(t.cmd, t.iac, "WILL") = d
  BY <1>3, <1>5, <1>7 DEF NextCmd
<1>c. NextIac(t.cmd, t.iac, "WILL") = FALSE
  BY <1>3, <1>5 DEF NextIac
<1>8. Does(q, d, FALSE, s.data, s.events)
  BY <1>0, <1>5, <1>6, <1>7, <1>b, <1>c, Collects
<1> HIDE DEF q
<1>9. q \in Parser /\ q.cmd = d /\ q.iac = FALSE /\ q.data = s.data
      /\ q.events = s.events
  BY <1>8 DEF Does
<1>10. Where(q) = "negotiation" /\ ~ Through(Where(q), x)
  BY <1>3, <1>9, WhereIs DEF Through
<1>11. Ends(q.cmd, q.iac, x) /\ Whole(q.cmd, x) = e
  BY <1>3, <1>9 DEF Ends, Whole
<1>12. Does(r, <<>>, FALSE, q.data, Append(q.events, EventOf(e)))
  BY <1>9, <1>10, <1>11, Concludes
<1> HIDE DEF r
<1> QED BY <1>a, <1>4, <1>9, <1>12 DEF e

LEMMA NextIs ==
    ASSUME NEW c, NEW f, NEW b, ~ Ends(c, f, b)
    PROVE  /\ Len(c) = 1 /\ b # "IAC" => NextCmd(c, f, b) = Append(c, b)
           /\ Len(c) = 2 => NextCmd(c, f, b) = Append(c, b)
<1>1. Len(c) = 1 => Len(c) # 0
  OBVIOUS
<1>2. Len(c) = 2 => Len(c) # 0 /\ Len(c) # 1
  OBVIOUS
<1> QED BY <1>1, <1>2, Zenon DEF NextCmd

\* The start of an option.
LEMMA OptionBegun ==
    ASSUME NEW s \in Parser, s.cmd = <<>>
    PROVE  Does(process_telnet_data(s, <<"IAC", "SB">>), <<"IAC", "SB">>, FALSE,
                s.data, s.events)
<1> DEFINE t == process_byte(s, "IAC")
           q == process_byte(t, "SB")
           c == <<"IAC">>
           d == <<"IAC", "SB">>
<1>0. "IAC" \in Bytes /\ "SB" \in Bytes
  BY DEF Bytes
<1>1. Does(t, c, FALSE, s.data, s.events)
  BY EscapeByte
<1>2. q \in Parser /\ process_telnet_data(s, d) = q
  BY <1>0, ProcessTwo
<1>3. Len(c) = 1 /\ Append(c, "SB") = d /\ ~ (Len(c) > 2)
  <2>1. Append(c, "SB") = d
    BY <1>0, Two
  <2> QED BY <2>1
<1> HIDE DEF t, c, d
<1>4. t \in Parser /\ t.cmd = c /\ t.iac = FALSE /\ t.data = s.data
      /\ t.events = s.events
  BY <1>1 DEF Does
<1>5. Where(t) = "iac" /\ ~ Through(Where(t), "SB")
  BY <1>3, <1>4, WhereIs DEF Through
<1>6. ~ Ends(t.cmd, t.iac, "SB")
  BY <1>3, <1>4 DEF Ends
<1>7. NextCmd(t.cmd, t.iac, "SB") = d
  BY <1>3, <1>4, <1>6, NextIs
<1>8. NextIac(t.cmd, t.iac, "SB") = FALSE
  BY <1>3, <1>4 DEF NextIac
<1>9. Does(q, d, FALSE, s.data, s.events)
  BY <1>0, <1>4, <1>5, <1>6, <1>7, <1>8, Collects
<1> HIDE DEF q
<1> QED BY <1>2, <1>9 DEF d

\* Within an option of which c was received: as much of it is kept as fits.
Within(s, c) ==
    s.iac = FALSE /\ Len(s.cmd) > 2 /\ Upto(s.cmd, MaxCmd) = Upto(c, MaxCmd)
Quiet(s, r) == r \in Parser /\ r.data = s.data /\ r.events = s.events

LEMMA WithinIs ==
    ASSUME NEW s \in Parser, Len(s.cmd) > 2, NEW b \in Bytes
    PROVE  /\ ~ Through(Where(s), b)
           /\ Len(s.cmd) # 0 /\ Len(s.cmd) # 1 /\ Len(s.cmd) # 2
<1>1. Len(s.cmd) # 0 /\ Len(s.cmd) # 1 /\ Len(s.cmd) # 2
  BY ParserIs, Bigger
<1>2. Where(s) = "end" \/ Where(s) = "option"
  BY WhereIs
<1> QED BY <1>1, <1>2 DEF Through

\* Its name, which is no IAC.
LEMMA NameRead ==
    ASSUME NEW s \in Parser, s.cmd = <<"IAC", "SB">>, NEW x \in Bytes
    PROVE  LET r == process_byte(s, x)
           IN  Quiet(s, r) /\ Within(r, Named(<<x>>))
<1> DEFINE d == <<"IAC", "SB">>
           c == Append(d, x)
           r == process_byte(s, x)
<1>0. "IAC" \in Bytes /\ "SB" \in Bytes
  BY DEF Bytes
<1>1. d \in Seq(Bytes) /\ Len(d) = 2 /\ d[2] = "SB" /\ ~ (Len(d) > 2)
  BY <1>0
<1>2. Named(<<x>>) = c
  <2>1. d \o <<x>> = c
    BY <1>1, AppendIsConcat
  <2> QED BY <2>1 DEF Named
<1> HIDE DEF d
<1>3. s.iac = FALSE /\ s.cmd = d
  <2>1. s.cmd = d
    BY DEF d
  <2>2. Len(s.cmd) <= 3
    BY <1>1, <2>1
  <2> QED BY <2>1, <2>2, ParserIs
<1>4. c \in Seq(Bytes) /\ Len(c) = 3
  <2>1. d \in Seq(Bytes)
    BY <1>1
  <2>2. c \in Seq(Bytes) /\ Len(c) = Len(d) + 1
    BY <2>1, AppendProperties
  <2> HIDE DEF c
  <2> QED BY <1>1, <2>2
<1> HIDE DEF c
<1>5. Where(s) = "name" /\ ~ Through(Where(s), x)
  BY <1>1, <1>3, WhereIs DEF Through
<1>6. ~ Ends(s.cmd, s.iac, x)
  BY <1>1, <1>3 DEF Ends
<1>7. NextCmd(s.cmd, s.iac, x) = c
  BY <1>1, <1>3, <1>6, NextIs DEF c
<1>8. NextIac(s.cmd, s.iac, x) = FALSE
  BY <1>1, <1>3 DEF NextIac
<1>9. Does(r, c, FALSE, s.data, s.events)
  BY <1>5, <1>6, <1>7, <1>8, Collects
<1> HIDE DEF r
<1>10. Len(r.cmd) > 2 /\ r.cmd = c /\ r.iac = FALSE
  <2>1. r.cmd = c /\ r.iac = FALSE
    BY <1>9 DEF Does
  <2>2. Len(c) > 2
    BY <1>4
  <2> QED BY <2>1, <2>2, Zenon
<1>11. Within(r, c)
  BY <1>10 DEF Within
<1>12. Quiet(s, r)
  BY <1>9 DEF Does, Quiet
<1> QED BY <1>2, <1>11, <1>12 DEF r

\* The IAC that may end it, and that is taken back then.
LEMMA EscapeWithin ==
    ASSUME NEW s \in Parser, NEW c \in Seq(Bytes), Within(s, c)
    PROVE  LET t == process_byte(s, "IAC")
               u == Upto(c, MaxCmd)
           IN  /\ Does(t, Append(u, "IAC"), TRUE, s.data, s.events)
               /\ u \in Seq(Bytes) /\ Len(u) > 2
               /\ Len(t.cmd) > 2 /\ Front(t.cmd) = u
<1> DEFINE t == process_byte(s, "IAC")
           u == Upto(c, MaxCmd)
           a == Append(u, "IAC")
<1>0. "IAC" \in Bytes /\ MaxCmd \in Nat /\ MaxCmd > 3
  BY TelnetSizesAssumption DEF Bytes
<1>1. s.iac = FALSE /\ Len(s.cmd) > 2 /\ u = Upto(s.cmd, MaxCmd)
      /\ s.cmd \in Seq(Bytes) /\ Len(s.cmd) \in Nat
  BY ParserIs DEF Within
<1> HIDE DEF u
<1>2. u \in Seq(Bytes) /\ Len(u) > 2 /\ Len(u) \in Nat
  <2>1. u \in Seq(Bytes) /\ Len(u) = IF MaxCmd < Len(s.cmd) THEN MaxCmd ELSE Len(s.cmd)
    BY <1>0, <1>1, UptoType
  <2> QED BY <1>0, <1>1, <2>1
<1>3. /\ ~ Through(Where(s), "IAC")
      /\ Len(s.cmd) # 0 /\ Len(s.cmd) # 1 /\ Len(s.cmd) # 2
  BY <1>0, <1>1, WithinIs
<1>4. ~ Ends(s.cmd, s.iac, "IAC")
  BY <1>3 DEF Ends
<1>5. NextCmd(s.cmd, s.iac, "IAC") = a
  BY <1>1, <1>3, <1>4 DEF NextCmd, Stored
<1>6. NextIac(s.cmd, s.iac, "IAC") = TRUE
  BY <1>1 DEF NextIac
<1>7. Does(t, a, TRUE, s.data, s.events)
  BY <1>0, <1>3, <1>4, <1>5, <1>6, Collects
<1>8. a \in Seq(Bytes) /\ Len(a) = Len(u) + 1 /\ \A i \in 1 .. Len(u) : a[i] = u[i]
  BY <1>0, <1>2, AppendProperties
<1> HIDE DEF a, t
<1>9. t.cmd = a /\ Len(a) > 2
  BY <1>2, <1>7, <1>8 DEF Does
<1>10. Front(a) = u
  <2> DEFINE f == SubSeq(a, 1, Len(u))
  <2>1. Len(u) \in 0 .. Len(a)
    BY <1>2, <1>8
  <2>2. f \in Seq(Bytes) /\ Len(f) = Len(u) /\ \A i \in 1 .. Len(u) : f[i] = a[i]
    BY <1>8, <2>1, Cut
  <2>3. Front(a) = f
    BY <1>2, <1>8 DEF Front
  <2> HIDE DEF f
  <2>4. f = u
    BY <1>2, <1>8, <2>2, SeqEqual
  <2> QED BY <2>3, <2>4
<1> QED BY <1>2, <1>7, <1>9, <1>10 DEF t, u, a

\* A byte of an option, doubled if it is an IAC, is kept if it fits.
LEMMA ArgumentRead ==
    ASSUME NEW s \in Parser, NEW c \in Seq(Bytes), Within(s, c), NEW x \in Bytes
    PROVE  LET r == process_telnet_data(s, Twice(x))
           IN  Quiet(s, r) /\ Within(r, Append(c, x))
<1> DEFINE u == Upto(c, MaxCmd)
           a == Append(u, x)
           t == process_byte(s, x)
<1>0. "IAC" \in Bytes /\ MaxCmd \in Nat /\ MaxCmd > 3
  BY TelnetSizesAssumption DEF Bytes
<1>1. s.iac = FALSE /\ Len(s.cmd) > 2 /\ u = Upto(s.cmd, MaxCmd)
      /\ s.cmd \in Seq(Bytes) /\ Len(s.cmd) \in Nat
  BY ParserIs DEF Within
<1>2. u \in Seq(Bytes) /\ Len(u) > 2
  BY EscapeWithin
<1>3. Upto(a, MaxCmd) = Upto(Append(c, x), MaxCmd)
  BY <1>0, UptoOn
<1> HIDE DEF u
<1>4. a \in Seq(Bytes) /\ Len(a) > 2
  <2>1. a \in Seq(Bytes) /\ Len(a) = Len(u) + 1 /\ Len(u) \in Nat
    BY <1>2, AppendProperties
  <2> HIDE DEF a
  <2> QED BY <1>2, <2>1
<1>5. /\ ~ Through(Where(s), x)
      /\ Len(s.cmd) # 0 /\ Len(s.cmd) # 1 /\ Len(s.cmd) # 2
  BY <1>1, WithinIs
<1>6. ~ Ends(s.cmd, s.iac, x)
  BY <1>1, <1>5 DEF Ends
<1>7. NextCmd(s.cmd, s.iac, x) = a
  BY <1>1, <1>5, <1>6 DEF NextCmd, Stored
<1>8. NextIac(s.cmd, s.iac, x) = (x = "IAC")
  BY <1>1 DEF NextIac
<1>9. Does(t, a, x = "IAC", s.data, s.events)
  BY <1>5, <1>6, <1>7, <1>8, Collects
<1> HIDE DEF a, t
<1>10. CASE x # "IAC"
  <2>1. process_telnet_data(s, Twice(x)) = t
    BY <1>10, ProcessOne DEF Twice, t
  <2>2. Quiet(s, t) /\ t.cmd = a /\ t.iac = FALSE
    BY <1>9, <1>10 DEF Does, Quiet
  <2>3. Within(t, Append(c, x))
    BY <1>3, <1>4, <2>2 DEF Within
  <2> QED BY <2>1, <2>2, <2>3
<1>11. CASE x = "IAC"
  <2> DEFINE r == process_byte(t, "IAC")
  <2>1. process_telnet_data(s, Twice(x)) = r
    BY <1>0, <1>11, ProcessTwo DEF Twice, t
  <2>2. t \in Parser /\ t.cmd = a /\ t.iac = TRUE /\ t.data = s.data
        /\ t.events = s.events
    BY <1>9, <1>11 DEF Does
  <2>3. Len(t.cmd) > 2
    BY <1>4, <2>2
  <2>4. /\ ~ Through(Where(t), "IAC")
        /\ Len(t.cmd) # 0 /\ Len(t.cmd) # 1 /\ Len(t.cmd) # 2
    BY <1>0, <2>2, <2>3, WithinIs
  <2>5. ~ Ends(t.cmd, t.iac, "IAC")
    BY <2>4 DEF Ends
  <2>6. NextCmd(t.cmd, t.iac, "IAC") = a
    BY <2>2, <2>4, <2>5 DEF NextCmd
  <2>7. NextIac(t.cmd, t.iac, "IAC") = FALSE
    BY <2>2 DEF NextIac
  <2>8. Does(r, a, FALSE, s.data, s.events)
    BY <1>0, <2>2, <2>4, <2>5, <2>6, <2>7, Collects
  <2> HIDE DEF r
  <2>9. Quiet(s, r) /\ r.cmd = a /\ r.iac = FALSE
    BY <2>8 DEF Does, Quiet
  <2>10. Within(r, Append(c, x))
    BY <1>3, <1>4, <2>9 DEF Within
  <2> QED BY <2>1, <2>9, <2>10
<1> QED BY <1>10, <1>11

\* An IAC and another byte are both dropped.
LEMMA StrayRead ==
    ASSUME NEW s \in Parser, NEW c \in Seq(Bytes), Within(s, c)
    PROVE  LET r == process_telnet_data(s, <<"IAC", "a">>)
           IN  Quiet(s, r) /\ Within(r, c)
<1> DEFINE t == process_byte(s, "IAC")
           r == process_byte(t, "a")
           u == Upto(c, MaxCmd)
<1>0. "IAC" \in Bytes /\ "a" \in Bytes /\ MaxCmd \in Nat
  BY TelnetSizesAssumption DEF Bytes
<1>1. /\ Does(t, Append(u, "IAC"), TRUE, s.data, s.events)
      /\ u \in Seq(Bytes) /\ Len(u) > 2
      /\ Len(t.cmd) > 2 /\ Front(t.cmd) = u
  BY EscapeWithin
<1>2. process_telnet_data(s, <<"IAC", "a">>) = r
  BY <1>0, ProcessTwo
<1>3. Upto(u, MaxCmd) = Upto(c, MaxCmd)
  BY <1>0, UptoAgain
<1> HIDE DEF t, u
<1>4. t \in Parser /\ t.iac = TRUE /\ t.data = s.data /\ t.events = s.events
  BY <1>1 DEF Does
<1>5. /\ ~ Through(Where(t), "a")
      /\ Len(t.cmd) # 0 /\ Len(t.cmd) # 1 /\ Len(t.cmd) # 2
  BY <1>0, <1>1, <1>4, WithinIs
<1>6. ~ Ends(t.cmd, t.iac, "a")
  BY <1>5 DEF Ends
<1>7. NextCmd(t.cmd, t.iac, "a") = u
  BY <1>1, <1>4, <1>5, <1>6 DEF NextCmd
<1>8. NextIac(t.cmd, t.iac, "a") = FALSE
  BY <1>4 DEF NextIac
<1>9. Does(r, u, FALSE, s.data, s.events)
  BY <1>0, <1>4, <1>5, <1>6, <1>7, <1>8, Collects
<1> HIDE DEF r
<1>10. Quiet(s, r) /\ r.cmd = u /\ r.iac = FALSE
  BY <1>9 DEF Does, Quiet
<1>11. Within(r, c)
  BY <1>1, <1>3, <1>10 DEF Within
<1> QED BY <1>2, <1>10, <1>11

\* An IAC and an SE end it.
LEMMA EndRead ==
    ASSUME NEW s \in Parser, NEW v \in Seq(Bytes), v # <<>>, Within(s, Named(v))
    PROVE  Does(process_telnet_data(s, <<"IAC", "SE">>), <<>>, FALSE, s.data,
                Append(s.events,
                       [kind |-> "option", what |-> Upto(v, MaxCmd - 2)]))
<1> DEFINE t == process_byte(s, "IAC")
           r == process_byte(t, "SE")
           c == Named(v)
           u == Upto(c, MaxCmd)
           e == [kind |-> "option", what |-> Upto(v, MaxCmd - 2)]
<1>0. "IAC" \in Bytes /\ "SE" \in Bytes
  BY DEF Bytes
<1>1. EventOf(u) = e
  BY OptionWhat
<1>2. c \in Seq(Bytes)
  BY NamedIs
<1> HIDE DEF c, e
<1>3. Within(s, c)
  BY DEF c
<1>4. /\ Does(t, Append(u, "IAC"), TRUE, s.data, s.events)
      /\ Len(t.cmd) > 2 /\ Front(t.cmd) = u
  BY <1>2, <1>3, EscapeWithin
<1>5. process_telnet_data(s, <<"IAC", "SE">>) = r
  BY <1>0, ProcessTwo
<1> HIDE DEF t, u
<1>6. t \in Parser /\ t.iac = TRUE /\ t.data = s.data /\ t.events = s.events
  BY <1>4 DEF Does
<1>7. ~ Through(Where(t), "SE")
  BY <1>0, <1>4, <1>6, WithinIs
<1>8. Ends(t.cmd, t.iac, "SE") /\ Whole(t.cmd, "SE") = u
  BY <1>4, <1>6 DEF Ends, Whole
<1>9. Does(r, <<>>, FALSE, t.data, Append(t.events, EventOf(u)))
  BY <1>0, <1>6, <1>7, <1>8, Concludes
<1> HIDE DEF r
<1>10. Does(r, <<>>, FALSE, s.data, Append(s.events, e))
  BY <1>1, <1>6, <1>9
<1> QED BY <1>5, <1>10 DEF e

LEMMA NamedOn ==
    ASSUME NEW v \in Seq(Bytes), NEW x \in Bytes
    PROVE  Named(Append(v, x)) = Append(Named(v), x)
<1> DEFINE l == <<"IAC", "SB">>
           o == <<x>>
<1>1. l \in Seq(Bytes) /\ o \in Seq(Bytes)
  BY DEF Bytes
<1>2. Named(v) = Joined(l, v) /\ Named(v) \in Seq(Bytes)
  BY NamedIs DEF Named, Joined
<1>3. Append(v, x) = Joined(v, o) /\ Append(Named(v), x) = Joined(Named(v), o)
  BY <1>2, AppendIsConcat DEF Joined
<1>4. Named(Append(v, x)) = Joined(l, Append(v, x))
  BY DEF Named, Joined
<1> HIDE DEF l, o
<1>5. Joined(Joined(l, v), o) = Joined(l, Joined(v, o))
  BY <1>1, Regroup
<1> QED BY <1>2, <1>3, <1>4, <1>5

\* An option's name and argument, up to its end.
LEMMA OptionRead ==
    ASSUME NEW s \in Parser, s.cmd = <<"IAC", "SB">>
    PROVE  \A v \in Seq(Bytes) :
              v # <<>> /\ v[1] # "IAC" =>
                /\ Quiet(s, process_telnet_data(s, DoubleIACs(v)))
                /\ Within(process_telnet_data(s, DoubleIACs(v)), Named(v))
<1> DEFINE R(v) == process_telnet_data(s, DoubleIACs(v))
           P == {v \in Seq(Bytes) : v # <<>> /\ v[1] # "IAC" =>
                                        Quiet(s, R(v)) /\ Within(R(v), Named(v))}
<1>1. <<>> \in P
  OBVIOUS
<1>2. ASSUME NEW v \in Seq(Bytes), NEW x \in Bytes, v \in P
      PROVE  Append(v, x) \in P
  <2> DEFINE w == Append(v, x)
  <2>1. w \in Seq(Bytes)
    OBVIOUS
  <2>2. SUFFICES ASSUME w[1] # "IAC"
                 PROVE  Quiet(s, R(w)) /\ Within(R(w), Named(w))
    BY <2>1
  <2>3. CASE v = <<>>
    <3>1. w = <<x>> /\ x # "IAC"
      BY <2>2, <2>3
    <3>2. R(w) = process_byte(s, x)
      BY <3>1, DoubledOnce, ProcessOne DEF Twice
    <3>3. Quiet(s, process_byte(s, x)) /\ Within(process_byte(s, x), Named(<<x>>))
      BY NameRead
    <3> HIDE DEF w, R
    <3> QED BY <3>1, <3>2, <3>3
  <2>4. CASE v # <<>>
    <3> DEFINE q == R(v)
               r == process_telnet_data(q, Twice(x))
    <3>1. v[1] = w[1]
      BY <2>4
    <3>2. Quiet(s, q) /\ Within(q, Named(v))
      BY <1>2, <2>2, <2>4, <3>1
    <3>3. R(w) = r
      <4> DEFINE d == DoubleIACs(v)
                 y == Twice(x)
      <4>1. DoubleIACs(w) = d \o y
        BY DoubledOn
      <4>2. d \in Seq(Bytes) /\ y \in Seq(Bytes)
        BY DoubledType, TwiceType
      <4> HIDE DEF d, y
      <4>3. process_telnet_data(s, d \o y)
                = process_telnet_data(process_telnet_data(s, d), y)
        BY <4>2, ProcessConcat
      <4> QED BY <4>1, <4>3 DEF d, y
    <3>4. q \in Parser
      BY <3>2 DEF Quiet
    <3>5. Named(v) \in Seq(Bytes)
      BY NamedIs
    <3> HIDE DEF q
    <3>6. Quiet(q, r) /\ Within(r, Append(Named(v), x))
      BY <3>2, <3>4, <3>5, ArgumentRead
    <3> HIDE DEF r
    <3>7. Quiet(s, r)
      BY <3>2, <3>6 DEF Quiet
    <3>8. Within(r, Named(w))
      BY <3>6, NamedOn
    <3> QED BY <3>3, <3>7, <3>8
  <2> QED BY <2>3, <2>4
<1>3. \A v \in Seq(Bytes), x \in Bytes : v \in P => Append(v, x) \in P
  BY <1>2
<1> HIDE DEF P
<1>4. Seq(Bytes) \subseteq P
  BY <1>1, <1>3, ByAppending
<1> QED BY <1>4 DEF P

\* A message is let through, or carried out when its last byte is read.
Received(s, m, r) ==
    Does(r, <<>>, FALSE,
         IF m.kind = "data" THEN s.data \o m.what ELSE s.data,
         IF m.kind = "data" THEN s.events ELSE Append(s.events, Kept(m)))

\* The bytes around an option.
Frames ==
    /\ <<"IAC", "SB">> \in Seq(Bytes) /\ <<"IAC", "SE">> \in Seq(Bytes)
    /\ <<"IAC", "a">> \in Seq(Bytes) /\ <<"IAC">> \in Seq(Bytes)
    /\ <<"IAC", "a">> \o <<"IAC", "SE">> = <<"IAC", "a", "IAC", "SE">>

LEMMA FramesAre == Frames
<1>1. "IAC" \in Bytes /\ "SB" \in Bytes /\ "SE" \in Bytes /\ "a" \in Bytes
  BY DEF Bytes
<1>2. <<"IAC", "a">> \o <<"IAC", "SE">> = <<"IAC", "a", "IAC", "SE">>
  <2>2. PICK i, a, e \in Bytes : i = "IAC" /\ a = "a" /\ e = "SE"
    BY <1>1
  <2>3. <<i, a>> \o <<i, e>> = <<i, a, i, e>>
    BY FourConcat
  <2> QED BY <2>2, <2>3, Zenon
<1> QED BY <1>1, <1>2 DEF Frames

\* Both kinds of option.
LEMMA OptionReceived ==
    ASSUME NEW s \in Parser, s.cmd = <<>>,
           NEW v \in Seq(Bytes), v # <<>>, v[1] # "IAC"
    PROVE  LET q == process_telnet_data(s, <<"IAC", "SB">> \o DoubleIACs(v))
               e == [kind |-> "option", what |-> Upto(v, MaxCmd - 2)]
               x == Append(s.events, e)
           IN  /\ q \in Parser
               /\ Does(process_telnet_data(q, <<"IAC", "SE">>), <<>>, FALSE, s.data, x)
               /\ Does(process_telnet_data(process_telnet_data(q, <<"IAC", "a">>),
                                           <<"IAC", "SE">>), <<>>, FALSE, s.data, x)
<1> DEFINE l == <<"IAC", "SB">>
           d == DoubleIACs(v)
           p == process_telnet_data(s, l)
           q == process_telnet_data(s, l \o d)
           t == process_telnet_data(q, <<"IAC", "a">>)
           e == [kind |-> "option", what |-> Upto(v, MaxCmd - 2)]
<1>1. Does(p, <<"IAC", "SB">>, FALSE, s.data, s.events)
  BY OptionBegun
<1>2. d \in Seq(Bytes) /\ l \in Seq(Bytes)
  BY DoubledType, FramesAre DEF Frames
<1>3. q = process_telnet_data(p, d)
  <2> HIDE DEF d, l
  <2> QED BY <1>2, ProcessConcat
<1> HIDE DEF p
<1>4. p \in Parser /\ p.cmd = <<"IAC", "SB">> /\ p.data = s.data
      /\ p.events = s.events
  BY <1>1 DEF Does
<1>5. Quiet(p, q) /\ Within(q, Named(v))
  BY <1>3, <1>4, OptionRead
<1> HIDE DEF q
<1>6. q \in Parser /\ q.data = s.data /\ q.events = s.events
  BY <1>4, <1>5 DEF Quiet
<1>7. Does(process_telnet_data(q, <<"IAC", "SE">>), <<>>, FALSE, q.data,
           Append(q.events, e))
  BY <1>5, <1>6, EndRead
<1>8. Quiet(q, t) /\ Within(t, Named(v))
  BY <1>5, <1>6, NamedIs, StrayRead
<1> HIDE DEF t
<1>9. t \in Parser /\ t.data = s.data /\ t.events = s.events
  BY <1>6, <1>8 DEF Quiet
<1>10. Does(process_telnet_data(t, <<"IAC", "SE">>), <<>>, FALSE, t.data,
            Append(t.events, e))
  BY <1>8, <1>9, EndRead
<1> HIDE DEF e
<1> QED BY <1>6, <1>7, <1>9, <1>10 DEF q, t, e, l, d

\* The messages are as the assumption has them.
LEMMA MessageIs ==
    ASSUME NEW m \in Messages
    PROVE  /\ m.kind \in Kinds /\ m.what \in Seq(Bytes)
           /\ m = [kind |-> m.kind, what |-> m.what]
           /\ m.kind = "data" => \E x \in Bytes : m.what = <<x>>
           /\ m.kind = "command" => \E x \in {"a", "e", "SE"} : m.what = <<x>>
           /\ m.kind = "negotiation" => \E x \in Bytes : m.what = <<"WILL", x>>
           /\ m.kind \in {"option", "misformed"} =>
                    m.what # <<>> /\ m.what[1] # "IAC"
<1>1. /\ m \in [kind : Kinds, what : Seq(Bytes)]
      /\ m.kind = "data" => Len(m.what) = 1
      /\ m.kind = "command" => \E x \in {"a", "e", "SE"} : m.what = <<x>>
      /\ m.kind = "negotiation" => \E x \in Bytes : m.what = <<"WILL", x>>
      /\ m.kind \in {"option", "misformed"} =>
            m.what # <<>> /\ m.what[1] # "IAC"
  BY MessagesAssumption
<1>2. m.kind \in Kinds /\ m.what \in Seq(Bytes)
      /\ m = [kind |-> m.kind, what |-> m.what]
  BY <1>1
<1>3. ASSUME m.kind = "data" PROVE \E x \in Bytes : m.what = <<x>>
  <2> DEFINE w == m.what
             x == w[1]
  <2>1. w \in Seq(Bytes) /\ Len(w) = 1
    BY <1>1, <1>2, <1>3
  <2> HIDE DEF w
  <2>2. x \in Bytes /\ w = <<x>>
    BY <2>1
  <2> QED BY <2>2 DEF w
<1> QED BY <1>1, <1>2, <1>3

LEMMA MessageRead ==
    ASSUME NEW s \in Parser, s.cmd = <<>>, NEW m \in Messages
    PROVE  Received(s, m, process_telnet_data(s, Encode(m)))
<1> DEFINE r == process_telnet_data(s, Encode(m))
           v == m.what
           d == DoubleIACs(v)
           e == [kind |-> "option", what |-> Upto(v, MaxCmd - 2)]
<1>1. /\ m.kind \in Kinds /\ v \in Seq(Bytes)
      /\ m = [kind |-> m.kind, what |-> v]
  BY MessageIs
<1>2. CASE m.kind = "data"
  <2>1. PICK x \in Bytes : v = <<x>>
    BY <1>2, MessageIs
  <2>2. Encode(m) = Twice(x)
    BY <1>2, <2>1, DoubledOnce DEF Encode
  <2>3. Does(r, <<>>, FALSE, Append(s.data, x), s.events)
    BY <2>2, DataRead
  <2>4. Append(s.data, x) = s.data \o v
    BY <2>1, ParserIs, AppendIsConcat
  <2> HIDE DEF r, v
  <2> QED BY <1>2, <2>3, <2>4 DEF Received, r, v
<1>3. CASE m.kind = "command"
  <2>1. PICK x \in {"a", "e", "SE"} : v = <<x>>
    BY <1>3, MessageIs
  <2>2. Encode(m) = <<"IAC", x>>
    <3>1. \A i, j \in Bytes : <<i>> \o <<j>> = <<i, j>>
      BY TwoConcat
    <3>2. "IAC" \in Bytes /\ x \in Bytes
      BY DEF Bytes
    <3>3. <<"IAC">> \o <<x>> = <<"IAC", x>>
      BY <3>1, <3>2
    <3>4. Encode(m) = <<"IAC">> \o v
      BY <1>3 DEF Encode
    <3> QED BY <2>1, <3>3, <3>4
  <2>3. Does(r, <<>>, FALSE, s.data,
             Append(s.events, [kind |-> "command", what |-> <<x>>]))
    BY <2>2, CommandRead
  <2>4. Kept(m) = [kind |-> "command", what |-> <<x>>]
    BY <1>1, <1>3, <2>1 DEF Kept
  <2> HIDE DEF r, v
  <2> QED BY <1>3, <2>3, <2>4 DEF Received, r
<1>4. CASE m.kind = "negotiation"
  <2>1. PICK x \in Bytes : v = <<"WILL", x>>
    BY <1>4, MessageIs
  <2>2. Encode(m) = <<"IAC", "WILL", x>>
    <3>1. \A i, j \in Bytes : <<i>> \o <<j, x>> = <<i, j, x>>
      BY ThreeConcat
    <3>2. "IAC" \in Bytes /\ "WILL" \in Bytes
      BY DEF Bytes
    <3>3. <<"IAC">> \o <<"WILL", x>> = <<"IAC", "WILL", x>>
      BY <3>1, <3>2
    <3>4. Encode(m) = <<"IAC">> \o v
      BY <1>4 DEF Encode
    <3> QED BY <2>1, <3>3, <3>4
  <2>3. Does(r, <<>>, FALSE, s.data,
             Append(s.events, [kind |-> "negotiation", what |-> <<"WILL", x>>]))
    BY <2>2, NegotiationRead
  <2>4. Kept(m) = [kind |-> "negotiation", what |-> <<"WILL", x>>]
    BY <1>1, <1>4, <2>1 DEF Kept
  <2> HIDE DEF r, v
  <2> QED BY <1>4, <2>3, <2>4 DEF Received, r
<1>5. CASE m.kind \in {"option", "misformed"}
  <2> DEFINE l == <<"IAC", "SB">>
             n == <<"IAC", "SE">>
             a == <<"IAC", "a">>
             g == l \o d
             q == process_telnet_data(s, g)
             x == Append(s.events, e)
  <2>1. v # <<>> /\ v[1] # "IAC"
    BY <1>5, MessageIs
  <2>2. /\ q \in Parser
        /\ Does(process_telnet_data(q, n), <<>>, FALSE, s.data, x)
        /\ Does(process_telnet_data(process_telnet_data(q, a), n),
                <<>>, FALSE, s.data, x)
    BY <1>1, <2>1, OptionReceived
  <2>3. Kept(m) = e
    BY <1>5 DEF Kept
  <2>4. /\ l \in Seq(Bytes) /\ n \in Seq(Bytes) /\ a \in Seq(Bytes)
        /\ a \o n = <<"IAC", "a", "IAC", "SE">>
    BY FramesAre DEF Frames
  <2>5. Encode(m) = g \o IF m.kind = "option" THEN n ELSE <<"IAC", "a", "IAC", "SE">>
    BY <1>5 DEF Encode
  <2>6. g \in Seq(Bytes)
    <3>1. d \in Seq(Bytes)
      BY <1>1, DoubledType
    <3> HIDE DEF d, l
    <3> QED BY <2>4, <3>1, ConcatProperties
  <2>7. m.kind # "data"
    BY <1>5
  <2> HIDE DEF g, n, a, e, r, v, x
  <2>8. CASE m.kind = "option"
    <3>1. process_telnet_data(s, g \o n) = process_telnet_data(q, n)
      BY <2>4, <2>6, ProcessConcat
    <3> HIDE DEF q
    <3>2. Does(r, <<>>, FALSE, s.data, x)
      BY <2>2, <2>5, <2>8, <3>1 DEF r
    <3> QED BY <2>3, <2>7, <3>2 DEF Received, r, x
  <2>9. CASE m.kind # "option"
    <3>1. process_telnet_data(s, g \o (a \o n))
            = process_telnet_data(process_telnet_data(q, a), n)
      <4>1. a \o n \in Seq(Bytes)
        BY <2>4, ConcatProperties
      <4>2. process_telnet_data(s, g \o (a \o n)) = process_telnet_data(q, a \o n)
        BY <2>6, <4>1, ProcessConcat
      <4> HIDE DEF q
      <4>3. process_telnet_data(q, a \o n)
                = process_telnet_data(process_telnet_data(q, a), n)
        BY <2>2, <2>4, ProcessConcat
      <4> QED BY <4>2, <4>3 DEF q
    <3> HIDE DEF q
    <3>2. Does(r, <<>>, FALSE, s.data, x)
      BY <2>2, <2>4, <2>5, <2>9, <3>1 DEF r
    <3> QED BY <2>3, <2>7, <3>2 DEF Received, r, x
  <2> QED BY <2>8, <2>9
<1> QED BY <1>1, <1>2, <1>3, <1>4, <1>5 DEF Kinds

-----------------------------------------------------------------------------
(* Sequences of things, sifted by kind.                                    *)

LEMMA EachConcat ==
    ASSUME NEW S, NEW T, NEW G, Maps(G, S, T), NEW v \in Seq(S), NEW w \in Seq(S)
    PROVE  Each(G, v \o w) = Each(G, v) \o Each(G, w)
<1>0. G \in [S -> T]
  BY DEF Maps
<1> DEFINE u == v \o w
           x == Each(G, v)
           y == Each(G, w)
           a == Each(G, u)
           b == x \o y
<1>1. /\ u \in Seq(S) /\ Len(u) = Len(v) + Len(w)
      /\ \A i \in 1 .. Len(v) + Len(w) :
            u[i] = IF i <= Len(v) THEN v[i] ELSE w[i - Len(v)]
      /\ Len(v) \in Nat /\ Len(w) \in Nat
  BY ConcatProperties
<1>2. /\ x \in Seq(T) /\ Len(x) = Len(v) /\ y \in Seq(T) /\ Len(y) = Len(w)
  <2>1. x \in Seq(T) /\ y \in Seq(T)
    BY <1>0, EachType
  <2>2. Len(x) = Len(v) /\ Len(y) = Len(w)
    BY EachLength
  <2> QED BY <2>1, <2>2
<1>3. /\ \A i \in 1 .. Len(v) : x[i] = G[v[i]]
      /\ \A i \in 1 .. Len(w) : y[i] = G[w[i]]
  BY EachIs
<1> HIDE DEF u
<1>4. a \in Seq(T) /\ Len(a) = Len(u) /\ \A i \in 1 .. Len(u) : a[i] = G[u[i]]
  <2>1. u \in Seq(S)
    BY <1>1
  <2>2. a \in Seq(T)
    BY <1>0, <2>1, EachType
  <2>3. Len(a) = Len(u) /\ \A i \in 1 .. Len(u) : a[i] = G[u[i]]
    BY <2>1, EachLength, EachIs
  <2> QED BY <2>2, <2>3
<1> HIDE DEF x, y, a
<1>5. /\ b \in Seq(T) /\ Len(b) = Len(x) + Len(y)
      /\ \A i \in 1 .. Len(x) + Len(y) :
            b[i] = IF i <= Len(x) THEN x[i] ELSE y[i - Len(x)]
  BY <1>2, ConcatProperties
<1> HIDE DEF b
<1>6. ASSUME NEW i \in 1 .. Len(a) PROVE a[i] = b[i]
  <2>1. i \in 1 .. Len(v) + Len(w) /\ i \in 1 .. Len(u)
    BY <1>1, <1>4
  <2>2. CASE i <= Len(v)
    <3>1. i \in 1 .. Len(v)
      BY <1>1, <2>1, <2>2
    <3>2. a[i] = G[u[i]] /\ u[i] = v[i]
      BY <1>1, <1>4, <2>1, <2>2
    <3>3. b[i] = x[i]
      BY <1>2, <1>5, <2>1, <2>2
    <3>4. x[i] = G[v[i]]
      BY <1>3, <3>1
    <3> QED BY <3>2, <3>3, <3>4
  <2>3. CASE ~ (i <= Len(v))
    <3>1. i - Len(v) \in 1 .. Len(w)
      BY <1>1, <2>1, <2>3
    <3>2. a[i] = G[u[i]] /\ u[i] = w[i - Len(v)]
      BY <1>1, <1>4, <2>1, <2>3
    <3>3. b[i] = y[i - Len(v)]
      BY <1>2, <1>5, <2>1, <2>3
    <3>4. y[i - Len(v)] = G[w[i - Len(v)]]
      BY <1>3, <3>1
    <3> QED BY <3>2, <3>3, <3>4
  <2> QED BY <2>2, <2>3
<1>7. a = b
  <2>1. Len(a) = Len(b)
    BY <1>1, <1>2, <1>4, <1>5
  <2> QED BY <1>4, <1>5, <1>6, <2>1, SeqEqual
<1> QED BY <1>7 DEF a, b, x, y, u

\* What a sequence grows from is a prefix of it, as long as it is.
LEMMA GrownFrom ==
    ASSUME NEW S, NEW s \in Seq(S), NEW d \in Seq(S)
    PROVE  /\ IsPrefix(s, s \o d) /\ Len(s) <= Len(s \o d)
           /\ SubSeq(s \o d, 1, Len(s)) = s
<1> DEFINE t == s \o d
<1>1. Len(t) = Len(s) + Len(d) /\ Len(s) \in Nat /\ Len(d) \in Nat
  BY ConcatProperties
<1>2. SubSeq(t, 1, Len(s)) = s /\ SubSeq(s, 1, Len(s)) = s
  <2>1. CASE Len(s) = 0
    <3>1. s = <<>>
      BY <2>1
    <3>2. SubSeq(t, 1, Len(s)) = <<>> /\ SubSeq(s, 1, Len(s)) = <<>>
      BY <2>1, SubSeqEmpty
    <3> QED BY <3>1, <3>2
  <2>2. CASE Len(s) # 0
    <3>1. 1 \in 1 .. Len(s) /\ Len(s) \in 1 .. Len(s)
      BY <1>1, <2>2
    <3>2. SubSeq(t, 1, Len(s)) = SubSeq(s, 1, Len(s))
      BY <3>1, SubSeqOfConcat1
    <3>3. SubSeq(s, 1, Len(s)) = s
      BY SubSeqFull
    <3> QED BY <3>2, <3>3
  <2> QED BY <2>1, <2>2
<1> HIDE DEF t
<1>3. IsPrefix(s, t) /\ Len(s) <= Len(t)
  BY <1>1, <1>2 DEF IsPrefix
<1> QED BY <1>2, <1>3 DEF t

Things == [kind : Kinds, what : Seq(Bytes)]
Sift(K) == [x \in Things |-> IF x.kind \in K THEN <<x>> ELSE <<>>]

LEMMA SiftType == ASSUME NEW K PROVE Sift(K) \in [Things -> Seq(Things)]
<1>1. ASSUME NEW x \in Things
      PROVE  (IF x.kind \in K THEN <<x>> ELSE <<>>) \in Seq(Things)
  OBVIOUS
<1> QED BY <1>1 DEF Sift

LEMMA SiftIs ==
    ASSUME NEW K, NEW s \in Seq(Things) PROVE OfKind(s, K) = Spread(Sift(K), s)
<1> DEFINE f == [i \in DOMAIN s |-> IF s[i].kind \in K THEN <<s[i]>> ELSE <<>>]
<1>1. \A i \in DOMAIN s : s[i] \in Things
  OBVIOUS
<1>2. \A i \in DOMAIN s : Sift(K)[s[i]] = IF s[i].kind \in K THEN <<s[i]>> ELSE <<>>
  BY <1>1 DEF Sift
<1>3. f = Each(Sift(K), s)
  BY <1>2 DEF Each
<1> QED BY <1>3 DEF OfKind, Spread

LEMMA OfKindType ==
    ASSUME NEW K, NEW s \in Seq(Things)
    PROVE  OfKind(s, K) \in Seq(Things) /\ Len(OfKind(s, K)) \in Nat
<1>1. OfKind(s, K) \in Seq(Things)
  BY SiftType, SiftIs, SpreadType
<1> HIDE DEF OfKind
<1> QED BY <1>1

LEMMA OfKindNothing == ASSUME NEW K PROVE OfKind(<<>>, K) = <<>>
<1>1. <<>> \in Seq(Things)
  OBVIOUS
<1> QED BY <1>1, SiftIs, SpreadNothing

LEMMA OfKindAppend ==
    ASSUME NEW K, NEW s \in Seq(Things), NEW x \in Things
    PROVE  OfKind(Append(s, x), K)
                = OfKind(s, K) \o IF x.kind \in K THEN <<x>> ELSE <<>>
<1>1. Append(s, x) \in Seq(Things)
  OBVIOUS
<1>2. Spread(Sift(K), Append(s, x)) = Spread(Sift(K), s) \o Sift(K)[x]
  BY SiftType, SpreadAppend
<1>3. Sift(K)[x] = IF x.kind \in K THEN <<x>> ELSE <<>>
  BY DEF Sift
<1> QED BY <1>1, <1>2, <1>3, SiftIs

LEMMA OfKindConcat ==
    ASSUME NEW K, NEW s \in Seq(Things), NEW t \in Seq(Things)
    PROVE  OfKind(s \o t, K) = OfKind(s, K) \o OfKind(t, K)
<1>1. s \o t \in Seq(Things)
  BY ConcatProperties
<1> DEFINE G == Sift(K)
<1>2. Maps(G, Things, Seq(Things))
  BY SiftType DEF Maps
<1> HIDE DEF G
<1>3. \A w \in Seq(Things) : Spread(G, s \o w) = Spread(G, s) \o Spread(G, w)
  BY <1>2, SpreadConcat
<1>4. Spread(G, s \o t) = Spread(G, s) \o Spread(G, t)
  BY <1>3
<1> QED BY <1>1, <1>4, SiftIs DEF G

\* A sequence whose members are all of these kinds, or none of them.
LEMMA AllOfKind ==
    ASSUME NEW K, NEW T, T \subseteq Things, \A x \in T : x.kind \in K,
           NEW s \in Seq(T)
    PROVE  OfKind(s, K) = s
<1> DEFINE P == {t \in Seq(T) : OfKind(t, K) = t}
<1>1. <<>> \in P
  BY OfKindNothing
<1>2. ASSUME NEW t \in Seq(T), NEW x \in T, t \in P PROVE Append(t, x) \in P
  <2>1. t \in Seq(Things) /\ x \in Things
    OBVIOUS
  <2>2. OfKind(Append(t, x), K) = OfKind(t, K) \o IF x.kind \in K THEN <<x>> ELSE <<>>
    BY <2>1, OfKindAppend
  <2>3. OfKind(t, K) = t /\ x.kind \in K
    BY <1>2
  <2>4. Append(t, x) = t \o <<x>>
    BY AppendIsConcat
  <2>5. Append(t, x) \in Seq(T)
    OBVIOUS
  <2> QED BY <2>2, <2>3, <2>4, <2>5
<1>3. \A t \in Seq(T), x \in T : t \in P => Append(t, x) \in P
  BY <1>2
<1> HIDE DEF P
<1>4. Seq(T) \subseteq P
  BY <1>1, <1>3, ByAppending
<1> QED BY <1>4 DEF P

LEMMA NoneOfKind ==
    ASSUME NEW K, NEW T, T \subseteq Things, \A x \in T : x.kind \notin K,
           NEW s \in Seq(T)
    PROVE  OfKind(s, K) = <<>>
<1> DEFINE P == {t \in Seq(T) : OfKind(t, K) = <<>>}
<1>1. <<>> \in P
  BY OfKindNothing
<1>2. ASSUME NEW t \in Seq(T), NEW x \in T, t \in P PROVE Append(t, x) \in P
  <2>1. t \in Seq(Things) /\ x \in Things
    OBVIOUS
  <2>2. OfKind(Append(t, x), K) = OfKind(t, K) \o IF x.kind \in K THEN <<x>> ELSE <<>>
    BY <2>1, OfKindAppend
  <2>3. OfKind(t, K) = <<>> /\ x.kind \notin K
    BY <1>2
  <2>4. <<>> \in Seq(Things)
    OBVIOUS
  <2>5. <<>> \o <<>> = <<>>
    BY <2>4, ConcatEmptySeq
  <2>6. Append(t, x) \in Seq(T)
    OBVIOUS
  <2> QED BY <2>2, <2>3, <2>5, <2>6
<1>3. \A t \in Seq(T), x \in T : t \in P => Append(t, x) \in P
  BY <1>2
<1> HIDE DEF P
<1>4. Seq(T) \subseteq P
  BY <1>1, <1>3, ByAppending
<1> QED BY <1>4 DEF P

\* Every thing is data or a command.
LEMMA Halves ==
    ASSUME NEW s \in Seq(Things)
    PROVE  Len(OfKind(s, Data)) + Len(OfKind(s, Commanding)) = Len(s)
<1> DEFINE P == {t \in Seq(Things) :
                    Len(OfKind(t, Data)) + Len(OfKind(t, Commanding)) = Len(t)}
<1>1. <<>> \in P
  <2>1. Len(<<>>) + Len(<<>>) = Len(<<>>) /\ <<>> \in Seq(Things)
    OBVIOUS
  <2> QED BY <2>1, OfKindNothing
<1>2. ASSUME NEW t \in Seq(Things), NEW x \in Things, t \in P
      PROVE  Append(t, x) \in P
  <2> DEFINE o == <<x>>
             a == OfKind(t, Data)
             b == OfKind(t, Commanding)
             r == Append(t, x)
  <2>1. o \in Seq(Things) /\ Len(o) = 1 /\ <<>> \in Seq(Things) /\ Len(<<>>) = 0
    OBVIOUS
  <2>2. a \in Seq(Things) /\ b \in Seq(Things)
    BY OfKindType
  <2>3. /\ OfKind(r, Data) = a \o IF x.kind \in Data THEN o ELSE <<>>
        /\ OfKind(r, Commanding) = b \o IF x.kind \in Commanding THEN o ELSE <<>>
    BY OfKindAppend
  <2>4. x.kind \in Commanding <=> x.kind \notin Data
    BY DEF Things, Commanding
  <2>5. r \in Seq(Things) /\ Len(r) = Len(t) + 1
    OBVIOUS
  <2>6. Len(a) + Len(b) = Len(t)
    BY <1>2
  <2> HIDE DEF o, a, b, r
  <2>7. /\ Len(a \o o) = Len(a) + 1 /\ Len(b \o o) = Len(b) + 1
        /\ Len(a \o <<>>) = Len(a) /\ Len(b \o <<>>) = Len(b)
    <3>1. /\ Len(a \o o) = Len(a) + Len(o) /\ Len(b \o o) = Len(b) + Len(o)
      BY <2>1, <2>2, ConcatProperties
    <3>2. a \o <<>> = a /\ b \o <<>> = b
      BY <2>2, ConcatEmptySeq
    <3> QED BY <2>1, <3>1, <3>2
  <2>8. Len(a) \in Nat /\ Len(b) \in Nat
    BY <2>2
  <2>9. Len(OfKind(r, Data)) + Len(OfKind(r, Commanding)) = Len(r)
    <3>1. CASE x.kind \in Data
      <4>1. OfKind(r, Data) = a \o o /\ OfKind(r, Commanding) = b \o <<>>
        BY <2>3, <2>4, <3>1
      <4> QED BY <2>5, <2>6, <2>7, <2>8, <4>1
    <3>2. CASE x.kind \notin Data
      <4>1. OfKind(r, Data) = a \o <<>> /\ OfKind(r, Commanding) = b \o o
        BY <2>3, <2>4, <3>2
      <4> QED BY <2>5, <2>6, <2>7, <2>8, <4>1
    <3> QED BY <3>1, <3>2
  <2> QED BY <2>5, <2>9 DEF r
<1>3. \A t \in Seq(Things), x \in Things : t \in P => Append(t, x) \in P
  BY <1>2
<1> HIDE DEF P
<1>4. Seq(Things) \subseteq P
  BY <1>1, <1>3, ByAppending
<1> QED BY <1>4 DEF P

\* What is counted up to a place within the first of two sequences, and beyond.
LEMMA CountWithin ==
    ASSUME NEW K, NEW s \in Seq(Things), NEW t \in Seq(Things), NEW i \in 1 .. Len(s)
    PROVE  CountOf(s \o t, K, i) = CountOf(s, K, i)
<1>1. 1 \in 1 .. Len(s)
  OBVIOUS
<1>2. SubSeq(s \o t, 1, i) = SubSeq(s, 1, i)
  BY <1>1, SubSeqOfConcat1
<1> QED BY <1>2 DEF CountOf

LEMMA CountUpto ==
    ASSUME NEW K, NEW s \in Seq(Things), NEW i \in 0 .. Len(s)
    PROVE  CountOf(s, K, i) <= Len(OfKind(s, K)) /\ CountOf(s, K, i) \in Nat
<1> DEFINE a == SubSeq(s, 1, i)
           b == SubSeq(s, i + 1, Len(s))
           x == OfKind(a, K)
           y == OfKind(b, K)
<1>1. a \in Seq(Things) /\ b \in Seq(Things) /\ a \o b = s
  BY Cut
<1> HIDE DEF a, b
<1>2. OfKind(s, K) = x \o y
  BY <1>1, OfKindConcat
<1>3. x \in Seq(Things) /\ y \in Seq(Things)
  BY <1>1, OfKindType
<1> HIDE DEF x, y
<1>4. Len(x) <= Len(x \o y) /\ Len(x) \in Nat
  BY <1>3, GrownFrom
<1> QED BY <1>2, <1>4 DEF CountOf, x, a

LEMMA CountBeyond ==
    ASSUME NEW K, NEW s \in Seq(Things), NEW t \in Seq(Things),
           NEW i \in Len(s) .. Len(s) + Len(t)
    PROVE  Len(OfKind(s, K)) <= CountOf(s \o t, K, i)
<1> DEFINE w == s \o t
           a == SubSeq(w, 1, i)
           b == SubSeq(a, Len(s) + 1, Len(a))
           x == OfKind(s, K)
           y == OfKind(b, K)
<1>1. w \in Seq(Things) /\ Len(w) = Len(s) + Len(t) /\ Len(s) \in Nat /\ Len(t) \in Nat
      /\ \A j \in 1 .. Len(s) : w[j] = s[j]
  BY ConcatProperties
<1> HIDE DEF w
<1>2. /\ a \in Seq(Things) /\ Len(a) = i
      /\ \A j \in 1 .. i : a[j] = w[j]
  <2>1. i \in 0 .. Len(w)
    BY <1>1
  <2> QED BY <1>1, <2>1, Cut
<1> HIDE DEF a
<1>3. /\ SubSeq(a, 1, Len(s)) \in Seq(Things) /\ Len(SubSeq(a, 1, Len(s))) = Len(s)
      /\ \A j \in 1 .. Len(s) : SubSeq(a, 1, Len(s))[j] = a[j]
      /\ b \in Seq(Things) /\ SubSeq(a, 1, Len(s)) \o b = a
  <2>1. Len(s) \in 0 .. Len(a)
    BY <1>1, <1>2
  <2> QED BY <1>2, <2>1, Cut
<1> HIDE DEF b
<1>4. SubSeq(a, 1, Len(s)) = s
  <2> DEFINE c == SubSeq(a, 1, Len(s))
  <2>1. \A j \in 1 .. Len(c) : c[j] = s[j]
    <3>1. \A j \in 1 .. Len(s) : j \in 1 .. i
      BY <1>1
    <3> QED BY <1>1, <1>2, <1>3, <3>1
  <2> HIDE DEF c
  <2>2. c \in Seq(Things) /\ Len(c) = Len(s)
    BY <1>3 DEF c
  <2>3. c = s
    BY <2>1, <2>2, SeqEqual
  <2> QED BY <2>3 DEF c
<1>5. OfKind(a, K) = x \o y
  <2>1. s \o b = a
    BY <1>3, <1>4
  <2> QED BY <1>3, <2>1, OfKindConcat
<1>6. x \in Seq(Things) /\ y \in Seq(Things)
  BY <1>3, OfKindType
<1> HIDE DEF x, y
<1>7. Len(x) <= Len(x \o y)
  BY <1>6, GrownFrom
<1> QED BY <1>5, <1>7 DEF CountOf, x, a, w

-----------------------------------------------------------------------------
(* The stream of a client, and what is meant by it.                        *)

Datum == [x \in Bytes |-> [kind |-> "data", what |-> <<x>>]]

LEMMA DatumIs ==
    /\ Datum \in [Bytes -> [kind : Data, what : Seq(Bytes)]]
    /\ \A d \in Seq(Bytes) : DataEvents(d) = Each(Datum, d)
<1>1. ASSUME NEW x \in Bytes
      PROVE  [kind |-> "data", what |-> <<x>>] \in [kind : Data, what : Seq(Bytes)]
  BY DEF Data
<1>2. ASSUME NEW d \in Seq(Bytes) PROVE DataEvents(d) = Each(Datum, d)
  <2>1. \A i \in DOMAIN d : Datum[d[i]] = [kind |-> "data", what |-> <<d[i]>>]
    <3>1. \A i \in DOMAIN d : d[i] \in Bytes
      OBVIOUS
    <3> QED BY <3>1 DEF Datum
  <2> QED BY <2>1 DEF DataEvents, Each
<1> QED BY <1>1, <1>2 DEF Datum

LEMMA Wider ==
    ASSUME NEW S, NEW T, S \subseteq T, NEW s \in Seq(S) PROVE s \in Seq(T)
OBVIOUS

LEMMA DataEventsType ==
    ASSUME NEW d \in Seq(Bytes)
    PROVE  /\ DataEvents(d) \in Seq([kind : Data, what : Seq(Bytes)])
           /\ DataEvents(d) \in Seq(Things) /\ Len(DataEvents(d)) = Len(d)
<1> DEFINE g == Each(Datum, d)
<1>1. g \in Seq([kind : Data, what : Seq(Bytes)])
  BY DatumIs, EachType
<1>2. Len(g) = Len(d)
  BY EachLength
<1>3. DataEvents(d) = g
  BY DatumIs
<1>4. [kind : Data, what : Seq(Bytes)] \subseteq Things
  BY DEF Data, Things, Kinds
<1> HIDE DEF g
<1>5. g \in Seq(Things)
  BY <1>1, <1>4, Wider
<1> QED BY <1>1, <1>2, <1>3, <1>5

LEMMA DataEventsConcat ==
    ASSUME NEW d \in Seq(Bytes), NEW e \in Seq(Bytes)
    PROVE  DataEvents(d \o e) = DataEvents(d) \o DataEvents(e)
<1>1. d \o e \in Seq(Bytes)
  BY ConcatProperties
<1>2. Each(Datum, d \o e) = Each(Datum, d) \o Each(Datum, e)
  <2>1. Maps(Datum, Bytes, [kind : Data, what : Seq(Bytes)])
    BY DatumIs DEF Maps
  <2> QED BY <2>1, EachConcat
<1>3. /\ DataEvents(d) = Each(Datum, d) /\ DataEvents(e) = Each(Datum, e)
  BY DatumIs
<1>4. DataEvents(d \o e) = Each(Datum, d \o e)
  BY <1>1, DatumIs
<1> QED BY <1>2, <1>3, <1>4

Keep == [m \in Messages |-> Kept(m)]

LEMMA KeptType == ASSUME NEW m \in Messages PROVE Kept(m) \in Things
<1>1. /\ m.kind \in Kinds /\ m.what \in Seq(Bytes)
      /\ m = [kind |-> m.kind, what |-> m.what]
  BY MessageIs
<1>2. MaxCmd - 2 \in Nat
  BY TelnetSizesAssumption
<1>3. Upto(m.what, MaxCmd - 2) \in Seq(Bytes)
  BY <1>1, <1>2, UptoType
<1> DEFINE w == m.what
           u == Upto(w, MaxCmd - 2)
<1> HIDE DEF u, w
<1>4. [kind |-> "option", what |-> u] \in Things /\ [kind |-> m.kind, what |-> w] \in Things
  BY <1>1, <1>3 DEF Things, Kinds, u, w
<1> QED BY <1>1, <1>4 DEF Kept, u, w

LEMMA KeepIs ==
    /\ Keep \in [Messages -> Things]
    /\ \A ms \in Seq(Messages) : KeptOf(ms) = Each(Keep, ms)
<1>1. Keep \in [Messages -> Things]
  BY KeptType DEF Keep
<1>2. ASSUME NEW ms \in Seq(Messages) PROVE KeptOf(ms) = Each(Keep, ms)
  <2>1. \A i \in DOMAIN ms : ms[i] \in Messages
    OBVIOUS
  <2>2. \A i \in DOMAIN ms : Keep[ms[i]] = Kept(ms[i])
    BY <2>1 DEF Keep
  <2> QED BY <2>2 DEF KeptOf, Each
<1> QED BY <1>1, <1>2

LEMMA KeptOfType ==
    ASSUME NEW ms \in Seq(Messages)
    PROVE  KeptOf(ms) \in Seq(Things) /\ Len(KeptOf(ms)) = Len(ms)
<1> DEFINE g == Each(Keep, ms)
<1>1. g \in Seq(Things)
  BY KeepIs, EachType
<1>2. Len(g) = Len(ms)
  BY EachLength
<1> QED BY <1>1, <1>2, KeepIs

LEMMA KeptOfAppend ==
    ASSUME NEW ms \in Seq(Messages), NEW m \in Messages
    PROVE  KeptOf(Append(ms, m)) = Append(KeptOf(ms), Kept(m))
<1>1. Append(ms, m) \in Seq(Messages)
  OBVIOUS
<1>2. Each(Keep, Append(ms, m)) = Append(Each(Keep, ms), Keep[m])
  BY KeepIs, EachAppend
<1>3. Keep[m] = Kept(m)
  BY DEF Keep
<1> QED BY <1>1, <1>2, <1>3, KeepIs

LEMMA KeptOfConcat ==
    ASSUME NEW ms \in Seq(Messages), NEW ns \in Seq(Messages)
    PROVE  KeptOf(ms \o ns) = KeptOf(ms) \o KeptOf(ns)
<1>1. ms \o ns \in Seq(Messages)
  BY ConcatProperties
<1>2. Each(Keep, ms \o ns) = Each(Keep, ms) \o Each(Keep, ns)
  <2>1. Maps(Keep, Messages, Things)
    BY KeepIs DEF Maps
  <2> QED BY <2>1, EachConcat
<1>3. KeptOf(ms) = Each(Keep, ms) /\ KeptOf(ns) = Each(Keep, ns)
  BY KeepIs
<1>4. KeptOf(ms \o ns) = Each(Keep, ms \o ns)
  BY <1>1, KeepIs
<1> QED BY <1>2, <1>3, <1>4

Code == [m \in Messages |-> Encode(m)]
Stream(ms) == Spread(Code, ms)

LEMMA CodeType == Code \in [Messages -> Seq(Bytes)]
BY EncodeType DEF Code

LEMMA StreamType == ASSUME NEW ms \in Seq(Messages) PROVE Stream(ms) \in Seq(Bytes)
BY CodeType, SpreadType DEF Stream

LEMMA StreamNothing == Stream(<<>>) = <<>>
BY SpreadNothing DEF Stream

LEMMA StreamAppend ==
    ASSUME NEW ms \in Seq(Messages), NEW m \in Messages
    PROVE  Stream(Append(ms, m)) = Stream(ms) \o Encode(m)
<1>1. Spread(Code, Append(ms, m)) = Spread(Code, ms) \o Code[m]
  BY CodeType, SpreadAppend
<1>2. Code[m] = Encode(m)
  BY DEF Code
<1> QED BY <1>1, <1>2 DEF Stream

LEMMA StreamConcat ==
    ASSUME NEW ms \in Seq(Messages), NEW ns \in Seq(Messages)
    PROVE  Stream(ms \o ns) = Stream(ms) \o Stream(ns)
<1>1. Maps(Code, Messages, Seq(Bytes))
  BY CodeType DEF Maps
<1>2. \A w \in Seq(Messages) : Spread(Code, ms \o w) = Spread(Code, ms) \o Spread(Code, w)
  BY <1>1, SpreadConcat
<1> QED BY <1>2 DEF Stream

\* The parser, when w has been read since the session began.
Apart(w) == process_telnet_data(AtRest, w)

LEMMA ApartIs ==
    /\ \A w \in Seq(Bytes) : Apart(w) \in Parser
    /\ Apart(<<>>) = AtRest
    /\ \A v, w \in Seq(Bytes) : Apart(v \o w) = process_telnet_data(Apart(v), w)
<1>1. AtRest \in Parser
  BY AtRestIs
<1>2. \A w \in Seq(Bytes) : process_telnet_data(AtRest, w) \in Parser
  BY <1>1, ProcessType
<1>3. process_telnet_data(AtRest, <<>>) = AtRest
  BY <1>1, ProcessNothing
<1>4. \A v, w \in Seq(Bytes) :
        process_telnet_data(AtRest, v \o w)
            = process_telnet_data(process_telnet_data(AtRest, v), w)
  BY <1>1, ProcessConcat
<1> QED BY <1>2, <1>3, <1>4, Zenon DEF Apart

LEMMA ApartGrows ==
    ASSUME NEW v \in Seq(Bytes), NEW w \in Seq(Bytes)
    PROVE  \E d \in Seq(Bytes), e \in Seq(Events) :
             /\ Apart(v \o w).data = Apart(v).data \o d
             /\ Apart(v \o w).events = Apart(v).events \o e
<1> DEFINE t == Apart(v)
           r == process_telnet_data(t, w)
<1>1. t \in Parser /\ Apart(v \o w) = r
  BY ApartIs
<1> HIDE DEF t
<1>2. Same(t, t)
  BY DEF Same
<1>3. Grown(t, t, r, r)
  BY <1>1, <1>2, Twin
<1> HIDE DEF r
<1>4. \E d \in Seq(Bytes), e \in Seq(Events) :
        r.data = t.data \o d /\ r.events = t.events \o e
  BY <1>3 DEF Grown
<1> QED BY <1>1, <1>4 DEF t

\* What a stream says: the data and the commands its client means.
Says(r, ms) ==
    /\ r.cmd = <<>> /\ r.iac = FALSE
    /\ DataEvents(r.data) = OfKind(KeptOf(ms), Data)
    /\ r.events = OfKind(KeptOf(ms), Commanding)

LEMMA SaysOn ==
    ASSUME NEW ms \in Seq(Messages), NEW m \in Messages,
           NEW q \in Parser, Says(q, ms), NEW r, Received(q, m, r)
    PROVE  Says(r, Append(ms, m))
<1> DEFINE k == Kept(m)
           o == <<k>>
           g == KeptOf(ms)
           h == KeptOf(Append(ms, m))
<1>1. /\ m.kind \in Kinds /\ m.what \in Seq(Bytes)
      /\ m = [kind |-> m.kind, what |-> m.what]
      /\ m.kind = "data" => \E x \in Bytes : m.what = <<x>>
  BY MessageIs
<1>2. k \in Things /\ g \in Seq(Things) /\ h = Append(g, k)
  BY KeptType, KeptOfType, KeptOfAppend
<1>3. q.data \in Seq(Bytes) /\ q.events \in Seq(Events)
  BY ParserIs
<1>4. /\ DataEvents(q.data) = OfKind(g, Data) /\ q.events = OfKind(g, Commanding)
  BY DEF Says
<1>5. r.cmd = <<>> /\ r.iac = FALSE
  BY DEF Received, Does
<1>6. CASE m.kind = "data"
  <2>1. r.data = q.data \o m.what /\ r.events = q.events
    BY <1>6 DEF Received, Does
  <2>2. PICK x \in Bytes : m.what = <<x>>
    BY <1>1, <1>6
  <2>3. k = [kind |-> "data", what |-> <<x>>]
    BY <1>1, <1>6, <2>2 DEF Kept
  <2>4. DataEvents(m.what) = o
    <3>1. DataEvents(<<x>>) = <<[kind |-> "data", what |-> <<x>>]>>
      BY DEF DataEvents
    <3> QED BY <2>2, <2>3, <3>1
  <2>5. k.kind \in Data /\ k.kind \notin Commanding
    BY <2>3 DEF Data, Commanding
  <2>6. OfKind(h, Data) = OfKind(g, Data) \o o
    <3> HIDE DEF k, g, h
    <3> QED BY <1>2, <2>5, OfKindAppend
  <2>7. OfKind(h, Commanding) = OfKind(g, Commanding)
    <3> HIDE DEF k, g, h
    <3>1. OfKind(h, Commanding) = OfKind(g, Commanding) \o <<>>
      BY <1>2, <2>5, OfKindAppend
    <3>2. OfKind(g, Commanding) \in Seq(Things)
      BY <1>2, OfKindType
    <3> QED BY <3>1, <3>2, ConcatEmptySeq
  <2>8. DataEvents(r.data) = DataEvents(q.data) \o DataEvents(m.what)
    BY <1>1, <1>3, <2>1, DataEventsConcat
  <2> HIDE DEF k, o, g
  <2> QED BY <1>4, <1>5, <2>1, <2>4, <2>6, <2>7, <2>8 DEF Says
<1>7. CASE m.kind # "data"
  <2>1. r.data = q.data /\ r.events = Append(q.events, k)
    BY <1>7 DEF Received, Does
  <2>2. k.kind \notin Data /\ k.kind \in Commanding
    <3>1. k.kind # "data"
      BY <1>1, <1>7 DEF Kept
    <3> HIDE DEF k
    <3> QED BY <1>2, <3>1 DEF Data, Commanding, Things
  <2> HIDE DEF k, g, h
  <2>3. OfKind(h, Commanding) = OfKind(g, Commanding) \o <<k>>
    BY <1>2, <2>2, OfKindAppend
  <2>4. OfKind(h, Data) = OfKind(g, Data)
    <3>1. OfKind(h, Data) = OfKind(g, Data) \o <<>>
      BY <1>2, <2>2, OfKindAppend
    <3>2. OfKind(g, Data) \in Seq(Things)
      BY <1>2, OfKindType
    <3> QED BY <3>1, <3>2, ConcatEmptySeq
  <2>5. Append(q.events, k) = q.events \o <<k>>
    <3>1. OfKind(g, Commanding) \in Seq(Things)
      BY <1>2, OfKindType
    <3> QED BY <1>2, <1>4, <3>1, AppendIsConcat
  <2> QED BY <1>4, <1>5, <2>1, <2>3, <2>4, <2>5 DEF Says, h
<1> QED BY <1>6, <1>7

LEMMA StreamRead == \A ms \in Seq(Messages) : Says(Apart(Stream(ms)), ms)
<1> DEFINE R(ms) == Apart(Stream(ms))
           P == {ms \in Seq(Messages) : Says(R(ms), ms)}
<1>1. <<>> \in P
  <2>1. R(<<>>) = AtRest
    BY StreamNothing, ApartIs
  <2>2. KeptOf(<<>>) = <<>> /\ DataEvents(<<>>) = <<>>
    BY DEF KeptOf, DataEvents
  <2>3. AtRest.cmd = <<>> /\ AtRest.iac = FALSE /\ AtRest.data = <<>>
        /\ AtRest.events = <<>>
    BY DEF AtRest
  <2>4. OfKind(<<>>, Data) = <<>> /\ OfKind(<<>>, Commanding) = <<>>
    BY OfKindNothing
  <2>5. <<>> \in Seq(Messages)
    OBVIOUS
  <2>6. Says(AtRest, <<>>)
    BY <2>2, <2>3, <2>4 DEF Says
  <2> QED BY <2>1, <2>5, <2>6
<1>2. ASSUME NEW ms \in Seq(Messages), NEW m \in Messages, ms \in P
      PROVE  Append(ms, m) \in P
  <2> DEFINE q == R(ms)
             v == Stream(ms)
             w == Encode(m)
             ns == Append(ms, m)
  <2>1. v \in Seq(Bytes) /\ w \in Seq(Bytes) /\ Stream(ns) = v \o w
    BY StreamType, EncodeType, StreamAppend
  <2>2. q \in Parser /\ Says(q, ms) /\ q.cmd = <<>>
    BY <1>2, <2>1, ApartIs DEF Says
  <2>3. R(ns) = process_telnet_data(q, w)
    <3> HIDE DEF v, w
    <3> QED BY <2>1, ApartIs DEF v
  <2> HIDE DEF q
  <2>4. Received(q, m, R(ns))
    BY <2>2, <2>3, MessageRead
  <2> HIDE DEF R
  <2>5. Says(R(ns), ns)
    BY <2>2, <2>4, SaysOn
  <2>6. ns \in Seq(Messages)
    OBVIOUS
  <2> QED BY <2>5, <2>6
<1>3. \A ms \in Seq(Messages), m \in Messages : ms \in P => Append(ms, m) \in P
  BY <1>2
<1> HIDE DEF P
<1>4. Seq(Messages) \subseteq P
  BY <1>1, <1>3, ByAppending
<1> QED BY <1>4 DEF P

-----------------------------------------------------------------------------
(* What has been read of the client's stream is what the device has got.    *)

\* When the i-th thing the device got is data, some first part v of what was
\* read, w, holds that data, and the commands in v were carried out before.
InTime(g, w, i) ==
    \E v, x \in Seq(Bytes) :
        /\ w = v \o x
        /\ CountOf(g, Data, i) <= Len(Apart(v).data)
        /\ Len(Apart(v).events) <= CountOf(g, Commanding, i)

\* The device got g out of w.
Gives(w, g) ==
    /\ OfKind(g, Data) = DataEvents(Apart(w).data)
    /\ OfKind(g, Commanding) = Apart(w).events
    /\ \A i \in 1 .. Len(g) : g[i].kind \in Data => InTime(g, w, i)

\* Of the stream, w was read and the rest waits.
Arrived(w, ms, rest, c, f, g) ==
    /\ Stream(ms) = w \o rest
    /\ c = Apart(w).cmd /\ f = Apart(w).iac
    /\ Gives(w, g)

UpInv ==
    /\ TInv /\ sent \in Seq(Messages)
    /\ ~over => /\ got \in Seq(Things)
                /\ \E w \in Seq(Bytes) :
                        Arrived(w, sent, up, telnet_cmd, suboption_iac, got)
    /\ crashed => over /\ \E j \in 1 .. Len(sent) : NullHandler(KeptOf(sent)[j])

LEMMA EventsThings == Events \subseteq Things /\ \A x \in Events : x.kind \in Commanding
BY DEF Events, Things, Commanding

\* In time then, in time after more is read.
LEMMA InTimeStays ==
    ASSUME NEW g \in Seq(Things), NEW h \in Seq(Things), NEW w \in Seq(Bytes),
           NEW u \in Seq(Bytes), NEW i \in 1 .. Len(g), InTime(g, w, i)
    PROVE  InTime(g \o h, w \o u, i)
<1>1. PICK v \in Seq(Bytes), x \in Seq(Bytes) :
        /\ w = v \o x
        /\ CountOf(g, Data, i) <= Len(Apart(v).data)
        /\ Len(Apart(v).events) <= CountOf(g, Commanding, i)
  BY DEF InTime
<1>2. x \o u \in Seq(Bytes)
  BY ConcatProperties
<1>3. w \o u = v \o (x \o u)
  <2>1. Joined(Joined(v, x), u) = Joined(v, Joined(x, u))
    BY Regroup
  <2> QED BY <1>1, <2>1 DEF Joined
<1>4. CountOf(g \o h, Data, i) = CountOf(g, Data, i)
      /\ CountOf(g \o h, Commanding, i) = CountOf(g, Commanding, i)
  BY CountWithin
<1> QED BY <1>1, <1>2, <1>3, <1>4 DEF InTime

LEMMA ConcatPlaces ==
    ASSUME NEW S, NEW s \in Seq(S), NEW t \in Seq(S)
    PROVE  /\ \A i \in 1 .. Len(s) : (s \o t)[i] = s[i]
           /\ \A i \in 1 .. Len(t) : (s \o t)[Len(s) + i] = t[i]
<1> DEFINE u == s \o t
<1>1. Len(s) \in Nat /\ Len(t) \in Nat
  OBVIOUS
<1>2. \A i \in 1 .. Len(s) + Len(t) : u[i] = IF i <= Len(s) THEN s[i] ELSE t[i - Len(s)]
  BY ConcatProperties
<1> HIDE DEF u
<1>3. ASSUME NEW i \in 1 .. Len(s) PROVE u[i] = s[i]
  <2>1. i \in 1 .. Len(s) + Len(t) /\ i <= Len(s)
    BY <1>1
  <2> QED BY <1>2, <2>1
<1>4. ASSUME NEW i \in 1 .. Len(t) PROVE u[Len(s) + i] = t[i]
  <2> DEFINE j == Len(s) + i
  <2>1. j \in 1 .. Len(s) + Len(t) /\ ~ (j <= Len(s)) /\ j - Len(s) = i
    BY <1>1
  <2> HIDE DEF j
  <2>2. u[j] = t[j - Len(s)]
    BY <1>2, <2>1
  <2> QED BY <2>1, <2>2 DEF j
<1> QED BY <1>3, <1>4 DEF u

\* What a read adds: the commands e carried out, and then the data d.
LEMMA GivesMore ==
    ASSUME NEW w \in Seq(Bytes), NEW u \in Seq(Bytes), NEW g \in Seq(Things),
           Gives(w, g), NEW d \in Seq(Bytes), NEW e \in Seq(Events),
           Apart(w \o u).data = Apart(w).data \o d,
           Apart(w \o u).events = Apart(w).events \o e
    PROVE  Gives(w \o u, g \o (e \o DataEvents(d)))
<1> DEFINE D == DataEvents(d)
           n == e \o D
           h == g \o n
           z == w \o u
           t == Apart(w)
<1>0. /\ t \in Parser /\ t.data \in Seq(Bytes) /\ t.events \in Seq(Events)
      /\ z \in Seq(Bytes)
  <2>1. t \in Parser
    BY ApartIs
  <2> HIDE DEF t
  <2> QED BY <2>1, ParserIs, ConcatProperties
<1>1. D \in Seq(Things) /\ e \in Seq(Things)
  BY DataEventsType, EventsThings, Wider
<1>2. /\ OfKind(D, Data) = D /\ OfKind(D, Commanding) = <<>>
  <2> DEFINE T == [kind : Data, what : Seq(Bytes)]
  <2>1. D \in Seq(T)
    BY DataEventsType
  <2>2. T \subseteq Things /\ \A x \in T : x.kind \in Data /\ x.kind \notin Commanding
    BY DEF Things, Kinds, Data, Commanding
  <2> HIDE DEF T, D
  <2>3. OfKind(D, Data) = D
    BY <2>1, <2>2, AllOfKind
  <2>4. OfKind(D, Commanding) = <<>>
    BY <2>1, <2>2, NoneOfKind
  <2> QED BY <2>3, <2>4
<1>3. /\ OfKind(e, Data) = <<>> /\ OfKind(e, Commanding) = e
  <2>1. \A x \in Events : x.kind \in Commanding /\ x.kind \notin Data
    BY EventsThings DEF Commanding
  <2>2. OfKind(e, Commanding) = e
    BY <2>1, EventsThings, AllOfKind
  <2>3. OfKind(e, Data) = <<>>
    BY <2>1, EventsThings, NoneOfKind
  <2> QED BY <2>2, <2>3
<1>4. DataEvents(Apart(z).data) = DataEvents(t.data) \o D
  BY <1>0, DataEventsConcat
<1>5. Apart(z).events = t.events \o e
  OBVIOUS
<1>6. OfKind(g, Data) = DataEvents(t.data) /\ OfKind(g, Commanding) = t.events
  BY DEF Gives
<1> HIDE DEF D, t, z
<1>7. n \in Seq(Things) /\ Len(n) = Len(e) + Len(D)
  BY <1>1, ConcatProperties
<1>8. OfKind(n, Data) = D /\ OfKind(n, Commanding) = e
  <2>1. OfKind(n, Data) = <<>> \o D /\ OfKind(n, Commanding) = e \o <<>>
    BY <1>1, <1>2, <1>3, OfKindConcat
  <2> QED BY <1>1, <2>1, ConcatEmptySeq
<1>9. /\ h \in Seq(Things) /\ Len(h) = Len(g) + Len(n)
      /\ Len(g) \in Nat /\ Len(e) \in Nat /\ Len(D) \in Nat
      /\ \A i \in 1 .. Len(g) : h[i] = g[i]
      /\ \A i \in 1 .. Len(e) : h[Len(g) + i] = e[i]
  <2>1. /\ Len(g) \in Nat /\ Len(e) \in Nat /\ Len(D) \in Nat
    BY <1>1
  <2>2. \A i \in 1 .. Len(e) : n[i] = e[i]
    BY <1>1, ConcatPlaces
  <2>3. h \in Seq(Things) /\ Len(h) = Len(g) + Len(n)
    <3> HIDE DEF n
    <3> QED BY <1>7, ConcatProperties
  <2>4. /\ \A i \in 1 .. Len(g) : h[i] = g[i]
        /\ \A i \in 1 .. Len(n) : h[Len(g) + i] = n[i]
    <3> HIDE DEF n
    <3> QED BY <1>7, ConcatPlaces
  <2> HIDE DEF h, n
  <2>5. ASSUME NEW i \in 1 .. Len(e) PROVE h[Len(g) + i] = e[i]
    <3>1. i \in 1 .. Len(n)
      BY <1>7, <2>1
    <3> QED BY <2>2, <2>4, <3>1
  <2> QED BY <2>1, <2>3, <2>4, <2>5
<1>10. OfKind(h, Data) = DataEvents(Apart(z).data) /\ OfKind(h, Commanding) = Apart(z).events
  <2> HIDE DEF n
  <2>1. OfKind(h, Data) = OfKind(g, Data) \o OfKind(n, Data)
        /\ OfKind(h, Commanding) = OfKind(g, Commanding) \o OfKind(n, Commanding)
    BY <1>7, OfKindConcat
  <2> QED BY <1>4, <1>5, <1>6, <1>8, <2>1
<1>11. ASSUME NEW i \in 1 .. Len(h), h[i].kind \in Data PROVE InTime(h, z, i)
  <2>1. CASE i <= Len(g)
    <3>1. i \in 1 .. Len(g) /\ g[i].kind \in Data
      BY <1>9, <1>11, <2>1
    <3>2. InTime(g, w, i)
      BY <3>1 DEF Gives
    <3> HIDE DEF n
    <3>3. InTime(g \o n, w \o u, i)
      BY <1>7, <3>1, <3>2, InTimeStays
    <3> QED BY <3>3 DEF z
  <2>2. CASE ~ (i <= Len(g))
    <3> DEFINE a == g \o e
    <3>1. i > Len(g) + Len(e)
      <4>1. SUFFICES ASSUME i <= Len(g) + Len(e) PROVE FALSE
        BY <1>9
      <4>2. i - Len(g) \in 1 .. Len(e) /\ Len(g) + (i - Len(g)) = i
        BY <1>9, <2>2, <4>1
      <4>3. h[i] = e[i - Len(g)]
        BY <1>9, <4>2
      <4>4. e[i - Len(g)] \in Events
        BY <4>2
      <4>5. h[i].kind \in Commanding
        BY <4>3, <4>4, EventsThings
      <4> QED BY <1>11, <4>5 DEF Commanding
    <3>2. h = a \o D /\ a \in Seq(Things) /\ Len(a) = Len(g) + Len(e)
      <4>1. Joined(Joined(g, e), D) = Joined(g, Joined(e, D))
        BY <1>1, Regroup
      <4>2. a \in Seq(Things) /\ Len(a) = Len(g) + Len(e)
        BY <1>1, ConcatProperties
      <4> QED BY <4>1, <4>2 DEF Joined
    <3>3. OfKind(a, Commanding) = Apart(z).events
      <4>1. OfKind(a, Commanding) = OfKind(g, Commanding) \o OfKind(e, Commanding)
        BY <1>1, OfKindConcat
      <4> QED BY <1>3, <1>5, <1>6, <4>1
    <3>4. i \in Len(a) .. Len(a) + Len(D) /\ i \in 0 .. Len(h)
      BY <1>7, <1>9, <3>1, <3>2
    <3> HIDE DEF a, h
    <3>5. Len(Apart(z).events) <= CountOf(h, Commanding, i)
      BY <1>1, <3>2, <3>3, <3>4, CountBeyond
    <3>6. CountOf(h, Data, i) <= Len(OfKind(h, Data))
      BY <1>9, <3>4, CountUpto
    <3>7. Apart(z).data \in Seq(Bytes)
      <4>1. Apart(z) \in Parser
        BY <1>0, ApartIs
      <4> QED BY <4>1, ParserIs
    <3>8. Len(OfKind(h, Data)) = Len(Apart(z).data)
      BY <1>10, <3>7, DataEventsType
    <3>9. z = z \o <<>> /\ <<>> \in Seq(Bytes)
      BY <1>0, ConcatEmptySeq
    <3> QED BY <1>0, <3>5, <3>6, <3>8, <3>9 DEF InTime
  <2> QED BY <2>1, <2>2
<1> HIDE DEF h
<1>12. Gives(z, h)
  BY <1>10, <1>11 DEF Gives
<1> QED BY <1>12 DEF z, h, D

LEMMA GivesNothing == Gives(<<>>, <<>>)
<1>1. AtRest.data = <<>> /\ AtRest.events = <<>> /\ DataEvents(<<>>) = <<>>
  BY DEF AtRest, DataEvents
<1>2. Apart(<<>>) = AtRest
  BY ApartIs
<1>3. OfKind(<<>>, Data) = <<>> /\ OfKind(<<>>, Commanding) = <<>>
  BY OfKindNothing
<1>4. Len(<<>>) = 0
  OBVIOUS
<1> QED BY <1>1, <1>2, <1>3, <1>4 DEF Gives

LEMMA UpInvInit == ASSUME Init PROVE UpInv
<1>1. TInv
  BY TInvInit
<1>2. /\ sent = <<>> /\ up = <<>> /\ got = <<>> /\ telnet_cmd = <<>>
      /\ suboption_iac = FALSE /\ crashed = FALSE
  BY DEF Init
<1>3. <<>> \in Seq(Messages) /\ <<>> \in Seq(Things) /\ <<>> \in Seq(Bytes)
  OBVIOUS
<1>4. AtRest.cmd = <<>> /\ AtRest.iac = FALSE
  BY DEF AtRest
<1>5. <<>> \o <<>> = <<>>
  BY <1>3, ConcatEmptySeq
<1>6. Arrived(<<>>, <<>>, <<>>, <<>>, FALSE, <<>>)
  BY <1>4, <1>5, StreamNothing, ApartIs, GivesNothing DEF Arrived
<1> QED BY <1>1, <1>2, <1>3, <1>6 DEF UpInv

LEMMA UpInvSame ==
    ASSUME UpInv, TInv',
           UNCHANGED <<sent, up, telnet_cmd, suboption_iac, got, over, crashed>>
    PROVE  UpInv'
BY DEF UpInv

LEMMA UpInvSends ==
    ASSUME UpInv, TInv', NEW m \in Messages, ClientSends(m) PROVE UpInv'
<1>1. /\ sent \in Seq(Messages) /\ up \in Seq(Bytes) /\ got \in Seq(Things)
  BY DEF UpInv, TInv, TypeOK, ClientSends
<1>2. /\ ~ over /\ ~ crashed' /\ sent' = Append(sent, m) /\ up' = up \o Encode(m)
      /\ telnet_cmd' = telnet_cmd /\ suboption_iac' = suboption_iac /\ got' = got
  BY DEF ClientSends, UpInv
<1>3. PICK w \in Seq(Bytes) : Arrived(w, sent, up, telnet_cmd, suboption_iac, got)
  BY <1>2 DEF UpInv
<1>4. sent' \in Seq(Messages)
  BY <1>1, <1>2
<1>5. Stream(sent') = w \o up'
  <2> DEFINE x == Encode(m)
  <2>1. x \in Seq(Bytes)
    BY EncodeType
  <2>2. Stream(sent') = Stream(sent) \o x
    BY <1>1, <1>2, StreamAppend
  <2>3. Stream(sent) = w \o up
    BY <1>3 DEF Arrived
  <2> HIDE DEF x
  <2>4. Joined(Joined(w, up), x) = Joined(w, Joined(up, x))
    BY <1>1, <2>1, Regroup
  <2> QED BY <1>2, <2>2, <2>3, <2>4 DEF Joined, x
<1>6. Arrived(w, sent', up', telnet_cmd', suboption_iac', got')
  BY <1>2, <1>3, <1>5 DEF Arrived
<1> QED BY <1>1, <1>2, <1>4, <1>6 DEF UpInv

\* What a read adds to what the device got, when the session goes on.
LEMMA ReadGot ==
    ASSUME TInv, NEW n \in 1 .. BufSize, handle_tcp_fd_read(n)
    PROVE  LET u == SubSeq(up, 1, n)
               s == process_telnet_data(Now, u)
           IN  /\ ~ over /\ u \in Seq(Bytes) /\ up = u \o up' /\ up' \in Seq(Bytes)
               /\ sent' = sent /\ s \in Parser
               /\ telnet_cmd' = s.cmd /\ suboption_iac' = s.iac
               /\ crashed' = (\E i \in DOMAIN s.events : NullHandler(s.events[i]))
               /\ crashed' => over'
               /\ ~ over' => got' = got \o (s.events \o DataEvents(s.data))
<1> DEFINE u == SubSeq(up, 1, n)
           s == process_telnet_data(Now, u)
<1>1. n \in 0 .. Len(up) /\ up \in Seq(Bytes)
  BY DEF handle_tcp_fd_read, TInv, TypeOK
<1>2. /\ telnet_cmd' = s.cmd /\ suboption_iac' = s.iac
      /\ up' = SubSeq(up, n + 1, Len(up)) /\ sent' = sent /\ ~ over
      /\ crashed' = (\E i \in DOMAIN s.events : NullHandler(s.events[i]))
      /\ over' = (s.error \/ crashed')
  BY DEF handle_tcp_fd_read, Now, Start
<1>3. got' = got \o CASE crashed' -> UpToNull(s.events)
                       [] s.error /\ ~ crashed' -> s.events
                       [] OTHER -> s.events \o DataEvents(s.data)
  BY DEF handle_tcp_fd_read, Now, Start, Reaching
<1>4. /\ u \in Seq(Bytes) /\ SubSeq(up, n + 1, Len(up)) \in Seq(Bytes)
      /\ u \o SubSeq(up, n + 1, Len(up)) = up
  BY <1>1, Cut
<1> HIDE DEF u
<1>5. s \in Parser
  BY <1>4, ProcessType DEF TInv
<1> HIDE DEF s
<1>6. ~ over' => got' = got \o (s.events \o DataEvents(s.data))
  BY <1>2, <1>3
<1> QED BY <1>2, <1>4, <1>5, <1>6 DEF s, u

\* What is found among the members of a kind is a member.
LEMMA OfKindMember ==
    ASSUME NEW K, NEW s \in Seq(Things), NEW i \in 1 .. Len(OfKind(s, K))
    PROVE  \E j \in 1 .. Len(s) : s[j] = OfKind(s, K)[i]
<1> DEFINE Found(w) == \A k \in 1 .. Len(OfKind(w, K)) :
                          \E j \in 1 .. Len(w) : w[j] = OfKind(w, K)[k]
           P == {w \in Seq(Things) : Found(w)}
<1>1. <<>> \in P
  <2>1. OfKind(<<>>, K) = <<>>
    BY OfKindNothing
  <2>2. Found(<<>>)
    BY <2>1
  <2>3. <<>> \in Seq(Things)
    OBVIOUS
  <2> QED BY <2>2, <2>3
<1>2. ASSUME NEW w \in Seq(Things), NEW x \in Things, w \in P
      PROVE  Append(w, x) \in P
  <2> DEFINE a == OfKind(w, K)
             v == Append(w, x)
             l == IF x.kind \in K THEN <<x>> ELSE <<>>
             b == OfKind(v, K)
  <2>1. /\ a \in Seq(Things) /\ b = a \o l /\ v \in Seq(Things)
        /\ Len(v) = Len(w) + 1 /\ v[Len(w) + 1] = x
        /\ \A j \in 1 .. Len(w) : v[j] = w[j]
    <3>1. a \in Seq(Things) /\ b = a \o l
      BY OfKindType, OfKindAppend
    <3> HIDE DEF a, b
    <3> QED BY <3>1
  <2>2. l \in Seq(Things) /\ Len(l) \in 0 .. 1 /\ (Len(l) = 1 => l[1] = x)
    OBVIOUS
  <2>3. \A k \in 1 .. Len(a) : \E j \in 1 .. Len(w) : w[j] = a[k]
    BY <1>2
  <2> HIDE DEF a, b, v, l
  <2>4. /\ Len(b) = Len(a) + Len(l) /\ Len(a) \in Nat /\ Len(w) \in Nat
        /\ \A k \in 1 .. Len(a) : b[k] = a[k]
        /\ \A k \in 1 .. Len(l) : b[Len(a) + k] = l[k]
    <3>1. Len(w) \in Nat /\ Len(a) \in Nat
      BY <2>1
    <3>2. Len(a \o l) = Len(a) + Len(l)
      BY <2>1, <2>2, ConcatProperties
    <3>3. /\ \A k \in 1 .. Len(a) : (a \o l)[k] = a[k]
          /\ \A k \in 1 .. Len(l) : (a \o l)[Len(a) + k] = l[k]
      <4>1. a \in Seq(Things) /\ l \in Seq(Things)
        BY <2>1, <2>2
      <4> QED BY <4>1, ConcatPlaces
    <3> QED BY <2>1, <3>1, <3>2, <3>3
  <2>5. ASSUME NEW k \in 1 .. Len(b) PROVE \E j \in 1 .. Len(v) : v[j] = b[k]
    <3>1. CASE k <= Len(a)
      <4>1. k \in 1 .. Len(a)
        BY <2>4, <3>1
      <4>2. PICK j \in 1 .. Len(w) : w[j] = a[k]
        BY <2>3, <4>1
      <4>3. j \in 1 .. Len(v) /\ v[j] = b[k]
        BY <2>1, <2>4, <4>1, <4>2
      <4> QED BY <4>3
    <3>2. CASE ~ (k <= Len(a))
      <4>1. k = Len(a) + 1 /\ Len(l) = 1
        <5>1. /\ Len(b) = Len(a) + Len(l) /\ Len(a) \in Nat
              /\ Len(l) = 0 \/ Len(l) = 1
          BY <2>2, <2>4
        <5>2. k \in 1 .. Len(a) + Len(l)
          BY <5>1
        <5> DEFINE p == Len(a)
                   q == Len(l)
        <5>3. p \in Nat /\ (q = 0 \/ q = 1) /\ k \in 1 .. p + q /\ ~ (k <= p)
          BY <3>2, <5>1, <5>2
        <5> HIDE DEF p, q
        <5>4. k = p + 1 /\ q = 1
          BY <5>3
        <5> QED BY <5>4 DEF p, q
      <4>2. 1 \in 1 .. Len(l) /\ Len(w) + 1 \in 1 .. Len(v)
        BY <2>1, <2>4, <4>1
      <4>3. b[k] = x
        <5>1. b[Len(a) + 1] = l[1]
          BY <2>4, <4>2
        <5> QED BY <2>2, <4>1, <5>1
      <4> QED BY <2>1, <4>2, <4>3
    <3> QED BY <3>1, <3>2
  <2>6. Found(v)
    BY <2>5 DEF b
  <2> HIDE DEF Found
  <2> QED BY <2>1, <2>6 DEF v
<1>3. \A w \in Seq(Things), x \in Things : w \in P => Append(w, x) \in P
  BY <1>2
<1> HIDE DEF P
<1>4. Seq(Things) \subseteq P
  BY <1>1, <1>3, ByAppending
<1> QED BY <1>4 DEF P

\* A command carried out is one the client sent.
LEMMA Meaning ==
    ASSUME NEW ms \in Seq(Messages), NEW z \in Seq(Bytes), NEW y \in Seq(Bytes),
           Stream(ms) = z \o y, NEW i \in 1 .. Len(Apart(z).events)
    PROVE  \E j \in 1 .. Len(ms) : KeptOf(ms)[j] = Apart(z).events[i]
<1> DEFINE a == Apart(z).events
           c == OfKind(KeptOf(ms), Commanding)
<1>1. a \in Seq(Events)
  BY ApartIs, ParserIs
<1>2. PICK e \in Seq(Events) : Apart(z \o y).events = a \o e
  BY ApartGrows
<1>3. c = a \o e
  <2>1. Says(Apart(Stream(ms)), ms)
    BY StreamRead
  <2> QED BY <1>2, <2>1 DEF Says
<1>4. KeptOf(ms) \in Seq(Things) /\ Len(KeptOf(ms)) = Len(ms)
  BY KeptOfType
<1> HIDE DEF a, c
<1>5. i \in 1 .. Len(c) /\ c[i] = a[i]
  <2>1. i \in 1 .. Len(a)
    BY DEF a
  <2>2. Len(a \o e) = Len(a) + Len(e) /\ Len(a) \in Nat /\ Len(e) \in Nat
        /\ (a \o e)[i] = a[i]
    BY <1>1, <2>1, ConcatProperties, ConcatPlaces
  <2> QED BY <1>3, <2>1, <2>2
<1>6. PICK j \in 1 .. Len(KeptOf(ms)) : KeptOf(ms)[j] = c[i]
  BY <1>4, <1>5, OfKindMember DEF c
<1> QED BY <1>4, <1>5, <1>6 DEF a

LEMMA UpInvReads ==
    ASSUME UpInv, TInv', NEW n \in 1 .. BufSize, handle_tcp_fd_read(n) PROVE UpInv'
<1> DEFINE u == SubSeq(up, 1, n)
           s == process_telnet_data(Now, u)
<1>1. TInv /\ sent \in Seq(Messages) /\ got \in Seq(Things)
  BY DEF UpInv, handle_tcp_fd_read
<1>2. /\ ~ over /\ u \in Seq(Bytes) /\ up = u \o up' /\ up' \in Seq(Bytes)
      /\ sent' = sent /\ s \in Parser
      /\ telnet_cmd' = s.cmd /\ suboption_iac' = s.iac
      /\ crashed' = (\E i \in DOMAIN s.events : NullHandler(s.events[i]))
      /\ crashed' => over'
      /\ ~ over' => got' = got \o (s.events \o DataEvents(s.data))
  BY <1>1, ReadGot
<1>3. PICK w \in Seq(Bytes) : Arrived(w, sent, up, telnet_cmd, suboption_iac, got)
  BY <1>2 DEF UpInv
<1> DEFINE t == Apart(w)
           z == w \o u
           r == Apart(z)
<1> HIDE DEF u
<1>4. t \in Parser /\ Now \in Parser /\ Same(Now, t) /\ Now.data = <<>> /\ Now.events = <<>>
  <2>1. t \in Parser
    BY ApartIs
  <2>2. Now.cmd = telnet_cmd /\ Now.iac = suboption_iac
        /\ Now.data = <<>> /\ Now.events = <<>>
    BY DEF Now, Start, AtRest
  <2>3. telnet_cmd = t.cmd /\ suboption_iac = t.iac
    BY <1>3 DEF Arrived
  <2> HIDE DEF t
  <2> QED BY <1>1, <2>1, <2>2, <2>3 DEF Same, TInv
<1>5. r = process_telnet_data(t, u) /\ z \in Seq(Bytes)
  <2>1. r = process_telnet_data(t, u)
    BY <1>2, ApartIs
  <2>2. z \in Seq(Bytes)
    BY <1>2, ConcatProperties
  <2> QED BY <2>1, <2>2
<1>6. Same(s, r) /\ Grown(Now, t, s, r)
  <2> HIDE DEF t, r
  <2> QED BY <1>2, <1>4, <1>5, Twin
<1>7. PICK d \in Seq(Bytes), e \in Seq(Events) :
        s.data = d /\ s.events = e /\ r.data = t.data \o d /\ r.events = t.events \o e
  <2> HIDE DEF s, t, r
  <2>1. PICK d \in Seq(Bytes), e \in Seq(Events) :
        /\ s.data = Now.data \o d /\ s.events = Now.events \o e
        /\ r.data = t.data \o d /\ r.events = t.events \o e
    BY <1>6 DEF Grown
  <2>2. <<>> \o d = d /\ <<>> \o e = e
    BY ConcatEmptySeq
  <2> QED BY <1>4, <2>1, <2>2
<1>10. Stream(sent') = z \o up'
  <2>1. Stream(sent) = w \o up
    BY <1>3 DEF Arrived
  <2>2. Joined(Joined(w, u), up') = Joined(w, Joined(u, up'))
    BY <1>2, Regroup
  <2> QED BY <1>2, <2>1, <2>2 DEF Joined
<1>11. ASSUME crashed'
       PROVE  \E j \in 1 .. Len(sent') : NullHandler(KeptOf(sent')[j])
  <2> HIDE DEF s, t
  <2>1. PICK i \in 1 .. Len(e) : NullHandler(e[i])
    <3>1. \E i \in DOMAIN e : NullHandler(e[i])
      BY <1>2, <1>7, <1>11
    <3> QED BY <3>1
  <2>2. t.events \in Seq(Events)
    BY <1>4, ParserIs
  <2> DEFINE a == t.events
             k == Len(a) + i
  <2>3. r.events = a \o e
    BY <1>7
  <2>4. k \in 1 .. Len(a \o e) /\ (a \o e)[k] = e[i]
    <3> HIDE DEF a
    <3>1. a \in Seq(Events)
      BY <2>2 DEF a
    <3>2. Len(a \o e) = Len(a) + Len(e) /\ Len(a) \in Nat /\ Len(e) \in Nat
      BY <3>1, ConcatProperties
    <3>3. (a \o e)[Len(a) + i] = e[i]
      BY <3>1, ConcatPlaces
    <3> QED BY <3>2, <3>3
  <2> HIDE DEF k, a, z
  <2>5. k \in 1 .. Len(Apart(z).events) /\ NullHandler(Apart(z).events[k])
    BY <2>1, <2>3, <2>4
  <2>6. sent' \in Seq(Messages)
    BY <1>1, <1>2
  <2>7. \E j \in 1 .. Len(sent') : KeptOf(sent')[j] = Apart(z).events[k]
    BY <1>2, <1>5, <1>10, <2>5, <2>6, Meaning
  <2> QED BY <2>5, <2>7
<1>8. CASE over'
  <2> HIDE DEF s
  <2> QED BY <1>1, <1>2, <1>8, <1>11 DEF UpInv
<1>9. CASE ~ over'
  <2>1. got' = got \o (e \o DataEvents(d)) /\ got' \in Seq(Things)
    <3> HIDE DEF s
    <3>1. got' = got \o (e \o DataEvents(d))
      BY <1>2, <1>7, <1>9
    <3>2. DataEvents(d) \in Seq(Things) /\ e \in Seq(Things)
      BY EventsThings, Wider, DataEventsType
    <3> DEFINE D == DataEvents(d)
    <3> HIDE DEF D
    <3>3. e \o D \in Seq(Things)
      BY <3>2, ConcatProperties DEF D
    <3>4. got \o (e \o D) \in Seq(Things)
      BY <1>1, <3>3, ConcatProperties
    <3> QED BY <3>1, <3>4 DEF D
  <2>2. Gives(w, got)
    BY <1>3 DEF Arrived
  <2>3. Gives(z, got')
    <3>1. Gives(w \o u, got \o (e \o DataEvents(d)))
      BY <1>1, <1>2, <1>7, <2>2, GivesMore
    <3> QED BY <2>1, <3>1
  <2>5. telnet_cmd' = r.cmd /\ suboption_iac' = r.iac
    <3> HIDE DEF s, r
    <3> QED BY <1>2, <1>6 DEF Same
  <2>6. Arrived(z, sent', up', telnet_cmd', suboption_iac', got')
    <3> HIDE DEF z
    <3> QED BY <1>10, <2>3, <2>5 DEF Arrived
  <2> HIDE DEF z, s
  <2> QED BY <1>1, <1>2, <1>5, <1>9, <2>1, <2>6 DEF UpInv
<1> QED BY <1>8, <1>9

LEMMA UpInvStep == ASSUME UpInv, [Next]_vars PROVE UpInv'
<1>1. TInv'
  BY TInvStep DEF UpInv
<1>2. ASSUME NEW m \in Messages, ClientSends(m) PROVE UpInv'
  BY <1>1, <1>2, UpInvSends
<1>3. ASSUME NEW n \in 1 .. BufSize, handle_tcp_fd_read(n) PROVE UpInv'
  BY <1>1, <1>3, UpInvReads
<1>4. ASSUME NEW r, handle_dev_fd_read(r) PROVE UpInv'
  <2>1. UNCHANGED <<sent, up, telnet_cmd, suboption_iac, got, over, crashed>>
    BY <1>4 DEF handle_dev_fd_read
  <2> QED BY <1>1, <2>1, UpInvSame
<1>5. ASSUME NEW c, NEW d, handle_tcp_fd_write(c, d) PROVE UpInv'
  <2>1. UNCHANGED <<sent, up, telnet_cmd, suboption_iac, got, over, crashed>>
    BY <1>5 DEF handle_tcp_fd_write
  <2> QED BY <1>1, <2>1, UpInvSame
<1>6. CASE UNCHANGED vars
  <2>1. UNCHANGED <<sent, up, telnet_cmd, suboption_iac, got, over, crashed>>
    BY <1>6 DEF vars
  <2> QED BY <1>1, <2>1, UpInvSame
<1> QED BY <1>2, <1>3, <1>4, <1>5, <1>6 DEF Next

\* Of two first parts of one sequence, the longer one begins with the other.
LEMMA Begins ==
    ASSUME NEW v \in Seq(Bytes), NEW x \in Seq(Bytes), NEW u \in Seq(Bytes),
           NEW y \in Seq(Bytes), Joined(v, x) = Joined(u, y), Len(v) <= Len(u)
    PROVE  \E c \in Seq(Bytes) : u = Joined(v, c)
<1> DEFINE z == Joined(v, x)
           a == SubSeq(u, 1, Len(v))
           c == SubSeq(u, Len(v) + 1, Len(u))
<1>1. Len(v) \in 0 .. Len(u)
  OBVIOUS
<1>2. /\ a \in Seq(Bytes) /\ c \in Seq(Bytes) /\ a \o c = u /\ Len(a) = Len(v)
      /\ \A i \in 1 .. Len(v) : a[i] = u[i]
  BY <1>1, Cut
<1>3. \A i \in 1 .. Len(v) : z[i] = v[i]
  <2>1. \A i \in 1 .. Len(v) : (v \o x)[i] = v[i]
    BY ConcatPlaces
  <2> QED BY <2>1 DEF Joined
<1>4. \A i \in 1 .. Len(u) : z[i] = u[i]
  <2>1. \A i \in 1 .. Len(u) : (u \o y)[i] = u[i]
    BY ConcatPlaces
  <2>2. z = u \o y
    BY DEF Joined
  <2> HIDE DEF z
  <2> QED BY <2>1, <2>2
<1> HIDE DEF z, a, c
<1>5. ASSUME NEW i \in 1 .. Len(a) PROVE a[i] = v[i]
  <2>1. i \in 1 .. Len(v) /\ i \in 1 .. Len(u)
    BY <1>1, <1>2
  <2> QED BY <1>2, <1>3, <1>4, <2>1
<1>6. a = v
  BY <1>2, <1>5, SeqEqual
<1> QED BY <1>2, <1>6 DEF Joined

\* What the parser has let through and carried out when more is read.
LEMMA ApartMore ==
    ASSUME NEW v \in Seq(Bytes), NEW u \in Seq(Bytes), NEW x \in Seq(Bytes),
           NEW y \in Seq(Bytes), Joined(v, x) = Joined(u, y), Len(v) <= Len(u)
    PROVE  /\ Len(Apart(v).data) <= Len(Apart(u).data)
           /\ Len(Apart(v).events) <= Len(Apart(u).events)
<1>1. PICK c \in Seq(Bytes) : u = v \o c
  <2>1. \E c \in Seq(Bytes) : u = Joined(v, c)
    BY Begins
  <2> QED BY <2>1 DEF Joined
<1>2. PICK d \in Seq(Bytes), e \in Seq(Events) :
        /\ Apart(u).data = Apart(v).data \o d
        /\ Apart(u).events = Apart(v).events \o e
  <2>1. \E d \in Seq(Bytes), e \in Seq(Events) :
          /\ Apart(v \o c).data = Apart(v).data \o d
          /\ Apart(v \o c).events = Apart(v).events \o e
    BY ApartGrows
  <2> QED BY <1>1, <2>1
<1> DEFINE a == Apart(v).data
           b == Apart(v).events
<1>3. a \in Seq(Bytes) /\ b \in Seq(Events)
  <2>1. Apart(v) \in Parser
    BY ApartIs
  <2> QED BY <2>1, ParserIs
<1> HIDE DEF a, b
<1>4. Len(a) <= Len(a \o d) /\ Len(b) <= Len(b \o e)
  BY <1>3, GrownFrom
<1> QED BY <1>2, <1>4 DEF a, b

LEMMA LastOf ==
    ASSUME NEW S, NEW s \in Seq(S), NEW j \in 1 .. Len(s)
    PROVE  SubSeq(s, 1, j) = Append(SubSeq(s, 1, j - 1), s[j])
<1> DEFINE a == SubSeq(s, 1, j)
           b == SubSeq(s, 1, j - 1)
           c == Append(b, s[j])
<1>1. j \in 0 .. Len(s) /\ j - 1 \in 0 .. Len(s) /\ s[j] \in S /\ j \in Nat
  OBVIOUS
<1>2. a \in Seq(S) /\ Len(a) = j /\ \A i \in 1 .. j : a[i] = s[i]
  BY <1>1, Cut
<1>3. b \in Seq(S) /\ Len(b) = j - 1 /\ \A i \in 1 .. j - 1 : b[i] = s[i]
  BY <1>1, Cut
<1> HIDE DEF a, b
<1>4. /\ c \in Seq(S) /\ Len(c) = Len(b) + 1 /\ c[Len(b) + 1] = s[j]
      /\ \A i \in 1 .. Len(b) : c[i] = b[i]
  <2>1. b \in Seq(S)
    BY <1>3
  <2> QED BY <1>1, <2>1, AppendProperties
<1> HIDE DEF c
<1>5. ASSUME NEW i \in 1 .. Len(a) PROVE a[i] = c[i]
  <2>1. i \in 1 .. j
    BY <1>2
  <2>2. CASE i = j
    BY <1>1, <1>2, <1>3, <1>4, <2>1, <2>2
  <2>3. CASE i # j
    <3>1. i \in 1 .. j - 1
      BY <1>1, <2>1, <2>3
    <3> QED BY <1>2, <1>3, <1>4, <2>1, <3>1
  <2> QED BY <2>2, <2>3
<1>6. Len(a) = Len(c)
  BY <1>1, <1>2, <1>3, <1>4
<1>7. a = c
  BY <1>2, <1>4, <1>5, <1>6, SeqEqual
<1> QED BY <1>7 DEF a, b, c

\* What is meant by the messages before the j-th, which is data.
LEMMA MeantBefore ==
    ASSUME NEW ms \in Seq(Messages), NEW j \in 1 .. Len(ms),
           KeptOf(ms)[j].kind \in Data
    PROVE  \E u, y \in Seq(Bytes) :
             /\ Stream(ms) = u \o y
             /\ CountOf(KeptOf(ms), Data, j) = Len(Apart(u).data) + 1
             /\ CountOf(KeptOf(ms), Commanding, j) = Len(Apart(u).events)
<1> DEFINE a == SubSeq(ms, 1, j - 1)
           b == SubSeq(ms, (j - 1) + 1, Len(ms))
           k == KeptOf(a)
           l == KeptOf(b)
           K == KeptOf(ms)
           u == Stream(a)
           y == Stream(b)
           r == Apart(u)
<1>1. /\ a \in Seq(Messages) /\ b \in Seq(Messages) /\ a \o b = ms
      /\ Len(a) = j - 1
  <2>1. j - 1 \in 0 .. Len(ms)
    OBVIOUS
  <2> QED BY <2>1, Cut
<1> HIDE DEF a, b
<1>2. /\ k \in Seq(Things) /\ l \in Seq(Things) /\ K \in Seq(Things)
      /\ Len(k) = j - 1 /\ Len(K) = Len(ms)
  BY <1>1, KeptOfType
<1>3. K = k \o l
  BY <1>1, KeptOfConcat
<1>4. u \in Seq(Bytes) /\ y \in Seq(Bytes) /\ Stream(ms) = u \o y
  BY <1>1, StreamType, StreamConcat
<1>5. Says(r, a) /\ r \in Parser
  BY <1>1, <1>4, StreamRead, ApartIs
<1>6. DataEvents(r.data) = OfKind(k, Data) /\ r.events = OfKind(k, Commanding)
  BY <1>5 DEF Says
<1>7. Len(OfKind(k, Data)) = Len(r.data)
  <2> HIDE DEF r
  <2>1. r.data \in Seq(Bytes)
    BY <1>5, ParserIs
  <2> QED BY <1>6, <2>1, DataEventsType
<1>8. K[j] \in Things /\ K[j].kind \in Data /\ K[j].kind \notin Commanding
  <2>1. K[j].kind \in Data
    OBVIOUS
  <2> HIDE DEF K
  <2> QED BY <1>2, <2>1 DEF Commanding
<1> HIDE DEF k, l, K, u, y, r
<1>9. SubSeq(K, 1, j) = Append(k, K[j])
  <2>1. j \in 1 .. Len(K)
    BY <1>2
  <2>2. SubSeq(K, 1, j) = Append(SubSeq(K, 1, j - 1), K[j])
    BY <1>2, <2>1, LastOf
  <2>3. SubSeq(k \o l, 1, Len(k)) = k
    BY <1>2, GrownFrom
  <2>4. SubSeq(K, 1, j - 1) = k
    BY <1>2, <1>3, <2>3
  <2> QED BY <2>2, <2>4
<1>10. OfKind(SubSeq(K, 1, j), Data) = OfKind(k, Data) \o <<K[j]>>
  BY <1>2, <1>8, <1>9, OfKindAppend
<1>11. OfKind(SubSeq(K, 1, j), Commanding) = OfKind(k, Commanding)
  <2>1. OfKind(SubSeq(K, 1, j), Commanding) = OfKind(k, Commanding) \o <<>>
    BY <1>2, <1>8, <1>9, OfKindAppend
  <2>2. OfKind(k, Commanding) \in Seq(Things)
    BY <1>2, OfKindType
  <2> QED BY <2>1, <2>2, ConcatEmptySeq
<1>12. CountOf(K, Data, j) = Len(r.data) + 1
  <2> DEFINE p == OfKind(k, Data)
             o == <<K[j]>>
  <2>1. p \in Seq(Things)
    BY <1>2, OfKindType
  <2>2. o \in Seq(Things) /\ Len(o) = 1
    BY <1>8
  <2> HIDE DEF p, o
  <2>3. Len(p \o o) = Len(p) + Len(o)
    BY <2>1, <2>2, ConcatProperties
  <2> QED BY <1>7, <1>10, <2>2, <2>3 DEF CountOf, p, o
<1>13. CountOf(K, Commanding, j) = Len(r.events)
  BY <1>6, <1>11 DEF CountOf
<1> QED BY <1>4, <1>12, <1>13 DEF K, r

\* Whatever was in time, the commands meant before it were carried out.
LEMMA NoneLate ==
    ASSUME NEW ms \in Seq(Messages), NEW w \in Seq(Bytes), NEW rest \in Seq(Bytes),
           Stream(ms) = w \o rest,
           NEW g \in Seq(Things), NEW i \in 1 .. Len(g), InTime(g, w, i),
           NEW j \in 1 .. Len(ms), KeptOf(ms)[j].kind \in Data,
           CountOf(g, Data, i) = CountOf(KeptOf(ms), Data, j)
    PROVE  CountOf(KeptOf(ms), Commanding, j) <= CountOf(g, Commanding, i)
<1>1. PICK u \in Seq(Bytes), y \in Seq(Bytes) :
        /\ Stream(ms) = u \o y
        /\ CountOf(KeptOf(ms), Data, j) = Len(Apart(u).data) + 1
        /\ CountOf(KeptOf(ms), Commanding, j) = Len(Apart(u).events)
  BY MeantBefore
<1>2. PICK v \in Seq(Bytes), x \in Seq(Bytes) :
        /\ w = v \o x
        /\ CountOf(g, Data, i) <= Len(Apart(v).data)
        /\ Len(Apart(v).events) <= CountOf(g, Commanding, i)
  BY DEF InTime
<1> DEFINE q == x \o rest
           m == Len(Apart(u).data)
           n == Len(Apart(v).data)
           h == Len(Apart(u).events)
           l == Len(Apart(v).events)
           f == CountOf(g, Commanding, i)
<1>3. q \in Seq(Bytes) /\ Joined(v, q) = Joined(u, y)
  <2>1. q \in Seq(Bytes)
    BY ConcatProperties
  <2>2. Joined(Joined(v, x), rest) = Joined(v, Joined(x, rest))
    BY Regroup
  <2> QED BY <1>1, <1>2, <2>1, <2>2 DEF Joined
<1> HIDE DEF q
<1>4. m \in Nat /\ n \in Nat /\ h \in Nat /\ l \in Nat /\ f \in Nat
  <2>1. Apart(u) \in Parser /\ Apart(v) \in Parser
    BY ApartIs
  <2>2. Apart(u).data \in Seq(Bytes) /\ Apart(u).events \in Seq(Events)
    BY <2>1, ParserIs
  <2>3. Apart(v).data \in Seq(Bytes) /\ Apart(v).events \in Seq(Events)
    BY <2>1, ParserIs
  <2>4. i \in 0 .. Len(g)
    OBVIOUS
  <2>5. f \in Nat
    BY <2>4, CountUpto
  <2>6. m \in Nat /\ h \in Nat
    BY <2>2
  <2>7. n \in Nat /\ l \in Nat
    BY <2>3
  <2> HIDE DEF m, n, h, l, f
  <2> QED BY <2>5, <2>6, <2>7
<1>5. m + 1 <= n /\ l <= f
  BY <1>1, <1>2
<1>6. Len(u) <= Len(v) \/ Len(v) <= Len(u)
  OBVIOUS
<1>7. ASSUME Len(v) <= Len(u) PROVE FALSE
  <2>1. n <= m
    BY <1>3, <1>7, ApartMore
  <2> HIDE DEF m, n
  <2> QED BY <1>4, <1>5, <2>1
<1>8. ASSUME Len(u) <= Len(v) PROVE h <= l
  BY <1>3, <1>8, ApartMore
<1> HIDE DEF m, n, h, l, f
<1>9. h <= f
  BY <1>4, <1>5, <1>6, <1>7, <1>8
<1> QED BY <1>1, <1>9 DEF h, f

LEMMA UpInvExact == ASSUME UpInv PROVE UpExact
<1> SUFFICES ASSUME ~ over
             PROVE  /\ IsPrefix(OfKind(got, Data), OfKind(Meant, Data))
                    /\ IsPrefix(OfKind(got, Commanding), OfKind(Meant, Commanding))
                    /\ up = <<>> => Len(got) = Len(sent) /\ telnet_cmd = <<>>
                    /\ \A i \in DOMAIN got, j \in DOMAIN sent :
                          IsDataOf(i, j) =>
                             CountOf(got, Commanding, i) >= CountOf(Meant, Commanding, j)
  BY DEF UpExact
<1>1. /\ sent \in Seq(Messages) /\ got \in Seq(Things) /\ up \in Seq(Bytes)
  BY DEF UpInv, TInv, TypeOK
<1>2. PICK w \in Seq(Bytes) : Arrived(w, sent, up, telnet_cmd, suboption_iac, got)
  BY DEF UpInv
<1> DEFINE z == Stream(sent)
           p == Apart(w)
           r == Apart(z)
           ds == OfKind(Meant, Data)
           cs == OfKind(Meant, Commanding)
<1>3. z = w \o up /\ telnet_cmd = p.cmd /\ Gives(w, got)
  BY <1>2 DEF Arrived
<1>4. OfKind(got, Data) = DataEvents(p.data) /\ OfKind(got, Commanding) = p.events
  BY <1>3 DEF Gives
<1>5. r.cmd = <<>> /\ DataEvents(r.data) = ds /\ r.events = cs
  <2>1. Says(r, sent)
    BY <1>1, StreamRead
  <2> QED BY <2>1 DEF Says, Meant
<1>6. p \in Parser /\ p.data \in Seq(Bytes) /\ p.events \in Seq(Events)
  <2>1. p \in Parser
    BY ApartIs
  <2> HIDE DEF p
  <2> QED BY <2>1, ParserIs
<1>7. PICK d \in Seq(Bytes), e \in Seq(Events) :
        r.data = p.data \o d /\ r.events = p.events \o e
  <2>1. \E d \in Seq(Bytes), e \in Seq(Events) :
          /\ Apart(w \o up).data = Apart(w).data \o d
          /\ Apart(w \o up).events = Apart(w).events \o e
    BY <1>1, ApartGrows
  <2> QED BY <1>3, <2>1
<1>8. Meant \in Seq(Things) /\ Len(Meant) = Len(sent)
  BY <1>1, KeptOfType DEF Meant
<1> HIDE DEF z, p, r, ds, cs
<1>9. IsPrefix(OfKind(got, Data), ds)
  <2> DEFINE a == DataEvents(p.data)
             b == DataEvents(d)
  <2>1. a \in Seq(Things) /\ b \in Seq(Things)
    BY <1>6, DataEventsType
  <2>2. ds = a \o b
    BY <1>5, <1>6, <1>7, DataEventsConcat
  <2> HIDE DEF a, b
  <2>3. IsPrefix(a, a \o b)
    BY <2>1, GrownFrom
  <2> QED BY <1>4, <2>2, <2>3 DEF a
<1>10. IsPrefix(OfKind(got, Commanding), cs)
  <2> DEFINE a == p.events
  <2>1. a \in Seq(Events) /\ cs = a \o e
    BY <1>5, <1>6, <1>7
  <2> HIDE DEF a
  <2>2. IsPrefix(a, a \o e)
    BY <2>1, GrownFrom
  <2> QED BY <1>4, <2>1, <2>2 DEF a
<1>11. ASSUME up = <<>> PROVE Len(got) = Len(sent) /\ telnet_cmd = <<>>
  <2>1. z = w
    BY <1>3, <1>11, ConcatEmptySeq
  <2>2. r = p
    BY <2>1 DEF r, p
  <2>3. OfKind(got, Data) = ds /\ OfKind(got, Commanding) = cs
    BY <1>4, <1>5, <2>2
  <2>4. Len(ds) + Len(cs) = Len(got)
    BY <1>1, <2>3, Halves
  <2>5. Len(ds) + Len(cs) = Len(Meant)
    BY <1>8, Halves DEF ds, cs
  <2> QED BY <1>3, <1>5, <1>8, <2>2, <2>4, <2>5
<1>12. ASSUME NEW i \in DOMAIN got, NEW j \in DOMAIN sent, IsDataOf(i, j)
       PROVE  CountOf(got, Commanding, i) >= CountOf(Meant, Commanding, j)
  <2>1. /\ got[i].kind \in Data /\ KeptOf(sent)[j].kind \in Data
        /\ CountOf(got, Data, i) = CountOf(KeptOf(sent), Data, j)
    BY <1>12 DEF IsDataOf, Meant
  <2>2. i \in 1 .. Len(got) /\ j \in 1 .. Len(sent)
    BY <1>1
  <2>3. InTime(got, w, i)
    BY <1>3, <2>1, <2>2 DEF Gives
  <2>4. Stream(sent) = w \o up
    BY <1>3 DEF z
  <2> DEFINE l == CountOf(KeptOf(sent), Commanding, j)
             m == CountOf(got, Commanding, i)
  <2>5. l <= m
    BY <1>1, <2>1, <2>2, <2>3, <2>4, NoneLate
  <2>6. l \in Nat /\ m \in Nat
    <3>1. i \in 0 .. Len(got) /\ j \in 0 .. Len(Meant)
      BY <1>8, <2>2
    <3>2. m \in Nat
      BY <1>1, <3>1, CountUpto
    <3>3. CountOf(Meant, Commanding, j) \in Nat
      BY <1>8, <3>1, CountUpto
    <3> QED BY <3>2, <3>3 DEF Meant
  <2> HIDE DEF l, m
  <2>7. m >= l
    BY <2>5, <2>6
  <2> QED BY <2>7 DEF l, m, Meant
<1> QED BY <1>9, <1>10, <1>11, <1>12 DEF ds, cs

\* The client of a session that crashed sent an option that has no handler.
LEMMA UpInvCrash == ASSUME UpInv PROVE CrashOnlyUnhandled
<1> SUFFICES ASSUME crashed
             PROVE  \E j \in DOMAIN sent :
                      sent[j].kind \in {"option", "misformed"} /\ sent[j].what[1] = "e"
  BY DEF CrashOnlyUnhandled
<1>1. sent \in Seq(Messages)
  BY DEF UpInv
<1>2. PICK j \in 1 .. Len(sent) : NullHandler(KeptOf(sent)[j])
  BY DEF UpInv
<1> DEFINE m == sent[j]
<1>3. m \in Messages /\ j \in DOMAIN sent /\ NullHandler(Kept(m))
  BY <1>1, <1>2 DEF KeptOf
<1> HIDE DEF m
<1>4. m.what \in Seq(Bytes) /\ m.kind \in Kinds
  BY <1>3, MessageIs
<1>5. m.kind \in {"option", "misformed"}
  BY <1>3 DEF Kept, NullHandler
<1>6. m.what # <<>>
  BY <1>3, <1>5, MessagesAssumption
<1>7. Upto(m.what, MaxCmd - 2)[1] = m.what[1]
  <2> DEFINE v == m.what
  <2>1. v \in Seq(Bytes) /\ Len(v) >= 1 /\ MaxCmd \in Nat /\ MaxCmd > 3
    BY <1>4, <1>6, TelnetSizesAssumption
  <2> HIDE DEF v
  <2>2. \A k \in 1 .. Len(v) : SubSeq(v, 1, k)[1] = v[1]
    BY <2>1
  <2>3. Upto(v, MaxCmd - 2)[1] = v[1]
    BY <2>1, <2>2 DEF Upto
  <2> QED BY <2>3 DEF v
<1>8. m.what[1] = "e"
  BY <1>3, <1>5, <1>7 DEF Kept, NullHandler
<1> QED BY <1>3, <1>5, <1>8 DEF m

\* Whatever messages the client sends and however TCP cuts their bytes, nothing
\* but an option listed without a handler makes the parser call one that is NULL.
THEOREM CrashOnlyUnhandledThm == Spec => []CrashOnlyUnhandled
<1>1. Init => UpInv
  BY UpInvInit
<1>2. UpInv /\ [Next]_vars => UpInv'
  BY UpInvStep
<1>3. UpInv => CrashOnlyUnhandled
  BY UpInvCrash
<1> QED BY <1>1, <1>2, <1>3, PTL DEF Spec

\* Whatever messages the client sends and however TCP cuts their bytes, while
\* the session lasts the device gets the data and the commands meant, each in
\* order, all of them once everything is read, and no command late.
THEOREM UpExactThm == Spec => []UpExact
<1>1. Init => UpInv
  BY UpInvInit
<1>2. UpInv /\ [Next]_vars => UpInv'
  BY UpInvStep
<1>3. UpInv => UpExact
  BY UpInvExact
<1> QED BY <1>1, <1>2, <1>3, PTL DEF Spec

=============================================================================
