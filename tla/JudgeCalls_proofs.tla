------------------------ MODULE JudgeCalls_proofs ------------------------
(***************************************************************************)
(* Theorems about JudgeCalls, for any routes, texts, notes and answers:    *)
(* a request that returns has left nothing out; a reduction of notes that  *)
(* are short enough ends before Python's recursion limit; and what the     *)
(* preflight checks accept is not refused for its size.                    *)
(*                                                                         *)
(* How texts are split and notes are grouped is recursive.  Lemmas say     *)
(* first that a recursive function is defined when each value needs only   *)
(* values of a smaller measure, and what such functions return.            *)
(***************************************************************************)
EXTENDS JudgeCalls, SequenceTheorems, FiniteSetTheorems, WellFoundedInduction, TLAPS

-----------------------------------------------------------------------------
\* Induction over a measure, and functions that are recursive along it.

LEMMA MeasureInduction ==
  ASSUME NEW S, NEW m \in [S -> Nat], NEW P,
         \A s \in S : (\A u \in S : m[u] < m[s] => u \in P) => s \in P
  PROVE  S \subseteq P
<1> DEFINE others == {s \in S : s \notin P}
           sizes == {m[s] : s \in others}
<1> SUFFICES ASSUME others # {} PROVE FALSE
  OBVIOUS
<1>1. sizes \subseteq Nat /\ sizes # {}
  OBVIOUS
<1>2. PICK n \in sizes : \A k \in sizes : ~(<<k, n>> \in OpToRel(<, Nat))
  BY <1>1, NatLessThanWellFounded, WFMin
<1>3. PICK s \in others : m[s] = n
  OBVIOUS
<1>4. ASSUME NEW u \in S, m[u] < m[s] PROVE u \in P
  <2> SUFFICES ASSUME u \in others PROVE FALSE
    OBVIOUS
  <2>1. m[u] \in sizes /\ m[u] \in Nat /\ n \in Nat
    BY <1>1
  <2> QED
    BY <1>2, <1>3, <1>4, <2>1 DEF OpToRel
<1> QED
  BY <1>3, <1>4

LEMMA Upwards ==
  ASSUME NEW P, 0 \in P, \A k \in Nat : k \in P => k + 1 \in P
  PROVE  Nat \subseteq P
<1> DEFINE m == [k \in Nat |-> k]
<1>1. ASSUME NEW k \in Nat, \A j \in Nat : j < k => j \in P PROVE k \in P
  <2>1. CASE k = 0
    BY <2>1
  <2>2. CASE k # 0
    <3>1. k - 1 \in Nat /\ k - 1 < k /\ k - 1 + 1 = k
      BY <2>2
    <3> QED
      BY <1>1, <3>1
  <2> QED
    BY <2>1, <2>2
<1>2. m \in [Nat -> Nat] /\ \A k \in Nat : m[k] = k
  OBVIOUS
<1> HIDE DEF m
<1>3. \A k \in Nat : (\A j \in Nat : m[j] < m[k] => j \in P) => k \in P
  BY <1>1, <1>2
<1> QED
  BY <1>2, <1>3, MeasureInduction

\* step gives the value at s from the function; it looks at smaller arguments only.
StepIsLocal(S, m, X, step) ==
  \A s \in S : \A f, g \in [S -> X] :
    (\A u \in S : m[u] < m[s] => f[u] = g[u]) => step[<<s, f>>] = step[<<s, g>>]

Steps(S, X) == [S \X [S -> X] -> X]

Solves(f, S, step) == \A s \in S : f[s] = step[<<s, f>>]

LEMMA RecursionDefined ==
  ASSUME NEW S, NEW m \in [S -> Nat], NEW X, X # {}, NEW step \in Steps(S, X),
         StepIsLocal(S, m, X, step)
  PROVE  \E f \in [S -> X] : Solves(f, S, step)
<1> DEFINE Right(f, s) == f[s] = step[<<s, f>>]
           UpTo(n) == {f \in [S -> X] : \A s \in S : m[s] < n => Right(f, s)}
<1>local. ASSUME NEW s \in S, NEW f \in [S -> X], NEW g \in [S -> X],
                 \A u \in S : m[u] < m[s] => f[u] = g[u]
          PROVE  step[<<s, f>>] = step[<<s, g>>]
  BY <1>local DEF StepIsLocal
<1>typed. ASSUME NEW s \in S, NEW f \in [S -> X] PROVE step[<<s, f>>] \in X
  BY DEF Steps
<1>1. ASSUME NEW n \in Nat, NEW k \in Nat, NEW f \in UpTo(n), NEW g \in UpTo(k), NEW s \in S,
             m[s] < n, m[s] < k
      PROVE  f[s] = g[s]
  <2> DEFINE P == {u \in S : m[u] < n /\ m[u] < k => f[u] = g[u]}
  <2>1. ASSUME NEW u \in S, \A v \in S : m[v] < m[u] => v \in P, m[u] < n, m[u] < k
        PROVE  f[u] = g[u]
    <3>1. \A v \in S : m[v] < m[u] => f[v] = g[v]
      BY <2>1
    <3>2. step[<<u, f>>] = step[<<u, g>>]
      BY <1>local, <3>1
    <3> QED
      BY <2>1, <3>2
  <2>2. \A u \in S : (\A v \in S : m[v] < m[u] => v \in P) => u \in P
    BY <2>1
  <2> HIDE DEF P
  <2>3. S \subseteq P
    BY <2>2, MeasureInduction
  <2> QED
    BY <1>1, <2>3 DEF P
<1>2. ASSUME NEW n \in Nat PROVE UpTo(n) # {}
  <2> DEFINE P == {k \in Nat : UpTo(k) # {}}
  <2>1. 0 \in P
    <3>1. PICK x \in X : TRUE
      OBVIOUS
    <3>2. [s \in S |-> x] \in UpTo(0)
      OBVIOUS
    <3> QED
      BY <3>2
  <2>2. ASSUME NEW k \in Nat, k \in P PROVE k + 1 \in P
    <3>1. PICK f \in UpTo(k) : TRUE
      BY <2>2
    <3> DEFINE g == [s \in S |-> step[<<s, f>>]]
    <3>2. g \in [S -> X]
      BY <1>typed
    <3>3. \A s \in S : m[s] < k => g[s] = f[s]
      OBVIOUS
    <3>4. ASSUME NEW s \in S, m[s] < k + 1 PROVE g[s] = step[<<s, g>>]
      <4>1. \A u \in S : m[u] < m[s] => g[u] = f[u]
        BY <3>3, <3>4
      <4> HIDE DEF g
      <4>2. step[<<s, f>>] = step[<<s, g>>]
        BY <1>local, <3>2, <4>1
      <4> QED
        BY <4>2 DEF g
    <3> HIDE DEF g
    <3>5. g \in UpTo(k + 1)
      BY <3>2, <3>4
    <3> QED
      BY <3>5
  <2> HIDE DEF P
  <2>3. Nat \subseteq P
    BY <2>1, <2>2, Upwards
  <2> QED
    BY <2>3 DEF P
<1> DEFINE part == [n \in Nat |-> CHOOSE f \in UpTo(n) : TRUE]
           f == [s \in S |-> part[m[s] + 1][s]]
<1>3. \A n \in Nat : part[n] \in UpTo(n)
  BY <1>2
<1> HIDE DEF part
<1>4. \A s \in S : m[s] \in Nat /\ m[s] + 1 \in Nat /\ part[m[s] + 1] \in [S -> X]
  BY <1>3
<1>5. f \in [S -> X]
  BY <1>4
<1>6. ASSUME NEW s \in S PROVE f[s] = step[<<s, f>>]
  <2> DEFINE g == part[m[s] + 1]
  <2>1. g \in UpTo(m[s] + 1) /\ g \in [S -> X] /\ f[s] = g[s] /\ m[s] < m[s] + 1
    <3>1. m[s] \in Nat /\ m[s] + 1 \in Nat /\ m[s] < m[s] + 1
      OBVIOUS
    <3> HIDE DEF UpTo
    <3>2. g \in UpTo(m[s] + 1)
      BY <1>3, <3>1
    <3> QED
      BY <1>4, <3>1, <3>2
  <2>2. ASSUME NEW u \in S, m[u] < m[s] PROVE f[u] = g[u]
    <3>1. part[m[u] + 1] \in UpTo(m[u] + 1) /\ m[u] < m[u] + 1 /\ m[u] < m[s] + 1
      <4>1. m[u] \in Nat /\ m[s] \in Nat /\ m[u] + 1 \in Nat
        OBVIOUS
      <4> HIDE DEF UpTo
      <4> QED
        BY <1>3, <2>2, <4>1
    <3>2. part[m[u] + 1][u] = g[u]
      <4> HIDE DEF g, UpTo
      <4> QED
        BY <1>1, <1>4, <2>1, <3>1
    <3> QED
      BY <3>2
  <2> HIDE DEF f
  <2>3. step[<<s, f>>] = step[<<s, g>>]
    BY <1>local, <1>5, <2>1, <2>2
  <2>4. g[s] = step[<<s, g>>]
    BY <2>1
  <2> QED
    BY <2>1, <2>3, <2>4
<1> QED
  BY <1>5, <1>6 DEF Solves

\* Arithmetic of an estimate, which is rounded up.
LEMMA LessByFactor ==
  ASSUME NEW c \in Nat \ {0}, NEW p \in Int, NEW q \in Int, c * p < c * q
  PROVE  p < q
  BY SMT

LEMMA CeilDivIs ==
  ASSUME NEW a \in Nat, NEW c \in Nat \ {0}
  PROVE  /\ CeilDiv(a, c) \in Nat
         /\ a <= c * CeilDiv(a, c)
         /\ c * (CeilDiv(a, c) - 1) < a
  BY SMT DEF CeilDiv

LEMMA CeilDivUp ==
  ASSUME NEW a \in Nat, NEW b \in Nat, NEW c \in Nat \ {0}, a <= b
  PROVE  CeilDiv(a, c) <= CeilDiv(b, c)
<1> DEFINE p == CeilDiv(a, c)
           q == CeilDiv(b, c)
<1>1. p \in Nat /\ q \in Nat /\ c * (p - 1) < a /\ b <= c * q
  BY CeilDivIs
<1> HIDE DEF p, q
<1>2. c * (p - 1) < c * q
  <2>1. c * (p - 1) \in Int /\ c * q \in Int
    BY <1>1
  <2> QED
    BY <1>1, <2>1
<1>3. p - 1 < q
  BY <1>1, <1>2, LessByFactor
<1> QED
  BY <1>1, <1>3 DEF p, q

LEMMA CeilDivAdds ==
  ASSUME NEW a \in Nat, NEW b \in Nat, NEW c \in Nat \ {0}
  PROVE  CeilDiv(a + b, c) <= CeilDiv(a, c) + CeilDiv(b, c)
<1> DEFINE p == CeilDiv(a, c)
           q == CeilDiv(b, c)
           r == CeilDiv(a + b, c)
<1>1. p \in Nat /\ q \in Nat /\ r \in Nat /\ c * (r - 1) < a + b
  <2>1. a + b \in Nat
    OBVIOUS
  <2> QED
    BY <2>1, CeilDivIs
<1>2. a <= c * p /\ b <= c * q
  BY CeilDivIs
<1>3. c * (r - 1) < a + b
  BY <1>1
<1> HIDE DEF p, q, r
<1>4. c * (p + q) = c * p + c * q /\ c * p \in Int /\ c * q \in Int /\ c * (r - 1) \in Int
  BY <1>1
<1>5. c * (r - 1) < c * (p + q)
  BY <1>1, <1>2, <1>3, <1>4
<1>6. r - 1 < p + q
  BY <1>1, <1>5, LessByFactor
<1> QED
  BY <1>1, <1>6 DEF p, q, r

LEMMA CeilDivShort ==
  ASSUME NEW n \in Nat, NEW t \in Nat \ {0}, NEW c \in Nat \ {0}
  PROVE  /\ t <= c => CeilDiv(n * t, c) <= n
         /\ n # 0 => CeilDiv(n * t, c) >= 1
         /\ CeilDiv(0 * t, c) = 0
<1> DEFINE r == CeilDiv(n * t, c)
<1>1. n * t \in Nat
  OBVIOUS
<1>2. r \in Nat /\ n * t <= c * r /\ c * (r - 1) < n * t
  BY <1>1, CeilDivIs
<1> HIDE DEF r
<1>3. ASSUME t <= c PROVE r <= n
  <2>1. n * t <= c * n
    BY <1>3
  <2>2. c * (r - 1) < c * n
    BY <1>1, <1>2, <2>1
  <2> QED
    BY <1>2, <2>2, LessByFactor
<1>4. ASSUME n # 0 PROVE r >= 1
  <2>1. n * t >= 1
    BY <1>4
  <2>2. r # 0
    BY <1>2, <2>1
  <2> QED
    BY <1>2, <2>2
<1>5. CeilDiv(0 * t, c) = 0
  <2> DEFINE z == CeilDiv(0, c)
  <2>1. z \in Nat /\ c * (z - 1) < 0
    BY CeilDivIs
  <2> HIDE DEF z
  <2>2. z = 0
    BY <2>1
  <2> QED
    BY <2>2 DEF z
<1> QED
  BY <1>3, <1>4, <1>5 DEF r

\* The largest of some numbers.
LEMMA LargestIs ==
  ASSUME NEW n \in Int, NEW s, s # {}, s \subseteq Int, \A k \in s : k <= n
  PROVE  Max(s) \in s /\ \A k \in s : k <= Max(s)
<1> DEFINE m == [k \in s |-> n - k]
           P == {k \in s : \E x \in s : \A y \in s : x >= y}
<1>1. m \in [s -> Nat]
  OBVIOUS
<1>2. ASSUME NEW k \in s, \A u \in s : m[u] < m[k] => u \in P PROVE k \in P
  <2>1. CASE \E u \in s : u > k
    <3>1. PICK u \in s : u > k
      BY <2>1
    <3>2. m[u] < m[k]
      BY <3>1
    <3> QED
      BY <1>2, <3>2
  <2>2. CASE \A u \in s : ~(u > k)
    <3>1. \A u \in s : k >= u
      BY <2>2
    <3> QED
      BY <3>1
  <2> QED
    BY <2>1, <2>2
<1> HIDE DEF P, m
<1>3. s \subseteq P
  BY <1>1, <1>2, MeasureInduction
<1>4. \E x \in s : \A y \in s : x >= y
  BY <1>3 DEF P
<1> QED
  BY <1>4 DEF Max

\* A tokenizer comes to an end: after each token there is less text.
LEMMA EncodeIs ==
  ASSUME NEW text \in Text
  PROVE  Encode(text) \in Nat /\ (text # <<>> => Encode(text) >= 1)
<1> DEFINE n == Len(text)
           S == 1 .. n + 1
           Known(i) == {t \in Vocabulary : i + Len(t) - 1 <= n /\ SubSeq(text, i, i + Len(t) - 1) = t}
           next(i) == i + Max({1} \cup {Len(t) : t \in Known(i)})
           more(f, i) == IF i > n THEN 0 ELSE 1 + f[next(i)]
           count == CHOOSE f : f = [i \in S |-> more(f, i)]
           m == [i \in S |-> n + 1 - i]
           step == [p \in S \X [S -> Nat] |-> more(p[2], p[1])]
<1>1. Encode(text) = count[1]
  BY DEF Encode
<1>2. n \in Nat
  BY DEF Text
<1>3. ASSUME NEW i \in S, i <= n PROVE next(i) \in S /\ next(i) > i
  <2> DEFINE lengths == {1} \cup {Len(t) : t \in Known(i)}
  <2>1. ASSUME NEW t \in Known(i) PROVE Len(t) \in Int /\ Len(t) > 1 /\ Len(t) <= n + 1 - i
    <3>1. t \in Seq({"x", "y", "."}) /\ Len(t) > 1 /\ i + Len(t) - 1 <= n
      BY VocabularyAssumption DEF VocabularyAssumption, Text
    <3>2. Len(t) \in Nat
      BY <3>1
    <3> HIDE DEF n
    <3> QED
      BY <1>2, <3>1, <3>2
  <2> HIDE DEF n, Known
  <2>2. lengths # {} /\ lengths \subseteq Int /\ \A k \in lengths : k <= n + 1 - i /\ k >= 1
    BY <1>2, <1>3, <2>1
  <2> HIDE DEF lengths
  <2>3. Max(lengths) \in lengths
    <3>1. n + 1 - i \in Int
      BY <1>2
    <3> QED
      BY <2>2, <3>1, LargestIs
  <2>4. next(i) = i + Max(lengths)
    BY DEF lengths
  <2>5. Max(lengths) \in Int /\ Max(lengths) >= 1 /\ Max(lengths) <= n + 1 - i
    BY <2>2, <2>3
  <2> HIDE DEF next
  <2> QED
    BY <1>2, <2>4, <2>5
<1> HIDE DEF n, next
<1>4. m \in [S -> Nat] /\ \A i \in S : m[i] = n + 1 - i
  BY <1>2
<1> HIDE DEF m
<1>m. ASSUME NEW i \in S, i <= n PROVE m[next(i)] < m[i] /\ next(i) \in S
  <2>1. next(i) \in S /\ next(i) > i
    BY <1>3, <1>m
  <2>2. m[next(i)] = n + 1 - next(i) /\ m[i] = n + 1 - i
    BY <1>4, <2>1
  <2> QED
    BY <1>2, <2>1, <2>2
<1>5. ASSUME NEW f \in [S -> Nat], NEW i \in S PROVE more(f, i) \in Nat
  BY <1>2, <1>3, <1>5
<1>6. step \in Steps(S, Nat)
  BY <1>5 DEF Steps
<1>7. StepIsLocal(S, m, Nat, step)
  <2>1. ASSUME NEW i \in S, NEW f \in [S -> Nat], NEW g \in [S -> Nat],
               \A u \in S : m[u] < m[i] => f[u] = g[u]
        PROVE  more(f, i) = more(g, i)
    <3>1. ASSUME i <= n PROVE f[next(i)] = g[next(i)]
      <4>1. m[next(i)] < m[i] /\ next(i) \in S
        BY <1>m, <3>1
      <4> QED
        BY <2>1, <4>1
    <3> QED
      BY <1>2, <3>1
  <2> HIDE DEF more, S
  <2> QED
    BY <2>1 DEF StepIsLocal
<1>8. PICK f \in [S -> Nat] : Solves(f, S, step)
  <2> HIDE DEF S, step, count, more, Known
  <2>1. Nat # {}
    OBVIOUS
  <2> QED
    BY <1>4, <1>6, <1>7, <2>1, RecursionDefined
<1>9. f = [i \in S |-> more(f, i)]
  <2> HIDE DEF more, S
  <2> QED
    BY <1>8 DEF Solves, step
<1> HIDE DEF step
<1>10. count = [i \in S |-> more(count, i)]
  <2> HIDE DEF more, S
  <2> QED
    BY <1>9
<1> HIDE DEF count
<1> DEFINE P == {i \in S : count[i] \in Nat}
<1>11. ASSUME NEW i \in S, \A u \in S : m[u] < m[i] => u \in P PROVE i \in P
  <2>1. count[i] = more(count, i)
    BY <1>10
  <2>2. ASSUME i <= n PROVE count[next(i)] \in Nat
    <3>1. m[next(i)] < m[i] /\ next(i) \in S
      BY <1>m, <2>2
    <3> QED
      BY <1>11, <3>1
  <2> QED
    BY <1>2, <2>1, <2>2
<1>12. S \subseteq P
  <2> HIDE DEF S, P
  <2> QED
    BY <1>4, <1>11, MeasureInduction
<1>13. 1 \in S /\ count[1] \in Nat
  BY <1>2, <1>12
<1>14. ASSUME text # <<>> PROVE count[1] >= 1
  <2>1. n >= 1
    BY <1>14 DEF n, Text
  <2>2. count[1] = 1 + count[next(1)]
    BY <1>2, <1>10, <1>13, <2>1
  <2>3. next(1) \in S
    BY <1>3, <1>13, <2>1
  <2>4. count[next(1)] \in Nat
    BY <1>12, <2>3
  <2> QED
    BY <2>2, <2>4
<1> QED
  BY <1>1, <1>13, <1>14

-----------------------------------------------------------------------------
\* How texts are counted and split.

LEMMA SliceIs ==
  ASSUME NEW text \in Text, NEW from \in Nat, NEW to \in Nat, to <= Len(text)
  PROVE  /\ Slice(text, from, to) \in Text
         /\ from <= to => Len(Slice(text, from, to)) = to - from
<1> DEFINE C == {"x", "y", "."}
<1>1. text \in Seq(C) /\ Len(text) \in Nat /\ \A i \in 1 .. Len(text) : text[i] \in C
  BY DEF Text
<1> HIDE DEF C
<1>2. from + 1 \in Int /\ to \in Int /\ \A i \in from + 1 .. to : text[i] \in C
  BY <1>1
<1>3. /\ SubSeq(text, from + 1, to) \in Seq(C)
      /\ Len(SubSeq(text, from + 1, to)) = IF from + 1 <= to THEN to - (from + 1) + 1 ELSE 0
  BY <1>2, SubSeqProperties
<1>4. Text = Seq(C)
  BY DEF Text, C
<1>5. ASSUME from <= to PROVE Len(SubSeq(text, from + 1, to)) = to - from
  BY <1>3, <1>5
<1> QED
  BY <1>3, <1>4, <1>5 DEF Slice

LEMMA PlainIs ==
  ASSUME NEW n \in Nat
  PROVE  Plain(n) \in Text /\ Len(Plain(n)) = n
<1>1. Plain(n) \in [1 .. n -> {"x", "y", "."}]
  BY DEF Plain
<1>2. Plain(n) \in Seq({"x", "y", "."}) /\ Len(Plain(n)) = n
  BY <1>1
<1> QED
  BY <1>2 DEF Text

LEMMA CountIs ==
  ASSUME NEW counter \in Counter, NEW text \in Text
  PROVE  Count(counter, text) \in Nat
<1>1. counter.tokens \in Nat \ {0} /\ counter.chars \in Nat \ {0} /\ Len(text) \in Nat
  BY DEF Counter, Text
<1>2. Len(text) * counter.tokens \in Nat
  BY <1>1
<1>3. CeilDiv(Len(text) * counter.tokens, counter.chars) \in Nat
  BY <1>1, <1>2, CeilDivIs
<1> QED
  BY <1>3, EncodeIs DEF Count

\* An estimate of at most a token for a character: texts add up.
Estimate(counter) == ~counter.exact /\ counter.tokens <= counter.chars

LEMMA EstimateIs ==
  ASSUME NEW counter \in Counter, ~counter.exact, NEW text \in Text
  PROVE  /\ Count(counter, text) = CeilDiv(Len(text) * counter.tokens, counter.chars)
         /\ Estimate(counter) => Count(counter, text) <= Len(text)
         /\ \A more \in Text : Len(text) <= Len(more) => Count(counter, text) <= Count(counter, more)
<1> DEFINE t == counter.tokens
           c == counter.chars
<1>1. t \in Nat \ {0} /\ c \in Nat \ {0} /\ Len(text) \in Nat
  BY DEF Counter, Text
<1>2. Count(counter, text) = CeilDiv(Len(text) * t, c)
  BY DEF Count
<1>3. Estimate(counter) => CeilDiv(Len(text) * t, c) <= Len(text)
  <2>1. Estimate(counter) => t <= c
    BY DEF Estimate
  <2> HIDE DEF t, c
  <2> QED
    BY <1>1, <2>1, CeilDivShort
<1>4. ASSUME NEW more \in Text, Len(text) <= Len(more)
      PROVE  Count(counter, text) <= Count(counter, more)
  <2>1. Count(counter, more) = CeilDiv(Len(more) * t, c) /\ Len(more) \in Nat
    BY DEF Count, Text
  <2> HIDE DEF t, c
  <2>2. Len(text) * t \in Nat /\ Len(more) * t \in Nat /\ Len(text) * t <= Len(more) * t
    BY <1>1, <1>4, <2>1
  <2> QED
    BY <1>1, <1>2, <2>1, <2>2, CeilDivUp
<1> QED
  BY <1>2, <1>3, <1>4

\* A slice from start ends where it fits, if it does not end at start.
FitsFrom(counter, text, start, tokens, end) ==
  Count(counter, Slice(text, start, end)) <= tokens

LEMMA FitsSteadily ==
  ASSUME NEW counter \in Counter, Estimate(counter), NEW text \in Text,
         NEW start \in 0 .. Len(text), NEW tokens \in Nat \ {0}
  PROVE  /\ \A k, j \in start .. Len(text) :
              k <= j /\ FitsFrom(counter, text, start, tokens, j)
                => FitsFrom(counter, text, start, tokens, k)
         /\ start + 1 <= Len(text) => FitsFrom(counter, text, start, tokens, start + 1)
<1>1. Len(text) \in Nat
  BY DEF Text
<1>2. ASSUME NEW k \in start .. Len(text)
      PROVE  Slice(text, start, k) \in Text /\ Len(Slice(text, start, k)) = k - start
  <2>1. start \in Nat /\ k \in Nat /\ k <= Len(text) /\ start <= k
    BY <1>1
  <2> QED
    BY <2>1, SliceIs
<1>3. ASSUME NEW k \in start .. Len(text), NEW j \in start .. Len(text), k <= j,
             FitsFrom(counter, text, start, tokens, j)
      PROVE  FitsFrom(counter, text, start, tokens, k)
  <2> DEFINE a == Slice(text, start, k)
             b == Slice(text, start, j)
  <2>1. a \in Text /\ b \in Text /\ Len(a) <= Len(b)
    BY <1>2, <1>3
  <2> HIDE DEF a, b
  <2>2. Count(counter, a) <= Count(counter, b) /\ Count(counter, a) \in Nat /\ Count(counter, b) \in Nat
    BY <2>1, EstimateIs, CountIs DEF Estimate
  <2>3. Count(counter, b) <= tokens
    BY <1>3 DEF FitsFrom, b
  <2>4. Count(counter, a) <= tokens
    BY <2>2, <2>3
  <2> QED
    BY <2>4 DEF FitsFrom, a
<1>4. ASSUME start + 1 <= Len(text) PROVE FitsFrom(counter, text, start, tokens, start + 1)
  <2> DEFINE a == Slice(text, start, start + 1)
  <2>1. a \in Text /\ Len(a) = 1
    <3> DEFINE k == start + 1
    <3>1. k \in start .. Len(text) /\ k - start = 1
      BY <1>1, <1>4
    <3> HIDE DEF k
    <3>2. Slice(text, start, k) \in Text /\ Len(Slice(text, start, k)) = k - start
      BY <1>2, <3>1
    <3> QED
      BY <3>1, <3>2 DEF k
  <2> HIDE DEF a
  <2>2. Count(counter, a) <= 1 /\ Count(counter, a) \in Nat
    BY <2>1, EstimateIs, CountIs DEF Estimate
  <2>3. Count(counter, a) <= tokens
    BY <2>2
  <2> QED
    BY <2>3 DEF FitsFrom, a
<1> QED
  BY <1>3, <1>4

\* The binary search: its result is an offset that fits, or start; and the longest that
\* fits, if shorter slices of a slice that fits do.
LEMMA LongestFitIs ==
  ASSUME NEW counter \in Counter, NEW text \in Text, NEW start \in 0 .. Len(text),
         NEW tokens \in Nat
  PROVE  LET best == LongestFit(counter, text, start, tokens) IN
         /\ best \in start .. Len(text)
         /\ best # start => FitsFrom(counter, text, start, tokens, best)
         /\ (Estimate(counter) /\ tokens # 0 /\ start < Len(text)) => best > start
<1> DEFINE n == Len(text)
           offsets == 0 .. n
           S == [lo : 1 .. n + 1, hi : offsets, best : offsets]
           Ok(k) == FitsFrom(counter, text, start, tokens, k)
           mid(s) == (s.lo + s.hi) \div 2
           right(s) == [s EXCEPT !.lo = mid(s) + 1, !.best = mid(s)]
           left(s) == [s EXCEPT !.hi = mid(s) - 1]
           more(f, s) == IF s.lo > s.hi THEN s.best
                         ELSE IF Ok(mid(s)) THEN f[right(s)] ELSE f[left(s)]
           search == CHOOSE f : f = [s \in S |-> more(f, s)]
           m == [s \in S |-> s.hi + (n + 1 - s.lo)]
           step == [p \in S \X [S -> offsets] |-> more(p[2], p[1])]
           first == [lo |-> start + 1, hi |-> n, best |-> start]
<1>1. LongestFit(counter, text, start, tokens) = search[first]
  BY DEF LongestFit, FitsFrom
<1>2. n \in Nat
  BY DEF Text
<1>n. start \in 0 .. n
  OBVIOUS
<1> HIDE DEF n, Ok
<1>3. first \in S /\ first.lo = start + 1 /\ first.hi = n /\ first.best = start
  <2>2. start + 1 \in 1 .. n + 1 /\ n \in offsets /\ start \in offsets
    BY <1>2, <1>n
  <2> QED
    BY <2>2
<1>4. m \in [S -> Nat] /\ \A s \in S : m[s] = s.hi + (n + 1 - s.lo)
  BY <1>2
<1>5. ASSUME NEW s \in S, s.lo <= s.hi
      PROVE  /\ mid(s) \in s.lo .. s.hi /\ mid(s) \in offsets
             /\ right(s) \in S /\ right(s).lo = mid(s) + 1 /\ right(s).hi = s.hi /\ right(s).best = mid(s)
             /\ left(s) \in S /\ left(s).lo = s.lo /\ left(s).hi = mid(s) - 1 /\ left(s).best = s.best
             /\ m[right(s)] < m[s] /\ m[left(s)] < m[s]
  <2>1. s.lo \in 1 .. n + 1 /\ s.hi \in offsets /\ s.best \in offsets
    OBVIOUS
  <2>2. mid(s) \in s.lo .. s.hi
    BY <1>2, <1>5, <2>1
  <2> HIDE DEF mid
  <2>3. mid(s) \in offsets /\ mid(s) + 1 \in 1 .. n + 1 /\ mid(s) - 1 \in offsets
    BY <1>2, <2>1, <2>2
  <2>4. /\ right(s) \in S /\ right(s).lo = mid(s) + 1 /\ right(s).hi = s.hi /\ right(s).best = mid(s)
        /\ left(s) \in S /\ left(s).lo = s.lo /\ left(s).hi = mid(s) - 1 /\ left(s).best = s.best
    BY <2>1, <2>3
  <2> HIDE DEF right, left, m
  <2>5. /\ m[right(s)] = s.hi + (n + 1 - (mid(s) + 1))
        /\ m[left(s)] = (mid(s) - 1) + (n + 1 - s.lo)
        /\ m[s] = s.hi + (n + 1 - s.lo)
    <3> HIDE DEF S
    <3> QED
      BY <1>4, <2>4
  <2>6. m[right(s)] < m[s] /\ m[left(s)] < m[s]
    BY <1>2, <2>1, <2>2, <2>5
  <2> QED
    BY <2>2, <2>3, <2>4, <2>6
<1>s. \A s \in S : s.lo \in Int /\ s.hi \in Int /\ s.best \in offsets
  BY <1>2
<1> HIDE DEF m, mid, right, left, S, first
<1>6. step \in Steps(S, offsets)
  <2>1. ASSUME NEW f \in [S -> offsets], NEW s \in S PROVE more(f, s) \in offsets
    BY <1>5, <1>s
  <2> QED
    BY <2>1 DEF Steps
<1>7. StepIsLocal(S, m, offsets, step)
  <2>1. ASSUME NEW s \in S, NEW f \in [S -> offsets], NEW g \in [S -> offsets],
               \A u \in S : m[u] < m[s] => f[u] = g[u]
        PROVE  more(f, s) = more(g, s)
    BY <1>5, <1>s, <2>1
  <2> HIDE DEF more
  <2> QED
    BY <2>1 DEF StepIsLocal
<1>8. PICK f \in [S -> offsets] : Solves(f, S, step)
  <2> HIDE DEF step, search, more
  <2>1. offsets # {}
    BY <1>2
  <2> HIDE DEF offsets
  <2> QED
    BY <1>4, <1>6, <1>7, <2>1, RecursionDefined
<1>9. f = [s \in S |-> more(f, s)]
  <2> HIDE DEF more
  <2> QED
    BY <1>8 DEF Solves, step
<1> HIDE DEF step
<1>10. search = [s \in S |-> more(search, s)]
  <2> HIDE DEF more
  <2> QED
    BY <1>9
<1> HIDE DEF search
<1> DEFINE Found(s) == LET e == search[s] IN
                       /\ e \in offsets
                       /\ e = s.best \/ (e \in s.lo .. s.hi /\ Ok(e))
           P == {s \in S : Found(s)}
<1>11. ASSUME NEW s \in S, \A u \in S : m[u] < m[s] => u \in P PROVE s \in P
  <2>1. search[s] = more(search, s)
    BY <1>10
  <2>2. CASE s.lo > s.hi
    BY <1>s, <2>1, <2>2
  <2>3. CASE s.lo <= s.hi /\ Ok(mid(s))
    <3>1. Found(right(s)) /\ search[s] = search[right(s)]
      <4>1. right(s) \in P
        BY <1>5, <1>11, <2>3
      <4>2. search[s] = search[right(s)]
        BY <1>s, <2>1, <2>3
      <4> QED
        BY <4>1, <4>2
    <3>2. mid(s) \in s.lo .. s.hi /\ right(s).lo = mid(s) + 1 /\ right(s).hi = s.hi /\ right(s).best = mid(s)
      BY <1>5, <2>3
    <3> QED
      BY <1>s, <2>3, <3>1, <3>2
  <2>4. CASE s.lo <= s.hi /\ ~Ok(mid(s))
    <3>1. Found(left(s)) /\ search[s] = search[left(s)]
      <4>1. left(s) \in P
        BY <1>5, <1>11, <2>4
      <4>2. search[s] = search[left(s)]
        BY <1>s, <2>1, <2>4
      <4> QED
        BY <4>1, <4>2
    <3>2. mid(s) \in s.lo .. s.hi /\ left(s).lo = s.lo /\ left(s).hi = mid(s) - 1 /\ left(s).best = s.best
      BY <1>5, <2>4
    <3> QED
      BY <1>s, <2>4, <3>1, <3>2
  <2> QED
    BY <1>s, <2>2, <2>3, <2>4
<1>12. S \subseteq P
  <2> HIDE DEF P
  <2> QED
    BY <1>4, <1>11, MeasureInduction
<1>13. Found(first)
  BY <1>3, <1>12
<1> DEFINE Q == {s \in S : (start < s.lo /\ s.best >= s.lo - 1)
                             => \A k \in s.lo .. s.hi : Ok(k) => search[s] >= k}
<1>14. ASSUME Estimate(counter), tokens # 0 PROVE first \in Q
  <2>0. \A j, k \in start .. n : k <= j /\ Ok(j) => Ok(k)
    BY <1>14, FitsSteadily DEF n, Ok
  <2>1. ASSUME NEW s \in S, \A u \in S : m[u] < m[s] => u \in Q PROVE s \in Q
    <3> SUFFICES ASSUME start < s.lo, s.best >= s.lo - 1, NEW k \in s.lo .. s.hi, Ok(k)
                 PROVE  search[s] >= k
      OBVIOUS
    <3>1. search[s] = more(search, s) /\ s.lo <= s.hi /\ s.lo \in Int /\ s.hi \in Int
      <4>1. search[s] = more(search, s)
        BY <1>10
      <4>2. s.lo \in Int /\ s.hi \in Int /\ k \in s.lo .. s.hi
        BY <1>s
      <4> QED
        BY <4>1, <4>2
    <3>k. s.hi \in offsets
      BY DEF S
    <3>2. CASE Ok(mid(s))
      <4>1. right(s) \in Q /\ right(s) \in P /\ search[s] = search[right(s)]
        BY <1>5, <1>12, <2>1, <3>1, <3>2
      <4>2. mid(s) \in s.lo .. s.hi /\ right(s).lo = mid(s) + 1 /\ right(s).hi = s.hi /\ right(s).best = mid(s)
        BY <1>5, <3>1
      <4>3. search[s] >= mid(s)
        BY <3>1, <4>1, <4>2
      <4>4. CASE k > mid(s)
        BY <3>1, <4>1, <4>2, <4>4
      <4>5. CASE k <= mid(s)
        <5>1. search[s] \in Int /\ mid(s) \in Int
          BY <3>1, <4>1, <4>2
        <5> QED
          BY <3>1, <4>3, <4>5, <5>1
      <4> QED
        BY <3>1, <4>2, <4>4, <4>5
    <3>3. CASE ~Ok(mid(s))
      <4>1. left(s) \in Q /\ search[s] = search[left(s)]
        BY <1>5, <2>1, <3>1, <3>3
      <4>2. mid(s) \in s.lo .. s.hi /\ left(s).lo = s.lo /\ left(s).hi = mid(s) - 1 /\ left(s).best = s.best
        BY <1>5, <3>1
      <4>3. k < mid(s)
        <5>1. k \in start .. n /\ mid(s) \in start .. n
          BY <1>2, <3>1, <3>k, <4>2
        <5>2. ~(mid(s) <= k)
          BY <2>0, <3>3, <5>1
        <5> QED
          BY <1>2, <5>1, <5>2
      <4> QED
        BY <3>1, <4>1, <4>2, <4>3
    <3> QED
      BY <3>2, <3>3
  <2>2. S \subseteq Q
    <3> HIDE DEF Q
    <3> QED
      BY <1>4, <2>1, MeasureInduction
  <2> QED
    BY <1>3, <2>2
<1>15. ASSUME Estimate(counter), tokens # 0, start < n PROVE search[first] > start
  <2>1. Ok(start + 1)
    <3>1. start + 1 <= Len(text)
      BY <1>2, <1>15 DEF n
    <3> QED
      BY <1>15, <3>1, FitsSteadily DEF Ok
  <2>2. start + 1 \in first.lo .. first.hi /\ start < first.lo /\ first.best >= first.lo - 1
    BY <1>2, <1>3, <1>15
  <2>3. search[first] >= start + 1 /\ search[first] \in offsets
    BY <1>13, <1>14, <1>15, <2>1, <2>2
  <2> QED
    BY <1>2, <2>3
<1>16. search[first] \in start .. n /\ (search[first] # start => Ok(search[first]))
  BY <1>2, <1>3, <1>13
<1> QED
  BY <1>1, <1>15, <1>16 DEF n, Ok

Piece == [from : Nat, to : Nat]

LEMMA SliceEndIs ==
  ASSUME NEW counter \in Counter, NEW text \in Text, NEW start \in 0 .. Len(text),
         NEW tokens \in Nat
  PROVE  LET end == SliceEnd(counter, text, start, tokens) IN
         /\ end \in start .. Len(text)
         /\ end # start => FitsFrom(counter, text, start, tokens, end)
         /\ (Estimate(counter) /\ tokens # 0 /\ start < Len(text)) => end > start
<1> DEFINE n == Len(text)
           best == LongestFit(counter, text, start, tokens)
           floor == AtLeast(start + 1, start + (best - start) \div 2)
           marks == {i \in floor .. best - 1 : text[i + 1] = "."}
           cut == Max({-1} \cup marks)
           taken == /\ best < n
                    /\ cut > floor
                    /\ FitsFrom(counter, text, start, tokens, cut + 1)
<1>1. SliceEnd(counter, text, start, tokens) = IF taken THEN cut + 1 ELSE best
  BY DEF SliceEnd, FitsFrom
<1>2. /\ n \in Nat /\ best \in start .. n /\ start \in 0 .. n
      /\ best # start => FitsFrom(counter, text, start, tokens, best)
      /\ (Estimate(counter) /\ tokens # 0 /\ start < n) => best > start
  <2>1. n \in Nat
    BY DEF Text
  <2>2. /\ best \in start .. n
        /\ best # start => FitsFrom(counter, text, start, tokens, best)
        /\ (Estimate(counter) /\ tokens # 0 /\ start < n) => best > start
    BY LongestFitIs
  <2> QED
    BY <2>1, <2>2
<1> HIDE DEF n, best
<1>3. floor \in Int /\ floor >= start + 1
  BY <1>2 DEF AtLeast
<1> HIDE DEF floor
<1>4. cut \in {-1} \cup marks
  <2> DEFINE all == {-1} \cup marks
  <2>1. all # {} /\ all \subseteq Int /\ \A k \in all : k <= n
    BY <1>2, <1>3
  <2> HIDE DEF all
  <2>2. Max(all) \in all
    <3>1. n \in Int
      BY <1>2
    <3> QED
      BY <2>1, <3>1, LargestIs
  <2> QED
    BY <2>2 DEF all
<1> HIDE DEF cut
<1>5. ASSUME taken PROVE cut + 1 \in start + 1 .. best
  <2>1. cut # -1
    BY <1>2, <1>3, <1>5
  <2>2. cut \in floor .. best - 1
    BY <1>4, <2>1
  <2> QED
    BY <1>2, <1>3, <2>2
<1>6. CASE taken
  <2>1. cut + 1 \in start .. n /\ cut + 1 > start /\ FitsFrom(counter, text, start, tokens, cut + 1)
    BY <1>2, <1>5, <1>6
  <2> QED
    BY <1>1, <1>6, <2>1 DEF n
<1>7. CASE ~taken
  <2> HIDE DEF taken
  <2> QED
    BY <1>1, <1>2, <1>7 DEF n
<1> QED
  BY <1>6, <1>7

LEMMA NextStartIs ==
  ASSUME NEW start \in Nat, NEW end \in Nat, start < end, NEW overlap \in Nat
  PROVE  NextStart(start, end, overlap) \in start + 1 .. end
<1> DEFINE fifth == AtLeast(1, (end - start) \div 5)
           back == AtMost(overlap, fifth)
<1>1. fifth \in Nat
  BY DEF AtLeast
<1> HIDE DEF fifth
<1>2. back \in Nat
  BY <1>1 DEF AtMost
<1>3. NextStart(start, end, overlap) = AtLeast(start + 1, end - back)
  BY DEF NextStart, fifth
<1> HIDE DEF back
<1> QED
  BY <1>2, <1>3 DEF AtLeast

\* Slices that leave nothing out, from an offset to an end.
Gapless(seq, from, to) ==
  /\ seq \in Seq(Piece)
  /\ seq # <<>>
  /\ seq[1].from = from
  /\ seq[Len(seq)].to = to
  /\ \A i \in 1 .. Len(seq) : seq[i].from <= seq[i].to /\ seq[i].to <= to
  /\ \A i \in 1 .. Len(seq) - 1 : seq[i + 1].from <= seq[i].to

AllFit(seq, counter, text, tokens) ==
  \A i \in 1 .. Len(seq) : FitsFrom(counter, text, seq[i].from, tokens, seq[i].to)

LEMMA OneSlice ==
  ASSUME NEW from \in Nat, NEW to \in Nat, from <= to
  PROVE  LET here == <<[from |-> from, to |-> to]>> IN
         Gapless(here, from, to) /\ Len(here) = 1 /\ here[1] = [from |-> from, to |-> to]
<1> DEFINE p == [from |-> from, to |-> to]
<1>1. p \in Piece /\ p.from = from /\ p.to = to
  BY DEF Piece
<1> HIDE DEF p
<1>2. <<p>> \in Seq(Piece) /\ <<p>> # <<>> /\ Len(<<p>>) = 1 /\ <<p>>[1] = p
  BY <1>1
<1>3. Gapless(<<p>>, from, to)
  BY <1>1, <1>2 DEF Gapless
<1> QED
  BY <1>2, <1>3 DEF p

LEMMA OneMoreSlice ==
  ASSUME NEW from \in Nat, NEW mid \in Nat, NEW next \in Nat, NEW to \in Nat, from <= mid,
         next <= mid, mid <= to, NEW rest, Gapless(rest, next, to)
  PROVE  LET all == <<[from |-> from, to |-> mid]>> \o rest IN
         /\ Gapless(all, from, to)
         /\ Len(all) = Len(rest) + 1
         /\ all[1] = [from |-> from, to |-> mid]
         /\ \A i \in 2 .. Len(all) : all[i] = rest[i - 1]
<1> DEFINE p == [from |-> from, to |-> mid]
           here == <<p>>
           all == here \o rest
           n == Len(rest)
<1>1. p \in Piece /\ p.from = from /\ p.to = mid
  BY DEF Piece
<1> HIDE DEF p
<1>2. rest \in Seq(Piece) /\ n \in Nat /\ n # 0 /\ here \in Seq(Piece) /\ Len(here) = 1 /\ here[1] = p
  BY <1>1 DEF Gapless
<1>3. /\ all \in Seq(Piece) /\ Len(all) = n + 1
      /\ \A i \in 1 .. n + 1 : all[i] = IF i = 1 THEN p ELSE rest[i - 1]
  <2> HIDE DEF here
  <2> DEFINE k == Len(here)
  <2>1. all \in Seq(Piece) /\ Len(all) = k + n /\ \A i \in 1 .. k + n : all[i] = IF i <= k THEN here[i] ELSE rest[i - k]
    BY <1>2, ConcatProperties
  <2>2. k = 1
    BY <1>2
  <2> HIDE DEF k, all
  <2>3. Len(all) = n + 1 /\ \A i \in 1 .. n + 1 : all[i] = IF i <= 1 THEN here[i] ELSE rest[i - 1]
    BY <1>2, <2>1, <2>2
  <2>4. \A i \in 1 .. n + 1 : i <= 1 => i = 1
    BY <1>2
  <2> QED
    BY <1>2, <2>1, <2>3, <2>4
<1> HIDE DEF all, here
<1>4. all # <<>> /\ all[1] = p /\ 1 \in 1 .. n + 1
  BY <1>2, <1>3
<1>5. all[n + 1] = rest[n]
  BY <1>2, <1>3
<1>6. \A i \in 1 .. n : rest[i].from <= rest[i].to /\ rest[i].to <= to
  BY DEF Gapless
<1>7. ASSUME NEW i \in 1 .. n + 1 PROVE all[i].from <= all[i].to /\ all[i].to <= to
  <2>1. CASE i = 1
    BY <1>1, <1>4, <2>1
  <2>2. CASE i # 1
    <3>1. i - 1 \in 1 .. n /\ all[i] = rest[i - 1]
      BY <1>2, <1>3, <2>2
    <3> QED
      BY <1>6, <3>1
  <2> QED
    BY <2>1, <2>2
<1>8. ASSUME NEW i \in 1 .. n + 1 - 1 PROVE all[i + 1].from <= all[i].to
  <2>1. i + 1 \in 1 .. n + 1 /\ i + 1 # 1 /\ i + 1 - 1 = i /\ i \in 1 .. n + 1
    BY <1>2
  <2>2. all[i + 1] = rest[i]
    BY <1>3, <2>1
  <2>3. CASE i = 1
    <3>1. rest[1].from = next
      BY DEF Gapless
    <3> QED
      BY <1>1, <1>4, <2>2, <2>3, <3>1
  <2>4. CASE i # 1
    <3>1. i - 1 \in 1 .. n - 1 /\ i - 1 + 1 = i
      BY <1>2, <2>4
    <3>2. all[i] = rest[i - 1]
      BY <1>3, <2>1, <2>4
    <3>3. rest[i - 1 + 1].from <= rest[i - 1].to
      BY <3>1 DEF Gapless
    <3> QED
      BY <2>2, <3>1, <3>2, <3>3
  <2> QED
    BY <2>3, <2>4
<1>9. rest[n].to = to
  BY DEF Gapless
<1>10. Gapless(all, from, to)
  BY <1>1, <1>2, <1>3, <1>4, <1>5, <1>7, <1>8, <1>9 DEF Gapless
<1>11. \A i \in 2 .. n + 1 : all[i] = rest[i - 1]
  BY <1>2, <1>3
<1> QED
  BY <1>2, <1>3, <1>4, <1>10, <1>11 DEF all, here, p

\* What split_text returns leaves nothing out, and every slice fits; an estimate of at
\* most a token for a character lets every text be split.
LEMMA SplitTextIs ==
  ASSUME NEW counter \in Counter, NEW text \in Text, NEW tokens \in Nat, NEW overlap \in Nat
  PROVE  LET parts == SplitText(counter, text, tokens, overlap) IN
         /\ parts # Null =>
              /\ Gapless(parts, 0, Len(text)) /\ AllFit(parts, counter, text, tokens)
              /\ Len(parts) <= AtLeast(1, Len(text))
         /\ (Estimate(counter) /\ tokens # 0) => parts # Null
<1> DEFINE n == Len(text)
           S == 0 .. n
           X == Seq(Piece) \cup {Null}
           end(s) == SliceEnd(counter, text, s, tokens)
           next(s) == NextStart(s, end(s), overlap)
           here(s) == <<[from |-> s, to |-> end(s)]>>
           more(f, s) == IF end(s) <= s THEN Null
                         ELSE IF end(s) >= n THEN here(s)
                         ELSE LET rest == f[next(s)]
                              IN  IF rest = Null THEN Null ELSE here(s) \o rest
           cut == CHOOSE f : f = [s \in S |-> more(f, s)]
           m == [s \in S |-> n - s]
           step == [p \in S \X [S -> X] |-> more(p[2], p[1])]
           whole == <<[from |-> 0, to |-> n]>>
<1>1. SplitText(counter, text, tokens, overlap) =
        IF tokens < 1 THEN Null
        ELSE IF Count(counter, text) <= tokens THEN whole ELSE cut[0]
  BY DEF SplitText
<1>2. n \in Nat
  BY DEF Text
<1>3. ASSUME NEW s \in S
      PROVE  /\ end(s) \in s .. n
             /\ end(s) # s => FitsFrom(counter, text, s, tokens, end(s))
             /\ (Estimate(counter) /\ tokens # 0 /\ s < n) => end(s) > s
  BY SliceEndIs
<1> HIDE DEF end
<1>4. ASSUME NEW s \in S, end(s) > s
      PROVE  next(s) \in S /\ next(s) > s /\ next(s) <= end(s)
  <2>1. s \in Nat /\ end(s) \in Nat /\ s < end(s) /\ end(s) <= n
    BY <1>2, <1>3, <1>4
  <2>2. next(s) \in s + 1 .. end(s)
    BY <2>1, NextStartIs
  <2> HIDE DEF next
  <2> QED
    BY <1>2, <2>1, <2>2
<1> HIDE DEF next, n
<1>5. m \in [S -> Nat] /\ \A s \in S : m[s] = n - s
  BY <1>2
<1> HIDE DEF m
<1>6. ASSUME NEW s \in S, end(s) > s PROVE m[next(s)] < m[s] /\ next(s) \in S
  BY <1>2, <1>4, <1>5, <1>6
<1>7. ASSUME NEW s \in S, end(s) > s
      PROVE  here(s) \in Seq(Piece)
  <2>1. s \in Nat /\ end(s) \in Nat
    BY <1>2, <1>3
  <2> QED
    BY <2>1 DEF Piece
<1>i. ASSUME NEW s \in S PROVE s \in Nat /\ end(s) \in Nat /\ end(s) <= n
  BY <1>2, <1>3
<1>8. step \in Steps(S, X)
  <2>1. ASSUME NEW f \in [S -> X], NEW s \in S PROVE more(f, s) \in X
    <3>1. ASSUME end(s) > s, f[next(s)] # Null PROVE here(s) \o f[next(s)] \in Seq(Piece)
      <4>1. f[next(s)] \in Seq(Piece)
        BY <1>6, <3>1
      <4>2. here(s) \in Seq(Piece)
        BY <1>7, <3>1
      <4> HIDE DEF here
      <4> QED
        BY <4>1, <4>2
    <3>2. ASSUME end(s) > s PROVE here(s) \in Seq(Piece)
      BY <1>7, <3>2
    <3> HIDE DEF here, S
    <3> QED
      BY <1>i, <3>1, <3>2
  <2> HIDE DEF more, S, X
  <2> QED
    BY <2>1 DEF Steps
<1>9. StepIsLocal(S, m, X, step)
  <2>1. ASSUME NEW s \in S, NEW f \in [S -> X], NEW g \in [S -> X],
               \A u \in S : m[u] < m[s] => f[u] = g[u]
        PROVE  more(f, s) = more(g, s)
    <3>1. ASSUME end(s) > s PROVE f[next(s)] = g[next(s)]
      BY <1>6, <2>1, <3>1
    <3> HIDE DEF here, S, X
    <3> QED
      BY <1>i, <3>1
  <2> HIDE DEF more, S, X
  <2> QED
    BY <2>1 DEF StepIsLocal
<1> HIDE DEF step
<1>10. PICK f \in [S -> X] : Solves(f, S, step)
  <2>1. X # {}
    OBVIOUS
  <2> HIDE DEF X, S, cut, more, here
  <2> QED
    BY <1>5, <1>8, <1>9, <2>1, RecursionDefined
<1>11. f = [s \in S |-> more(f, s)]
  <2> HIDE DEF more, S, X
  <2> QED
    BY <1>10 DEF Solves, step
<1>12. cut = [s \in S |-> more(cut, s)]
  <2> HIDE DEF more, S, X
  <2> QED
    BY <1>11
<1> HIDE DEF cut
<1> DEFINE Right(seq, s) == /\ Gapless(seq, s, n)
                            /\ AllFit(seq, counter, text, tokens)
                            /\ Len(seq) <= n - s
           P == {s \in S : /\ cut[s] # Null => Right(cut[s], s)
                           /\ (Estimate(counter) /\ tokens # 0 /\ s < n) => cut[s] # Null}
<1>null. Null \notin Seq(Piece)
  BY VocabularyAssumption DEF VocabularyAssumption, Piece
<1>13. ASSUME NEW s \in S, \A u \in S : m[u] < m[s] => u \in P PROVE s \in P
  <2>1. cut[s] = more(cut, s)
    BY <1>12
  <2>i. s \in Nat /\ end(s) \in Nat /\ s <= n
    BY <1>2, <1>i
  <2>2. CASE end(s) <= s
    <3>1. cut[s] = Null
      BY <2>1, <2>2
    <3>2. ~(Estimate(counter) /\ tokens # 0 /\ s < n)
      BY <1>3, <2>2, <2>i
    <3> QED
      BY <3>1, <3>2
  <2>3. CASE end(s) > s /\ end(s) >= n
    <3>1. cut[s] = here(s) /\ end(s) = n
      BY <1>2, <1>i, <2>1, <2>3, <2>i
    <3>2. Gapless(here(s), s, n) /\ Len(here(s)) = 1 /\ here(s)[1] = [from |-> s, to |-> n]
      BY <1>2, <2>i, <3>1, OneSlice
    <3>3. here(s) # Null /\ n - s >= 1
      <4>1. here(s) # Null
        BY <1>null, <3>2 DEF Gapless
      <4>2. n - s >= 1
        <5> HIDE DEF here, S
        <5> QED
          BY <1>2, <2>3, <2>i, <3>1
      <4> QED
        BY <4>1, <4>2
    <3>4. FitsFrom(counter, text, s, tokens, n)
      BY <1>3, <2>3, <2>i, <3>1
    <3> HIDE DEF here
    <3>5. AllFit(here(s), counter, text, tokens)
      <4>1. \A i \in 1 .. Len(here(s)) : here(s)[i].from = s /\ here(s)[i].to = n
        BY <3>2
      <4> QED
        BY <3>4, <4>1 DEF AllFit
    <3> QED
      BY <3>1, <3>2, <3>3, <3>5
  <2>4. CASE end(s) > s /\ end(s) < n
    <3> DEFINE rest == cut[next(s)]
    <3>1. cut[s] = IF rest = Null THEN Null ELSE here(s) \o rest
      BY <1>2, <2>1, <2>4, <2>i
    <3>2. next(s) \in P /\ next(s) \in S /\ next(s) > s /\ next(s) <= end(s) /\ next(s) \in Nat
      BY <1>2, <1>4, <1>6, <1>13, <2>4
    <3>3. rest # Null => Right(rest, next(s))
      BY <3>2
    <3>4. (Estimate(counter) /\ tokens # 0) => rest # Null
      <4>1. next(s) < n
        BY <1>2, <2>4, <2>i, <3>2
      <4> QED
        BY <3>2, <4>1
    <3>5. ASSUME rest # Null PROVE Right(here(s) \o rest, s) /\ here(s) \o rest # Null
      <4> HIDE DEF rest
      <4>1. Gapless(rest, next(s), n)
        BY <3>3, <3>5
      <4>2. LET all == here(s) \o rest IN
            /\ Gapless(all, s, n)
            /\ Len(all) = Len(rest) + 1
            /\ all[1] = [from |-> s, to |-> end(s)]
            /\ \A i \in 2 .. Len(all) : all[i] = rest[i - 1]
        <5>1. s <= end(s) /\ end(s) <= n
          BY <1>2, <2>4, <2>i
        <5> HIDE DEF next
        <5> QED
          BY <1>2, <2>i, <3>2, <4>1, <5>1, OneMoreSlice
      <4> DEFINE all == here(s) \o rest
      <4>3. Gapless(all, s, n) /\ Len(all) = Len(rest) + 1 /\ \A i \in 2 .. Len(all) : all[i] = rest[i - 1]
        BY <4>2
      <4>4. all[1].from = s /\ all[1].to = end(s)
        BY <4>2
      <4> HIDE DEF all, here
      <4>5. Len(rest) \in Nat /\ Len(rest) <= n - next(s)
        BY <3>3, <3>5, <4>1 DEF Gapless
      <4>6. AllFit(all, counter, text, tokens)
        <5> SUFFICES ASSUME NEW i \in 1 .. Len(all)
                     PROVE  FitsFrom(counter, text, all[i].from, tokens, all[i].to)
          BY DEF AllFit
        <5>1. CASE i = 1
          <6>1. FitsFrom(counter, text, s, tokens, end(s))
            BY <1>3, <2>4, <2>i
          <6> QED
            BY <4>4, <5>1, <6>1
        <5>2. CASE i # 1
          <6>1. i \in 2 .. Len(all) /\ i - 1 \in 1 .. Len(rest)
            BY <4>3, <4>5, <5>2
          <6>2. all[i] = rest[i - 1]
            BY <4>3, <6>1
          <6>3. AllFit(rest, counter, text, tokens)
            BY <3>3, <3>5
          <6> QED
            BY <6>1, <6>2, <6>3 DEF AllFit
        <5> QED
          BY <5>1, <5>2
      <4>7. Len(all) <= n - s
        BY <1>2, <2>i, <3>2, <4>3, <4>5
      <4>8. all # Null
        BY <1>null, <4>3 DEF Gapless
      <4> QED
        BY <4>3, <4>6, <4>7, <4>8 DEF all
    <3> HIDE DEF rest, Right, here
    <3> QED
      BY <3>1, <3>4, <3>5
  <2> HIDE DEF P, S
  <2> QED
    BY <1>2, <2>2, <2>3, <2>4, <2>i
<1>14. S \subseteq P
  <2> HIDE DEF P, S
  <2> QED
    BY <1>5, <1>13, MeasureInduction
<1>15. 0 \in P
  BY <1>2, <1>14
<1>16. ASSUME Count(counter, text) <= tokens
       PROVE  Gapless(whole, 0, n) /\ AllFit(whole, counter, text, tokens) /\ Len(whole) = 1
              /\ whole # Null
  <2>1. Gapless(whole, 0, n) /\ Len(whole) = 1 /\ whole[1].from = 0 /\ whole[1].to = n
    BY <1>2, OneSlice
  <2>2. Slice(text, 0, n) = text
    BY SubSeqFull DEF Slice, n, Text
  <2> HIDE DEF whole
  <2>3. FitsFrom(counter, text, 0, tokens, n)
    BY <1>16, <2>2 DEF FitsFrom
  <2>4. AllFit(whole, counter, text, tokens)
    <3>1. \A i \in 1 .. Len(whole) : i = 1
      BY <2>1
    <3> QED
      BY <2>1, <2>3, <3>1 DEF AllFit
  <2>5. whole # Null
    BY <1>null, <2>1 DEF Gapless
  <2> QED
    BY <2>1, <2>4, <2>5
<1>17. ASSUME ~(Count(counter, text) <= tokens), Estimate(counter) PROVE 0 < n
  <2>1. Count(counter, text) <= Len(text) /\ Count(counter, text) \in Nat
    BY <1>17, EstimateIs, CountIs DEF Estimate
  <2> QED
    BY <1>2, <1>17, <2>1 DEF n
<1>18. AtLeast(1, n) >= n /\ AtLeast(1, n) >= 1 /\ AtLeast(1, n) \in Nat
  BY <1>2 DEF AtLeast
<1> HIDE DEF whole
<1>19. CASE tokens < 1
  BY <1>1, <1>19
<1>20. CASE ~(tokens < 1) /\ Count(counter, text) <= tokens
  BY <1>1, <1>16, <1>18, <1>20 DEF n
<1>21. CASE ~(tokens < 1) /\ ~(Count(counter, text) <= tokens)
  <2>1. SplitText(counter, text, tokens, overlap) = cut[0]
    BY <1>1, <1>21
  <2>2. cut[0] # Null =>
          Gapless(cut[0], 0, n) /\ AllFit(cut[0], counter, text, tokens) /\ Len(cut[0]) <= n
    BY <1>2, <1>15
  <2>3. cut[0] # Null => Len(cut[0]) <= AtLeast(1, n)
    BY <1>2, <1>18, <2>2 DEF Gapless
  <2>4. (Estimate(counter) /\ tokens # 0) => cut[0] # Null
    BY <1>15, <1>17, <1>21
  <2> QED
    BY <2>1, <2>2, <2>3, <2>4 DEF n
<1> QED
  BY <1>19, <1>20, <1>21

-----------------------------------------------------------------------------
\* What a request may have, and what it is made of.

LEMMA RouteIs ==
  ASSUME NEW r \in Routes
  PROVE  r.counter \in Counter /\ InputBudget(r) \in Nat \cup {Null}
<1>1. r.context \in Nat /\ r.reserve \in Nat /\ r.safety \in Nat /\ r.counter \in Counter
  BY JudgeAssumption DEF JudgeAssumption, Route
<1>2. NonNegative(r.context - r.reserve) \in Nat
  BY <1>1 DEF NonNegative
<1>3. NonNegative(r.context - r.reserve) * r.safety \in Nat
  BY <1>1, <1>2
<1>4. (NonNegative(r.context - r.reserve) * r.safety) \div 100 \in Nat
  BY <1>3
<1> QED
  BY <1>1, <1>4 DEF InputBudget

LEMMA RemainingIs ==
  ASSUME NEW r \in Routes, NEW used \in Nat
  PROVE  /\ Remaining(r, used) \in Nat \cup {Null}
         /\ Remaining(r, used) = Null <=> InputBudget(r) = Null
         /\ Remaining(r, used) # Null =>
              /\ InputBudget(r) \in Nat
              /\ Remaining(r, used) > 0 => Remaining(r, used) = InputBudget(r) - used
              /\ InputBudget(r) - used <= Remaining(r, used)
<1>1. Null \notin Nat
  BY VocabularyAssumption DEF VocabularyAssumption
<1>2. CASE InputBudget(r) = Null
  BY <1>2 DEF Remaining
<1>3. CASE InputBudget(r) # Null
  <2>1. InputBudget(r) \in Nat
    BY <1>3, RouteIs
  <2>2. NonNegative(InputBudget(r) - used) \in Nat
    BY <2>1 DEF NonNegative
  <2>3. Remaining(r, used) = NonNegative(InputBudget(r) - used)
    BY <1>3 DEF Remaining
  <2>4. Remaining(r, used) # Null
    BY <1>1, <2>2, <2>3
  <2>5. /\ NonNegative(InputBudget(r) - used) > 0 => NonNegative(InputBudget(r) - used) = InputBudget(r) - used
        /\ InputBudget(r) - used <= NonNegative(InputBudget(r) - used)
    BY <2>1 DEF NonNegative
  <2> QED
    BY <1>3, <2>1, <2>2, <2>3, <2>4, <2>5
<1> QED
  BY <1>2, <1>3

LEMMA JobIs ==
  ASSUME NEW j \in Jobs
  PROVE  /\ j.kind \in Kinds /\ j.block \in Block
         /\ j.questions \in Seq(Nat) /\ j.notes \in Seq(Nat) /\ j.evidence \in Seq(Nat)
         /\ j.bundle # Null => j.bundle \in Seq(Nat)
         /\ j.block.text \in Text /\ Len(j.block.text) \in Nat
<1>1. j \in Job
  BY JudgeAssumption DEF JudgeAssumption
<1>2. j.block \in Block /\ j.kind \in Kinds
  BY <1>1 DEF Job
<1>3. j.questions \in Seq(Nat) /\ j.notes \in Seq(Nat) /\ j.evidence \in Seq(Nat)
      /\ j.bundle \in Seq(Nat) \cup {Null}
  BY <1>1 DEF Job
<1>4. j.block.text \in Text
  BY <1>2 DEF Block
<1>5. Len(j.block.text) \in Nat
  BY <1>4 DEF Text
<1> QED
  BY <1>2, <1>3, <1>4, <1>5

LEMMA MediaIs ==
  ASSUME NEW b \in Block
  PROVE  /\ MediaOf(b) \in Nat
         /\ DirectImage(route, b) \/ DirectAudio(route, b) => MediaOf(b) > 0
<1> DEFINE items == {m \in {"image", "audio"} :
                       IF m = "image" THEN DirectImage(route, b) ELSE DirectAudio(route, b)}
           others == IF "vision" \in route.capabilities THEN AtMost(b.related, 4) ELSE 0
<1>1. IsFiniteSet(items)
  <2>1. IsFiniteSet({"image", "audio"})
    <3>1. IsFiniteSet({"image"} \cup {"audio"})
      BY FS_Singleton, FS_Union
    <3>2. {"image", "audio"} = {"image"} \cup {"audio"}
      OBVIOUS
    <3> QED
      BY <3>1, <3>2
  <2> QED
    BY <2>1, FS_Subset
<1>2. Cardinality(items) \in Nat /\ (items # {} => Cardinality(items) # 0)
  BY <1>1, FS_CardinalityType, FS_EmptySet
<1>3. DirectImage(route, b) \/ DirectAudio(route, b) => items # {}
  <2>1. "audio" # "image"
    OBVIOUS
  <2>2. DirectImage(route, b) => "image" \in items
    OBVIOUS
  <2>3. DirectAudio(route, b) => "audio" \in items
    BY <2>1
  <2> QED
    BY <2>2, <2>3
<1>4. others \in Nat
  BY DEF AtMost, Block
<1>5. MediaOf(b) = Cardinality(items) + others
  BY DEF MediaOf
<1> HIDE DEF items, others
<1> QED
  BY <1>2, <1>3, <1>4, <1>5

LEMMA TokensAre ==
  ASSUME route \in Routes, NEW text \in Text, NEW media \in Nat
  PROVE  /\ Tokens(text, media) \in Nat
         /\ Tokens(text, media) = Count(route.counter, text) + Protocol + media * MediaReserve
<1>1. Count(route.counter, text) \in Nat
  BY RouteIs, CountIs
<1>2. Protocol \in Nat /\ MediaReserve \in Nat
  BY JudgeAssumption DEF JudgeAssumption
<1>3. media * MediaReserve \in Nat
  BY <1>2
<1> QED
  BY <1>1, <1>2, <1>3 DEF Tokens

LEMMA SourceBudgetIs ==
  ASSUME route \in Routes, job \in Jobs
  PROVE  /\ SourceBudget = Remaining(route, Tokens(Plain(InspectPrompt), MediaOf(job.block)))
         /\ Tokens(Plain(InspectPrompt), MediaOf(job.block)) \in Nat
         /\ SourceBudget \in Nat \cup {Null}
<1>1. Plain(InspectPrompt) \in Text
  BY PlainIs, JudgeAssumption DEF JudgeAssumption
<1>2. MediaOf(job.block) \in Nat
  BY JobIs, MediaIs
<1>3. Tokens(Plain(InspectPrompt), MediaOf(job.block)) \in Nat
  BY <1>1, <1>2, TokensAre
<1>4. SourceBudget = Remaining(route, Tokens(Plain(InspectPrompt), MediaOf(job.block)))
  BY DEF SourceBudget
<1> HIDE DEF SourceBudget
<1> QED
  BY <1>3, <1>4, RemainingIs

\* A block without text that can be inspected goes to the model as media.
MediaGoes ==
  job.block.text = <<>> => job.block.modality \in {"text", "table"} \/ MediaOf(job.block) > 0

LEMMA InspectedMedia ==
  ASSUME job \in Jobs, CanInspect(route, job.block) PROVE MediaGoes
<1>1. job.block \in Block
  BY JobIs
<1>2. job.block.modality \in {"text", "table", "image", "audio", "video"}
  BY <1>1 DEF Block
<1>3. ASSUME job.block.text = <<>>, job.block.modality \notin {"text", "table"}
      PROVE  DirectImage(route, job.block) \/ DirectAudio(route, job.block)
  BY <1>2, <1>3 DEF CanInspect
<1> QED
  BY <1>1, <1>3, MediaIs DEF MediaGoes

-----------------------------------------------------------------------------
\* Nothing is skipped.

Whole(seq) == Gapless(seq, 0, Len(job.block.text))

\* The numbers after `from` up to `to`.
Run(from, to) == [i \in 1 .. to - from |-> from + i]

\* The lists still to be asked continue what was sent, and end with the last question.
Continue(cuts) ==
  /\ cuts \in Seq(Nat) /\ Len(cuts) = Len(batches) + 1
  /\ sent = Run(0, cuts[1]) /\ cuts[Len(cuts)] = Len(job.questions)
  /\ \A i \in 1 .. Len(batches) : cuts[i] <= cuts[i + 1] /\ batches[i] = Run(cuts[i], cuts[i + 1])

BatchesContinue == batches \in Seq(Seq(Nat)) /\ \E cuts \in Seq(Nat) : Continue(cuts)

\* Where the request is, and what kind of request it is.
PlaceFits ==
  /\ pc \in {"start", "slices", "questions", "tasks", "reduce", "return", "final", "done"}
  /\ pc = "slices" => job.kind = "inspect"
  /\ pc \in {"questions", "tasks"} => job.kind = pc
  /\ pc \in {"reduce", "return"} => job.kind \in {"inspect", "finalize"}
  /\ pc = "final" => job.kind = "finalize"
  /\ pc # "done" => outcome = ""

InspectedSoFar ==
  /\ pc \in {"slices", "reduce", "return"} \/ outcome = "returned" => MediaGoes
  /\ pc = "slices" => slices \in Seq(Piece) /\ sent \in Seq(Piece) /\ Whole(sent \o slices)
  /\ pc \in {"reduce", "return"} \/ outcome = "returned" => Whole(sent)

AskedSoFar ==
  /\ pc \in {"questions", "tasks"} => BatchesContinue
  /\ outcome = "returned" => sent = Run(0, Len(job.questions))

SentInv ==
  /\ route \in Routes /\ job \in Jobs
  /\ PlaceFits
  /\ pc = "start" => sent = <<>>
  /\ job.kind = "inspect" => InspectedSoFar
  /\ job.kind \in {"questions", "tasks"} => AskedSoFar
  /\ job.kind = "finalize" => sent = <<>>

LEMMA NothingSkipped == SentInv => NothingIsSkipped
<1> SUFFICES ASSUME SentInv, outcome = "returned" PROVE NothingIsSkipped
  BY DEF NothingIsSkipped
<1>1. job.kind \in Kinds
  BY JobIs DEF SentInv
<1>2. CASE job.kind = "inspect"
  <2>1. Whole(sent) /\ MediaGoes
    BY <1>2 DEF SentInv, InspectedSoFar
  <2>2. sent \in Seq(Piece) /\ sent # <<>>
    BY <2>1 DEF Whole, Gapless
  <2>3. Last(sent) = sent[Len(sent)]
    BY DEF Last
  <2>4. WholeText
    BY <2>1, <2>3 DEF WholeText, Whole, Gapless
  <2> QED
    BY <1>2, <2>1, <2>4 DEF NothingIsSkipped, MediaGoes
<1>3. CASE job.kind \in {"questions", "tasks"}
  <2>1. sent = Run(0, Len(job.questions))
    BY <1>3 DEF SentInv, AskedSoFar
  <2>2. job.questions \in Seq(Nat)
    BY JobIs DEF SentInv
  <2>3. Run(0, Len(job.questions)) = [i \in DOMAIN job.questions |-> i]
    BY <2>2 DEF Run
  <2> QED
    BY <1>3, <2>1, <2>3 DEF NothingIsSkipped
<1>4. CASE job.kind = "finalize"
  BY <1>4 DEF SentInv, NothingIsSkipped
<1> QED
  BY <1>1, <1>2, <1>3, <1>4 DEF Kinds

LEMMA SentInitially == Init => SentInv
<1> SUFFICES ASSUME Init PROVE SentInv
  OBVIOUS
<1>1. job.kind \in Kinds
  BY JobIs DEF Init
<1> QED
  BY <1>1 DEF Init, SentInv, PlaceFits, InspectedSoFar, AskedSoFar

\* A request that ends without having returned.
LEMMA EndedSent ==
  ASSUME SentInv, pc' = "done", outcome' # "returned", UNCHANGED <<route, job, sent>>,
         job.kind = "finalize" => sent' = <<>>
  PROVE  SentInv'
<1>1. job.kind \in Kinds
  BY JobIs DEF SentInv
<1> QED
  BY <1>1 DEF SentInv, PlaceFits, InspectedSoFar, AskedSoFar

LEMMA MediaGoesOn == ASSUME MediaGoes, UNCHANGED <<route, job>> PROVE MediaGoes'
  BY DEF MediaGoes, MediaOf, DirectImage, DirectAudio

LEMMA StartInspectSent == SentInv /\ StartInspect => SentInv'
<1> SUFFICES ASSUME SentInv, StartInspect PROVE SentInv'
  OBVIOUS
<1> DEFINE text == job.block.text
           whole == <<[from |-> 0, to |-> Len(text)]>>
           parts == IF SourceBudget = Null THEN whole
                    ELSE SplitText(route.counter, text, SourceBudget, OverlapChars)
<1>1. /\ pc = "start" /\ job.kind = "inspect" /\ CanInspect(route, job.block)
      /\ IF parts = Null THEN End("budget")
         ELSE slices' = parts /\ pc' = "slices" /\ outcome' = outcome
      /\ UNCHANGED <<route, job, sent>>
  BY DEF StartInspect
<1>2. route \in Routes /\ job \in Jobs /\ sent = <<>> /\ outcome = ""
  BY <1>1 DEF SentInv, PlaceFits
<1>3. text \in Text /\ Len(text) \in Nat /\ route.counter \in Counter /\ OverlapChars \in Nat
  BY <1>2, JobIs, RouteIs, JudgeAssumption DEF JudgeAssumption
<1>4. ASSUME parts # Null PROVE Whole(parts)
  <2>1. CASE SourceBudget = Null
    <3>1. Gapless(whole, 0, Len(text))
      BY <1>3, OneSlice
    <3> QED
      BY <2>1, <3>1 DEF Whole
  <2>2. CASE SourceBudget # Null
    <3>1. SourceBudget \in Nat
      BY <1>2, <2>2, SourceBudgetIs
    <3> HIDE DEF text
    <3>2. parts # Null => Gapless(parts, 0, Len(text))
      BY <1>3, <2>2, <3>1, SplitTextIs
    <3> QED
      BY <1>4, <3>2 DEF Whole, text
  <2> QED
    BY <2>1, <2>2
<1> HIDE DEF parts
<1>5. CASE parts = Null
  BY <1>1, <1>2, <1>5, EndedSent DEF End
<1>6. CASE parts # Null
  <2>0. parts \in Seq(Piece)
    BY <1>4, <1>6 DEF Whole, Gapless
  <2>1. parts \in Seq(Piece) /\ sent' = <<>> /\ <<>> \in Seq(Piece) /\ slices' = parts
    BY <1>1, <1>2, <1>6, <2>0, EmptySeq
  <2>2. <<>> \o parts = parts
    BY <2>1, ConcatEmptySeq
  <2>3. MediaGoes'
    <3>1. MediaGoes
      BY <1>1, <1>2, InspectedMedia
    <3> QED
      BY <1>1, <3>1, MediaGoesOn
  <2>4. Whole(sent \o slices)'
    <3>1. Whole(parts) /\ (sent \o slices)' = parts /\ job' = job
      BY <1>1, <1>4, <1>6, <2>1, <2>2
    <3> QED
      BY <3>1 DEF Whole
  <2> QED
    BY <1>1, <1>2, <1>6, <2>1, <2>3, <2>4 DEF SentInv, PlaceFits, InspectedSoFar
<1> QED
  BY <1>5, <1>6

LEMMA SendSliceSent == ASSUME SentInv, NEW k \in AnswerLengths, SendSlice(k) PROVE SentInv'
<1> DEFINE s == Head(slices)
<1>1. pc = "slices" /\ slices # <<>> /\ UNCHANGED <<route, job>>
  BY DEF SendSlice
<1>2. job.kind = "inspect" /\ InspectedSoFar /\ job \in Jobs /\ route \in Routes /\ outcome = ""
  BY <1>1 DEF SentInv, PlaceFits
<1>3. \/ End("budget") /\ UNCHANGED sent
      \/ /\ sent' = Append(sent, s) /\ slices' = Tail(slices) /\ pc' = pc /\ outcome' = outcome
  BY DEF SendSlice
<1>4. CASE End("budget") /\ UNCHANGED sent
  BY <1>1, <1>2, <1>4, EndedSent DEF End
<1>5. CASE sent' = Append(sent, s) /\ slices' = Tail(slices) /\ pc' = pc /\ outcome' = outcome
  <2>1. slices \in Seq(Piece) /\ sent \in Seq(Piece) /\ Whole(sent \o slices) /\ MediaGoes
    BY <1>1, <1>2 DEF InspectedSoFar
  <2>2. s \in Piece /\ Tail(slices) \in Seq(Piece) /\ <<s>> \o Tail(slices) = slices
    BY <1>1, <2>1
  <2>3. Append(sent, s) \in Seq(Piece) /\ Append(sent, s) \o Tail(slices) = sent \o slices
    <3> DEFINE rest == Tail(slices)
               one == <<s>>
    <3>1. Append(sent, s) = sent \o one /\ one \in Seq(Piece) /\ rest \in Seq(Piece) /\ one \o rest = slices
      BY <2>1, <2>2, AppendIsConcat
    <3>2. Append(sent, s) \in Seq(Piece)
      BY <2>1, <2>2
    <3> HIDE DEF one, rest
    <3>3. (sent \o one) \o rest = sent \o (one \o rest)
      <4>1. sent \in Seq(Piece) /\ one \in Seq(Piece) /\ rest \in Seq(Piece)
        BY <2>1, <3>1
      <4> QED
        BY <4>1, ConcatAssociative
    <3> QED
      BY <3>1, <3>2, <3>3 DEF rest
  <2>4. MediaGoes'
    BY <1>1, <2>1, MediaGoesOn
  <2> HIDE DEF s
  <2>5. sent' \in Seq(Piece) /\ slices' \in Seq(Piece) /\ (sent \o slices)' = sent \o slices
    BY <1>5, <2>2, <2>3
  <2>6. Whole(sent \o slices)'
    BY <1>1, <2>1, <2>5 DEF Whole
  <2> QED
    BY <1>1, <1>2, <1>5, <2>4, <2>5, <2>6 DEF SentInv, PlaceFits, InspectedSoFar
<1> QED
  BY <1>3, <1>4, <1>5

\* All slices are sent: a condensation or the end.
LEMMA AllSlicesSent ==
  ASSUME SentInv, pc = "slices", slices = <<>>, UNCHANGED <<route, job, sent>>,
         \/ pc' = "reduce" /\ outcome' = outcome
         \/ pc' = "done" /\ outcome' = "returned"
  PROVE  SentInv'
<1>1. job.kind = "inspect" /\ InspectedSoFar /\ job \in Jobs /\ route \in Routes /\ outcome = ""
  BY DEF SentInv, PlaceFits
<1>2. sent \in Seq(Piece) /\ Whole(sent \o slices) /\ MediaGoes
  BY <1>1 DEF InspectedSoFar
<1>3. sent \o slices = sent
  BY <1>2, ConcatEmptySeq
<1>4. Whole(sent) /\ Whole(sent)' /\ MediaGoes'
  BY <1>2, <1>3, MediaGoesOn DEF Whole
<1> QED
  BY <1>1, <1>4 DEF SentInv, PlaceFits, InspectedSoFar, Kinds

\* The reduction of notes, which sends nothing of a block.
LEMMA ReducedSent ==
  ASSUME SentInv, pc \in {"reduce", "return"}, UNCHANGED <<route, job, sent>>,
         \/ pc' \in {"reduce", "return"} /\ outcome' = outcome
         \/ pc' = "final" /\ outcome' = outcome /\ job.kind = "finalize"
         \/ pc' = "done"
  PROVE  SentInv'
<1>1. job.kind \in {"inspect", "finalize"} /\ job \in Jobs /\ route \in Routes /\ outcome = ""
  BY DEF SentInv, PlaceFits
<1>2. job.kind = "inspect" => Whole(sent) /\ MediaGoes
  BY DEF SentInv, InspectedSoFar
<1>3. job.kind = "inspect" => Whole(sent)' /\ MediaGoes'
  BY <1>2, MediaGoesOn DEF Whole
<1> QED
  BY <1>1, <1>3 DEF SentInv, PlaceFits, InspectedSoFar, Kinds

\* A final judgment.
LEMMA FinalizeSent ==
  ASSUME SentInv, job.kind = "finalize", UNCHANGED <<route, job, sent>>,
         \/ pc' \in {"reduce", "return", "final"} /\ outcome' = ""
         \/ pc' = "done"
  PROVE  SentInv'
  BY DEF SentInv, PlaceFits, Kinds

LEMMA RunIs ==
  ASSUME NEW a \in Nat, NEW b \in Nat, a <= b
  PROVE  /\ Run(a, b) \in Seq(Nat) /\ Len(Run(a, b)) = b - a
         /\ \A i \in 1 .. b - a : Run(a, b)[i] = a + i
<1>1. b - a \in Nat
  OBVIOUS
<1>2. Run(a, b) \in [1 .. b - a -> Nat] /\ \A i \in 1 .. b - a : Run(a, b)[i] = a + i
  BY <1>1 DEF Run
<1> HIDE DEF Run
<1>3. Run(a, b) \in Seq(Nat) /\ Len(Run(a, b)) = b - a
  BY <1>1, <1>2
<1> QED
  BY <1>2, <1>3

LEMMA RunsJoin ==
  ASSUME NEW a \in Nat, NEW b \in Nat, NEW c \in Nat, a <= b, b <= c
  PROVE  Run(a, b) \o Run(b, c) = Run(a, c)
<1> DEFINE s == Run(a, b)
           t == Run(b, c)
           both == s \o t
           u == Run(a, c)
<1>1. /\ s \in Seq(Nat) /\ Len(s) = b - a /\ \A i \in 1 .. b - a : s[i] = a + i
      /\ t \in Seq(Nat) /\ Len(t) = c - b /\ \A i \in 1 .. c - b : t[i] = b + i
      /\ u \in Seq(Nat) /\ Len(u) = c - a /\ \A i \in 1 .. c - a : u[i] = a + i
  <2>1. a <= c
    OBVIOUS
  <2>2. s \in Seq(Nat) /\ Len(s) = b - a /\ \A i \in 1 .. b - a : s[i] = a + i
    BY RunIs
  <2>3. t \in Seq(Nat) /\ Len(t) = c - b /\ \A i \in 1 .. c - b : t[i] = b + i
    BY RunIs
  <2>4. u \in Seq(Nat) /\ Len(u) = c - a /\ \A i \in 1 .. c - a : u[i] = a + i
    BY <2>1, RunIs
  <2> HIDE DEF s, t, u
  <2> QED
    BY <2>2, <2>3, <2>4
<1> HIDE DEF s, t, u
<1>2. /\ both \in Seq(Nat) /\ Len(both) = c - a
      /\ \A i \in 1 .. c - a : both[i] = IF i <= Len(s) THEN s[i] ELSE t[i - Len(s)]
  <2>1. /\ both \in Seq(Nat) /\ Len(both) = Len(s) + Len(t)
        /\ \A i \in 1 .. Len(s) + Len(t) : both[i] = IF i <= Len(s) THEN s[i] ELSE t[i - Len(s)]
    BY <1>1, ConcatProperties
  <2>2. Len(s) + Len(t) = c - a
    BY <1>1
  <2> HIDE DEF both
  <2> QED
    BY <2>1, <2>2
<1>3. ASSUME NEW i \in 1 .. Len(both) PROVE both[i] = u[i]
  <2>1. i \in 1 .. c - a /\ u[i] = a + i
    BY <1>1, <1>2
  <2>2. both[i] = IF i <= Len(s) THEN s[i] ELSE t[i - Len(s)]
    BY <1>2, <2>1
  <2>3. CASE i <= b - a
    BY <1>1, <2>1, <2>2, <2>3
  <2>4. CASE i > b - a
    <3>1. i - (b - a) \in 1 .. c - b /\ b + (i - (b - a)) = a + i
      BY <2>1, <2>4
    <3>2. both[i] = t[i - (b - a)]
      BY <1>1, <2>1, <2>2, <2>4
    <3>3. t[i - (b - a)] = b + (i - (b - a))
      BY <1>1, <3>1
    <3> QED
      BY <2>1, <3>1, <3>2, <3>3
  <2> QED
    BY <2>1, <2>3, <2>4
<1> HIDE DEF both
<1>4. both = u
  BY <1>1, <1>2, <1>3, SeqEqual
<1> QED
  BY <1>4 DEF both, s, t, u

LEMMA RunHalves ==
  ASSUME NEW a \in Nat, NEW b \in Nat, a <= b
  PROVE  LET h == (b - a) \div 2 IN
         /\ a + h \in Nat /\ a <= a + h /\ a + h <= b
         /\ Halves(Run(a, b)) = <<Run(a, a + h), Run(a + h, b)>>
<1> DEFINE h == (b - a) \div 2
           r == Run(a, b)
<1>1. h \in Nat /\ h <= b - a /\ b - a \in Nat
  OBVIOUS
<1>2. r \in Seq(Nat) /\ Len(r) = b - a /\ \A i \in 1 .. b - a : r[i] = a + i
  BY RunIs
<1> DEFINE c == a + h
<1>3. Halves(r) = <<SubSeq(r, 1, h), SubSeq(r, h + 1, b - a)>>
  BY <1>2 DEF Halves
<1> HIDE DEF h, r
<1>4. c \in Nat /\ a <= c /\ c <= b /\ c - a = h /\ b - c = b - a - h
  BY <1>1
<1>5. SubSeq(r, 1, h) = Run(a, c)
  <2> DEFINE s == SubSeq(r, 1, h)
             t == Run(a, c)
  <2>1. s \in Seq(Nat) /\ Len(s) = h /\ \A i \in 1 .. h : s[i] = r[i]
    BY <1>1, <1>2
  <2>2. t \in Seq(Nat) /\ Len(t) = h /\ \A i \in 1 .. h : t[i] = a + i
    <3> HIDE DEF c
    <3> QED
      BY <1>4, RunIs
  <2>3. \A i \in 1 .. h : r[i] = a + i
    BY <1>1, <1>2
  <2> HIDE DEF s, t
  <2>4. s = t
    BY <2>1, <2>2, <2>3, SeqEqual
  <2> QED
    BY <2>4 DEF s, t
<1>6. SubSeq(r, h + 1, b - a) = Run(c, b)
  <2> DEFINE s == SubSeq(r, h + 1, b - a)
             t == Run(c, b)
             k == b - a - h
  <2>1. s \in Seq(Nat) /\ Len(s) = k /\ \A i \in 1 .. k : s[i] = r[h + i]
    BY <1>1, <1>2
  <2>2. t \in Seq(Nat) /\ Len(t) = k /\ \A i \in 1 .. k : t[i] = c + i
    <3> HIDE DEF c, k
    <3>1. b - c = k
      BY <1>4 DEF k
    <3> QED
      BY <1>4, <3>1, RunIs
  <2>3. \A i \in 1 .. k : r[h + i] = c + i
    <3> SUFFICES ASSUME NEW i \in 1 .. k PROVE r[h + i] = c + i
      OBVIOUS
    <3>1. h + i \in 1 .. b - a /\ a + (h + i) = c + i
      BY <1>1
    <3> QED
      BY <1>2, <3>1
  <2> HIDE DEF s, t, k, c
  <2>4. s = t
    BY <2>1, <2>2, <2>3, SeqEqual
  <2> QED
    BY <2>4 DEF s, t
<1> QED
  BY <1>3, <1>4, <1>5, <1>6 DEF h, r

LEMMA StartBatchSent == SentInv /\ StartBatch => SentInv'
<1> SUFFICES ASSUME SentInv, StartBatch PROVE SentInv'
  OBVIOUS
<1> DEFINE n == Len(job.questions)
<1>1. /\ pc = "start" /\ job.kind \in {"questions", "tasks"} /\ UNCHANGED <<route, job, sent>>
      /\ IF job.questions = <<>> THEN End("returned")
         ELSE /\ batches' = <<[i \in DOMAIN job.questions |-> i]>> /\ pc' = job.kind
              /\ outcome' = outcome
  BY DEF StartBatch
<1>2. route \in Routes /\ job \in Jobs /\ sent = <<>> /\ outcome = ""
  BY <1>1 DEF SentInv, PlaceFits
<1>3. job.questions \in Seq(Nat) /\ n \in Nat /\ DOMAIN job.questions = 1 .. n /\ job.kind \in Kinds
  <2>1. job.questions \in Seq(Nat) /\ job.kind \in Kinds
    BY <1>2, JobIs
  <2>2. n \in Nat /\ DOMAIN job.questions = 1 .. n
    BY <2>1, LenProperties
  <2> QED
    BY <2>1, <2>2
<1> HIDE DEF n
<1>4. Run(0, 0) = <<>>
  BY DEF Run
<1>5. CASE job.questions = <<>>
  <2>1. sent' = Run(0, Len(job'.questions)) /\ pc' = "done" /\ outcome' = "returned"
    BY <1>1, <1>2, <1>4, <1>5 DEF End
  <2> QED
    BY <1>1, <1>2, <2>1 DEF SentInv, PlaceFits, AskedSoFar
<1>6. CASE job.questions # <<>>
  <2>1. batches' = <<[i \in DOMAIN job.questions |-> i]>> /\ pc' = job.kind /\ outcome' = outcome
    BY <1>1, <1>6
  <2>2. [i \in DOMAIN job.questions |-> i] = Run(0, n)
    BY <1>3 DEF Run
  <2>3. Run(0, n) \in Seq(Nat)
    <3>1. 0 \in Nat /\ 0 <= n
      BY <1>3
    <3> QED
      BY <1>3, <3>1, RunIs
  <2>4. batches' = <<Run(0, n)>> /\ batches' \in Seq(Seq(Nat)) /\ Len(batches') = 1 /\ batches'[1] = Run(0, n)
    BY <2>1, <2>2, <2>3
  <2>5. PICK cuts \in Seq(Nat) : Len(cuts) = 2 /\ cuts[1] = 0 /\ cuts[2] = n
    <3>1. <<0, n>> \in Seq(Nat) /\ Len(<<0, n>>) = 2 /\ <<0, n>>[1] = 0 /\ <<0, n>>[2] = n
      BY <1>3
    <3> QED
      BY <3>1
  <2>6. Continue(cuts)'
    <3>1. \A i \in 1 .. 1 : i = 1
      OBVIOUS
    <3>2. sent' = Run(0, 0) /\ Len(job'.questions) = n
      BY <1>1, <1>2, <1>4 DEF n
    <3>3. ASSUME NEW i \in 1 .. 1 PROVE cuts[i] <= cuts[i + 1] /\ batches'[i] = Run(cuts[i], cuts[i + 1])
      <4>1. i = 1 /\ i + 1 = 2
        BY <3>1
      <4> QED
        BY <1>3, <2>4, <2>5, <4>1
    <3>4. Len(cuts) = Len(batches') + 1
      BY <2>4, <2>5
    <3> QED
      BY <2>4, <2>5, <3>2, <3>3, <3>4 DEF Continue
  <2>7. BatchesContinue'
    BY <2>4, <2>5, <2>6 DEF BatchesContinue
  <2> QED
    BY <1>1, <1>2, <2>1, <2>7 DEF SentInv, PlaceFits, AskedSoFar
<1> QED
  BY <1>5, <1>6

LEMMA AskFirstSent ==
  ASSUME SentInv, pc \in {"questions", "tasks"}, AskFirst PROVE SentInv'
<1> DEFINE ids == Head(batches)
           rest == Tail(batches)
           k == Len(batches)
<1>1. /\ batches # <<>> /\ UNCHANGED <<route, job>>
      /\ \/ sent' = sent \o ids /\ batches' = rest /\ UNCHANGED <<pc, outcome>>
         \/ End("budget") /\ UNCHANGED sent
         \/ batches' = Halves(ids) \o rest /\ UNCHANGED <<pc, sent, outcome>>
  BY DEF AskFirst
<1>2. /\ route \in Routes /\ job \in Jobs /\ outcome = "" /\ job.kind = pc /\ BatchesContinue
      /\ job.kind \in {"questions", "tasks"}
  BY DEF SentInv, PlaceFits, AskedSoFar
<1>3. PICK cuts \in Seq(Nat) : Continue(cuts)
  BY <1>2 DEF BatchesContinue
<1> DEFINE n == Len(job.questions)
           a == cuts[1]
           b == cuts[2]
<1>4. batches \in Seq(Seq(Nat)) /\ k \in Nat /\ k >= 1
  <2>1. batches \in Seq(Seq(Nat))
    BY <1>2 DEF BatchesContinue
  <2>2. k \in Nat \ {0}
    BY <1>1, <2>1, EmptySeq
  <2> QED
    BY <2>1, <2>2
<1>5. /\ Len(cuts) = k + 1 /\ cuts[k + 1] = n /\ sent = Run(0, a)
      /\ \A i \in 1 .. k : cuts[i] <= cuts[i + 1] /\ batches[i] = Run(cuts[i], cuts[i + 1])
  BY <1>3 DEF Continue
<1>6. a \in Nat /\ b \in Nat /\ a <= b /\ batches[1] = Run(a, b)
  <2>1. 1 \in 1 .. k /\ 1 \in 1 .. k + 1 /\ 1 + 1 \in 1 .. k + 1 /\ 1 + 1 = 2
    BY <1>4
  <2>2. cuts[1] <= cuts[1 + 1] /\ batches[1] = Run(cuts[1], cuts[1 + 1])
    BY <1>5, <2>1
  <2>3. cuts[1] \in Nat /\ cuts[1 + 1] \in Nat
    BY <1>5, <2>1
  <2> QED
    BY <2>1, <2>2, <2>3
<1>7. /\ ids = Run(a, b) /\ rest \in Seq(Seq(Nat)) /\ Len(rest) = k - 1
      /\ \A i \in 1 .. k - 1 : rest[i] = batches[i + 1]
  <2>1. rest \in Seq(Seq(Nat)) /\ Len(rest) = k - 1 /\ \A i \in 1 .. k - 1 : rest[i] = batches[i + 1]
    BY <1>1, <1>4, HeadTailProperties
  <2>2. ids = batches[1]
    BY <1>1, <1>4
  <2> QED
    BY <1>6, <2>1, <2>2
<1> HIDE DEF ids, rest, k, n, a, b
<1>8. CASE sent' = sent \o ids /\ batches' = rest /\ UNCHANGED <<pc, outcome>>
  <2> DEFINE new == Tail(cuts)
  <2>1. new \in Seq(Nat) /\ Len(new) = k /\ \A i \in 1 .. k : new[i] = cuts[i + 1]
    <3>1. cuts # <<>>
      BY <1>4, <1>5
    <3>2. new \in Seq(Nat) /\ Len(new) = Len(cuts) - 1 /\ \A i \in 1 .. Len(new) : new[i] = cuts[i + 1]
      BY <3>1, HeadTailProperties
    <3> QED
      BY <1>4, <1>5, <3>2
  <2> HIDE DEF new
  <2>2. new[1] = b /\ new[k] = n
    <3>1. new[1] = cuts[1 + 1] /\ new[k] = cuts[k + 1]
      BY <1>4, <2>1
    <3> QED
      BY <1>5, <3>1 DEF b
  <2>3. sent' = Run(0, b)
    <3>1. Run(0, a) \o Run(a, b) = Run(0, b)
      <4>1. 0 \in Nat /\ 0 <= a
        BY <1>6
      <4> QED
        BY <1>6, <4>1, RunsJoin
    <3> QED
      BY <1>5, <1>7, <1>8, <3>1
  <2>4. ASSUME NEW i \in 1 .. k - 1
        PROVE  new[i] <= new[i + 1] /\ rest[i] = Run(new[i], new[i + 1])
    <3>1. i \in 1 .. k /\ i + 1 \in 1 .. k
      BY <1>4
    <3>2. cuts[i + 1] <= cuts[i + 1 + 1] /\ batches[i + 1] = Run(cuts[i + 1], cuts[i + 1 + 1])
      BY <1>5, <3>1
    <3> QED
      BY <1>7, <2>1, <3>1, <3>2
  <2>5. Continue(new)'
    <3>1. Len(job'.questions) = n /\ Len(batches') = k - 1 /\ k - 1 + 1 = k
      BY <1>1, <1>4, <1>7, <1>8 DEF n
    <3> QED
      BY <1>8, <2>1, <2>2, <2>3, <2>4, <3>1 DEF Continue
  <2>6. BatchesContinue'
    BY <1>7, <1>8, <2>1, <2>5 DEF BatchesContinue
  <2> QED
    BY <1>1, <1>2, <1>8, <2>6 DEF SentInv, PlaceFits, AskedSoFar
<1>9. CASE End("budget") /\ UNCHANGED sent
  BY <1>1, <1>2, <1>9, EndedSent DEF End
<1>10. CASE batches' = Halves(ids) \o rest /\ UNCHANGED <<pc, sent, outcome>>
  <2>1. PICK c \in Nat : a <= c /\ c <= b /\ Halves(ids) = <<Run(a, c), Run(c, b)>>
    BY <1>6, <1>7, RunHalves
  <2> DEFINE two == <<Run(a, c), Run(c, b)>>
             left == <<a, c>>
             others == Tail(cuts)
             new == left \o others
  <2>2. two \in Seq(Seq(Nat)) /\ Len(two) = 2 /\ two[1] = Run(a, c) /\ two[2] = Run(c, b)
    <3>1. Run(a, c) \in Seq(Nat) /\ Run(c, b) \in Seq(Nat)
      BY <1>6, <2>1, RunIs
    <3> QED
      BY <3>1
  <2>3. /\ batches' \in Seq(Seq(Nat)) /\ Len(batches') = k + 1
        /\ \A i \in 1 .. k + 1 : batches'[i] = IF i <= 2 THEN two[i] ELSE rest[i - 2]
    <3> HIDE DEF two
    <3> DEFINE all == two \o rest
    <3>1. /\ all \in Seq(Seq(Nat)) /\ Len(all) = Len(two) + Len(rest)
          /\ \A i \in 1 .. Len(two) + Len(rest) : all[i] = IF i <= Len(two) THEN two[i] ELSE rest[i - Len(two)]
      BY <1>7, <2>2, ConcatProperties
    <3>2. batches' = all
      BY <1>10, <2>1 DEF two
    <3>3. Len(two) + Len(rest) = k + 1
      BY <1>4, <1>7, <2>2
    <3> HIDE DEF all
    <3> QED
      BY <2>2, <3>1, <3>2, <3>3
  <2>4. left \in Seq(Nat) /\ Len(left) = 2 /\ left[1] = a /\ left[2] = c
    BY <1>6, <2>1
  <2>5. others \in Seq(Nat) /\ Len(others) = k /\ \A i \in 1 .. k : others[i] = cuts[i + 1]
    <3>1. cuts # <<>>
      BY <1>4, <1>5
    <3>2. others \in Seq(Nat) /\ Len(others) = Len(cuts) - 1 /\ \A i \in 1 .. Len(others) : others[i] = cuts[i + 1]
      BY <3>1, HeadTailProperties
    <3> QED
      BY <1>4, <1>5, <3>2
  <2> HIDE DEF left, others, two
  <2>6. /\ new \in Seq(Nat) /\ Len(new) = k + 2
        /\ \A i \in 1 .. k + 2 : new[i] = IF i <= 2 THEN left[i] ELSE others[i - 2]
    <3>1. /\ new \in Seq(Nat) /\ Len(new) = Len(left) + Len(others)
          /\ \A i \in 1 .. Len(left) + Len(others) : new[i] = IF i <= Len(left) THEN left[i] ELSE others[i - Len(left)]
      BY <2>4, <2>5, ConcatProperties
    <3>2. Len(left) + Len(others) = k + 2
      BY <1>4, <2>4, <2>5
    <3> HIDE DEF new
    <3> QED
      BY <2>4, <3>1, <3>2
  <2> HIDE DEF new
  <2>7. new[1] = a /\ new[2] = c
    BY <1>4, <2>4, <2>6
  <2>8. ASSUME NEW i \in 3 .. k + 2 PROVE new[i] = cuts[i - 1]
    <3>1. i \in 1 .. k + 2 /\ ~(i <= 2) /\ i - 2 \in 1 .. k /\ i - 2 + 1 = i - 1
      BY <1>4
    <3> QED
      BY <2>5, <2>6, <3>1
  <2>9. new[3] = b /\ new[k + 2] = n
    <3>1. 3 \in 1 .. k + 2 /\ ~(3 <= 2) /\ 3 - 2 = 1 /\ 1 \in 1 .. k /\ 1 + 1 = 2
      BY <1>4
    <3>2. new[3] = others[1] /\ others[1] = cuts[2]
      BY <2>5, <2>6, <3>1
    <3>3. k + 2 \in 1 .. k + 2 /\ ~(k + 2 <= 2) /\ k + 2 - 2 = k /\ k \in 1 .. k
      BY <1>4
    <3>4. new[k + 2] = others[k] /\ others[k] = cuts[k + 1]
      BY <2>5, <2>6, <3>3
    <3> QED
      BY <1>5, <3>2, <3>4 DEF b
  <2>10. ASSUME NEW i \in 1 .. k + 1
         PROVE  new[i] <= new[i + 1] /\ batches'[i] = Run(new[i], new[i + 1])
    <3>1. CASE i = 1
      BY <1>4, <2>1, <2>2, <2>3, <2>7, <3>1
    <3>2. CASE i = 2
      BY <1>4, <2>1, <2>2, <2>3, <2>7, <2>9, <3>2
    <3>3. CASE i > 2
      <4>1. /\ i - 1 \in 1 .. k /\ i - 2 \in 1 .. k - 1 /\ i \in 3 .. k + 2 /\ i + 1 \in 3 .. k + 2
            /\ i - 1 + 1 = i /\ i + 1 - 1 = i /\ i - 2 + 1 = i - 1
        BY <1>4, <3>3
      <4>2. new[i] = cuts[i - 1]
        BY <2>8, <4>1
      <4>5. new[i + 1] = cuts[i]
        <5> DEFINE e == i + 1
        <5>1. e \in 3 .. k + 2 /\ e - 1 = i
          BY <4>1
        <5> HIDE DEF e
        <5>2. new[e] = cuts[e - 1]
          BY <2>8, <5>1
        <5> QED
          BY <5>1, <5>2 DEF e
      <4>3. cuts[i - 1] <= cuts[i - 1 + 1] /\ batches[i - 1] = Run(cuts[i - 1], cuts[i - 1 + 1])
        BY <1>5, <4>1
      <4>4. batches'[i] = rest[i - 2] /\ rest[i - 2] = batches[i - 2 + 1]
        BY <1>7, <2>3, <3>3, <4>1
      <4> QED
        BY <4>1, <4>2, <4>3, <4>4, <4>5
    <3>4. i = 1 \/ i = 2 \/ i > 2
      BY <1>4
    <3> QED
      BY <3>1, <3>2, <3>3, <3>4
  <2>11. Continue(new)'
    <3>1. Len(job'.questions) = n /\ k + 1 + 1 = k + 2 /\ sent' = Run(0, new[1])
      BY <1>1, <1>4, <1>5, <1>10, <2>7 DEF n
    <3> QED
      BY <2>3, <2>6, <2>9, <2>10, <3>1 DEF Continue
  <2>12. BatchesContinue'
    BY <2>3, <2>6, <2>11 DEF BatchesContinue
  <2> QED
    BY <1>1, <1>2, <1>10, <2>12 DEF SentInv, PlaceFits, AskedSoFar
<1> QED
  BY <1>1, <1>8, <1>9, <1>10

LEMMA BatchDoneSent == SentInv /\ BatchDone => SentInv'
<1> SUFFICES ASSUME SentInv, BatchDone PROVE SentInv'
  OBVIOUS
<1>1. /\ pc \in {"questions", "tasks"} /\ batches = <<>> /\ UNCHANGED <<route, job, sent>>
      /\ pc' = "done" /\ outcome' = "returned"
  BY DEF BatchDone, End
<1>2. job.kind = pc /\ BatchesContinue
  BY <1>1 DEF SentInv, PlaceFits, AskedSoFar
<1>3. PICK cuts \in Seq(Nat) : Continue(cuts)
  BY <1>2 DEF BatchesContinue
<1>4. sent = Run(0, Len(job.questions))
  BY <1>1, <1>3 DEF Continue
<1> QED
  BY <1>1, <1>2, <1>4 DEF SentInv, PlaceFits, AskedSoFar

LEMMA SentPreserved == SentInv /\ [Next]_vars => SentInv'
<1> SUFFICES ASSUME SentInv, [Next]_vars PROVE SentInv'
  OBVIOUS
<1>f. job.kind = "finalize" => sent = <<>>
  BY DEF SentInv
<1>1. CASE Refuse
  BY <1>1, EndedSent DEF Refuse, End
<1>2. CASE StartInspect
  BY <1>2, StartInspectSent
<1>3. CASE \E k \in AnswerLengths : SendSlice(k)
  BY <1>3, SendSliceSent
<1>4. CASE OneFinding
  BY <1>4, AllSlicesSent DEF OneFinding, End
<1>5. CASE CondenseFindings
  BY <1>5, AllSlicesSent DEF CondenseFindings
<1>6. CASE StartBatch
  BY <1>6, StartBatchSent
<1>7. CASE AskQuestions \/ AskTasks
  BY <1>7, AskFirstSent DEF AskQuestions, AskTasks
<1>8. CASE BatchDone
  BY <1>8, BatchDoneSent
<1>9. CASE SplitNotes
  <2>1. pc = "reduce" /\ UNCHANGED <<route, job, sent>> /\ (pc' = "done" \/ UNCHANGED <<pc, outcome>>)
    BY <1>9 DEF SplitNotes, End
  <2> QED
    BY <2>1, ReducedSent
<1>10. CASE \E k \in AnswerLengths : ReduceCall(k)
  <2>1. /\ pc = "reduce" /\ UNCHANGED <<route, job, sent>>
        /\ pc' = "done" \/ (pc' = "return" /\ UNCHANGED outcome)
    BY <1>10 DEF ReduceCall, End
  <2> QED
    BY <2>1, ReducedSent
<1>11. CASE NestedReturn
  <2>1. pc = "return" /\ UNCHANGED <<route, job, sent, outcome>> /\ pc' \in {"reduce", "return"}
    BY <1>11 DEF NestedReturn
  <2> QED
    BY <2>1, ReducedSent
<1>12. CASE InspectReturn
  <2>1. pc = "return" /\ UNCHANGED <<route, job, sent>> /\ pc' = "done"
    BY <1>12 DEF InspectReturn, End
  <2> QED
    BY <2>1, ReducedSent
<1>13. CASE BundleRefused
  <2>1. job.kind = "finalize" /\ UNCHANGED <<route, job, sent>> /\ pc' = "done"
    BY <1>13 DEF BundleRefused, End
  <2> QED
    BY <2>1, FinalizeSent
<1>14. CASE StartFinalize
  <2>1. job.kind = "finalize" /\ UNCHANGED <<route, job, sent>> /\ outcome' = "" /\ pc' \in {"reduce", "final"}
    <3>1. job.kind = "finalize" /\ UNCHANGED <<route, job, sent, outcome>> /\ pc = "start" /\ pc' \in {"reduce", "final"}
      BY <1>14 DEF StartFinalize
    <3> QED
      BY <3>1 DEF SentInv, PlaceFits
  <2> QED
    BY <2>1, FinalizeSent
<1>15. CASE NotesReduced
  <2>1. pc = "return" /\ job.kind = "finalize" /\ UNCHANGED <<route, job, sent, outcome>> /\ pc' = "final"
    BY <1>15 DEF NotesReduced
  <2> QED
    BY <2>1, ReducedSent
<1>16. CASE FinalCall
  <2>1. pc = "final" /\ UNCHANGED <<route, job, sent>> /\ pc' = "done"
    BY <1>16 DEF FinalCall, End
  <2>2. job.kind = "finalize"
    BY <2>1 DEF SentInv, PlaceFits
  <2> QED
    BY <2>1, <2>2, FinalizeSent
<1>17. CASE CallFails
  BY <1>f, <1>17, EndedSent DEF CallFails, End
<1>18. CASE UNCHANGED vars
  <2>1. MediaGoes => MediaGoes'
    BY <1>18, MediaGoesOn DEF vars
  <2>2. UNCHANGED <<route, job, pc, slices, batches, sent, outcome>>
    BY <1>18 DEF vars
  <2>3. Whole(sent)' = Whole(sent) /\ Whole(sent \o slices)' = Whole(sent \o slices)
    BY <2>2 DEF Whole
  <2>4. BatchesContinue' = BatchesContinue
    BY <2>2 DEF BatchesContinue, Continue
  <2> QED
    BY <2>1, <2>2, <2>3, <2>4 DEF SentInv, PlaceFits, InspectedSoFar, AskedSoFar
<1> QED
  BY <1>1, <1>2, <1>3, <1>4, <1>5, <1>6, <1>7, <1>8, <1>9, <1>10, <1>11, <1>12, <1>13, <1>14,
     <1>15, <1>16, <1>17, <1>18 DEF Next

\* A block that counts as inspected went to the model completely, and a batch that
\* returns has asked everything once, in order: inspect_block, inspect_question_batch,
\* inspect_task_batch.
THEOREM SentIsComplete == Spec => []NothingIsSkipped
<1>1. Init => SentInv
  BY SentInitially
<1>2. SentInv /\ [Next]_vars => SentInv'
  BY SentPreserved
<1>3. SentInv => NothingIsSkipped
  BY NothingSkipped
<1> QED
  BY <1>1, <1>2, <1>3, PTL DEF Spec

-----------------------------------------------------------------------------
\* Folds from the left: what each value is after so many elements.

LEMMA LastOf ==
  ASSUME NEW n \in Nat, NEW s \in SUBSET (1 .. n), s # {}
  PROVE  Max(s) \in s /\ \A k \in s : k <= Max(s)
<1>1. n \in Int /\ s \subseteq Int /\ \A k \in s : k <= n
  OBVIOUS
<1> QED
  BY <1>1, LargestIs

LEMMA LastOfPrefix ==
  ASSUME NEW n \in Nat, NEW k \in 1 .. n
  PROVE  Max(1 .. k) = k /\ (1 .. k) \ {k} = 1 .. k - 1 /\ 1 .. k \in SUBSET (1 .. n) /\ 1 .. k # {}
<1>1. k \in Nat /\ 1 .. k \in SUBSET (1 .. k) /\ k \in 1 .. k
  OBVIOUS
<1>2. Max(1 .. k) \in 1 .. k /\ \A j \in 1 .. k : j <= Max(1 .. k)
  BY <1>1, LastOf
<1>3. Max(1 .. k) = k
  <2> DEFINE m == Max(1 .. k)
  <2>1. m \in 1 .. k /\ k <= m
    BY <1>1, <1>2
  <2> HIDE DEF m
  <2>2. m = k
    BY <2>1
  <2> QED
    BY <2>2 DEF m
<1> QED
  BY <1>1, <1>3

FoldIs(h, n, base, g) ==
  \A s \in SUBSET (1 .. n) : h[s] = IF s = {} THEN base ELSE g[<<h[s \ {Max(s)}], Max(s)>>]

LEMMA FoldDefined ==
  ASSUME NEW n \in Nat, NEW X, NEW base \in X, NEW g \in [X \X (1 .. n) -> X]
  PROVE  \E h \in [SUBSET (1 .. n) -> X] : FoldIs(h, n, base, g)
<1> DEFINE S == SUBSET (1 .. n)
           m == [s \in S |-> Cardinality(s)]
           more(f, s) == IF s = {} THEN base ELSE g[<<f[s \ {Max(s)}], Max(s)>>]
           step == [p \in S \X [S -> X] |-> more(p[2], p[1])]
<1>1. \A s \in S : IsFiniteSet(s) /\ Cardinality(s) \in Nat
  <2>1. IsFiniteSet(1 .. n)
    BY FS_Interval
  <2> QED
    BY <2>1, FS_Subset, FS_CardinalityType
<1>2. m \in [S -> Nat]
  BY <1>1
<1>3. ASSUME NEW s \in S, s # {}
      PROVE  Max(s) \in 1 .. n /\ s \ {Max(s)} \in S /\ m[s \ {Max(s)}] < m[s]
  <2>1. Max(s) \in s
    BY <1>3, LastOf
  <2> DEFINE x == Max(s)
             t == s \ {x}
  <2>2. Cardinality(t) = Cardinality(s) - 1
    BY <1>1, <2>1, FS_RemoveElement
  <2>3. t \in S /\ Cardinality(s) \in Nat /\ x \in 1 .. n
    BY <1>1, <2>1
  <2> HIDE DEF x, t
  <2>4. m[t] = Cardinality(t) /\ m[s] = Cardinality(s)
    BY <2>3
  <2>5. m[t] < m[s]
    BY <2>2, <2>3, <2>4
  <2> QED
    BY <2>3, <2>5 DEF x, t
<1> HIDE DEF m, S
<1>4. ASSUME NEW f \in [S -> X], NEW s \in S PROVE more(f, s) \in X
  <2>1. ASSUME s # {} PROVE g[<<f[s \ {Max(s)}], Max(s)>>] \in X
    <3>1. f[s \ {Max(s)}] \in X /\ Max(s) \in 1 .. n
      BY <1>3, <2>1
    <3> QED
      BY <3>1
  <2> QED
    BY <2>1
<1>5. step \in Steps(S, X)
  <2> HIDE DEF more
  <2> QED
    BY <1>4 DEF Steps
<1>6. StepIsLocal(S, m, X, step)
  <2>1. ASSUME NEW s \in S, NEW f \in [S -> X], NEW e \in [S -> X],
               \A u \in S : m[u] < m[s] => f[u] = e[u]
        PROVE  more(f, s) = more(e, s)
    BY <1>3, <2>1
  <2> HIDE DEF more
  <2> QED
    BY <2>1 DEF StepIsLocal
<1>7. PICK h \in [S -> X] : Solves(h, S, step)
  <2> HIDE DEF step, more
  <2>1. X # {}
    OBVIOUS
  <2> QED
    BY <1>2, <1>5, <1>6, <2>1, RecursionDefined
<1>8. ASSUME NEW s \in S PROVE h[s] = more(h, s)
  <2> HIDE DEF more
  <2> QED
    BY <1>7 DEF Solves, step
<1>9. FoldIs(h, n, base, g)
  BY <1>8 DEF FoldIs, S
<1> QED
  BY <1>9 DEF S

LEMMA SumSteps ==
  ASSUME NEW s \in Seq(Nat)
  PROVE  \E at \in [0 .. Len(s) -> Nat] :
           at[0] = 0 /\ at[Len(s)] = Sum(s) /\ \A k \in 1 .. Len(s) : at[k] = at[k - 1] + s[k]
<1> DEFINE n == Len(s)
           S == SUBSET (1 .. n)
           more(f, t) == IF t = {} THEN 0 ELSE f[t \ {Max(t)}] + s[Max(t)]
           iter == CHOOSE f : f = [t \in S |-> more(f, t)]
           g == [p \in Nat \X (1 .. n) |-> p[1] + s[p[2]]]
<1>1. n \in Nat /\ DOMAIN s = 1 .. n /\ \A i \in 1 .. n : s[i] \in Nat
  OBVIOUS
<1>2. Sum(s) = iter[1 .. n]
  BY <1>1 DEF Sum, FoldLeft, MapThenFoldSet
<1> HIDE DEF n
<1>3. g \in [Nat \X (1 .. n) -> Nat]
  BY <1>1
<1>4. PICK h \in [S -> Nat] : FoldIs(h, n, 0, g)
  <2> HIDE DEF g, iter, more
  <2> QED
    BY <1>1, <1>3, FoldDefined
<1>5. ASSUME NEW t \in S PROVE h[t] = more(h, t)
  <2>1. CASE t = {}
    BY <1>4, <2>1 DEF FoldIs
  <2>2. CASE t # {}
    <3>1. Max(t) \in 1 .. n /\ t \ {Max(t)} \in S
      BY <1>1, <2>2, LastOf
    <3>2. h[t \ {Max(t)}] \in Nat
      BY <3>1
    <3>3. h[t] = g[<<h[t \ {Max(t)}], Max(t)>>]
      BY <1>4, <2>2 DEF FoldIs
    <3> QED
      BY <2>2, <3>1, <3>2, <3>3
  <2> QED
    BY <2>1, <2>2
<1>6. h = [t \in S |-> more(h, t)]
  <2> HIDE DEF more, S
  <2> QED
    BY <1>5
<1>7. iter = [t \in S |-> more(iter, t)]
  <2> HIDE DEF more, S
  <2> QED
    BY <1>6
<1> DEFINE at == [k \in 0 .. n |-> iter[1 .. k]]
<1>8. at[0] = 0
  <2>1. 1 .. 0 = {} /\ {} \in S /\ 0 \in 0 .. n
    BY <1>1
  <2> HIDE DEF iter, S
  <2>2. iter[{}] = 0
    BY <1>7, <2>1
  <2> QED
    BY <2>1, <2>2
<1>9. ASSUME NEW k \in 1 .. n PROVE at[k] = at[k - 1] + s[k]
  <2>1. Max(1 .. k) = k /\ (1 .. k) \ {k} = 1 .. k - 1 /\ 1 .. k \in S /\ 1 .. k # {}
    BY <1>1, LastOfPrefix
  <2> HIDE DEF iter, S
  <2>2. iter[1 .. k] = iter[1 .. k - 1] + s[k]
    BY <1>7, <2>1
  <2>3. at[k] = iter[1 .. k] /\ at[k - 1] = iter[1 .. k - 1]
    BY <1>1
  <2> QED
    BY <2>2, <2>3
<1>10. at[n] = Sum(s)
  BY <1>1, <1>2
<1> HIDE DEF at
<1> DEFINE P == {k \in Nat : k <= n => at[k] \in Nat}
<1>11. ASSUME NEW k \in Nat, k \in P PROVE k + 1 \in P
  <2> SUFFICES ASSUME k + 1 <= n PROVE at[k + 1] \in Nat
    OBVIOUS
  <2>1. k + 1 \in 1 .. n /\ k + 1 - 1 = k /\ k <= n
    BY <1>1
  <2>2. at[k + 1] = at[k] + s[k + 1]
    BY <1>9, <2>1
  <2> QED
    BY <1>1, <1>11, <2>1, <2>2
<1>12. 0 \in P
  BY <1>8
<1>13. Nat \subseteq P
  <2> HIDE DEF P
  <2> QED
    BY <1>11, <1>12, Upwards
<1>14. at \in [0 .. n -> Nat]
  <2>1. \A k \in 0 .. n : at[k] \in Nat
    BY <1>1, <1>13
  <2>2. DOMAIN at = 0 .. n /\ at = [k \in DOMAIN at |-> at[k]]
    BY DEF at
  <2> QED
    BY <2>1, <2>2
<1> QED
  BY <1>8, <1>9, <1>10, <1>14 DEF n

\* Induction over the numbers up to n.
LEMMA UpTo ==
  ASSUME NEW n \in Nat, NEW P, 0 \in P, \A i \in Nat : i < n /\ i \in P => i + 1 \in P
  PROVE  \A i \in 0 .. n : i \in P
<1> DEFINE Q == {i \in Nat : i <= n => i \in P}
<1>1. 0 \in Q
  OBVIOUS
<1>2. ASSUME NEW i \in Nat, i \in Q PROVE i + 1 \in Q
  BY <1>2
<1>3. Nat \subseteq Q
  <2> HIDE DEF Q
  <2> QED
    BY <1>1, <1>2, Upwards
<1> QED
  BY <1>3

LEMMA SumIs ==
  ASSUME NEW s \in Seq(Nat)
  PROVE  /\ Sum(s) \in Nat
         /\ s = <<>> => Sum(s) = 0
         /\ \A e \in Nat : Sum(Append(s, e)) = Sum(s) + e
<1> DEFINE n == Len(s)
<1>1. PICK at \in [0 .. n -> Nat] :
        at[0] = 0 /\ at[n] = Sum(s) /\ \A k \in 1 .. n : at[k] = at[k - 1] + s[k]
  BY SumSteps
<1>2. n \in Nat /\ n \in 0 .. n /\ Sum(s) \in Nat
  BY <1>1
<1>3. ASSUME s = <<>> PROVE Sum(s) = 0
  BY <1>1, <1>3
<1>4. ASSUME NEW e \in Nat PROVE Sum(Append(s, e)) = Sum(s) + e
  <2> DEFINE t == Append(s, e)
  <2>1. t \in Seq(Nat) /\ Len(t) = n + 1 /\ t[n + 1] = e /\ \A k \in 1 .. n : t[k] = s[k]
    BY AppendProperties
  <2> DEFINE N == Len(t)
  <2>2. PICK bt \in [0 .. N -> Nat] :
          bt[0] = 0 /\ bt[N] = Sum(t) /\ \A k \in 1 .. N : bt[k] = bt[k - 1] + t[k]
    BY <2>1, SumSteps
  <2>n. N \in Nat /\ N = n + 1 /\ N - 1 = n
    BY <1>2, <2>1
  <2> HIDE DEF t, n, N
  <2> DEFINE P == {k \in Nat : k <= n => at[k] = bt[k]}
  <2>3. ASSUME NEW k \in Nat, k < n, k \in P PROVE k + 1 \in P
    <3> DEFINE l == k + 1
    <3>1. l \in 1 .. n /\ l \in 1 .. N /\ l - 1 = k /\ k <= n /\ l \in Nat
      BY <1>2, <2>3, <2>n
    <3> HIDE DEF l
    <3>2. at[l] = at[l - 1] + s[l] /\ bt[l] = bt[l - 1] + t[l]
      BY <1>1, <2>2, <3>1
    <3>3. at[k] = bt[k] /\ t[l] = s[l]
      BY <2>1, <2>3, <3>1
    <3>4. at[l] = bt[l]
      BY <3>1, <3>2, <3>3
    <3> QED
      BY <3>1, <3>4 DEF l
  <2>4. 0 \in P
    BY <1>1, <2>2
  <2>5. n \in P
    <3> HIDE DEF P
    <3>1. \A k \in 0 .. n : k \in P
      BY <1>2, <2>3, <2>4, UpTo
    <3> QED
      BY <1>2, <3>1
  <2>6. bt[N] = bt[n] + t[N]
    <3>1. N \in 1 .. N
      BY <1>2, <2>n
    <3>2. bt[N] = bt[N - 1] + t[N]
      BY <2>2, <3>1
    <3> QED
      BY <2>n, <3>2
  <2>7. Sum(t) = Sum(s) + e
    BY <1>1, <1>2, <2>1, <2>2, <2>5, <2>6, <2>n
  <2> QED
    BY <2>7 DEF t
<1> QED
  BY <1>2, <1>3, <1>4

LEMMA FlattenSteps ==
  ASSUME NEW E, NEW ss \in Seq(Seq(E)), ss # <<>>
  PROVE  \E flat \in [1 .. Len(ss) -> Seq(E)] :
           /\ flat[1] = ss[1] /\ FlattenSeq(ss) = flat[Len(ss)]
           /\ \A i \in 2 .. Len(ss) : flat[i] = flat[i - 1] \o ss[i]
<1> DEFINE n == Len(ss)
           S == 1 .. n
           X == Seq(E)
           more(f, i) == IF i = 1 THEN ss[i] ELSE f[i - 1] \o ss[i]
           flat == CHOOSE f : f = [i \in S |-> more(f, i)]
           m == [i \in S |-> i]
           step == [p \in S \X [S -> X] |-> more(p[2], p[1])]
<1>1. n \in Nat /\ n >= 1 /\ \A i \in S : ss[i] \in X
  BY EmptySeq
<1>2. FlattenSeq(ss) = flat[n]
  BY <1>1 DEF FlattenSeq
<1> HIDE DEF n
<1>3. m \in [S -> Nat] /\ \A i \in S : m[i] = i
  BY <1>1
<1>4. ASSUME NEW i \in S, i # 1 PROVE i - 1 \in S /\ m[i - 1] < m[i]
  <2>1. i - 1 \in S /\ i \in Int
    BY <1>1, <1>4
  <2>2. m[i - 1] = i - 1 /\ m[i] = i
    BY <1>3, <2>1
  <2> QED
    BY <2>1, <2>2
<1> HIDE DEF m, S, X
<1>5. ASSUME NEW f \in [S -> X], NEW i \in S PROVE more(f, i) \in X
  <2>1. ASSUME i # 1 PROVE f[i - 1] \o ss[i] \in X
    <3>1. f[i - 1] \in X /\ ss[i] \in X
      BY <1>1, <1>4, <2>1
    <3> QED
      BY <3>1 DEF X
  <2> QED
    BY <1>1, <2>1
<1>6. step \in Steps(S, X)
  <2> HIDE DEF more
  <2> QED
    BY <1>5 DEF Steps
<1>7. StepIsLocal(S, m, X, step)
  <2>1. ASSUME NEW i \in S, NEW f \in [S -> X], NEW g \in [S -> X],
               \A u \in S : m[u] < m[i] => f[u] = g[u]
        PROVE  more(f, i) = more(g, i)
    BY <1>4, <2>1
  <2> HIDE DEF more
  <2> QED
    BY <2>1 DEF StepIsLocal
<1>8. PICK f \in [S -> X] : Solves(f, S, step)
  <2> HIDE DEF step, more, flat
  <2>1. X # {}
    <3>1. 1 \in S
      BY <1>1 DEF S
    <3> QED
      BY <1>1, <3>1
  <2> QED
    BY <1>3, <1>6, <1>7, <2>1, RecursionDefined
<1>9. f = [i \in S |-> more(f, i)]
  <2> HIDE DEF more
  <2> QED
    BY <1>8 DEF Solves, step
<1>10. flat = [i \in S |-> more(flat, i)]
  <2> HIDE DEF more
  <2> QED
    BY <1>9
<1> HIDE DEF flat
<1> DEFINE P == {i \in S : flat[i] \in X}
<1>11. ASSUME NEW i \in S, \A u \in S : m[u] < m[i] => u \in P PROVE i \in P
  <2>1. flat[i] = more(flat, i)
    BY <1>10
  <2>2. CASE i = 1
    BY <1>1, <2>1, <2>2
  <2>3. CASE i # 1
    <3>1. flat[i - 1] \in X /\ ss[i] \in X
      BY <1>1, <1>4, <1>11, <2>3
    <3>2. flat[i] = flat[i - 1] \o ss[i]
      BY <2>1, <2>3
    <3>3. flat[i - 1] \o ss[i] \in X
      BY <3>1 DEF X
    <3> QED
      BY <3>2, <3>3
  <2> QED
    BY <2>2, <2>3
<1>12. S \subseteq P
  <2> HIDE DEF P
  <2> QED
    BY <1>3, <1>11, MeasureInduction
<1>13. flat \in [S -> X]
  <2>1. \A i \in S : flat[i] \in X
    BY <1>12
  <2>2. DOMAIN flat = S /\ flat = [i \in DOMAIN flat |-> flat[i]]
    <3> HIDE DEF more
    <3> QED
      BY <1>10
  <2> QED
    BY <2>1, <2>2
<1>14. flat[1] = ss[1]
  <2>1. 1 \in S
    BY <1>1 DEF S
  <2> QED
    BY <1>10, <2>1
<1>15. ASSUME NEW i \in 2 .. n PROVE flat[i] = flat[i - 1] \o ss[i]
  <2>1. i \in S /\ i # 1
    BY <1>1 DEF S
  <2> QED
    BY <1>10, <2>1
<1> QED
  BY <1>2, <1>13, <1>14, <1>15 DEF n, S, X

LEMMA FlattenAppends ==
  ASSUME NEW E, NEW ss \in Seq(Seq(E)), NEW s \in Seq(E)
  PROVE  /\ FlattenSeq(<<>>) = <<>>
         /\ FlattenSeq(ss) \in Seq(E)
         /\ FlattenSeq(Append(ss, s)) = FlattenSeq(ss) \o s
<1>1. FlattenSeq(<<>>) = <<>>
  BY DEF FlattenSeq
<1> DEFINE n == Len(ss)
           t == Append(ss, s)
<1>2. n \in Nat /\ t \in Seq(Seq(E)) /\ t # <<>> /\ Len(t) = n + 1 /\ t[n + 1] = s /\ \A k \in 1 .. n : t[k] = ss[k]
  BY AppendProperties
<1> HIDE DEF t
<1> DEFINE N == Len(t)
<1>3. PICK bt \in [1 .. N -> Seq(E)] :
        /\ bt[1] = t[1] /\ FlattenSeq(t) = bt[N]
        /\ \A i \in 2 .. N : bt[i] = bt[i - 1] \o t[i]
  <2>1. t \in Seq(Seq(E)) /\ t # <<>>
    BY <1>2
  <2> HIDE DEF n
  <2> QED
    BY <2>1, FlattenSteps
<1>n. N \in Nat /\ N = n + 1 /\ N - 1 = n
  BY <1>2
<1> HIDE DEF N
<1>4. CASE ss = <<>>
  <2>1. n = 0
    BY <1>4
  <2>2. FlattenSeq(t) = s /\ FlattenSeq(ss) = <<>>
    BY <1>1, <1>2, <1>3, <1>4, <1>n, <2>1
  <2>3. <<>> \o s = s /\ <<>> \in Seq(E)
    BY ConcatEmptySeq, EmptySeq
  <2> QED
    BY <1>1, <2>2, <2>3 DEF t
<1>5. CASE ss # <<>>
  <2>1. n >= 1
    BY <1>5, EmptySeq
  <2>2. PICK at \in [1 .. n -> Seq(E)] :
          /\ at[1] = ss[1] /\ FlattenSeq(ss) = at[n]
          /\ \A i \in 2 .. n : at[i] = at[i - 1] \o ss[i]
    BY <1>5, FlattenSteps
  <2> HIDE DEF n
  <2> DEFINE P == {k \in Nat : k \in 1 .. n => at[k] = bt[k]}
  <2>3. ASSUME NEW k \in Nat, k < n, k \in P PROVE k + 1 \in P
    <3>1. CASE k = 0
      BY <1>2, <1>3, <1>n, <2>1, <2>2, <3>1
    <3>2. CASE k # 0
      <4> DEFINE l == k + 1
      <4>1. l \in 2 .. n /\ l \in 2 .. N /\ l - 1 = k /\ k \in 1 .. n /\ l \in 1 .. n /\ l \in Nat
        BY <1>2, <1>n, <2>3, <3>2
      <4> HIDE DEF l
      <4>2. at[l] = at[l - 1] \o ss[l] /\ bt[l] = bt[l - 1] \o t[l]
        BY <1>3, <2>2, <4>1
      <4>3. at[l] = bt[l]
        BY <1>2, <2>3, <4>1, <4>2
      <4> QED
        BY <4>1, <4>3 DEF l
    <3> QED
      BY <3>1, <3>2
  <2>4. n \in P
    <3>1. 0 \in P
      OBVIOUS
    <3> HIDE DEF P
    <3>2. \A k \in 0 .. n : k \in P
      BY <1>2, <2>3, <3>1, UpTo
    <3> QED
      BY <1>2, <3>2
  <2>5. at[n] = bt[n] /\ at[n] \in Seq(E)
    BY <1>2, <2>1, <2>2, <2>4
  <2>6. bt[N] = bt[n] \o t[N]
    <3>1. N \in 2 .. N
      BY <1>2, <1>n, <2>1
    <3>2. bt[N] = bt[N - 1] \o t[N]
      BY <1>3, <3>1
    <3> QED
      BY <1>n, <3>2
  <2> QED
    BY <1>1, <1>2, <1>3, <1>n, <2>2, <2>5, <2>6 DEF t
<1> QED
  BY <1>4, <1>5

-----------------------------------------------------------------------------
\* Packing items into groups, as reduce_notes does with notes and
\* shard_decision_bundle with lines.

Acc(E) == [groups : Seq(Seq(E)), current : Seq(E), size : Nat]
NoItems == [groups |-> <<>>, current |-> <<>>, size |-> 0]

PutIn(acc, item, cost, limit) ==
  IF acc.current # <<>> /\ acc.size + cost[item] + 1 > limit
  THEN [groups |-> Append(acc.groups, acc.current), current |-> <<item>>,
        size |-> cost[item] + 1]
  ELSE [acc EXCEPT !.current = Append(@, item), !.size = @ + cost[item] + 1]

PackStep(items, cost, limit, f, s) ==
  IF s = {} THEN NoItems ELSE PutIn(f[s \ {Max(s)}], items[Max(s)], cost, limit)

PackFold(items, cost, limit) ==
  LET S == SUBSET (1 .. Len(items))
  IN  (CHOOSE f : f = [s \in S |-> PackStep(items, cost, limit, f, s)])[1 .. Len(items)]

Closed(acc) == IF acc.current = <<>> THEN acc.groups ELSE Append(acc.groups, acc.current)

\* The costs of the items of a group.
Costs(cost, s) == [i \in DOMAIN s |-> cost[s[i]] + 1]

NoteCost == [p \in Nat |-> CountOf(p)]

LEMMA GroupedPacked ==
  ASSUME NEW items \in Seq(Nat), NEW limit
  PROVE  Grouped(items, limit) = Closed(PackFold(items, NoteCost, limit))
<1> DEFINE n == Len(items)
           S == SUBSET (1 .. n)
           put(acc, piece) ==
             IF acc.current # <<>> /\ acc.size + CountOf(piece) + 1 > limit
             THEN [groups |-> Append(acc.groups, acc.current), current |-> <<piece>>,
                   size |-> CountOf(piece) + 1]
             ELSE [acc EXCEPT !.current = Append(@, piece), !.size = @ + CountOf(piece) + 1]
           more(f, s) == IF s = {} THEN NoItems ELSE put(f[s \ {Max(s)}], items[Max(s)])
           last == (CHOOSE f : f = [s \in S |-> more(f, s)])[1 .. n]
<1>1. n \in Nat /\ DOMAIN items = 1 .. n /\ \A i \in 1 .. n : items[i] \in Nat
  OBVIOUS
<1>2. Grouped(items, limit) = IF last.current = <<>> THEN last.groups ELSE Append(last.groups, last.current)
  BY <1>1 DEF Grouped, FoldLeft, MapThenFoldSet, NoItems
<1> HIDE DEF n
<1>3. ASSUME NEW f, NEW s \in S PROVE more(f, s) = PackStep(items, NoteCost, limit, f, s)
  <2>1. CASE s = {}
    BY <2>1 DEF PackStep
  <2>2. CASE s # {}
    <3> DEFINE item == items[Max(s)]
               acc == f[s \ {Max(s)}]
    <3>1. Max(s) \in 1 .. n
      BY <1>1, <2>2, LastOf
    <3>2. item \in Nat
      BY <1>1, <3>1
    <3> HIDE DEF item, acc
    <3>3. NoteCost[item] = CountOf(item)
      BY <3>2 DEF NoteCost
    <3>4. put(acc, item) = PutIn(acc, item, NoteCost, limit)
      BY <3>3 DEF PutIn
    <3> QED
      BY <2>2, <3>4 DEF PackStep, item, acc
  <2> QED
    BY <2>1, <2>2
<1>4. \A f : [s \in S |-> more(f, s)] = [s \in S |-> PackStep(items, NoteCost, limit, f, s)]
  <2> HIDE DEF more, S
  <2> QED
    BY <1>3
<1>5. last = PackFold(items, NoteCost, limit)
  <2> HIDE DEF more
  <2>1. (CHOOSE f : f = [s \in S |-> more(f, s)])
          = (CHOOSE f : f = [s \in S |-> PackStep(items, NoteCost, limit, f, s)])
    BY <1>4
  <2> QED
    BY <2>1 DEF PackFold, n
<1> HIDE DEF last
<1> QED
  BY <1>2, <1>5 DEF Closed

Updated(acc, current, size) == [acc EXCEPT !.current = current, !.size = size]

LEMMA UpdatedIs ==
  ASSUME NEW gs, NEW cu, NEW si, NEW x, NEW y
  PROVE  Updated([groups |-> gs, current |-> cu, size |-> si], x, y)
           = [groups |-> gs, current |-> x, size |-> y]
<1> DEFINE r == [groups |-> gs, current |-> cu, size |-> si]
           q == [r EXCEPT !.current = x]
<1>1. q = [groups |-> gs, current |-> x, size |-> si]
  OBVIOUS
<1>2. [q EXCEPT !.size = y] = [groups |-> gs, current |-> x, size |-> y]
  <2> HIDE DEF q
  <2> QED
    BY <1>1
<1>3. Updated(r, x, y) = [q EXCEPT !.size = y]
  BY DEF Updated
<1> QED
  BY <1>2, <1>3

\* (A function on numbers in sight keeps the SMT backend from using facts about
\* other sequences.)
IsCost(cost) == cost \in [Nat -> Nat]

Grouping(gs, cu, si) == [groups |-> gs, current |-> cu, size |-> si]
Put(gs, cu, si, item, c, limit) ==
  IF cu # <<>> /\ si + c > limit
  THEN [groups |-> Append(gs, cu), current |-> <<item>>, size |-> c]
  ELSE [groups |-> gs, current |-> Append(cu, item), size |-> si + c]

LEMMA PutIs ==
  ASSUME NEW gs, NEW cu, NEW si \in Nat, NEW item, NEW cost, cost[item] \in Nat,
         NEW limit \in Int, NEW c, c = cost[item] + 1
  PROVE  PutIn(Grouping(gs, cu, si), item, cost, limit) = Put(gs, cu, si, item, c, limit)
<1> DEFINE acc == [groups |-> gs, current |-> cu, size |-> si]
           e == cost[item]
           added == [groups |-> gs, current |-> Append(cu, item), size |-> si + c]
<1>1. acc.groups = gs /\ acc.current = cu /\ acc.size = si
  OBVIOUS
<1>2. e \in Nat /\ c = e + 1
  OBVIOUS
<1> HIDE DEF e
<1>3. si + e + 1 = si + c
  BY <1>2
<1>4. [acc EXCEPT !.current = Append(@, item), !.size = @ + e + 1] = added
  <2> DEFINE x == Append(acc.current, item)
             y == acc.size + e + 1
  <2>1. Updated(acc, x, y) = [groups |-> gs, current |-> x, size |-> y]
    <3> HIDE DEF x, y
    <3> QED
      BY UpdatedIs
  <2>2. x = Append(cu, item) /\ y = si + c
    BY <1>1, <1>3
  <2>3. [acc EXCEPT !.current = Append(@, item), !.size = @ + e + 1] = Updated(acc, x, y)
    BY DEF Updated
  <2> HIDE DEF x, y, acc
  <2> QED
    BY <2>1, <2>2, <2>3
<1> HIDE DEF acc, added
<1>5. PutIn(acc, item, cost, limit)
        = IF acc.current # <<>> /\ acc.size + e + 1 > limit
          THEN [groups |-> Append(acc.groups, acc.current), current |-> <<item>>, size |-> e + 1]
          ELSE [acc EXCEPT !.current = Append(@, item), !.size = @ + e + 1]
  BY DEF PutIn, e
<1>6. PutIn(acc, item, cost, limit)
        = IF cu # <<>> /\ si + c > limit
          THEN [groups |-> Append(gs, cu), current |-> <<item>>, size |-> c]
          ELSE added
  BY <1>1, <1>2, <1>3, <1>4, <1>5
<1> QED
  BY <1>6 DEF acc, added, Grouping, Put

LEMMA PutTyped ==
  ASSUME NEW E, E \subseteq Nat, NEW acc \in Acc(E), NEW item \in E, NEW cost, IsCost(cost),
         NEW limit \in Int
  PROVE  PutIn(acc, item, cost, limit) \in Acc(E)
<1> DEFINE e == cost[item]
           c == e + 1
<1>1. PICK gs \in Seq(Seq(E)), cu \in Seq(E), si \in Nat :
        acc = [groups |-> gs, current |-> cu, size |-> si]
  BY DEF Acc
<1>2. e \in Nat
  <2>1. item \in Nat
    OBVIOUS
  <2> QED
    BY <2>1 DEF IsCost
<1> HIDE DEF e
<1>3. c \in Nat /\ c = e + 1 /\ si + c \in Nat
  BY <1>2
<1> HIDE DEF c
<1>4. /\ Append(gs, cu) \in Seq(Seq(E)) /\ <<item>> \in Seq(E) /\ Append(cu, item) \in Seq(E)
  <2>2. Append(gs, cu) \in Seq(Seq(E))
    BY AppendProperties
  <2>3. Append(cu, item) \in Seq(E) /\ <<item>> \in Seq(E)
    OBVIOUS
  <2> QED
    BY <2>2, <2>3
<1>5. PutIn(Grouping(gs, cu, si), item, cost, limit) = Put(gs, cu, si, item, c, limit)
  BY <1>2, <1>3, PutIs DEF e
<1>6. Put(gs, cu, si, item, c, limit) \in Acc(E)
  BY <1>3, <1>4 DEF Acc, Put
<1> QED
  BY <1>1, <1>5, <1>6 DEF Grouping

PackedBy(at, E, items, cost, limit) ==
  /\ at \in [0 .. Len(items) -> Acc(E)]
  /\ at[0] = NoItems /\ at[Len(items)] = PackFold(items, cost, limit)
  /\ \A k \in 1 .. Len(items) : at[k] = PutIn(at[k - 1], items[k], cost, limit)

LEMMA PackSteps ==
  ASSUME NEW E, E \subseteq Nat, NEW items \in Seq(E), NEW cost, IsCost(cost), NEW limit \in Int
  PROVE  \E at : PackedBy(at, E, items, cost, limit)
<1> DEFINE n == Len(items)
           S == SUBSET (1 .. n)
           X == Acc(E)
           more(f, s) == PackStep(items, cost, limit, f, s)
           iter == CHOOSE f : f = [s \in S |-> more(f, s)]
           g == [p \in X \X (1 .. n) |-> PutIn(p[1], items[p[2]], cost, limit)]
<1>1. n \in Nat /\ \A i \in 1 .. n : items[i] \in E
  OBVIOUS
<1>2. PackFold(items, cost, limit) = iter[1 .. n]
  BY DEF PackFold
<1> HIDE DEF n
<1>0. NoItems \in X
  BY EmptySeq DEF NoItems, Acc
<1>p. \A acc \in X, k \in 1 .. n : PutIn(acc, items[k], cost, limit) \in X
  BY <1>1, PutTyped
<1> HIDE DEF X
<1>3. g \in [X \X (1 .. n) -> X]
  BY <1>p
<1>4. PICK h \in [S -> X] : FoldIs(h, n, NoItems, g)
  <2> HIDE DEF g, iter
  <2> QED
    BY <1>0, <1>1, <1>3, FoldDefined
<1>5. ASSUME NEW t \in S PROVE h[t] = more(h, t)
  <2>1. CASE t = {}
    BY <1>4, <2>1 DEF FoldIs, PackStep
  <2>2. CASE t # {}
    <3>1. Max(t) \in 1 .. n /\ t \ {Max(t)} \in S
      BY <1>1, <2>2, LastOf
    <3>2. h[t \ {Max(t)}] \in X
      BY <3>1
    <3>3. h[t] = g[<<h[t \ {Max(t)}], Max(t)>>]
      BY <1>4, <2>2 DEF FoldIs
    <3>4. h[t] = PutIn(h[t \ {Max(t)}], items[Max(t)], cost, limit)
      BY <3>1, <3>2, <3>3
    <3> QED
      BY <2>2, <3>4 DEF PackStep
  <2> QED
    BY <2>1, <2>2
<1>6. h = [t \in S |-> more(h, t)]
  <2> HIDE DEF more, S
  <2> QED
    BY <1>5
<1>7. iter = [t \in S |-> more(iter, t)]
  <2> HIDE DEF more, S
  <2> QED
    BY <1>6
<1> HIDE DEF iter
<1> HIDE DEF g
<1> DEFINE at == [k \in 0 .. n |-> iter[1 .. k]]
<1>8. at[0] = NoItems
  <2>1. 1 .. 0 = {} /\ {} \in S /\ 0 \in 0 .. n
    BY <1>1
  <2> HIDE DEF S
  <2>2. iter[{}] = NoItems
    BY <1>7, <2>1 DEF PackStep
  <2> QED
    BY <2>1, <2>2
<1>9. ASSUME NEW k \in 1 .. n PROVE at[k] = PutIn(at[k - 1], items[k], cost, limit)
  <2>1. Max(1 .. k) = k /\ (1 .. k) \ {k} = 1 .. k - 1 /\ 1 .. k \in S /\ 1 .. k # {}
    BY <1>1, LastOfPrefix
  <2> HIDE DEF S
  <2>2. iter[1 .. k] = PutIn(iter[1 .. k - 1], items[k], cost, limit)
    BY <1>7, <2>1 DEF PackStep
  <2>3. at[k] = iter[1 .. k] /\ at[k - 1] = iter[1 .. k - 1]
    BY <1>1
  <2> QED
    BY <2>2, <2>3
<1>10. at[n] = PackFold(items, cost, limit)
  BY <1>1, <1>2
<1> HIDE DEF at
<1> DEFINE P == {k \in Nat : k <= n => at[k] \in X}
<1>11. ASSUME NEW k \in Nat, k \in P PROVE k + 1 \in P
  <2> SUFFICES ASSUME k + 1 <= n PROVE at[k + 1] \in X
    OBVIOUS
  <2> DEFINE l == k + 1
  <2>1. l \in 1 .. n /\ l - 1 = k /\ k <= n
    BY <1>1
  <2> HIDE DEF l
  <2>2. at[l] = PutIn(at[l - 1], items[l], cost, limit) /\ at[l - 1] \in X
    BY <1>9, <1>11, <2>1
  <2>3. at[l] \in X
    BY <1>p, <2>1, <2>2
  <2> QED
    BY <2>3 DEF l
<1>12. 0 \in P
  BY <1>0, <1>8
<1>13. Nat \subseteq P
  <2> HIDE DEF P
  <2> QED
    BY <1>11, <1>12, Upwards
<1>14. at \in [0 .. n -> X]
  <2>1. \A k \in 0 .. n : at[k] \in X
    BY <1>1, <1>13
  <2>2. DOMAIN at = 0 .. n /\ at = [k \in DOMAIN at |-> at[k]]
    BY DEF at
  <2> QED
    BY <2>1, <2>2
<1> HIDE DEF at
<1>15. PackedBy(at, E, items, cost, limit)
  BY <1>8, <1>9, <1>10, <1>14 DEF n, X, PackedBy
<1> QED
  BY <1>15

LEMMA CostsAre ==
  ASSUME NEW cost \in [Nat -> Nat], NEW s \in Seq(Nat), NEW e \in Nat
  PROVE  /\ Costs(cost, s) \in Seq(Nat) /\ Len(Costs(cost, s)) = Len(s)
         /\ Costs(cost, Append(s, e)) = Append(Costs(cost, s), cost[e] + 1)
<1> DEFINE n == Len(s)
           a == Costs(cost, s)
           t == Append(s, e)
           c == cost[e] + 1
           b == Costs(cost, t)
           d == Append(a, c)
<1>1. n \in Nat /\ DOMAIN s = 1 .. n /\ \A i \in 1 .. n : s[i] \in Nat
  BY LenProperties, ElementOfSeq
<1>2. t \in Seq(Nat) /\ Len(t) = n + 1 /\ t[n + 1] = e /\ \A i \in 1 .. n : t[i] = s[i]
  BY AppendProperties
<1>c. c \in Nat
  <2>1. cost[e] \in Nat
    OBVIOUS
  <2> QED
    BY <2>1
<1>3. a \in [1 .. n -> Nat] /\ \A i \in 1 .. n : a[i] = cost[s[i]] + 1
  <2>1. \A i \in 1 .. n : cost[s[i]] \in Nat
    BY <1>1
  <2> HIDE DEF n
  <2>2. ASSUME NEW i \in 1 .. n PROVE cost[s[i]] + 1 \in Nat
    <3> DEFINE q == cost[s[i]]
    <3>1. q \in Nat
      BY <2>1
    <3> HIDE DEF q
    <3>2. q + 1 \in Nat
      BY <3>1
    <3> QED
      BY <3>2 DEF q
  <2> QED
    BY <1>1, <2>2 DEF Costs
<1>dt. DOMAIN t = 1 .. n + 1
  BY <1>2
<1> HIDE DEF t, n, c
<1>4. \A i \in 1 .. n + 1 : t[i] \in Nat
  <2>1. \A i \in 1 .. Len(t) : t[i] \in Nat
    BY <1>2, ElementOfSeq
  <2> QED
    BY <1>2, <2>1
<1>5. b \in [1 .. n + 1 -> Nat] /\ \A i \in 1 .. n + 1 : b[i] = cost[t[i]] + 1
  <2>1. \A i \in 1 .. n + 1 : cost[t[i]] \in Nat
    BY <1>4
  <2>2. ASSUME NEW i \in 1 .. n + 1 PROVE cost[t[i]] + 1 \in Nat
    <3> DEFINE q == cost[t[i]]
    <3>1. q \in Nat
      BY <2>1
    <3> HIDE DEF q
    <3>2. q + 1 \in Nat
      BY <3>1
    <3> QED
      BY <3>2 DEF q
  <2> QED
    BY <1>dt, <2>2 DEF Costs
<1> HIDE DEF a, b
<1>6. a \in Seq(Nat) /\ Len(a) = n
  BY <1>1, <1>3
<1>7. b \in Seq(Nat) /\ Len(b) = n + 1
  <2> DEFINE l == n + 1
  <2>1. l \in Nat
    BY <1>1
  <2>2. b \in [1 .. l -> Nat]
    BY <1>5
  <2> HIDE DEF l
  <2>3. b \in Seq(Nat) /\ Len(b) = l
    BY <2>1, <2>2
  <2> QED
    BY <2>3 DEF l
<1>8. d \in Seq(Nat) /\ Len(d) = n + 1 /\ d[n + 1] = c /\ \A i \in 1 .. n : d[i] = a[i]
  <2>0. a \in Seq(Nat) /\ c \in Nat
    BY <1>6, <1>c
  <2>1. d \in Seq(Nat) /\ Len(d) = Len(a) + 1 /\ d[Len(a) + 1] = c
        /\ \A i \in 1 .. Len(a) : d[i] = a[i]
    BY <2>0, AppendProperties
  <2> HIDE DEF d
  <2> QED
    BY <1>6, <2>1
<1> HIDE DEF d
<1>9. ASSUME NEW i \in 1 .. n + 1 PROVE b[i] = d[i]
  <2>1. CASE i = n + 1
    <3>1. b[n + 1] = cost[t[n + 1]] + 1
      BY <1>5, <2>1
    <3> QED
      BY <1>2, <1>8, <2>1, <3>1 DEF c
  <2>2. CASE i # n + 1
    <3>1. i \in 1 .. n
      BY <1>1, <2>2
    <3> QED
      BY <1>2, <1>3, <1>5, <1>8, <3>1
  <2> QED
    BY <2>1, <2>2
<1>10. b = d
  BY <1>7, <1>8, <1>9, SeqEqual
<1> QED
  BY <1>6, <1>10 DEF a, b, c, d, n, t

LEMMA OneCost ==
  ASSUME NEW cost \in [Nat -> Nat], NEW e \in Nat
  PROVE  Sum(Costs(cost, <<>>)) = 0 /\ Sum(Costs(cost, <<e>>)) = cost[e] + 1 /\ cost[e] \in Nat
<1>1. <<>> \in Seq(Nat) /\ Append(<<>>, e) = <<e>> /\ cost[e] \in Nat
  BY EmptySeq
<1>2. Costs(cost, <<>>) \in Seq(Nat) /\ Len(Costs(cost, <<>>)) = 0
  BY <1>1, CostsAre
<1>3. Costs(cost, <<>>) = <<>>
  BY <1>2, EmptySeq
<1> DEFINE c == cost[e] + 1
<1>4. Costs(cost, <<e>>) = Append(<<>>, c) /\ c \in Nat
  <2>1. c \in Nat
    BY <1>1
  <2>2. Costs(cost, Append(<<>>, e)) = Append(Costs(cost, <<>>), c)
    BY <1>1, CostsAre
  <2> QED
    BY <1>1, <1>3, <2>1, <2>2
<1> HIDE DEF c
<1>5. Sum(<<>>) = 0 /\ Sum(Append(<<>>, c)) = Sum(<<>>) + c
  BY <1>1, <1>4, SumIs
<1>6. Sum(Costs(cost, <<e>>)) = 0 + c
  BY <1>4, <1>5
<1>7. Sum(Costs(cost, <<e>>)) = c
  BY <1>4, <1>6
<1> QED
  BY <1>1, <1>3, <1>5, <1>7 DEF c

LEMMA MoreCost ==
  ASSUME NEW cost \in [Nat -> Nat], NEW s \in Seq(Nat), NEW e \in Nat
  PROVE  Sum(Costs(cost, Append(s, e))) = Sum(Costs(cost, s)) + (cost[e] + 1)
         /\ Sum(Costs(cost, s)) \in Nat
<1> DEFINE c == cost[e] + 1
<1>1. c \in Nat
  <2>1. cost[e] \in Nat
    OBVIOUS
  <2> QED
    BY <2>1
<1>2. Costs(cost, s) \in Seq(Nat) /\ Costs(cost, Append(s, e)) = Append(Costs(cost, s), c)
  BY CostsAre
<1> HIDE DEF c
<1>3. Sum(Append(Costs(cost, s), c)) = Sum(Costs(cost, s)) + c /\ Sum(Costs(cost, s)) \in Nat
  BY <1>1, <1>2, SumIs
<1> QED
  BY <1>2, <1>3 DEF c

LEMMA OneOf ==
  ASSUME NEW E, NEW e \in E
  PROVE  <<e>> \in Seq(E)
OBVIOUS

LEMMA ThreeParts ==
  \A r, s, t \in Seq(Nat) : (r \o s) \o t = r \o (s \o t)
BY ConcatAssociative

LEMMA OneItem ==
  ASSUME NEW s \in Seq(Nat), Len(s) = 1
  PROVE  s = <<s[1]>>
<1>0. 1 \in 1 .. Len(s)
  OBVIOUS
<1>1. s[1] \in Nat
  BY <1>0, ElementOfSeq
<1> DEFINE e == s[1]
           t == <<e>>
<1> HIDE DEF e
<1>2. t \in Seq(Nat) /\ Len(t) = 1 /\ t[1] = e
  BY <1>1 DEF e
<1> HIDE DEF t
<1>3. \A i \in 1 .. Len(s) : s[i] = t[i]
  BY <1>2 DEF e
<1>4. s = t
  BY <1>2, <1>3, SeqEqual
<1> QED
  BY <1>4 DEF t, e

LEMMA Lengths ==
  ASSUME NEW E, NEW gs \in Seq(Seq(E))
  PROVE  Len(gs) \in Nat /\ \A i \in 1 .. Len(gs) : gs[i] \in Seq(E) /\ Len(gs[i]) \in Nat
<1>1. Len(gs) \in Nat /\ \A i \in 1 .. Len(gs) : gs[i] \in Seq(E)
  BY LenProperties, ElementOfSeq
<1> QED
  BY <1>1, LenProperties

LEMMA CostOf ==
  ASSUME NEW cost \in [Nat -> Nat], NEW n \in Nat
  PROVE  cost[n] \in Nat /\ cost[n] + 1 \in Nat
<1> DEFINE q == cost[n]
<1>1. q \in Nat
  OBVIOUS
<1> HIDE DEF q
<1>2. q + 1 \in Nat
  BY <1>1
<1> QED
  BY <1>1, <1>2 DEF q

\* What the groups are after h items; half says that two items fit into a group.
PackedSoFar(gs, cu, si, h, items, cost, limit, small, half) ==
  /\ FlattenSeq(gs) \o cu = SubSeq(items, 1, h)
  /\ si = Sum(Costs(cost, cu))
  /\ h > 0 => cu # <<>>
  /\ Len(cu) <= h
  /\ \A i \in 1 .. Len(gs) : gs[i] # <<>> /\ Len(gs[i]) <= h
  /\ small => /\ h > 0 => si <= limit
              /\ \A i \in 1 .. Len(gs) : Sum(Costs(cost, gs[i])) <= limit
  /\ half => 2 * Len(gs) + Len(cu) <= h

\* The last of the items packed so far is the last of the group that is open.
LEMMA OpenGroup ==
  ASSUME NEW items \in Seq(Nat), NEW h \in Nat, h <= Len(items),
         NEW flat \in Seq(Nat), NEW cu \in Seq(Nat), flat \o cu = SubSeq(items, 1, h), Len(cu) = 1
  PROVE  h \in 1 .. Len(items) /\ cu = <<items[h]>>
<1> DEFINE all == flat \o cu
           m == Len(flat)
           j == m + 1
           part == SubSeq(items, 1, h)
<1>1. m \in Nat /\ Len(items) \in Nat /\ j \in Nat
  OBVIOUS
<1>2. Len(all) = m + Len(cu)
      /\ \A i \in 1 .. m + Len(cu) : all[i] = IF i <= m THEN flat[i] ELSE cu[i - m]
  BY ConcatProperties
<1>3. Len(part) = h /\ \A i \in 1 .. h : part[i] = items[i]
  BY <1>1
<1>c. cu = <<cu[1]>>
  BY OneItem
<1>e. all = part
  OBVIOUS
<1> HIDE DEF all, m, part
<1>4. j = m + 1 /\ j \in 1 .. m + Len(cu) /\ ~(j <= m) /\ j - m = 1
  BY <1>1
<1> HIDE DEF j
<1>5. all[j] = cu[1]
  BY <1>2, <1>4
<1>6. j = h
  BY <1>1, <1>2, <1>3, <1>4, <1>e
<1>7. j \in 1 .. h /\ j \in 1 .. Len(items)
  BY <1>1, <1>4, <1>6
<1>8. items[j] = cu[1]
  BY <1>3, <1>5, <1>7, <1>e
<1> QED
  BY <1>6, <1>7, <1>8, <1>c

\* What an item adds to the size of its group.
CostIs(cost, item, c) == c = cost[item] + 1
AllHalf(items, cost, limit) == \A j \in 1 .. Len(items) : 2 * (cost[items[j]] + 1) <= limit

LEMMA HalfAndHalf ==
  ASSUME NEW a \in Nat, NEW b \in Nat, NEW limit \in Int, 2 * a <= limit, 2 * b <= limit
  PROVE  a + b <= limit
OBVIOUS

LEMMA PackedClose ==
  ASSUME NEW items \in Seq(Nat), NEW cost, IsCost(cost), NEW limit \in Int,
         NEW small \in BOOLEAN, NEW half \in BOOLEAN,
         NEW h \in Nat, NEW k \in Nat, k = h + 1, k <= Len(items),
         NEW gs \in Seq(Seq(Nat)), NEW cu \in Seq(Nat), NEW si \in Nat,
         PackedSoFar(gs, cu, si, h, items, cost, limit, small, half),
         NEW item \in Nat, item = items[k], NEW c \in Nat, CostIs(cost, item, c),
         small => c <= limit, half => 2 * c <= limit,
         half => AllHalf(items, cost, limit),
         cu # <<>>, ~(si + c <= limit)
  PROVE  PackedSoFar(Append(gs, cu), <<item>>, c, k, items, cost, limit, small, half)
<1> DEFINE new == Append(gs, cu)
           m == Len(gs)
           p == m + 1
           u == Len(cu)
<1>1. m \in Nat /\ u \in Nat /\ u >= 1 /\ item \in Nat /\ cu \in Seq(Nat) /\ k > 0 /\ h > 0
  <2>1. m \in Nat /\ u \in Nat
    BY LenProperties
  <2>i. item \in Nat
    OBVIOUS
  <2>c. cu \in Seq(Nat)
    BY SeqMonotonic
  <2> HIDE DEF m, u
  <2>2. u # 0
    BY EmptySeq DEF u
  <2>3. u >= 1 /\ k > 0
    BY <2>1, <2>2
  <2>4. u <= h
    BY DEF PackedSoFar, u
  <2>5. h > 0
    BY <2>1, <2>3, <2>4
  <2> QED
    BY <2>1, <2>3, <2>5, <2>i, <2>c
<1>2. Len(new) = p /\ new[p] = cu /\ \A i \in 1 .. m : new[i] = gs[i]
  BY AppendProperties
<1>5. /\ FlattenSeq(gs) \o cu = SubSeq(items, 1, h) /\ si = Sum(Costs(cost, cu))
      /\ u <= h
      /\ \A i \in 1 .. m : gs[i] # <<>> /\ Len(gs[i]) <= h
      /\ small => /\ si <= limit
                  /\ \A i \in 1 .. m : Sum(Costs(cost, gs[i])) <= limit
      /\ half => 2 * m + u <= h
  BY <1>1 DEF PackedSoFar
<1>6. SubSeq(items, 1, k) = SubSeq(items, 1, h) \o <<item>>
  <2>1. 1 \in 1 .. Len(items) /\ k \in 1 .. Len(items) /\ k - 1 = h
    BY <1>1
  <2>2. SubSeq(items, 1, k) = SubSeq(items, 1, k - 1) \o <<items[k]>>
    BY <2>1, SubSeqRecursiveSecond
  <2> QED
    BY <2>1, <2>2
<1>7. FlattenSeq(gs) \in Seq(Nat) /\ FlattenSeq(new) = FlattenSeq(gs) \o cu
  BY FlattenAppends
<1>8. FlattenSeq(new) \o <<item>> = SubSeq(items, 1, k)
  BY <1>5, <1>6, <1>7
<1>9. c = Sum(Costs(cost, <<item>>))
  BY <1>1, OneCost DEF CostIs, IsCost
<1>g. \A i \in 1 .. m : Len(gs[i]) \in Nat
  BY Lengths
<1>10. ASSUME half PROVE 2 * p + 1 <= k
  <2>1. u # 1
    <3>1. SUFFICES ASSUME u = 1 PROVE FALSE
      OBVIOUS
    <3>2. h <= Len(items)
      BY <1>1
    <3>e. h \in 1 .. Len(items) /\ cu = <<items[h]>>
      <4> DEFINE flat == FlattenSeq(gs)
      <4>1. flat \in Seq(Nat) /\ flat \o cu = SubSeq(items, 1, h) /\ Len(cu) = 1
        BY <1>5, <1>7, <3>1
      <4> HIDE DEF flat, m, u
      <4>2. flat \in Seq(Nat) /\ items \in Seq(Nat) /\ cu \in Seq(Nat) /\ h \in Nat
        BY <4>1
      <4> QED
        BY <3>2, <4>1, <4>2, OpenGroup
    <3>3. PICK j \in 1 .. Len(items) : j = h /\ cu = <<items[j]>>
      BY <3>e
    <3> DEFINE one == items[j]
               d == cost[one] + 1
    <3>4. one \in Nat
      <4>1. one \in Nat
        BY ElementOfSeq
      <4> QED
        BY <4>1
    <3>5. 2 * d <= limit
      BY <1>10 DEF AllHalf
    <3>6. cu = <<one>>
      BY <3>3
    <3> HIDE DEF one
    <3>8. d \in Nat
      BY <3>4, CostOf DEF IsCost
    <3>9. si = d
      BY <1>5, <3>4, <3>6, OneCost DEF IsCost
    <3> HIDE DEF d
    <3>10. 2 * c <= limit
      BY <1>10
    <3>11. d + c <= limit
      BY <3>5, <3>8, <3>10, HalfAndHalf
    <3> QED
      BY <3>9, <3>11
  <2>3. 2 * m + u <= h
    BY <1>5, <1>10
  <2> HIDE DEF m, u
  <2>2. u >= 2
    BY <1>1, <2>1
  <2> QED
    BY <1>1, <2>2, <2>3
<1>x. p \in Nat /\ p = m + 1
  BY <1>1
<1> HIDE DEF new, m, p, u
<1>11. ASSUME NEW i \in 1 .. p
       PROVE  /\ new[i] # <<>> /\ Len(new[i]) <= k
              /\ small => Sum(Costs(cost, new[i])) <= limit
  <2>1. CASE i = p
    <3>1. new[i] = cu /\ Len(cu) = u
      BY <1>2, <2>1 DEF u
    <3>2. u <= k
      BY <1>1, <1>5
    <3> QED
      BY <1>5, <3>1, <3>2
  <2>2. CASE i # p
    <3>1. i \in 1 .. m
      BY <1>1, <1>x, <2>2
    <3>2. /\ new[i] = gs[i] /\ gs[i] # <<>> /\ Len(gs[i]) <= h /\ Len(gs[i]) \in Nat
          /\ small => Sum(Costs(cost, gs[i])) <= limit
      BY <1>2, <1>5, <1>g, <3>1
    <3> DEFINE q == Len(gs[i])
    <3>n. new[i] = gs[i]
      BY <3>2
    <3>q. Len(new[i]) = q
      BY <3>n
    <3>3. q \in Nat /\ q <= h
      BY <3>2
    <3>5. small => Sum(Costs(cost, new[i])) <= limit
      BY <3>2
    <3>6. new[i] # <<>>
      BY <3>2
    <3> HIDE DEF q
    <3>4. q <= k
      BY <3>3
    <3> QED
      BY <3>q, <3>4, <3>5, <3>6
  <2> QED
    BY <2>1, <2>2
<1>12. <<item>> # <<>> /\ Len(<<item>>) = 1
  OBVIOUS
<1>13. 1 <= k
  BY <1>1
<1> QED
  BY <1>2, <1>8, <1>9, <1>10, <1>11, <1>12, <1>13 DEF PackedSoFar, new

LEMMA PackedAdd ==
  ASSUME NEW items \in Seq(Nat), NEW cost, IsCost(cost), NEW limit \in Int,
         NEW small \in BOOLEAN, NEW half \in BOOLEAN,
         NEW h \in Nat, NEW k \in Nat, k = h + 1, k <= Len(items),
         NEW gs \in Seq(Seq(Nat)), NEW cu \in Seq(Nat), NEW si \in Nat,
         PackedSoFar(gs, cu, si, h, items, cost, limit, small, half),
         NEW item \in Nat, item = items[k], NEW c \in Nat, CostIs(cost, item, c),
         small => c <= limit,
         cu # <<>> => si + c <= limit
  PROVE  PackedSoFar(gs, Append(cu, item), si + c, k, items, cost, limit, small, half)
<1> DEFINE new == Append(cu, item)
           m == Len(gs)
           u == Len(cu)
           v == u + 1
           flat == FlattenSeq(gs)
           one == <<item>>
<1>1. m \in Nat /\ u \in Nat /\ item \in Nat /\ cu \in Seq(Nat) /\ one \in Seq(Nat) /\ k > 0
  <2>1. m \in Nat /\ u \in Nat
    BY LenProperties
  <2>2. item \in Nat
    OBVIOUS
  <2>o. one \in Seq(Nat)
    BY OneOf
  <2>3. cu \in Seq(Nat)
    BY SeqMonotonic
  <2>4. k > 0
    OBVIOUS
  <2> QED
    BY <2>1, <2>2, <2>3, <2>4, <2>o
<1>2. Len(new) = v /\ new # <<>> /\ new = cu \o one
  <2>1. new \in Seq(Nat) /\ Len(new) = v
    BY AppendProperties
  <2>2. new = cu \o one
    BY AppendIsConcat
  <2>3. Len(new) # 0
    BY <1>1, <2>1
  <2>4. new # <<>>
    BY <2>3, EmptySeq
  <2> QED
    BY <2>1, <2>2, <2>4
<1>3. Sum(Costs(cost, new)) = Sum(Costs(cost, cu)) + c
  BY <1>1, MoreCost DEF CostIs, IsCost
<1>5. /\ flat \o cu = SubSeq(items, 1, h) /\ si = Sum(Costs(cost, cu))
      /\ u <= h
      /\ \A i \in 1 .. m : gs[i] # <<>> /\ Len(gs[i]) <= h
      /\ small => \A i \in 1 .. m : Sum(Costs(cost, gs[i])) <= limit
      /\ half => 2 * m + u <= h
  BY DEF PackedSoFar
<1>6. SubSeq(items, 1, k) = SubSeq(items, 1, h) \o one
  <2>1. 1 \in 1 .. Len(items) /\ k \in 1 .. Len(items) /\ k - 1 = h
    BY <1>1
  <2>2. SubSeq(items, 1, k) = SubSeq(items, 1, k - 1) \o <<items[k]>>
    BY <2>1, SubSeqRecursiveSecond
  <2> QED
    BY <2>1, <2>2
<1>f. flat \in Seq(Nat)
  BY FlattenAppends
<1>g. \A i \in 1 .. m : Len(gs[i]) \in Nat
  BY Lengths
<1>0. cu = <<>> => si = 0
  BY <1>1, <1>5, OneCost DEF IsCost
<1>v. v \in Nat /\ v = u + 1
  BY <1>1
<1> HIDE DEF new, m, u, v, flat, one
<1>7. (flat \o cu) \o one = flat \o (cu \o one)
  <2>1. flat \in Seq(Nat)
    BY <1>f
  <2>2. one \in Seq(Nat)
    BY <1>1
  <2>3. \A r, t \in Seq(Nat) : (r \o cu) \o t = r \o (cu \o t)
    BY ThreeParts
  <2> QED
    BY <2>1, <2>2, <2>3
<1>8. flat \o new = SubSeq(items, 1, k)
  BY <1>2, <1>5, <1>6, <1>7
<1>9. ASSUME NEW i \in 1 .. m PROVE gs[i] # <<>> /\ Len(gs[i]) <= k
  <2> DEFINE q == Len(gs[i])
  <2>1. q \in Nat /\ q <= h /\ gs[i] # <<>>
    BY <1>5, <1>g
  <2> HIDE DEF q
  <2>2. q <= k
    BY <2>1
  <2> QED
    BY <2>1, <2>2 DEF q
<1>10. ASSUME small PROVE si + c <= limit
  <2>1. CASE cu = <<>>
    <3>1. si = 0 /\ c <= limit
      BY <1>0, <1>10, <2>1
    <3>2. 0 + c = c
      OBVIOUS
    <3> QED
      BY <3>1, <3>2
  <2>2. CASE cu # <<>>
    BY <2>2
  <2> QED
    BY <2>1, <2>2
<1>11. v <= k
  BY <1>1, <1>5, <1>v
<1>12. half => 2 * m + v <= k
  BY <1>1, <1>5, <1>v
<1> QED
  BY <1>2, <1>3, <1>5, <1>8, <1>9, <1>10, <1>11, <1>12 DEF PackedSoFar, new, m, v, flat

AllSmall(items, cost, limit) == \A j \in 1 .. Len(items) : cost[items[j]] + 1 <= limit

SoFar(acc, h, items, cost, limit, small, half) ==
  PackedSoFar(acc.groups, acc.current, acc.size, h, items, cost, limit, small, half)

LEMMA PackedStep ==
  ASSUME NEW items \in Seq(Nat), NEW cost, IsCost(cost), NEW limit \in Int,
         NEW small \in BOOLEAN, NEW half \in BOOLEAN,
         small => AllSmall(items, cost, limit), half => AllHalf(items, cost, limit),
         NEW h \in Nat, NEW k \in Nat, k = h + 1, k <= Len(items),
         NEW acc \in Acc(Nat), SoFar(acc, h, items, cost, limit, small, half)
  PROVE  SoFar(PutIn(acc, items[k], cost, limit), k, items, cost, limit, small, half)
<1>0. PICK gs \in Seq(Seq(Nat)), cu \in Seq(Nat), si \in Nat :
        acc = [groups |-> gs, current |-> cu, size |-> si]
  BY DEF Acc
<1>1. PackedSoFar(gs, cu, si, h, items, cost, limit, small, half)
  BY <1>0 DEF SoFar
<1>k. k \in 1 .. Len(items)
  OBVIOUS
<1>2. PICK item \in Nat : item = items[k]
  BY <1>k, ElementOfSeq
<1>3. PICK c \in Nat : CostIs(cost, item, c)
  BY CostOf DEF IsCost, CostIs
<1> DEFINE put == PutIn(acc, item, cost, limit)
<1>4. /\ cu # <<>> /\ si + c > limit =>
           put = [groups |-> Append(gs, cu), current |-> <<item>>, size |-> c]
      /\ ~(cu # <<>> /\ si + c > limit) =>
           put = [groups |-> gs, current |-> Append(cu, item), size |-> si + c]
  <2>1. c = cost[item] + 1 /\ cost[item] \in Nat
    BY <1>3 DEF CostIs, IsCost
  <2>2. PutIn(Grouping(gs, cu, si), item, cost, limit) = Put(gs, cu, si, item, c, limit)
    BY <2>1, PutIs
  <2> QED
    BY <1>0, <2>2 DEF Grouping, Put
<1> HIDE DEF put
<1>s. small => c <= limit
  BY <1>k, <1>2, <1>3 DEF AllSmall, CostIs
<1>h. half => 2 * c <= limit
  BY <1>k, <1>2, <1>3 DEF AllHalf, CostIs
<1>5. CASE cu # <<>> /\ si + c > limit
  <2>1. ~(si + c <= limit) /\ cu # <<>>
    BY <1>5
  <2>2. PackedSoFar(Append(gs, cu), <<item>>, c, k, items, cost, limit, small, half)
    BY <1>1, <1>2, <1>3, <1>s, <1>h, <2>1, PackedClose
  <2>3. put.groups = Append(gs, cu) /\ put.current = <<item>> /\ put.size = c
    BY <1>4, <1>5
  <2> QED
    BY <1>2, <2>2, <2>3 DEF SoFar, put
<1>6. CASE ~(cu # <<>> /\ si + c > limit)
  <2>1. cu # <<>> => si + c <= limit
    BY <1>6
  <2>2. PackedSoFar(gs, Append(cu, item), si + c, k, items, cost, limit, small, half)
    BY <1>1, <1>2, <1>3, <1>s, <2>1, PackedAdd
  <2>3. put.groups = gs /\ put.current = Append(cu, item) /\ put.size = si + c
    BY <1>4, <1>6
  <2> QED
    BY <1>2, <2>2, <2>3 DEF SoFar, put
<1> QED
  BY <1>5, <1>6

LEMMA AccBelow ==
  ASSUME NEW E, E \subseteq Nat
  PROVE  Seq(E) \subseteq Seq(Nat) /\ Seq(Seq(E)) \subseteq Seq(Seq(Nat)) /\ Acc(E) \subseteq Acc(Nat)
<1>1. Seq(E) \subseteq Seq(Nat)
  BY SeqMonotonic
<1>2. Seq(Seq(E)) \subseteq Seq(Seq(Nat))
  BY <1>1, SeqMonotonic
<1> QED
  BY <1>1, <1>2 DEF Acc

LEMMA NoneYet ==
  ASSUME NEW items \in Seq(Nat), NEW cost, IsCost(cost), NEW limit \in Int,
         NEW small \in BOOLEAN, NEW half \in BOOLEAN
  PROVE  SoFar(NoItems, 0, items, cost, limit, small, half)
<1>1. NoItems.groups = <<>> /\ NoItems.current = <<>> /\ NoItems.size = 0
  BY DEF NoItems
<1>2. FlattenSeq(<<>>) = <<>>
  <2>1. <<>> \in Seq(Seq(Nat)) /\ <<>> \in Seq(Nat)
    BY EmptySeq
  <2> QED
    BY <2>1, FlattenAppends
<1>3. <<>> \o <<>> = SubSeq(items, 1, 0)
  OBVIOUS
<1>4. Sum(Costs(cost, <<>>)) = 0
  BY OneCost DEF IsCost
<1>5. Len(<<>>) = 0 /\ 2 * 0 + 0 <= 0
  OBVIOUS
<1> DEFINE e == <<>>
<1>6. /\ FlattenSeq(e) \o e = SubSeq(items, 1, 0) /\ 0 = Sum(Costs(cost, e)) /\ Len(e) = 0
      /\ NoItems.groups = e /\ NoItems.current = e
  BY <1>1, <1>2, <1>3, <1>4, <1>5
<1> HIDE DEF e
<1>7. ~(0 > 0) /\ 0 <= 0 /\ 2 * 0 + 0 <= 0 /\ \A i \in 1 .. 0 : FALSE
  OBVIOUS
<1>8. PackedSoFar(e, e, 0, 0, items, cost, limit, small, half)
  BY <1>6, <1>7 DEF PackedSoFar
<1> QED
  BY <1>1, <1>6, <1>8 DEF SoFar

\* What the groups are, of any costs.
Packed(groups, items, cost, limit) ==
  /\ FlattenSeq(groups) = items
  /\ Len(items) > 0 => Len(groups) > 0
  /\ \A i \in 1 .. Len(groups) : groups[i] # <<>> /\ Len(groups[i]) <= Len(items)
  /\ AllSmall(items, cost, limit) => \A i \in 1 .. Len(groups) : Sum(Costs(cost, groups[i])) <= limit
  /\ AllHalf(items, cost, limit) => 2 * Len(groups) <= Len(items) + 1

LEMMA ClosedIs ==
  ASSUME NEW gs \in Seq(Seq(Nat)), NEW cu \in Seq(Nat), NEW si \in Nat, NEW items \in Seq(Nat),
         NEW cost, IsCost(cost), NEW limit \in Int, NEW n \in Nat, n = Len(items),
         PackedSoFar(gs, cu, si, n, items, cost, limit,
                     AllSmall(items, cost, limit), AllHalf(items, cost, limit))
  PROVE  Packed(Closed(Grouping(gs, cu, si)), items, cost, limit)
<1> DEFINE groups == Closed(Grouping(gs, cu, si))
           m == Len(gs)
           p == m + 1
           small == AllSmall(items, cost, limit)
           half == AllHalf(items, cost, limit)
<1>0. groups = IF cu = <<>> THEN gs ELSE Append(gs, cu)
  BY DEF Closed, Grouping
<1>1. m \in Nat /\ p \in Nat /\ p = m + 1 /\ \A i \in 1 .. m : Len(gs[i]) \in Nat
  BY Lengths
<1>2. /\ FlattenSeq(gs) \o cu = SubSeq(items, 1, n)
      /\ si = Sum(Costs(cost, cu))
      /\ n > 0 => cu # <<>>
      /\ Len(cu) <= n
      /\ \A i \in 1 .. m : gs[i] # <<>> /\ Len(gs[i]) <= n
      /\ small => /\ n > 0 => si <= limit
                  /\ \A i \in 1 .. m : Sum(Costs(cost, gs[i])) <= limit
      /\ half => 2 * m + Len(cu) <= n
  BY DEF PackedSoFar
<1>3. SubSeq(items, 1, n) = items
  OBVIOUS
<1>4. FlattenSeq(gs) \in Seq(Nat) /\ FlattenSeq(Append(gs, cu)) = FlattenSeq(gs) \o cu
  BY FlattenAppends
<1>5. Len(cu) \in Nat /\ (cu = <<>> \/ Len(cu) >= 1)
  <2> DEFINE u == Len(cu)
  <2>1. u \in Nat /\ (cu = <<>> \/ u # 0)
    BY LenProperties, EmptySeq
  <2> HIDE DEF u
  <2> QED
    BY <2>1 DEF u
<1>6. CASE cu = <<>>
  <2>1. ~(n > 0)
    BY <1>2, <1>6
  <2>2. n = 0
    BY <2>1
  <2>3. FlattenSeq(gs) \o <<>> = FlattenSeq(gs)
    BY <1>4, ConcatEmptySeq
  <2>4. groups = gs /\ Len(groups) = m
    BY <1>0, <1>6
  <2> HIDE DEF groups, m, p, small, half
  <2>5. half => 2 * m <= n + 1
    <3>1. half => 2 * m + Len(cu) <= n
      BY <1>2
    <3> QED
      BY <1>1, <1>5, <3>1
  <2>6. FlattenSeq(groups) = items
    BY <1>2, <1>3, <1>6, <2>3, <2>4
  <2> QED
    BY <1>2, <2>1, <2>4, <2>5, <2>6 DEF Packed, groups, small, half
<1>7. CASE cu # <<>>
  <2>1. groups = Append(gs, cu)
    BY <1>0, <1>7
  <2> HIDE DEF groups
  <2>2. Len(groups) = p /\ groups[p] = cu /\ \A i \in 1 .. m : groups[i] = gs[i]
    BY <2>1, AppendProperties
  <2>3. FlattenSeq(groups) = items
    BY <1>2, <1>3, <1>4, <2>1
  <2> HIDE DEF m, p, small, half
  <2>4. n > 0 /\ p > 0
    BY <1>1, <1>2, <1>5, <1>7
  <2>5. ASSUME NEW i \in 1 .. p
        PROVE  groups[i] # <<>> /\ Len(groups[i]) <= n
               /\ (small => Sum(Costs(cost, groups[i])) <= limit)
    <3>1. CASE i = p
      BY <1>2, <1>7, <2>2, <2>4, <3>1
    <3>2. CASE i # p
      <4>1. i \in 1 .. m
        BY <1>1, <3>2
      <4> QED
        BY <1>2, <2>2, <4>1
    <3> QED
      BY <3>1, <3>2
  <2>6. half => 2 * p <= n + 1
    <3>1. half => 2 * m + Len(cu) <= n
      BY <1>2
    <3> QED
      BY <1>1, <1>5, <1>7, <3>1
  <2> QED
    BY <2>2, <2>3, <2>4, <2>5, <2>6 DEF Packed, groups, small, half
<1> QED
  BY <1>6, <1>7

LEMMA PackedIs ==
  ASSUME NEW E, E \subseteq Nat, NEW items \in Seq(E), NEW cost, IsCost(cost), NEW limit \in Int
  PROVE  /\ Closed(PackFold(items, cost, limit)) \in Seq(Seq(E))
         /\ Packed(Closed(PackFold(items, cost, limit)), items, cost, limit)
<1> DEFINE n == Len(items)
           small == AllSmall(items, cost, limit)
           half == AllHalf(items, cost, limit)
<1>p. PICK at : PackedBy(at, E, items, cost, limit)
  BY PackSteps
<1>1. /\ at \in [0 .. n -> Acc(E)]
      /\ at[0] = NoItems /\ at[n] = PackFold(items, cost, limit)
      /\ \A k \in 1 .. n : at[k] = PutIn(at[k - 1], items[k], cost, limit)
  BY <1>p DEF PackedBy
<1>2. n \in Nat /\ items \in Seq(Nat) /\ Acc(E) \subseteq Acc(Nat)
  <2>1. Seq(E) \subseteq Seq(Nat) /\ Acc(E) \subseteq Acc(Nat)
    BY AccBelow
  <2>2. n \in Nat
    BY LenProperties
  <2> QED
    BY <2>1, <2>2
<1>b. small \in BOOLEAN /\ half \in BOOLEAN
  BY DEF AllSmall, AllHalf
<1> HIDE DEF small, half
<1> DEFINE P == {i \in 0 .. n : SoFar(at[i], i, items, cost, limit, small, half)}
<1>3. 0 \in P
  <2>1. SoFar(NoItems, 0, items, cost, limit, small, half)
    BY <1>2, <1>b, NoneYet
  <2> QED
    BY <1>1, <1>2, <2>1
<1>4. ASSUME NEW i \in Nat, i < n, i \in P PROVE i + 1 \in P
  <2> DEFINE k == i + 1
  <2>1. k \in Nat /\ k = i + 1 /\ k <= n /\ k - 1 = i /\ k \in 1 .. n /\ k \in 0 .. n /\ i \in 0 .. n
    BY <1>2, <1>4
  <2> HIDE DEF k, n
  <2>2. at[k] = PutIn(at[i], items[k], cost, limit) /\ at[i] \in Acc(Nat)
    BY <1>1, <1>2, <2>1
  <2>3. SoFar(at[i], i, items, cost, limit, small, half)
    BY <1>4
  <2>4. SoFar(PutIn(at[i], items[k], cost, limit), k, items, cost, limit, small, half)
    BY <1>2, <1>b, <2>1, <2>2, <2>3, PackedStep DEF n, small, half
  <2> QED
    BY <2>1, <2>2, <2>4 DEF k
<1>5. n \in P
  <2> HIDE DEF P
  <2>1. \A i \in 0 .. n : i \in P
    BY <1>2, <1>3, <1>4, UpTo
  <2> QED
    BY <1>2, <2>1
<1>6. PICK gs \in Seq(Seq(E)), cu \in Seq(E), si \in Nat : PackFold(items, cost, limit) = Grouping(gs, cu, si)
  <2>1. at[n] \in Acc(E)
    BY <1>1, <1>2
  <2> QED
    BY <1>1, <2>1 DEF Acc, Grouping
<1>7. gs \in Seq(Seq(Nat)) /\ cu \in Seq(Nat)
  BY AccBelow
<1>8. PackedSoFar(gs, cu, si, n, items, cost, limit, small, half)
  BY <1>1, <1>5, <1>6 DEF SoFar, Grouping
<1>9. Packed(Closed(Grouping(gs, cu, si)), items, cost, limit)
  BY <1>2, <1>7, <1>8, ClosedIs DEF small, half
<1>10. Closed(Grouping(gs, cu, si)) \in Seq(Seq(E))
  <2>1. Append(gs, cu) \in Seq(Seq(E))
    BY AppendProperties
  <2> QED
    BY <2>1 DEF Closed, Grouping
<1> QED
  BY <1>6, <1>9, <1>10

\* Induction over the sequences of numbers.
LEMMA ByAppending ==
  ASSUME NEW P, <<>> \in P, \A s \in Seq(Nat) : \A e \in Nat : s \in P => Append(s, e) \in P
  PROVE  Seq(Nat) \subseteq P
<1> DEFINE Q == {n \in Nat : \A s \in Seq(Nat) : Len(s) = n => s \in P}
<1>1. 0 \in Q
  <2>1. ASSUME NEW s \in Seq(Nat), Len(s) = 0 PROVE s \in P
    <3>1. s = <<>>
      BY <2>1, EmptySeq
    <3> QED
      BY <3>1
  <2> QED
    BY <2>1
<1>2. ASSUME NEW n \in Nat, n \in Q PROVE n + 1 \in Q
  <2>1. ASSUME NEW s \in Seq(Nat), Len(s) = n + 1 PROVE s \in P
    <3> DEFINE r == Front(s)
               e == Last(s)
    <3>0. s # <<>>
      <4>1. n + 1 # 0
        OBVIOUS
      <4> QED
        BY <2>1, <4>1, EmptySeq
    <3>1. r \in Seq(Nat) /\ Len(r) = n /\ e \in Nat /\ s = Append(r, e)
      BY <2>1, <3>0 DEF Front, Last
    <3>2. r \in P
      BY <1>2, <3>1
    <3> HIDE DEF r, e
    <3> QED
      BY <3>1, <3>2
  <2> QED
    BY <2>1
<1>3. Nat \subseteq Q
  <2> HIDE DEF Q
  <2> QED
    BY <1>1, <1>2, Upwards
<1>4. ASSUME NEW s \in Seq(Nat) PROVE s \in P
  <2>1. Len(s) \in Q
    BY <1>3, LenProperties
  <2> QED
    BY <2>1
<1> QED
  BY <1>4

\* The length of a line with its line break.
LineCost == [p \in Nat |-> p]

LEMMA LinesCost ==
  ASSUME NEW s \in Seq(Nat)
  PROVE  Sum(s) \in Nat /\ Len(s) \in Nat /\ Sum(Costs(LineCost, s)) = Sum(s) + Len(s)
<1> DEFINE P == {t \in Seq(Nat) : Sum(Costs(LineCost, t)) = Sum(t) + Len(t)}
<1>c. IsCost(LineCost) /\ LineCost \in [Nat -> Nat]
  BY DEF IsCost, LineCost
<1>1. <<>> \in P
  <2>1. <<>> \in Seq(Nat) /\ Len(<<>>) = 0 /\ 0 \in Nat
    BY EmptySeq
  <2>2. Sum(<<>>) = 0
    BY <2>1, SumIs
  <2>3. Sum(Costs(LineCost, <<>>)) = 0
    BY <1>c, <2>1, OneCost
  <2>4. 0 = 0 + 0
    OBVIOUS
  <2> QED
    BY <2>1, <2>2, <2>3, <2>4
<1>2. ASSUME NEW t \in Seq(Nat), NEW e \in Nat, t \in P PROVE Append(t, e) \in P
  <2> DEFINE u == Append(t, e)
             a == Sum(t)
             l == Len(t)
             c == Sum(Costs(LineCost, t))
  <2>1. a \in Nat /\ Sum(u) = a + e
    BY SumIs
  <2>2. u \in Seq(Nat) /\ Len(u) = l + 1 /\ l \in Nat
    BY AppendProperties
  <2>3. Sum(Costs(LineCost, u)) = c + (LineCost[e] + 1)
    BY <1>c, MoreCost
  <2>4. LineCost[e] = e
    BY DEF LineCost
  <2>5. c = a + l
    BY <1>2
  <2> HIDE DEF u, a, l, c
  <2>6. c + (e + 1) = (a + e) + (l + 1)
    BY <2>1, <2>2, <2>5
  <2>7. Sum(Costs(LineCost, u)) = Sum(u) + Len(u)
    BY <2>1, <2>2, <2>3, <2>4, <2>6
  <2> QED
    BY <2>2, <2>7 DEF u
<1>3. s \in P
  <2> HIDE DEF P
  <2> QED
    BY <1>1, <1>2, ByAppending
<1>4. Sum(s) \in Nat /\ Len(s) \in Nat
  BY SumIs, LenProperties
<1> QED
  BY <1>3, <1>4

LEMMA SumOneMore ==
  ASSUME NEW r \in Nat, NEW s \in Seq(Nat)
  PROVE  Sum(<<r>> \o s) = r + Sum(s) /\ Sum(s) \in Nat /\ <<r>> \o s \in Seq(Nat)
<1> DEFINE one == <<r>>
           P == {t \in Seq(Nat) : Sum(one \o t) = r + Sum(t)}
<1>0. one \in Seq(Nat) /\ one = Append(<<>>, r) /\ <<>> \in Seq(Nat)
  BY EmptySeq, OneOf
<1>e. Sum(<<>>) = 0
  BY <1>0, SumIs
<1>o. Sum(one) = 0 + r
  BY <1>0, <1>e, SumIs
<1> HIDE DEF one
<1>1. <<>> \in P
  <2>1. one \o <<>> = one
    BY <1>0, ConcatEmptySeq
  <2>2. 0 + r = r + 0
    OBVIOUS
  <2> QED
    BY <1>0, <1>e, <1>o, <2>1, <2>2
<1>2. ASSUME NEW t \in Seq(Nat), NEW e \in Nat, t \in P PROVE Append(t, e) \in P
  <2> DEFINE u == Append(t, e)
             a == Sum(t)
             b == one \o t
  <2>1. a \in Nat /\ Sum(u) = a + e /\ u \in Seq(Nat)
    BY SumIs, AppendProperties
  <2>2. b \in Seq(Nat)
    BY <1>0, ConcatProperties
  <2>3. one \o u = Append(b, e)
    <3>1. <<e>> \in Seq(Nat)
      BY OneOf
    <3>2. u = t \o <<e>> /\ Append(b, e) = b \o <<e>>
      BY <2>2, AppendIsConcat
    <3>3. (one \o t) \o <<e>> = one \o (t \o <<e>>)
      BY <1>0, <3>1, ThreeParts
    <3> QED
      BY <3>2, <3>3
  <2>4. Sum(Append(b, e)) = Sum(b) + e
    BY <2>2, SumIs
  <2>5. Sum(b) = r + a
    BY <1>2
  <2> HIDE DEF a, b, u
  <2>6. (r + a) + e = r + (a + e)
    BY <2>1
  <2> QED
    BY <2>1, <2>3, <2>4, <2>5, <2>6 DEF u
<1>3. s \in P
  <2> HIDE DEF P
  <2> QED
    BY <1>1, <1>2, ByAppending
<1>4. Sum(s) \in Nat /\ one \o s \in Seq(Nat)
  BY <1>0, SumIs, ConcatProperties
<1> QED
  BY <1>3, <1>4 DEF one

\* A sum over the first elements.
LEMMA SumOfFirst ==
  ASSUME NEW s \in Seq(Nat), NEW k \in 1 .. Len(s)
  PROVE  Sum(SubSeq(s, 1, k)) \in Nat /\ Sum(SubSeq(s, 1, k)) <= Sum(s) /\ Sum(s) \in Nat
<1> DEFINE P == {t \in Seq(Nat) : \A i \in 1 .. Len(t) : Sum(SubSeq(t, 1, i)) <= Sum(t)}
<1>1. <<>> \in P
  BY EmptySeq
<1>2. ASSUME NEW t \in Seq(Nat), NEW e \in Nat, t \in P PROVE Append(t, e) \in P
  <2> DEFINE u == Append(t, e)
             a == Sum(t)
             l == Len(t)
             n == l + 1
  <2>1. a \in Nat /\ Sum(u) = a + e
    BY SumIs
  <2>2. u \in Seq(Nat) /\ Len(u) = n /\ l \in Nat
    BY AppendProperties
  <2>n. n \in Nat /\ n = l + 1
    BY <2>2
  <2>f. \A i \in 1 .. l : Sum(SubSeq(t, 1, i)) <= a
    BY <1>2
  <2>3. ASSUME NEW i \in 1 .. l PROVE SubSeq(u, 1, i) = SubSeq(t, 1, i) /\ SubSeq(t, 1, i) \in Seq(Nat)
    <3>1. i \in Nat /\ i <= Len(t) /\ i <= Len(u)
      BY <2>2, <2>n
    <3>2. SubSeq(u, 1, i) = [j \in 1 .. i |-> u[j]] /\ SubSeq(t, 1, i) = [j \in 1 .. i |-> t[j]]
      BY <2>2, <3>1
    <3>3. \A j \in 1 .. i : u[j] = t[j]
      BY <3>1, AppendProperties
    <3>4. SubSeq(t, 1, i) \in Seq(Nat)
      BY <3>1
    <3> HIDE DEF u
    <3> QED
      BY <3>2, <3>3, <3>4
  <2>4. SubSeq(u, 1, n) = u
    BY <2>2
  <2> HIDE DEF u, a, l, n
  <2>5. ASSUME NEW i \in 1 .. n PROVE Sum(SubSeq(u, 1, i)) <= Sum(u)
    <3>1. CASE i = n
      <4>1. a + e \in Nat
        BY <2>1
      <4>2. Sum(u) <= Sum(u)
        BY <2>1, <4>1
      <4> QED
        BY <2>4, <3>1, <4>2
    <3>2. CASE i # n
      <4>1. i \in 1 .. l
        BY <2>2, <2>n, <3>2
      <4> DEFINE q == Sum(SubSeq(t, 1, i))
      <4>2. q \in Nat /\ q <= a /\ Sum(SubSeq(u, 1, i)) = q
        BY <2>3, <2>f, <4>1, SumIs
      <4> HIDE DEF q
      <4>3. q <= a + e
        BY <2>1, <4>2
      <4> QED
        BY <2>1, <4>2, <4>3
    <3> QED
      BY <3>1, <3>2
  <2> QED
    BY <2>2, <2>5 DEF u
<1>3. s \in P
  <2> HIDE DEF P
  <2> QED
    BY <1>1, <1>2, ByAppending
<1>4. SubSeq(s, 1, k) \in Seq(Nat)
  OBVIOUS
<1> QED
  BY <1>3, <1>4, SumIs

-----------------------------------------------------------------------------
\* How lengths are counted.

\* What a tokenizer must do with texts of one kind for the final prompt to be counted
\* from its parts; an estimate always does.
PlainTextsAddUp ==
  \A a, b \in Nat : /\ Encode(Plain(a)) <= Encode(Plain(a + b))
                    /\ Encode(Plain(a + b)) <= Encode(Plain(a)) + Encode(Plain(b))

LEMMA CountOfIs ==
  ASSUME route \in Routes
  PROVE  /\ \A n \in Nat : CountOf(n) \in Nat /\ NoteCost[n] = CountOf(n)
         /\ IsCost(NoteCost)
<1>1. \A n \in Nat : CountOf(n) \in Nat
  BY RouteIs, PlainIs, CountIs DEF CountOf
<1> QED
  BY <1>1 DEF NoteCost, IsCost

LEMMA CountOfSome ==
  ASSUME route \in Routes, NEW n \in Nat, n # 0
  PROVE  CountOf(n) >= 1
<1> DEFINE t == Plain(n)
           c == route.counter.chars
           k == route.counter.tokens
<1>1. t \in Text /\ Len(t) = n /\ t # <<>>
  <2>1. t \in Text /\ Len(t) = n
    BY PlainIs
  <2> QED
    BY <2>1, EmptySeq DEF Text
<1>2. route.counter \in Counter
  BY RouteIs
<1> HIDE DEF t
<1>3. CASE route.counter.exact
  BY <1>1, <1>3, EncodeIs DEF CountOf, Count, t
<1>4. CASE ~route.counter.exact
  <2>1. c \in Nat \ {0} /\ k \in Nat \ {0}
    BY <1>2 DEF Counter
  <2>2. CountOf(n) = CeilDiv(n * k, c)
    BY <1>1, <1>2, <1>4, EstimateIs DEF CountOf, t
  <2> HIDE DEF c, k
  <2>3. CeilDiv(n * k, c) >= 1
    BY <2>1, CeilDivShort
  <2> QED
    BY <2>2, <2>3
<1> QED
  BY <1>3, <1>4

LEMMA CountsAddUp ==
  ASSUME route \in Routes, route.counter.exact => PlainTextsAddUp,
         NEW a \in Nat, NEW b \in Nat
  PROVE  CountOf(a) <= CountOf(a + b) /\ CountOf(a + b) <= CountOf(a) + CountOf(b)
<1> DEFINE c == route.counter.chars
           k == route.counter.tokens
           s == a + b
<1>1. s \in Nat /\ route.counter \in Counter
  BY RouteIs
<1>2. CASE route.counter.exact
  <2>1. CountOf(a) = Encode(Plain(a)) /\ CountOf(b) = Encode(Plain(b)) /\ CountOf(s) = Encode(Plain(s))
    BY <1>2 DEF CountOf, Count
  <2>2. Encode(Plain(a)) <= Encode(Plain(s)) /\ Encode(Plain(s)) <= Encode(Plain(a)) + Encode(Plain(b))
    BY <1>2 DEF PlainTextsAddUp
  <2> HIDE DEF s
  <2>3. CountOf(a) <= CountOf(s) /\ CountOf(s) <= CountOf(a) + CountOf(b)
    BY <2>1, <2>2
  <2> QED
    BY <2>3 DEF s
<1>3. CASE ~route.counter.exact
  <2>1. c \in Nat \ {0} /\ k \in Nat \ {0}
    BY <1>1 DEF Counter
  <2>2. ASSUME NEW n \in Nat PROVE CountOf(n) = CeilDiv(n * k, c)
    <3>1. Plain(n) \in Text /\ Len(Plain(n)) = n
      BY PlainIs
    <3> QED
      BY <1>1, <1>3, <3>1, EstimateIs DEF CountOf
  <2>t. CountOf(s) = CeilDiv(s * k, c) /\ CountOf(a) = CeilDiv(a * k, c) /\ CountOf(b) = CeilDiv(b * k, c)
    BY <1>1, <2>2
  <2> HIDE DEF c, k
  <2>3. a * k \in Nat /\ b * k \in Nat /\ s * k = a * k + b * k
    BY <2>1
  <2> DEFINE x == a * k
             y == b * k
  <2>4. x \in Nat /\ y \in Nat /\ s * k = x + y
    BY <2>3
  <2> HIDE DEF x, y, s
  <2>5. CeilDiv(x + y, c) <= CeilDiv(x, c) + CeilDiv(y, c)
    BY <2>1, <2>4, CeilDivAdds
  <2>6. CeilDiv(x, c) <= CeilDiv(x + y, c)
    BY <2>1, <2>4, CeilDivUp
  <2> QED
    BY <2>t, <2>4, <2>5, <2>6 DEF x, y, s
<1> QED
  BY <1>2, <1>3

LEMMA EstimateOf ==
  ASSUME route \in Routes, Estimate(route.counter), NEW text \in Text
  PROVE  /\ Len(text) \in Nat
         /\ Count(route.counter, text) = CountOf(Len(text)) /\ CountOf(Len(text)) <= Len(text)
         /\ ~route.counter.exact
<1>1. route.counter \in Counter /\ ~route.counter.exact
  BY RouteIs DEF Estimate
<1> DEFINE n == Len(text)
<1>2. n \in Nat
  BY LenProperties DEF Text
<1>3. Plain(n) \in Text /\ Len(Plain(n)) = n
  BY <1>2, PlainIs
<1>4. Count(route.counter, text) = Count(route.counter, Plain(n))
  BY <1>1, <1>3, EstimateIs
<1>5. Count(route.counter, text) <= n
  BY <1>1, EstimateIs
<1> QED
  BY <1>1, <1>2, <1>4, <1>5 DEF CountOf

\* Two texts one after the other.
LEMMA TextsAddUp ==
  ASSUME route \in Routes, Estimate(route.counter), NEW r \in Text, NEW s \in Text
  PROVE  /\ r \o s \in Text
         /\ Count(route.counter, r \o s) <= Count(route.counter, r) + Count(route.counter, s)
<1> DEFINE t == r \o s
           m == Len(r)
           n == Len(s)
<1>1. t \in Text /\ Len(t) = m + n
  BY ConcatProperties DEF Text
<1>2. m \in Nat /\ n \in Nat
  BY LenProperties DEF Text
<1>3. Count(route.counter, t) = CountOf(m + n)
  BY <1>1, EstimateOf
<1>4. Count(route.counter, r) = CountOf(m) /\ Count(route.counter, s) = CountOf(n)
      /\ ~route.counter.exact
  BY EstimateOf
<1> HIDE DEF t, m, n
<1>5. CountOf(m + n) <= CountOf(m) + CountOf(n)
  BY <1>2, <1>4, CountsAddUp
<1> QED
  BY <1>1, <1>3, <1>4, <1>5 DEF t

\* OverLimit's sum.
LEMMA NotesCost ==
  ASSUME route \in Routes, NEW notes \in Seq(Nat)
  PROVE  /\ [i \in DOMAIN notes |-> CountOf(notes[i]) + 1] = Costs(NoteCost, notes)
         /\ Sum(Costs(NoteCost, notes)) \in Nat
<1>1. \A i \in DOMAIN notes : notes[i] \in Nat
  BY ElementOfSeq
<1>2. [i \in DOMAIN notes |-> CountOf(notes[i]) + 1] = Costs(NoteCost, notes)
  BY <1>1, CountOfIs DEF Costs
<1>3. Sum(Costs(NoteCost, notes)) \in Nat
  BY CountOfIs, MoreCost DEF IsCost
<1> QED
  BY <1>2, <1>3

LEMMA JoinedIs ==
  ASSUME NEW notes \in Seq(Nat)
  PROVE  /\ Joined(notes) \in Nat
         /\ notes = <<>> => Joined(notes) = 0
         /\ notes # <<>> => Joined(notes) + 1 = Sum(Costs(LineCost, notes))
<1> DEFINE a == Sum(notes)
           n == Len(notes)
<1>1. a \in Nat /\ n \in Nat /\ Sum(Costs(LineCost, notes)) = a + n
  BY LinesCost
<1>2. notes # <<>> => n >= 1
  <2>1. notes # <<>> => n # 0
    BY EmptySeq
  <2> HIDE DEF n, a
  <2> QED
    BY <1>1, <2>1
<1>3. Joined(notes) = IF notes = <<>> THEN 0 ELSE a + n - 1
  BY DEF Joined
<1> HIDE DEF n, a
<1> QED
  BY <1>1, <1>2, <1>3

\* Notes that are within the limit together fit into one prompt.
LEMMA JoinedFits ==
  ASSUME route \in Routes, Estimate(route.counter), NEW notes \in Seq(Nat)
  PROVE  CountOf(Joined(notes)) <= Sum(Costs(NoteCost, notes))
<1> DEFINE L(t) == Sum(Costs(LineCost, t))
           C(t) == Sum(Costs(NoteCost, t))
           P == {t \in Seq(Nat) : CountOf(L(t)) <= C(t)}
<1>c. IsCost(NoteCost) /\ IsCost(LineCost) /\ \A n \in Nat : LineCost[n] = n
  BY CountOfIs DEF IsCost, LineCost
<1>l. \A t \in Seq(Nat) : L(t) \in Nat /\ C(t) \in Nat
  BY <1>c, MoreCost DEF IsCost
<1>x. ~route.counter.exact
  BY DEF Estimate
<1>s. ASSUME NEW n \in Nat PROVE CountOf(n) <= n
  <2>1. Plain(n) \in Text /\ Len(Plain(n)) = n
    BY PlainIs
  <2> QED
    BY <2>1, EstimateOf
<1>1. <<>> \in P
  <2>1. <<>> \in Seq(Nat)
    BY EmptySeq
  <2>2. L(<<>>) = 0 /\ C(<<>>) = 0
    BY <1>c, <2>1, OneCost DEF IsCost
  <2>3. CountOf(0) <= 0
    BY <1>s
  <2> QED
    BY <2>1, <2>2, <2>3
<1>2. ASSUME NEW t \in Seq(Nat), NEW e \in Nat, t \in P PROVE Append(t, e) \in P
  <2> DEFINE u == Append(t, e)
             a == L(t)
             c == C(t)
             b == e + 1
             d == CountOf(e)
  <2>1. u \in Seq(Nat)
    BY AppendProperties
  <2>l. LineCost \in [Nat -> Nat] /\ NoteCost \in [Nat -> Nat] /\ LineCost[e] = e /\ NoteCost[e] = d
    BY <1>c, CountOfIs DEF IsCost
  <2>m. L(u) = a + (LineCost[e] + 1) /\ C(u) = c + (NoteCost[e] + 1)
    BY <2>l, MoreCost
  <2>2. L(u) = a + b /\ C(u) = c + (d + 1)
    BY <2>l, <2>m
  <2>d. d \in Nat /\ a \in Nat /\ c \in Nat
    BY <1>l, CountOfIs
  <2>3. a \in Nat /\ c \in Nat /\ b \in Nat /\ b = e + 1 /\ d \in Nat
    <3> HIDE DEF a, c, d
    <3> QED
      BY <2>d
  <2>4. CountOf(a) <= c
    BY <1>2
  <2>5. CountOf(a) \in Nat /\ CountOf(b) \in Nat /\ CountOf(a + b) \in Nat /\ CountOf(1) \in Nat
    <3> HIDE DEF a, b
    <3>1. a + b \in Nat
      BY <2>3
    <3> QED
      BY <2>3, <3>1, CountOfIs
  <2> HIDE DEF u, a, b, c, L, C
  <2>6. CountOf(a + b) <= CountOf(a) + CountOf(b)
    BY <1>x, <2>3, CountsAddUp
  <2>7. CountOf(b) <= d + CountOf(1)
    BY <1>x, <2>3, CountsAddUp
  <2>8. CountOf(1) <= 1
    BY <1>s
  <2> HIDE DEF d
  <2>9. CountOf(a + b) <= c + (d + 1)
    BY <2>3, <2>4, <2>5, <2>6, <2>7, <2>8
  <2> QED
    BY <2>1, <2>2, <2>9 DEF u, L, C
<1>3. CountOf(L(notes)) <= C(notes)
  <2> HIDE DEF P
  <2>1. notes \in P
    BY <1>1, <1>2, ByAppending
  <2> QED
    BY <2>1 DEF P
<1> DEFINE j == Joined(notes)
<1>4. j \in Nat /\ (notes = <<>> => j = 0) /\ (notes # <<>> => j + 1 = L(notes))
  BY JoinedIs
<1>5. CountOf(j) \in Nat /\ C(notes) \in Nat /\ L(notes) \in Nat /\ CountOf(L(notes)) \in Nat
  BY <1>4, <1>l, CountOfIs
<1> HIDE DEF j, L, C
<1>6. CASE notes = <<>>
  <2>1. CountOf(0) <= 0
    BY <1>s
  <2> QED
    BY <1>4, <1>5, <1>6, <2>1 DEF j, C
<1>7. CASE notes # <<>>
  <2>1. CountOf(j) <= CountOf(j + 1)
    BY <1>x, <1>4, CountsAddUp
  <2>2. CountOf(j) <= CountOf(L(notes))
    BY <1>4, <1>7, <2>1
  <2>3. CountOf(j) <= C(notes)
    BY <1>3, <1>5, <2>2
  <2> QED
    BY <2>3 DEF j, C
<1> QED
  BY <1>6, <1>7

-----------------------------------------------------------------------------
\* The reduction of notes: its pieces and groups, and the types of its calls.

LEMMA FrontAndLast ==
  ASSUME NEW S, NEW s \in Seq(S), s # <<>>
  PROVE  Front(s) \in Seq(S) /\ Last(s) \in S /\ s = Append(Front(s), Last(s))
         /\ Len(s) = Len(Front(s)) + 1
<1> DEFINE n == Len(s)
           m == n - 1
           f == Front(s)
           e == Last(s)
           t == Append(f, e)
<1>1. n \in Nat /\ n # 0
  BY LenProperties, EmptySeq
<1>2. f = SubSeq(s, 1, m) /\ e = s[n]
  BY DEF Front, Last
<1>3. n = m + 1 /\ m \in Nat /\ n \in 1 .. n /\ m <= n
  <2> HIDE DEF n
  <2> QED
    BY <1>1
<1> HIDE DEF m, f, e
<1>4. f \in Seq(S) /\ Len(f) = m /\ \A i \in 1 .. m : f[i] = s[i]
  <2>1. \A i \in 1 .. m : s[i] \in S
    BY <1>3
  <2> QED
    BY <1>2, <1>3, <2>1
<1>5. e \in S
  BY <1>2, <1>3, ElementOfSeq
<1>6. t \in Seq(S) /\ Len(t) = m + 1 /\ t[m + 1] = e /\ \A i \in 1 .. m : t[i] = f[i]
  BY <1>4, <1>5, AppendProperties
<1> HIDE DEF t
<1>7. ASSUME NEW i \in 1 .. n PROVE s[i] = t[i]
  <2>1. CASE i = n
    BY <1>2, <1>3, <1>6, <2>1
  <2>2. CASE i # n
    <3>1. i \in 1 .. m
      BY <1>3, <2>2
    <3> QED
      BY <1>4, <1>6, <3>1
  <2> QED
    BY <2>1, <2>2
<1>8. s = t
  BY <1>3, <1>6, <1>7, SeqEqual
<1> QED
  BY <1>3, <1>4, <1>5, <1>8 DEF f, e, t

LEMMA PiecesAre ==
  ASSUME route \in Routes, NEW note \in Nat, NEW limit \in Nat
  PROVE  /\ PiecesOf(note, limit) # Null => PiecesOf(note, limit) \in Seq(Nat) \ {<<>>}
         /\ CountOf(note) + 1 <= limit =>
              PiecesOf(note, limit) = <<note>> /\ PiecesOf(note, limit) # Null
         /\ (Estimate(route.counter) /\ limit # 0) => PiecesOf(note, limit) # Null
<1> DEFINE parts == SplitText(route.counter, Plain(note), limit, 0)
           lengths == [i \in DOMAIN parts |-> parts[i].to - parts[i].from]
           n == Len(parts)
<1>1. PiecesOf(note, limit) = IF CountOf(note) + 1 <= limit THEN <<note>>
                              ELSE IF parts = Null THEN Null ELSE lengths
  BY DEF PiecesOf
<1>2. route.counter \in Counter /\ Plain(note) \in Text /\ 0 \in Nat
  BY RouteIs, PlainIs
<1>3. /\ parts # Null => Gapless(parts, 0, Len(Plain(note)))
      /\ (Estimate(route.counter) /\ limit # 0) => parts # Null
  <2> HIDE DEF parts
  <2> QED
    BY <1>2, SplitTextIs DEF parts
<1>n. Null \notin Seq(Nat)
  BY VocabularyAssumption
<1>4. <<note>> \in Seq(Nat) /\ <<note>> # <<>>
  BY OneOf
<1> HIDE DEF parts
<1>5. ASSUME parts # Null PROVE lengths \in Seq(Nat) /\ lengths # <<>>
  <2>1. parts \in Seq(Piece) /\ parts # <<>>
        /\ \A i \in 1 .. n : parts[i].from <= parts[i].to
    BY <1>3, <1>5 DEF Gapless
  <2>2. n \in Nat /\ n # 0 /\ DOMAIN parts = 1 .. n
    BY <2>1, LenProperties, EmptySeq
  <2> HIDE DEF n
  <2>3. ASSUME NEW i \in 1 .. n PROVE parts[i].to - parts[i].from \in Nat
    <3> DEFINE f == parts[i].from
               t == parts[i].to
    <3>1. parts[i] \in Piece /\ f <= t
      BY <2>1, ElementOfSeq DEF n
    <3>2. f \in Nat /\ t \in Nat
      BY <3>1 DEF Piece
    <3> HIDE DEF f, t
    <3>3. t - f \in Nat
      BY <3>1, <3>2
    <3> QED
      BY <3>3 DEF f, t
  <2>4. lengths \in [1 .. n -> Nat]
    BY <2>2, <2>3
  <2> HIDE DEF lengths
  <2>5. lengths \in Seq(Nat) /\ Len(lengths) = n
    BY <2>2, <2>4
  <2>6. Len(lengths) # 0
    BY <2>2, <2>5
  <2>7. lengths # <<>>
    BY <2>6, EmptySeq
  <2> QED
    BY <2>5, <2>7
<1> HIDE DEF lengths
<1> QED
  BY <1>1, <1>3, <1>4, <1>5, <1>n

LEMMA GroupsOf ==
  ASSUME route \in Routes, NEW E, E \subseteq Nat, NEW items \in Seq(E), NEW limit \in Nat
  PROVE  /\ Grouped(items, limit) \in Seq(Seq(E))
         /\ Packed(Grouped(items, limit), items, NoteCost, limit)
<1>1. items \in Seq(Nat)
  BY AccBelow
<1>2. Grouped(items, limit) = Closed(PackFold(items, NoteCost, limit))
  BY <1>1, GroupedPacked
<1>3. limit \in Int /\ IsCost(NoteCost)
  BY CountOfIs
<1> QED
  BY <1>2, <1>3, PackedIs

\* SplitNotes, if every note can be split.
AllPieces(notes, limit) == [i \in DOMAIN notes |-> PiecesOf(notes[i], limit)]

LEMMA GroupsAre ==
  ASSUME route \in Routes, NEW notes \in Seq(Nat), notes # <<>>, NEW limit \in Nat,
         \A i \in DOMAIN notes : PiecesOf(notes[i], limit) # Null
  PROVE  LET groups == Grouped(FlattenSeq(AllPieces(notes, limit)), limit)
         IN  groups \in Seq(Seq(Nat)) /\ groups # <<>>
<1> DEFINE n == Len(notes)
           pieces == AllPieces(notes, limit)
           flat == FlattenSeq(pieces)
           groups == Grouped(flat, limit)
<1>1. n \in Nat /\ n # 0 /\ DOMAIN notes = 1 .. n
  BY LenProperties, EmptySeq
<1> HIDE DEF n
<1>2. \A i \in 1 .. n : PiecesOf(notes[i], limit) \in Seq(Nat) /\ PiecesOf(notes[i], limit) # <<>>
  <2>1. \A i \in 1 .. n : notes[i] \in Nat
    BY ElementOfSeq DEF n
  <2> QED
    BY <1>1, <2>1, PiecesAre
<1>3. pieces \in [1 .. n -> Seq(Nat)] /\ \A i \in 1 .. n : pieces[i] # <<>>
  BY <1>1, <1>2 DEF AllPieces
<1> HIDE DEF pieces
<1>4. pieces \in Seq(Seq(Nat)) /\ Len(pieces) = n
  BY <1>1, <1>3
<1> DEFINE r == Front(pieces)
           s == Last(pieces)
<1>5. r \in Seq(Seq(Nat)) /\ s \in Seq(Nat) /\ s # <<>> /\ pieces = Append(r, s)
  <2>1. pieces # <<>>
    BY <1>1, <1>4, EmptySeq
  <2>2. n \in 1 .. n
    BY <1>1
  <2>3. s = pieces[n] /\ s # <<>> /\ s \in Seq(Nat)
    BY <1>3, <1>4, <2>2 DEF Last
  <2>4. r \in Seq(Seq(Nat)) /\ pieces = Append(r, s)
    BY <1>4, <2>1, FrontAndLast
  <2> QED
    BY <2>3, <2>4
<1> HIDE DEF r, s
<1>6. flat \in Seq(Nat) /\ flat # <<>>
  <2>1. FlattenSeq(r) \in Seq(Nat) /\ flat = FlattenSeq(r) \o s
    BY <1>5, FlattenAppends
  <2> DEFINE f == FlattenSeq(r)
             p == Len(f)
             q == Len(s)
  <2>2. f \in Seq(Nat) /\ flat = f \o s
    BY <2>1
  <2> HIDE DEF f, flat
  <2>3. flat \in Seq(Nat) /\ Len(flat) = p + q /\ p \in Nat /\ q \in Nat
    BY <1>5, <2>2, ConcatProperties, LenProperties
  <2>4. q # 0
    BY <1>5, EmptySeq
  <2> HIDE DEF p, q
  <2>5. Len(flat) # 0
    BY <2>3, <2>4
  <2> QED
    BY <2>3, <2>5, EmptySeq
<1> HIDE DEF flat
<1>7. groups \in Seq(Seq(Nat)) /\ Packed(groups, flat, NoteCost, limit)
  <2>1. Nat \subseteq Nat
    OBVIOUS
  <2> QED
    BY <1>6, <2>1, GroupsOf
<1> HIDE DEF groups
<1>8. groups # <<>>
  <2>1. Len(flat) > 0
    <3> DEFINE l == Len(flat)
    <3>1. l \in Nat /\ l # 0
      BY <1>6, LenProperties, EmptySeq
    <3> HIDE DEF l
    <3>2. l > 0
      BY <3>1
    <3> QED
      BY <3>2 DEF l
  <2>2. Len(groups) > 0
    BY <1>7, <2>1 DEF Packed
  <2>3. groups = <<>> => Len(groups) = 0
    BY EmptySeq
  <2> QED
    BY <2>2, <2>3
<1> QED
  BY <1>7, <1>8 DEF groups, flat, pieces

Frame == [level : Nat, todo : Seq(Seq(Nat)), reduced : Seq(Nat), tail : BOOLEAN]
Entry == [notes : Seq(Nat), level : Nat]

\* What the calls of reduce_notes are made of.
ReduceTyped ==
  /\ findings \in Seq(Nat) /\ frames \in Seq(Frame)
  /\ pc = "reduce" => enter \in Entry
  /\ pc = "return" => value \in Nat

LEMMA NoteBudgetIs ==
  ASSUME route \in Routes, NEW level \in Nat
  PROVE  /\ NoteBudget(level) \in Nat \cup {Null}
         /\ ReduceText(level) \in ReducePrompt .. ReducePrompt + 3 /\ ReduceText(level) \in Nat
         /\ Tokens(Plain(ReduceText(level)), 0) \in Nat
<1>1. ReducePrompt \in Nat
  BY JudgeAssumption
<1>2. ReduceText(level) \in ReducePrompt .. ReducePrompt + 3 /\ ReduceText(level) \in Nat
  BY <1>1 DEF ReduceText
<1>3. Tokens(Plain(ReduceText(level)), 0) \in Nat
  <2>1. Plain(ReduceText(level)) \in Text /\ 0 \in Nat
    BY <1>2, PlainIs
  <2> QED
    BY <2>1, TokensAre
<1> QED
  BY <1>2, <1>3, RemainingIs DEF NoteBudget

LEMMA OverLimitIs ==
  ASSUME route \in Routes, NEW notes \in Seq(Nat), NEW level \in Nat
  PROVE  /\ OverLimit(notes, level) <=>
              NoteBudget(level) # Null /\ Sum(Costs(NoteCost, notes)) > NoteBudget(level)
         /\ OverLimit(notes, level) => notes # <<>> /\ NoteBudget(level) \in Nat
<1>1. OverLimit(notes, level) <=>
        NoteBudget(level) # Null /\ Sum(Costs(NoteCost, notes)) > NoteBudget(level)
  BY NotesCost DEF OverLimit
<1>2. NoteBudget(level) # Null => NoteBudget(level) \in Nat
  BY NoteBudgetIs
<1>3. Sum(Costs(NoteCost, <<>>)) = 0
  BY CountOfIs, OneCost DEF IsCost
<1>4. NoteBudget(level) \in Nat => ~(0 > NoteBudget(level))
  OBVIOUS
<1> QED
  BY <1>1, <1>2, <1>3, <1>4

\* The groups of a split, first to last.
Splits(groups, limit) ==
  /\ limit \in Nat /\ limit = NoteBudget(enter.level) /\ Len(frames) # MaxDepth
  /\ groups \in Seq(Seq(Nat)) /\ groups # <<>>
  /\ groups = Grouped(FlattenSeq(AllPieces(enter.notes, limit)), limit)
  /\ frames' = Append(frames, [level |-> enter.level, todo |-> Tail(groups),
                               reduced |-> <<>>, tail |-> FALSE])
  /\ enter' = [notes |-> Head(groups), level |-> enter.level + 1]
  /\ UNCHANGED <<pc, slices, findings, batches, value, outcome>>

LEMMA SplitGoes ==
  ASSUME route \in Routes, ReduceTyped, SplitNotes
  PROVE  \/ \E i \in DOMAIN enter.notes : PiecesOf(enter.notes[i], NoteBudget(enter.level)) = Null
            /\ End("budget")
         \/ Len(frames) = MaxDepth /\ End("recursion")
         \/ \E groups, limit : Splits(groups, limit)
<1> DEFINE notes == enter.notes
           limit == NoteBudget(enter.level)
           pieces == AllPieces(notes, limit)
           groups == Grouped(FlattenSeq(pieces), limit)
<1>1. enter \in Entry /\ notes \in Seq(Nat) /\ enter.level \in Nat
  BY DEF SplitNotes, ReduceTyped, Entry
<1>2. OverLimit(notes, enter.level)
  BY DEF SplitNotes
<1>3. notes # <<>> /\ limit \in Nat
  BY <1>1, <1>2, OverLimitIs
<1>4. pieces = [i \in DOMAIN notes |-> PiecesOf(notes[i], limit)] /\ DOMAIN pieces = DOMAIN notes
  BY DEF AllPieces
<1> HIDE DEF notes, limit
<1>5. IF \E i \in DOMAIN pieces : pieces[i] = Null THEN End("budget")
      ELSE IF Len(frames) = MaxDepth THEN End("recursion")
      ELSE /\ frames' = Append(frames, [level |-> enter.level, todo |-> Tail(groups),
                                        reduced |-> <<>>, tail |-> FALSE])
           /\ enter' = [notes |-> Head(groups), level |-> enter.level + 1]
           /\ UNCHANGED <<pc, slices, findings, batches, value, outcome>>
  BY <1>4 DEF SplitNotes, notes, limit
<1>6. CASE \E i \in DOMAIN pieces : pieces[i] = Null
  <2>1. \E i \in DOMAIN notes : PiecesOf(notes[i], limit) = Null
    BY <1>4, <1>6
  <2> QED
    BY <1>5, <1>6, <2>1 DEF notes, limit
<1>7. CASE (~ \E i \in DOMAIN pieces : pieces[i] = Null) /\ Len(frames) = MaxDepth
  <2> HIDE DEF pieces, groups
  <2>1. End("recursion")
    BY <1>5, <1>7
  <2> QED
    BY <1>7, <2>1
<1>8. CASE (~ \E i \in DOMAIN pieces : pieces[i] = Null) /\ Len(frames) # MaxDepth
  <2>1. \A i \in DOMAIN notes : PiecesOf(notes[i], limit) # Null
    BY <1>4, <1>8
  <2>2. groups \in Seq(Seq(Nat)) /\ groups # <<>>
    BY <1>1, <1>3, <2>1, GroupsAre
  <2>3. groups = Grouped(FlattenSeq(AllPieces(notes, limit)), limit)
    OBVIOUS
  <2> HIDE DEF pieces, groups
  <2>4. Splits(groups, limit)
    BY <1>3, <1>5, <1>8, <2>2, <2>3 DEF Splits, notes, limit
  <2> QED
    BY <2>4
<1> QED
  BY <1>6, <1>7, <1>8

LEMMA EndTyped == ASSUME NEW how, End(how) PROVE ReduceTyped'
<1>1. findings' = <<>> /\ frames' = <<>> /\ pc' = "done"
  BY DEF End
<1>2. <<>> \in Seq(Nat) /\ <<>> \in Seq(Frame)
  BY EmptySeq
<1> QED
  BY <1>1, <1>2 DEF ReduceTyped

LEMMA StillTyped ==
  ASSUME ReduceTyped, UNCHANGED <<findings, frames>>, pc' \notin {"reduce", "return"}
  PROVE  ReduceTyped'
BY DEF ReduceTyped

LEMMA HeadAndTail ==
  ASSUME NEW S, NEW s \in Seq(S), s # <<>>
  PROVE  Head(s) \in S /\ Tail(s) \in Seq(S)
BY HeadTailProperties

LEMMA SplitTyped == ASSUME SentInv, ReduceTyped, SplitNotes PROVE ReduceTyped'
<1>0. route \in Routes
  BY DEF SentInv
<1>1. ASSUME NEW how, End(how) PROVE ReduceTyped'
  BY <1>1, EndTyped
<1>2. ASSUME NEW groups, NEW limit, Splits(groups, limit) PROVE ReduceTyped'
  <2> DEFINE f == [level |-> enter.level, todo |-> Tail(groups), reduced |-> <<>>, tail |-> FALSE]
  <2>1. enter \in Entry /\ pc = "reduce"
    BY DEF SplitNotes, ReduceTyped
  <2>2. Head(groups) \in Seq(Nat) /\ Tail(groups) \in Seq(Seq(Nat)) /\ <<>> \in Seq(Nat)
    BY <1>2, HeadAndTail, EmptySeq DEF Splits
  <2>3. enter.level \in Nat /\ enter.level + 1 \in Nat
    BY <2>1 DEF Entry
  <2>4. f \in Frame
    BY <2>2, <2>3 DEF Frame
  <2>5. frames' = Append(frames, f) /\ enter' = [notes |-> Head(groups), level |-> enter.level + 1]
        /\ UNCHANGED <<pc, findings>>
    BY <1>2 DEF Splits
  <2> HIDE DEF f
  <2>6. frames' \in Seq(Frame)
    BY <2>4, <2>5, AppendProperties DEF ReduceTyped
  <2>7. enter' \in Entry
    BY <2>2, <2>3, <2>5 DEF Entry
  <2> QED
    BY <2>1, <2>5, <2>6, <2>7 DEF ReduceTyped
<1> QED
  BY <1>0, <1>1, <1>2, SplitGoes

\* The first call that a return leads to, with what is left of the frame.
Resumes(f, g) ==
  /\ frames' = Append(Front(frames), g)
  /\ f = Last(frames) /\ ~f.tail /\ g.level = f.level
  /\ \/ /\ f.todo # <<>> /\ g.todo = Tail(f.todo) /\ g.reduced = Append(f.reduced, value)
        /\ ~g.tail /\ enter' = [notes |-> Head(f.todo), level |-> f.level + 1]
     \/ /\ f.todo = <<>> /\ f.reduced # <<>> /\ g.todo = <<>> /\ g.reduced = <<>> /\ g.tail
        /\ enter' = [notes |-> Append(f.reduced, value), level |-> f.level + 1]
  /\ pc' = "reduce" /\ value' = Null

FrameWith(f, r, t, b) == [f EXCEPT !.reduced = r, !.todo = t, !.tail = b]

LEMMA FrameWithIs ==
  ASSUME NEW l, NEW x, NEW y, NEW z, NEW r, NEW t, NEW b
  PROVE  FrameWith([level |-> l, todo |-> x, reduced |-> y, tail |-> z], r, t, b)
           = [level |-> l, todo |-> t, reduced |-> r, tail |-> b]
<1> DEFINE f == [level |-> l, todo |-> x, reduced |-> y, tail |-> z]
           p == [f EXCEPT !.reduced = r]
           q == [p EXCEPT !.todo = t]
<1>1. p = [level |-> l, todo |-> x, reduced |-> r, tail |-> z]
  OBVIOUS
<1>3. FrameWith(f, r, t, b) = [q EXCEPT !.tail = b]
  BY DEF FrameWith
<1>2. q = [level |-> l, todo |-> t, reduced |-> r, tail |-> z]
  <2> HIDE DEF p
  <2> QED
    BY <1>1
<1>4. [q EXCEPT !.tail = b] = [level |-> l, todo |-> t, reduced |-> r, tail |-> b]
  <2> HIDE DEF q
  <2> QED
    BY <1>2
<1> QED
  BY <1>3, <1>4

LEMMA ReturnGoes ==
  ASSUME ReduceTyped, NestedReturn
  PROVE  \/ /\ frames' = Front(frames)
            /\ UNCHANGED <<pc, enter, value>>
         \/ \E f \in Frame, g \in Frame : Resumes(f, g)
<1> DEFINE f == Last(frames)
           reduced == Append(f.reduced, value)
           g == [f EXCEPT !.reduced = IF f.todo = <<>> THEN <<>> ELSE reduced,
                          !.todo = IF f.todo = <<>> THEN <<>> ELSE Tail(f.todo),
                          !.tail = f.todo = <<>>]
<1>1. frames \in Seq(Frame) /\ frames # <<>> /\ value \in Nat
  BY DEF NestedReturn, ReduceTyped
<1>2. f \in Frame
  BY <1>1, FrontAndLast
<1>3. IF f.tail \/ (f.todo = <<>> /\ f.reduced = <<>>)
      THEN /\ frames' = Front(frames)
           /\ UNCHANGED <<pc, enter, value>>
      ELSE /\ frames' = Append(Front(frames), g)
           /\ enter' = [notes |-> IF f.todo = <<>> THEN reduced ELSE Head(f.todo),
                        level |-> f.level + 1]
           /\ value' = Null
           /\ pc' = "reduce"
  BY DEF NestedReturn
<1>4. g = [level |-> f.level, todo |-> IF f.todo = <<>> THEN <<>> ELSE Tail(f.todo),
           reduced |-> IF f.todo = <<>> THEN <<>> ELSE reduced, tail |-> f.todo = <<>>]
  <2> DEFINE r == IF f.todo = <<>> THEN <<>> ELSE reduced
             t == IF f.todo = <<>> THEN <<>> ELSE Tail(f.todo)
             b == f.todo = <<>>
  <2>1. g = FrameWith(f, r, t, b)
    BY DEF FrameWith
  <2> HIDE DEF r, t, b, g
  <2>2. PICK l \in Nat, x \in Seq(Seq(Nat)), y \in Seq(Nat), z \in BOOLEAN :
          f = [level |-> l, todo |-> x, reduced |-> y, tail |-> z]
    BY <1>2 DEF Frame
  <2>4. FrameWith(f, r, t, b) = [level |-> l, todo |-> t, reduced |-> r, tail |-> b]
    <3> HIDE DEF f
    <3> QED
      BY <2>2, FrameWithIs
  <2>3. FrameWith(f, r, t, b) = [level |-> f.level, todo |-> t, reduced |-> r, tail |-> b]
    <3>1. f.level = l
      BY <2>2
    <3> HIDE DEF f
    <3> QED
      BY <2>4, <3>1
  <2> QED
    BY <2>1, <2>3 DEF r, t, b
<1>5. reduced \in Seq(Nat) /\ f.level \in Nat /\ f.tail \in BOOLEAN /\ f.todo \in Seq(Seq(Nat))
      /\ f.reduced \in Seq(Nat)
  <2>1. f.level \in Nat /\ f.tail \in BOOLEAN /\ f.todo \in Seq(Seq(Nat)) /\ f.reduced \in Seq(Nat)
    BY <1>2 DEF Frame
  <2> HIDE DEF f
  <2> QED
    BY <1>1, <2>1, AppendProperties
<1> HIDE DEF f, g, reduced
<1>6. f.todo # <<>> => Tail(f.todo) \in Seq(Seq(Nat))
  BY <1>5, HeadAndTail
<1>7. g \in Frame /\ g.level = f.level
      /\ g.todo = (IF f.todo = <<>> THEN <<>> ELSE Tail(f.todo))
      /\ g.reduced = (IF f.todo = <<>> THEN <<>> ELSE reduced)
      /\ g.tail = (f.todo = <<>>)
  <2>1. <<>> \in Seq(Seq(Nat)) /\ <<>> \in Seq(Nat)
    BY EmptySeq
  <2> QED
    BY <1>4, <1>5, <1>6, <2>1 DEF Frame
<1>8. CASE f.tail \/ (f.todo = <<>> /\ f.reduced = <<>>)
  BY <1>3, <1>8
<1>9. CASE ~(f.tail \/ (f.todo = <<>> /\ f.reduced = <<>>))
  <2>1. Resumes(f, g)
    BY <1>3, <1>7, <1>9 DEF Resumes, f, reduced
  <2> QED
    BY <1>2, <1>7, <2>1
<1> QED
  BY <1>8, <1>9

LEMMA TypedInitially == Init => ReduceTyped
<1>1. <<>> \in Seq(Nat) /\ <<>> \in Seq(Frame)
  BY EmptySeq
<1> QED
  BY <1>1 DEF Init, ReduceTyped

LEMMA ReturnTyped == ASSUME ReduceTyped, NestedReturn PROVE ReduceTyped'
<1>1. /\ findings \in Seq(Nat) /\ frames \in Seq(Frame) /\ frames # <<>> /\ pc = "return"
      /\ value \in Nat /\ findings' = findings
  BY DEF NestedReturn, ReduceTyped
<1>2. Front(frames) \in Seq(Frame)
  BY <1>1, FrontAndLast
<1>3. CASE frames' = Front(frames) /\ UNCHANGED <<pc, enter, value>>
  BY <1>1, <1>2, <1>3 DEF ReduceTyped
<1>4. CASE \E f \in Frame, g \in Frame : Resumes(f, g)
  <2>1. PICK f \in Frame, g \in Frame : Resumes(f, g)
    BY <1>4
  <2> DEFINE rest == Front(frames)
  <2>2. frames' = Append(rest, g) /\ pc' = "reduce" /\ rest \in Seq(Frame)
    BY <1>2, <2>1 DEF Resumes
  <2> HIDE DEF rest
  <2>3. frames' \in Seq(Frame)
    BY <2>2, AppendProperties
  <2>4. f.level \in Nat /\ f.level + 1 \in Nat /\ f.todo \in Seq(Seq(Nat)) /\ f.reduced \in Seq(Nat)
    BY DEF Frame
  <2>5. enter' \in Entry
    <3>1. f.todo # <<>> => Head(f.todo) \in Seq(Nat)
      BY <2>4, HeadAndTail
    <3>2. Append(f.reduced, value) \in Seq(Nat)
      BY <1>1, <2>4, AppendProperties
    <3> DEFINE level == f.level + 1
    <3>3. CASE f.todo # <<>> /\ enter' = [notes |-> Head(f.todo), level |-> level]
      <4> DEFINE notes == Head(f.todo)
      <4>1. notes \in Seq(Nat) /\ level \in Nat /\ enter' = [notes |-> notes, level |-> level]
        BY <2>4, <3>1, <3>3
      <4> HIDE DEF notes, level
      <4> QED
        BY <4>1 DEF Entry
    <3>4. CASE enter' = [notes |-> Append(f.reduced, value), level |-> level]
      <4> DEFINE notes == Append(f.reduced, value)
      <4>1. notes \in Seq(Nat) /\ level \in Nat /\ enter' = [notes |-> notes, level |-> level]
        BY <2>4, <3>2, <3>4
      <4> HIDE DEF notes, level
      <4> QED
        BY <4>1 DEF Entry
    <3> QED
      BY <2>1, <3>3, <3>4 DEF Resumes
  <2> QED
    BY <1>1, <2>2, <2>3, <2>5 DEF ReduceTyped
<1> QED
  BY <1>3, <1>4, ReturnGoes

LEMMA TypedPreserved == SentInv /\ ReduceTyped /\ [Next]_vars => ReduceTyped'
<1> SUFFICES ASSUME SentInv, ReduceTyped, [Next]_vars PROVE ReduceTyped'
  OBVIOUS
<1>r. route \in Routes /\ job \in Jobs /\ job.notes \in Seq(Nat)
  BY JobIs DEF SentInv
<1>t. findings \in Seq(Nat) /\ frames \in Seq(Frame)
  BY DEF ReduceTyped
<1>a. AnswerLengths \subseteq Nat /\ SlicePrefix \in Nat /\ Placeholder \in Nat
  BY JudgeAssumption
<1>e. ASSUME NEW how, End(how) PROVE ReduceTyped'
  BY <1>e, EndTyped
<1>1. CASE Refuse
  BY <1>1, <1>e DEF Refuse
<1>2. CASE StartInspect
  <2>1. CASE pc' = "slices" /\ UNCHANGED <<findings, reduction>>
    BY <2>1, StillTyped DEF reduction
  <2> QED
    BY <1>2, <1>e, <2>1 DEF StartInspect
<1>3. ASSUME NEW n \in AnswerLengths, SendSlice(n) PROVE ReduceTyped'
  <2>1. CASE findings' = Append(findings, n) /\ pc' = "slices" /\ frames' = frames
    <3>1. findings' \in Seq(Nat)
      BY <1>t, <1>a, <2>1, AppendProperties
    <3> QED
      BY <1>t, <2>1, <3>1 DEF ReduceTyped
  <2>2. pc = "slices"
    BY <1>3 DEF SendSlice
  <2> QED
    BY <1>3, <1>e, <2>1, <2>2 DEF SendSlice, reduction
<1>4. CASE OneFinding
  BY <1>4, <1>e DEF OneFinding
<1>5. CASE CondenseFindings
  <2> DEFINE notes == [i \in DOMAIN findings |-> SlicePrefix + findings[i]]
             n == Len(findings)
  <2>1. enter' = [notes |-> notes, level |-> 0] /\ findings' = <<>> /\ pc' = "reduce"
        /\ frames' = frames
    BY <1>5 DEF CondenseFindings
  <2>2. n \in Nat /\ DOMAIN findings = 1 .. n /\ \A i \in 1 .. n : findings[i] \in Nat
    BY <1>t, LenProperties, ElementOfSeq
  <2>3. ASSUME NEW i \in 1 .. n PROVE SlicePrefix + findings[i] \in Nat
    <3> DEFINE k == findings[i]
    <3>1. k \in Nat
      BY <2>2
    <3> HIDE DEF k
    <3>2. SlicePrefix + k \in Nat
      BY <1>a, <3>1
    <3> QED
      BY <3>2 DEF k
  <2> HIDE DEF n
  <2>4. notes \in [1 .. n -> Nat]
    BY <2>2, <2>3
  <2> HIDE DEF notes
  <2>5. notes \in Seq(Nat) /\ <<>> \in Seq(Nat)
    BY <2>2, <2>4, EmptySeq
  <2>6. enter' \in Entry
    BY <2>1, <2>5 DEF Entry
  <2> QED
    BY <1>t, <2>1, <2>5, <2>6 DEF ReduceTyped
<1>6. CASE StartBatch
  <2>1. CASE pc' = job.kind /\ UNCHANGED <<findings, reduction>>
    <3>1. pc' \notin {"reduce", "return"}
      BY <1>6, <2>1 DEF StartBatch
    <3> QED
      BY <2>1, <3>1, StillTyped DEF reduction
  <2> QED
    BY <1>6, <1>e, <2>1 DEF StartBatch
<1>7. CASE AskQuestions \/ AskTasks
  <2>1. pc \in {"questions", "tasks"} /\ AskFirst
    BY <1>7 DEF AskQuestions, AskTasks
  <2>2. CASE UNCHANGED <<pc, findings, reduction>>
    <3>1. pc' \notin {"reduce", "return"}
      BY <2>1, <2>2
    <3> QED
      BY <2>2, <3>1, StillTyped DEF reduction
  <2>3. (\E how : End(how)) \/ UNCHANGED <<pc, findings, reduction>>
    BY <2>1 DEF AskFirst
  <2> QED
    BY <1>e, <2>2, <2>3
<1>8. CASE BatchDone
  BY <1>8, <1>e DEF BatchDone
<1>9. CASE SplitNotes
  BY <1>9, SplitTyped
<1>10. ASSUME NEW n \in AnswerLengths, ReduceCall(n) PROVE ReduceTyped'
  <2>1. CASE value' = n /\ pc' = "return" /\ UNCHANGED <<findings, frames>>
    BY <1>a, <1>t, <2>1 DEF ReduceTyped
  <2> QED
    BY <1>10, <1>e, <2>1 DEF ReduceCall
<1>11. CASE NestedReturn
  BY <1>11, ReturnTyped
<1>12. CASE InspectReturn
  BY <1>12, <1>e DEF InspectReturn
<1>13. CASE BundleRefused
  BY <1>13, <1>e DEF BundleRefused
<1>14. CASE StartFinalize
  <2>1. UNCHANGED <<findings, frames>>
    BY <1>14 DEF StartFinalize
  <2>2. CASE enter' = [notes |-> job.notes, level |-> 99] /\ pc' = "reduce"
    <3>1. enter' \in Entry
      BY <1>r, <2>2 DEF Entry
    <3> QED
      BY <1>t, <2>1, <2>2, <3>1 DEF ReduceTyped
  <2>3. CASE pc' = "final"
    BY <2>1, <2>3, StillTyped
  <2> QED
    BY <1>14, <2>2, <2>3 DEF StartFinalize
<1>15. CASE NotesReduced
  BY <1>15, StillTyped DEF NotesReduced
<1>16. CASE FinalCall
  <2>1. \E how : End(how)
    BY <1>16 DEF FinalCall
  <2> QED
    BY <1>e, <2>1
<1>17. CASE CallFails
  BY <1>17, <1>e DEF CallFails
<1>18. CASE UNCHANGED vars
  BY <1>18 DEF vars, ReduceTyped
<1> QED
  BY <1>1, <1>2, <1>3, <1>4, <1>5, <1>6, <1>7, <1>8, <1>9, <1>10, <1>11, <1>12, <1>13, <1>14,
     <1>15, <1>16, <1>17, <1>18 DEF Next

-----------------------------------------------------------------------------
\* A block that the preflight accepts is not refused for its size.

HasRoom == SourceBudget # Null => SourceBudget >= MinSource

PieceFits(s) ==
  /\ s \in Piece /\ s.to <= Len(job.block.text)
  /\ SourceBudget # Null => FitsFrom(route.counter, job.block.text, s.from, SourceBudget, s.to)

BlockKept ==
  (job.kind = "inspect" /\ Estimate(route.counter)) =>
    /\ pc \in {"slices", "reduce", "return"} => HasRoom
    /\ pc = "slices" => slices \in Seq(Piece) /\ \A i \in 1 .. Len(slices) : PieceFits(slices[i])
    /\ outcome # "budget"

LEMMA SameBudget ==
  ASSUME UNCHANGED <<route, job>>
  PROVE  /\ SourceBudget' = SourceBudget /\ HasRoom' = HasRoom
         /\ \A s : PieceFits(s)' = PieceFits(s)
<1>1. SourceBudget' = SourceBudget
  BY DEF SourceBudget, Tokens, MediaOf, DirectImage, DirectAudio
<1> QED
  BY <1>1 DEF HasRoom, PieceFits

\* Steps that do not touch the slices.
LEMMA BlockStays ==
  ASSUME SentInv, BlockKept, UNCHANGED <<route, job>>, outcome' # "budget",
         pc' = "slices" => pc = "slices" /\ slices' = slices,
         pc' \in {"reduce", "return"} /\ job.kind = "inspect" => pc \in {"slices", "reduce", "return"}
  PROVE  BlockKept'
<1>1. HasRoom' = HasRoom /\ \A s : PieceFits(s)' = PieceFits(s)
  BY SameBudget
<1>2. Estimate(route.counter)' = Estimate(route.counter) /\ job.kind' = job.kind
  BY DEF Estimate
<1>3. CASE ~(job.kind = "inspect" /\ Estimate(route.counter))
  BY <1>2, <1>3 DEF BlockKept
<1>4. CASE job.kind = "inspect" /\ Estimate(route.counter)
  <2>1. pc \in {"slices", "reduce", "return"} => HasRoom
    BY <1>4 DEF BlockKept
  <2>2. pc = "slices" => slices \in Seq(Piece) /\ \A i \in 1 .. Len(slices) : PieceFits(slices[i])
    BY <1>4 DEF BlockKept
  <2>3. pc' = "slices" => slices' \in Seq(Piece)
                          /\ \A i \in 1 .. Len(slices') : PieceFits(slices'[i])
    BY <2>2
  <2>4. pc' \in {"slices", "reduce", "return"} => HasRoom'
    BY <1>1, <1>4, <2>1
  <2>5. pc' = "slices" => slices' \in Seq(Piece)
                          /\ \A i \in 1 .. Len(slices') : PieceFits(slices[i])'
    BY <1>1, <2>3
  <2> QED
    BY <1>1, <2>3, <2>4 DEF BlockKept
<1> QED
  BY <1>3, <1>4

\* A block that may be split has slices that fit.
LEMMA PartsFit ==
  ASSUME route \in Routes, job \in Jobs, Estimate(route.counter), HasRoom,
         NEW parts, parts = IF SourceBudget = Null THEN <<[from |-> 0, to |-> Len(job.block.text)]>>
                            ELSE SplitText(route.counter, job.block.text, SourceBudget, OverlapChars)
  PROVE  parts # Null /\ parts \in Seq(Piece) /\ \A i \in 1 .. Len(parts) : PieceFits(parts[i])
<1> DEFINE text == job.block.text
           whole == <<[from |-> 0, to |-> Len(text)]>>
<1>1. text \in Text /\ Len(text) \in Nat /\ route.counter \in Counter /\ OverlapChars \in Nat
  BY JobIs, RouteIs, JudgeAssumption
<1>2. MinSource \in Nat \ {0} /\ Null \notin Seq(Piece)
  BY JudgeAssumption, VocabularyAssumption DEF Piece
<1>3. CASE SourceBudget = Null
  <2>1. Gapless(whole, 0, Len(text))
    BY <1>1, OneSlice
  <2>2. parts = whole
    BY <1>3
  <2> HIDE DEF whole
  <2>3. parts \in Seq(Piece) /\ \A i \in 1 .. Len(parts) : parts[i].to <= Len(text)
    BY <2>1, <2>2 DEF Gapless
  <2> QED
    BY <1>2, <1>3, <2>3, ElementOfSeq DEF PieceFits
<1>4. CASE SourceBudget # Null
  <2>1. SourceBudget \in Nat /\ SourceBudget # 0
    <3>1. SourceBudget \in Nat /\ SourceBudget >= MinSource
      BY <1>4, SourceBudgetIs DEF HasRoom
    <3> HIDE DEF text
    <3> QED
      BY <1>2, <3>1
  <2>2. parts = SplitText(route.counter, text, SourceBudget, OverlapChars)
    BY <1>4
  <2> HIDE DEF text
  <2>3. parts # Null /\ Gapless(parts, 0, Len(text)) /\ AllFit(parts, route.counter, text, SourceBudget)
    BY <1>1, <2>1, <2>2, SplitTextIs
  <2>4. parts \in Seq(Piece) /\ \A i \in 1 .. Len(parts) : parts[i].to <= Len(text)
    BY <2>3 DEF Gapless
  <2>5. \A i \in 1 .. Len(parts) :
          FitsFrom(route.counter, text, parts[i].from, SourceBudget, parts[i].to)
    BY <2>3 DEF AllFit
  <2> QED
    BY <2>3, <2>4, <2>5, ElementOfSeq DEF PieceFits, text
<1> QED
  BY <1>3, <1>4

LEMMA StartInspectKept == ASSUME SentInv, BlockKept, StartInspect PROVE BlockKept'
<1> DEFINE parts == IF SourceBudget = Null THEN <<[from |-> 0, to |-> Len(job.block.text)]>>
                    ELSE SplitText(route.counter, job.block.text, SourceBudget, OverlapChars)
<1>1. /\ pc = "start" /\ HasRoom /\ UNCHANGED <<route, job>>
      /\ IF parts = Null THEN End("budget")
         ELSE slices' = parts /\ pc' = "slices" /\ outcome' = outcome
  BY DEF StartInspect, HasRoom
<1>2. route \in Routes /\ job \in Jobs /\ outcome = ""
  BY <1>1 DEF SentInv, PlaceFits
<1>3. Estimate(route.counter)' = Estimate(route.counter) /\ job.kind' = job.kind
  BY <1>1 DEF Estimate
<1>4. CASE ~Estimate(route.counter)
  BY <1>3, <1>4 DEF BlockKept
<1>5. CASE Estimate(route.counter)
  <2>1. PICK p : p = parts
    OBVIOUS
  <2>2. p # Null /\ p \in Seq(Piece) /\ \A i \in 1 .. Len(p) : PieceFits(p[i])
    BY <1>1, <1>2, <1>5, <2>1, PartsFit
  <2>3. slices' = p /\ pc' = "slices" /\ outcome' = outcome
    BY <1>1, <2>1, <2>2
  <2>4. HasRoom' = HasRoom /\ \A s : PieceFits(s)' = PieceFits(s)
    BY <1>1, SameBudget
  <2>5. \A i \in 1 .. Len(p) : PieceFits(p[i])'
    BY <2>2, <2>4
  <2> HIDE DEF parts
  <2> QED
    BY <1>1, <1>2, <2>2, <2>3, <2>4, <2>5 DEF BlockKept
<1> QED
  BY <1>4, <1>5

\* A prompt for a slice fits.
LEMMA SliceGoes ==
  ASSUME route \in Routes, job \in Jobs, Estimate(route.counter), HasRoom, NEW s, PieceFits(s)
  PROVE  Fits(Plain(InspectPrompt) \o Slice(job.block.text, s.from, s.to), MediaOf(job.block))
<1> DEFINE prompt == Plain(InspectPrompt)
           slice == Slice(job.block.text, s.from, s.to)
           both == prompt \o slice
           media == MediaOf(job.block)
           input == InputBudget(route)
           source == SourceBudget
           a == Count(route.counter, prompt)
           b == Count(route.counter, slice)
           c == Count(route.counter, both)
           used == Protocol + media * MediaReserve
<1>1. /\ InspectPrompt \in Nat /\ MinSource \in Nat \ {0} /\ Protocol \in Nat /\ MediaReserve \in Nat
      /\ media \in Nat /\ job.block.text \in Text /\ route.counter \in Counter
  BY JudgeAssumption, JobIs, MediaIs, RouteIs
<1>2. prompt \in Text /\ slice \in Text
  BY <1>1, PlainIs, SliceIs DEF PieceFits, Piece
<1>3. both \in Text /\ c <= a + b
  BY <1>2, TextsAddUp
<1>4. a \in Nat /\ b \in Nat /\ c \in Nat
  BY <1>1, <1>2, <1>3, CountIs
<1>5. CASE input = Null
  BY <1>5 DEF Fits
<1>6. CASE input # Null
  <2>1. source = Remaining(route, Tokens(prompt, media)) /\ Tokens(prompt, media) \in Nat
    BY SourceBudgetIs
  <2>2. Tokens(prompt, media) = a + Protocol + media * MediaReserve
        /\ Tokens(both, media) = c + Protocol + media * MediaReserve
    BY <1>1, <1>2, <1>3, TokensAre
  <2>3. source # Null /\ source \in Nat /\ input \in Nat
        /\ (source > 0 => source = input - Tokens(prompt, media))
    <3> HIDE DEF source, prompt, media
    <3> QED
      BY <1>6, <2>1, RemainingIs DEF input
  <2>4. source >= MinSource /\ b <= source
    BY <2>3 DEF HasRoom, PieceFits, FitsFrom
  <2>5. media * MediaReserve \in Nat
    <3> HIDE DEF media
    <3> QED
      BY <1>1
  <2> DEFINE m == media * MediaReserve
             t == Tokens(prompt, media)
             u == Tokens(both, media)
  <2>6. m \in Nat /\ t = a + Protocol + m /\ u = c + Protocol + m /\ (source > 0 => source = input - t)
    BY <2>2, <2>3, <2>5
  <2> HIDE DEF a, b, c, m, t, u, input, source
  <2>7. source = input - t
    BY <1>1, <2>3, <2>4, <2>6
  <2>8. u <= input
    BY <1>1, <1>3, <1>4, <2>3, <2>4, <2>6, <2>7
  <2> QED
    BY <2>8 DEF Fits, u, input
<1> QED
  BY <1>5, <1>6

LEMMA SendSliceKept == ASSUME SentInv, BlockKept, NEW n \in AnswerLengths, SendSlice(n) PROVE BlockKept'
<1> DEFINE s == Head(slices)
<1>1. pc = "slices" /\ slices # <<>> /\ UNCHANGED <<route, job>>
  BY DEF SendSlice
<1>2. route \in Routes /\ job \in Jobs /\ outcome = ""
  BY <1>1 DEF SentInv, PlaceFits
<1>3. Estimate(route.counter)' = Estimate(route.counter) /\ job.kind' = job.kind
  BY <1>1 DEF Estimate
<1>4. CASE ~(job.kind = "inspect" /\ Estimate(route.counter))
  BY <1>3, <1>4 DEF BlockKept
<1>5. CASE job.kind = "inspect" /\ Estimate(route.counter)
  <2>1. HasRoom /\ slices \in Seq(Piece) /\ \A i \in 1 .. Len(slices) : PieceFits(slices[i])
    BY <1>1, <1>5 DEF BlockKept
  <2>2. 1 \in 1 .. Len(slices) /\ s = slices[1]
    <3> DEFINE l == Len(slices)
    <3>1. l \in Nat /\ l # 0
      BY <1>1, <2>1, LenProperties, EmptySeq
    <3> HIDE DEF l
    <3>2. 1 \in 1 .. l
      BY <3>1
    <3> QED
      BY <2>1, <3>2 DEF l
  <2>3. PieceFits(s)
    BY <2>1, <2>2
  <2> HIDE DEF s
  <2>4. Fits(Plain(InspectPrompt) \o Slice(job.block.text, s.from, s.to), MediaOf(job.block))
    BY <1>2, <1>5, <2>1, <2>3, SliceGoes
  <2>5. slices' = Tail(slices) /\ UNCHANGED <<pc, outcome>>
    BY <2>4 DEF SendSlice, s
  <2>6. slices' \in Seq(Piece) /\ \A i \in 1 .. Len(slices') : PieceFits(slices'[i])
    <3> DEFINE l == Len(slices)
               rest == Tail(slices)
               m == l - 1
    <3>1. rest \in Seq(Piece) /\ Len(rest) = m /\ \A i \in 1 .. m : rest[i] = slices[i + 1]
      BY <1>1, <2>1, HeadTailProperties
    <3>2. l \in Nat /\ l # 0
      BY <1>1, <2>1, LenProperties, EmptySeq
    <3> HIDE DEF l, rest
    <3>3. \A i \in 1 .. m : i + 1 \in 1 .. l
      BY <3>2
    <3>4. \A i \in 1 .. m : PieceFits(rest[i])
      BY <2>1, <3>1, <3>3 DEF l
    <3> QED
      BY <2>5, <3>1, <3>4 DEF rest
  <2>7. HasRoom' = HasRoom /\ \A p : PieceFits(p)' = PieceFits(p)
    BY <1>1, SameBudget
  <2>8. PICK rest : rest = slices'
    OBVIOUS
  <2>9. \A i \in 1 .. Len(rest) : PieceFits(rest[i])'
    BY <2>6, <2>7, <2>8
  <2> QED
    BY <1>1, <1>2, <2>1, <2>5, <2>6, <2>7, <2>8, <2>9 DEF BlockKept
<1> QED
  BY <1>4, <1>5

LEMMA CountWithin ==
  ASSUME route \in Routes, Estimate(route.counter), NEW n \in Nat
  PROVE  CountOf(n) <= n /\ CountOf(n) \in Nat /\ ~route.counter.exact
<1>1. Plain(n) \in Text /\ Len(Plain(n)) = n
  BY PlainIs
<1> QED
  BY <1>1, EstimateOf, CountOfIs

\* A block with room for a little of its text has room for a note.
LEMMA LimitIsSome ==
  ASSUME route \in Routes, job \in Jobs, Estimate(route.counter), HasRoom, NEW level \in Nat,
         NoteBudget(level) # Null
  PROVE  /\ NoteBudget(level) \in Nat \ {0} /\ InputBudget(route) \in Nat
         /\ NoteBudget(level) = InputBudget(route) - (CountOf(ReduceText(level)) + Protocol)
<1> DEFINE prompt == Plain(InspectPrompt)
           media == MediaOf(job.block)
           input == InputBudget(route)
           source == SourceBudget
           rt == ReduceText(level)
           r == NoteBudget(level)
           m == media * MediaReserve
           t == Tokens(prompt, media)
           u == Tokens(Plain(rt), 0)
           a == CountOf(InspectPrompt)
           b == CountOf(rt)
           d == MinSource - 1
           e == InspectPrompt + d
<1>1. /\ InspectPrompt \in Nat /\ MinSource \in Nat \ {0} /\ Protocol \in Nat /\ MediaReserve \in Nat
      /\ ReducePrompt \in Nat /\ media \in Nat /\ ReducePrompt + 3 < InspectPrompt + MinSource
  BY JudgeAssumption, JobIs, MediaIs
<1>2. rt \in Nat /\ rt <= ReducePrompt + 3 /\ u \in Nat
  BY <1>1, NoteBudgetIs
<1>3. r = Remaining(route, u) /\ source = Remaining(route, t) /\ t \in Nat
  BY SourceBudgetIs DEF NoteBudget
<1>4. m \in Nat
  <2> HIDE DEF media
  <2> QED
    BY <1>1
<1>5. t = a + Protocol + m /\ u = b + Protocol + 0 * MediaReserve
  <2>1. prompt \in Text /\ Plain(rt) \in Text /\ 0 \in Nat
    BY <1>1, <1>2, PlainIs
  <2> QED
    BY <1>1, <2>1, TokensAre DEF CountOf
<1> HIDE DEF r, source, t, u, rt, prompt, media
<1>6. input # Null /\ input \in Nat
  BY <1>2, <1>3, RemainingIs DEF r
<1>7. /\ r \in Nat /\ (r > 0 => r = input - u) /\ input - u <= r
      /\ source # Null /\ source \in Nat /\ (source > 0 => source = input - t)
  BY <1>2, <1>3, <1>6, RemainingIs DEF r, input
<1>8. source >= MinSource
  BY <1>7 DEF HasRoom, source
<1>9. d \in Nat /\ e \in Nat /\ rt <= e
  BY <1>1, <1>2
<1> DEFINE g == e - rt
<1>10. g \in Nat /\ rt + g = e
  <2> HIDE DEF e
  <2> QED
    BY <1>2, <1>9
<1>11. CountOf(d) <= d /\ CountOf(d) \in Nat /\ a \in Nat /\ b \in Nat /\ CountOf(e) \in Nat
       /\ ~route.counter.exact
  BY <1>1, <1>2, <1>9, CountWithin
<1> HIDE DEF e, g, a, b, m, input
<1>12. b <= CountOf(rt + g)
  BY <1>2, <1>10, <1>11, CountsAddUp DEF b
<1>13. b <= CountOf(e)
  BY <1>10, <1>12
<1> HIDE DEF d
<1>14. CountOf(e) <= a + CountOf(d)
  BY <1>1, <1>9, <1>11, CountsAddUp DEF e, a
<1>15. b <= a + d
  BY <1>9, <1>11, <1>13, <1>14
<1>16. source = input - t
  BY <1>1, <1>7, <1>8
<1>17. 0 * MediaReserve = 0
  BY <1>1
<1>18. b <= a + (MinSource - 1)
  BY <1>15 DEF d
<1>19. u = b + Protocol
  BY <1>1, <1>5, <1>11, <1>17
<1>20. input - u >= 1
  BY <1>1, <1>4, <1>5, <1>6, <1>8, <1>11, <1>16, <1>18, <1>19
<1>21. r \in Nat \ {0} /\ r = input - u
  BY <1>2, <1>6, <1>7, <1>20
<1> QED
  BY <1>6, <1>19, <1>21 DEF r, input, b, rt

LEMMA ReduceFits ==
  ASSUME route \in Routes, job \in Jobs, Estimate(route.counter), HasRoom, NEW level \in Nat,
         NEW notes \in Seq(Nat), ~OverLimit(notes, level)
  PROVE  Fits(Plain(ReduceText(level) + Joined(notes)), 0)
<1> DEFINE input == InputBudget(route)
           rt == ReduceText(level)
           j == Joined(notes)
           r == NoteBudget(level)
           c == Sum(Costs(NoteCost, notes))
           k == rt + j
<1>1. rt \in Nat /\ j \in Nat /\ Protocol \in Nat /\ c \in Nat /\ k \in Nat
  <2>1. rt \in Nat /\ j \in Nat /\ Protocol \in Nat /\ c \in Nat
    BY NoteBudgetIs, JoinedIs, JudgeAssumption, NotesCost
  <2> HIDE DEF rt, j
  <2> QED
    BY <2>1
<1>2. CASE input = Null
  BY <1>2 DEF Fits
<1>3. CASE input # Null
  <2>1. r # Null
    <3>1. Tokens(Plain(rt), 0) \in Nat
      BY NoteBudgetIs
    <3> QED
      BY <1>3, <3>1, RemainingIs DEF NoteBudget
  <2>2. r \in Nat /\ input \in Nat /\ r = input - (CountOf(rt) + Protocol)
    BY <2>1, LimitIsSome
  <2>3. ~(c > r)
    BY <2>1, OverLimitIs
  <2>4. CountOf(j) <= c
    BY JoinedFits
  <2>5. CountOf(rt) \in Nat /\ CountOf(j) \in Nat /\ CountOf(k) \in Nat /\ ~route.counter.exact
    BY <1>1, CountWithin
  <2>6. Tokens(Plain(k), 0) = CountOf(k) + Protocol + 0 * MediaReserve
    <3>1. Plain(k) \in Text /\ 0 \in Nat
      BY <1>1, PlainIs
    <3> QED
      BY <3>1, TokensAre DEF CountOf
  <2> HIDE DEF rt, j, c, r, input
  <2>7. CountOf(k) <= CountOf(rt) + CountOf(j)
    BY <1>1, <2>5, CountsAddUp
  <2>8. 0 * MediaReserve = 0
    BY JudgeAssumption
  <2> HIDE DEF k
  <2> DEFINE x == CountOf(rt)
             y == CountOf(j)
             z == CountOf(k)
             w == Tokens(Plain(k), 0)
  <2>9. x \in Nat /\ y \in Nat /\ z \in Nat /\ w = z + Protocol + 0 /\ z <= x + y /\ y <= c
        /\ r = input - (x + Protocol)
    BY <2>2, <2>4, <2>5, <2>6, <2>7, <2>8
  <2> HIDE DEF x, y, z, w
  <2>10. w <= input
    BY <1>1, <2>2, <2>3, <2>9
  <2> QED
    BY <2>10 DEF Fits, w, k, rt, j, input
<1> QED
  BY <1>2, <1>3

LEMMA SplitKept ==
  ASSUME SentInv, ReduceTyped, BlockKept, SplitNotes
  PROVE  BlockKept'
<1>0. route \in Routes /\ job \in Jobs /\ pc = "reduce" /\ outcome = "" /\ UNCHANGED <<route, job>>
  BY DEF SentInv, PlaceFits, SplitNotes
<1>1. CASE (\E i \in DOMAIN enter.notes : PiecesOf(enter.notes[i], NoteBudget(enter.level)) = Null)
           /\ End("budget")
  <2>1. ~(job.kind = "inspect" /\ Estimate(route.counter))
    <3> SUFFICES ASSUME job.kind = "inspect", Estimate(route.counter) PROVE FALSE
      OBVIOUS
    <3>1. HasRoom
      BY <1>0 DEF BlockKept
    <3>2. enter.notes \in Seq(Nat) /\ enter.level \in Nat /\ OverLimit(enter.notes, enter.level)
      BY <1>0 DEF SplitNotes, ReduceTyped, Entry
    <3> DEFINE limit == NoteBudget(enter.level)
    <3>3. limit # Null
      BY <1>0, <3>2, OverLimitIs
    <3>4. limit \in Nat \ {0}
      BY <1>0, <3>1, <3>2, <3>3, LimitIsSome
    <3>5. PICK i \in DOMAIN enter.notes : PiecesOf(enter.notes[i], limit) = Null
      BY <1>1
    <3>6. enter.notes[i] \in Nat
      BY <3>2, ElementOfSeq
    <3> HIDE DEF limit
    <3>7. limit \in Nat /\ limit # 0
      BY <3>4
    <3> QED
      BY <1>0, <3>5, <3>6, <3>7, PiecesAre
  <2>2. Estimate(route.counter)' = Estimate(route.counter) /\ job.kind' = job.kind
    BY <1>0 DEF Estimate
  <2> QED
    BY <2>1, <2>2 DEF BlockKept
<1>2. CASE End("recursion")
  <2>1. outcome' = "recursion" /\ pc' = "done"
    BY <1>2 DEF End
  <2> QED
    BY <1>0, <2>1, BlockStays
<1>3. CASE \E groups, limit : Splits(groups, limit)
  <2>1. UNCHANGED <<pc, outcome>>
    BY <1>3 DEF Splits
  <2> QED
    BY <1>0, <2>1, BlockStays
<1> QED
  BY <1>0, <1>1, <1>2, <1>3, SplitGoes

LEMMA ReduceCallKept ==
  ASSUME SentInv, ReduceTyped, BlockKept, NEW n \in AnswerLengths, ReduceCall(n)
  PROVE  BlockKept'
<1>0. route \in Routes /\ job \in Jobs /\ pc = "reduce" /\ outcome = "" /\ UNCHANGED <<route, job>>
  BY DEF SentInv, PlaceFits, ReduceCall
<1>1. CASE ~Fits(Plain(ReduceText(enter.level) + Joined(enter.notes)), 0)
  <2>1. ~(job.kind = "inspect" /\ Estimate(route.counter))
    <3> SUFFICES ASSUME job.kind = "inspect", Estimate(route.counter) PROVE FALSE
      OBVIOUS
    <3>1. HasRoom
      BY <1>0 DEF BlockKept
    <3>2. enter.notes \in Seq(Nat) /\ enter.level \in Nat /\ ~OverLimit(enter.notes, enter.level)
      BY <1>0 DEF ReduceCall, ReduceTyped, Entry
    <3> QED
      BY <1>0, <1>1, <3>1, <3>2, ReduceFits
  <2>2. Estimate(route.counter)' = Estimate(route.counter) /\ job.kind' = job.kind
    BY <1>0 DEF Estimate
  <2> QED
    BY <2>1, <2>2 DEF BlockKept
<1>2. CASE Fits(Plain(ReduceText(enter.level) + Joined(enter.notes)), 0)
  <2>1. pc' = "return" /\ outcome' = outcome
    BY <1>2 DEF ReduceCall
  <2> QED
    BY <1>0, <2>1, BlockStays
<1> QED
  BY <1>1, <1>2

LEMMA BlockInitially == SentInv /\ Init => BlockKept
<1> SUFFICES ASSUME SentInv, Init PROVE BlockKept
  OBVIOUS
<1>1. pc = "start" /\ outcome = ""
  BY DEF Init
<1> QED
  BY <1>1 DEF BlockKept

LEMMA BlockPreserved == SentInv /\ ReduceTyped /\ BlockKept /\ [Next]_vars => BlockKept'
<1> SUFFICES ASSUME SentInv, ReduceTyped, BlockKept, [Next]_vars PROVE BlockKept'
  OBVIOUS
<1>p. PlaceFits
  BY DEF SentInv
<1>e. ASSUME NEW how, End(how), how # "budget", UNCHANGED <<route, job>> PROVE BlockKept'
  <2>1. outcome' # "budget" /\ pc' = "done"
    BY <1>e DEF End
  <2> QED
    BY <1>e, <2>1, BlockStays
<1>1. CASE Refuse
  BY <1>1, <1>e DEF Refuse
<1>2. CASE StartInspect
  BY <1>2, StartInspectKept
<1>3. ASSUME NEW n \in AnswerLengths, SendSlice(n) PROVE BlockKept'
  BY <1>3, SendSliceKept
<1>4. CASE OneFinding
  BY <1>4, <1>e DEF OneFinding
<1>5. CASE CondenseFindings
  <2>1. pc = "slices" /\ pc' = "reduce" /\ outcome' = outcome /\ UNCHANGED <<route, job>>
    BY <1>5 DEF CondenseFindings
  <2>2. outcome = ""
    BY <1>p, <2>1 DEF PlaceFits
  <2> QED
    BY <2>1, <2>2, BlockStays
<1>6. ASSUME UNCHANGED <<route, job>>, job.kind # "inspect" PROVE BlockKept'
  <2>1. job'.kind # "inspect"
    BY <1>6
  <2> QED
    BY <2>1 DEF BlockKept
<1>7. CASE StartBatch
  BY <1>7, <1>6 DEF StartBatch
<1>8. CASE AskQuestions \/ AskTasks
  <2>1. pc \in {"questions", "tasks"} /\ UNCHANGED <<route, job>>
    BY <1>8 DEF AskQuestions, AskTasks, AskFirst
  <2>2. job.kind # "inspect"
    BY <1>p, <2>1 DEF PlaceFits
  <2> QED
    BY <1>6, <2>1, <2>2
<1>9. CASE BatchDone
  BY <1>9, <1>e DEF BatchDone
<1>10. CASE SplitNotes
  BY <1>10, SplitKept
<1>11. ASSUME NEW n \in AnswerLengths, ReduceCall(n) PROVE BlockKept'
  BY <1>11, ReduceCallKept
<1>12. CASE NestedReturn
  <2>1. pc = "return" /\ pc' \in {"return", "reduce"} /\ outcome' = outcome /\ UNCHANGED <<route, job>>
    BY <1>12 DEF NestedReturn
  <2>2. outcome = ""
    BY <1>p, <2>1 DEF PlaceFits
  <2> QED
    BY <2>1, <2>2, BlockStays
<1>13. CASE InspectReturn
  BY <1>13, <1>e DEF InspectReturn
<1>14. CASE BundleRefused \/ StartFinalize \/ NotesReduced
  <2>1. job.kind # "inspect" /\ UNCHANGED <<route, job>>
    BY <1>14 DEF BundleRefused, StartFinalize, NotesReduced
  <2> QED
    BY <1>6, <2>1
<1>15. CASE FinalCall
  <2>1. pc = "final" /\ UNCHANGED <<route, job>>
    BY <1>15 DEF FinalCall
  <2>2. job.kind # "inspect"
    BY <1>p, <2>1 DEF PlaceFits
  <2> QED
    BY <1>6, <2>1, <2>2
<1>16. CASE CallFails
  BY <1>16, <1>e DEF CallFails
<1>17. CASE UNCHANGED vars
  <2>1. /\ UNCHANGED <<route, job>> /\ pc' = pc /\ slices' = slices /\ outcome' = outcome
    BY <1>17 DEF vars
  <2>2. CASE job.kind # "inspect"
    BY <1>6, <2>1, <2>2
  <2>3. CASE ~Estimate(route.counter)
    <3>1. ~Estimate(route.counter)'
      BY <2>1, <2>3 DEF Estimate
    <3> QED
      BY <3>1 DEF BlockKept
  <2>4. CASE job.kind = "inspect" /\ Estimate(route.counter)
    <3>1. outcome' # "budget"
      BY <2>1, <2>4 DEF BlockKept
    <3> QED
      BY <2>1, <3>1, BlockStays
  <2> QED
    BY <2>2, <2>3, <2>4
<1> QED
  BY <1>1, <1>2, <1>3, <1>4, <1>5, <1>7, <1>8, <1>9, <1>10, <1>11, <1>12, <1>13, <1>14,
     <1>15, <1>16, <1>17 DEF Next

-----------------------------------------------------------------------------
\* A final judgment that fits is made.

Evidence == Joined(job.evidence)
Notes == Joined(job.notes)

NotesTooLong == FinalBudget # Null /\ CountOf(Notes) > NotesBudget
NotesAtMost(n) == n \in Nat /\ CountOf(n) <= AtLeast(CountOf(Placeholder), CountOf(Notes))

TooMuch ==
  CountOf(BundleText) + CountOf(FinalPrompt - FinalPromptProbed)
    + AtLeast(CountOf(Placeholder), CountOf(Notes))
    + AtLeast(CountOf(Placeholder), CountOf(Evidence)) > FinalBudget

Shardable == job.bundle # Null /\ FinalBudget # Null /\ Shards(ShardChars) # Null

FinalKept ==
  /\ pc \in {"reduce", "return"} /\ job.kind = "finalize" => NotesTooLong
  /\ pc = "final" => NotesAtMost(value)
  /\ outcome = "budget at the end" => TooMuch
  /\ job.kind = "finalize" /\ outcome = "refused" => Shardable

LEMMA FinalPartsAre ==
  ASSUME route \in Routes, job \in Jobs
  PROVE  /\ FinalPrompt \in Nat /\ FinalPromptProbed \in Nat /\ FinalPrompt - FinalPromptProbed \in Nat
         /\ Placeholder \in Nat \ {0} /\ Protocol \in Nat
         /\ BundleText \in Nat /\ Notes \in Nat /\ Evidence \in Nat
         /\ FinalBudget \in Nat \cup {Null}
         /\ FinalBudget = Null <=> InputBudget(route) = Null
         /\ FinalBudget # Null =>
              InputBudget(route) \in Nat
              /\ (FinalBudget > 0 => FinalBudget = InputBudget(route) - (CountOf(FinalPromptProbed) + Protocol))
<1>1. /\ FinalPrompt \in Nat /\ FinalPromptProbed \in Nat /\ FinalPromptProbed <= FinalPrompt
      /\ Placeholder \in Nat \ {0} /\ Protocol \in Nat /\ MediaReserve \in Nat
  BY JudgeAssumption
<1>2. FinalPrompt - FinalPromptProbed \in Nat
  BY <1>1
<1>3. job.notes \in Seq(Nat) /\ job.evidence \in Seq(Nat) /\ (job.bundle # Null => job.bundle \in Seq(Nat))
  BY JobIs
<1>4. Notes \in Nat /\ Evidence \in Nat
  BY <1>3, JoinedIs DEF Notes, Evidence
<1>5. BundleText \in Nat
  <2>1. CASE job.bundle = Null
    BY <1>1, <2>1 DEF BundleText
  <2>2. CASE job.bundle # Null
    <3> DEFINE b == job.bundle
    <3>1. b \in Seq(Nat)
      BY <1>3, <2>2
    <3> HIDE DEF b
    <3>2. <<1>> \o b \in Seq(Nat)
      BY <3>1, SumOneMore
    <3>3. Joined(<<1>> \o b) \in Nat
      BY <3>2, JoinedIs
    <3> QED
      BY <2>2, <3>3 DEF BundleText, b
  <2> QED
    BY <2>1, <2>2
<1> DEFINE t == Tokens(Plain(FinalPromptProbed), 0)
           c == CountOf(FinalPromptProbed)
<1>6. t = c + Protocol + 0 * MediaReserve /\ t \in Nat
  <2>1. Plain(FinalPromptProbed) \in Text /\ 0 \in Nat
    BY <1>1, PlainIs
  <2> QED
    BY <2>1, TokensAre DEF CountOf
<1>7. FinalBudget = Remaining(route, t)
  BY DEF FinalBudget
<1>8. c \in Nat
  BY <1>1, CountOfIs
<1>9. t = c + Protocol
  <2> HIDE DEF c, t
  <2> QED
    BY <1>1, <1>6, <1>8
<1> HIDE DEF c, t, FinalBudget
<1> QED
  BY <1>1, <1>2, <1>4, <1>5, <1>6, <1>7, <1>9, RemainingIs DEF c

\* The evidence that is rendered is a beginning of it.
LEMMA RenderedIs ==
  ASSUME NEW lines \in Seq(Nat), NEW chars
  PROVE  Rendered(lines, chars) \in Nat /\ Rendered(lines, chars) <= Joined(lines)
<1> DEFINE ends == {k \in 1 .. Len(lines) :
                      \A i \in 2 .. k : Sum(SubSeq(lines, 1, i)) + i <= chars}
           n == Len(lines)
           k == Max(ends)
           first == SubSeq(lines, 1, k)
<1>1. Joined(lines) \in Nat
  BY JoinedIs
<1>2. CASE lines = <<>>
  <2>1. Rendered(lines, chars) = 0
    BY <1>2 DEF Rendered
  <2> QED
    BY <1>1, <2>1
<1>3. CASE lines # <<>>
  <2>1. n \in Nat /\ n # 0
    BY <1>3, LenProperties, EmptySeq
  <2>2. ends \subseteq 1 .. n /\ 1 \in ends
    BY <2>1
  <2>3. k \in ends /\ k \in 1 .. n
    BY <2>1, <2>2, LastOf
  <2>4. Rendered(lines, chars) = Joined(first)
    BY <1>3 DEF Rendered
  <2> HIDE DEF k
  <2>5. first \in Seq(Nat) /\ Len(first) = k
    BY <2>1, <2>3
  <2>6. k # 0 /\ k \in Nat /\ k <= n
    BY <2>1, <2>3
  <2>7. first # <<>>
    BY <2>5, <2>6, EmptySeq
  <2>8. Sum(first) \in Nat /\ Sum(first) <= Sum(lines) /\ Sum(lines) \in Nat
    BY <2>3, SumOfFirst
  <2>9. Joined(first) = Sum(first) + k - 1 /\ Joined(lines) = Sum(lines) + n - 1
    BY <1>3, <2>5, <2>7 DEF Joined
  <2> DEFINE x == Sum(first)
             y == Sum(lines)
  <2>10. x \in Nat /\ y \in Nat /\ x <= y /\ Joined(first) = x + k - 1 /\ Joined(lines) = y + n - 1
    BY <2>8, <2>9
  <2> HIDE DEF x, y, first, n
  <2>11. x + k - 1 \in Nat /\ x + k - 1 <= y + n - 1
    BY <2>1, <2>6, <2>10
  <2> QED
    BY <2>4, <2>10, <2>11
<1> QED
  BY <1>2, <1>3

\* Asked of the tokenizers of the routes only.
TokenizersAddUp == (\E r \in Routes : r.counter.exact) => PlainTextsAddUp

LEMMA AddUp ==
  ASSUME route \in Routes, TokenizersAddUp, NEW a \in Nat, NEW b \in Nat
  PROVE  CountOf(a) <= CountOf(a + b) /\ CountOf(a + b) <= CountOf(a) + CountOf(b)
<1>1. route.counter.exact => PlainTextsAddUp
  BY DEF TokenizersAddUp
<1> QED
  BY <1>1, CountsAddUp

LEMMA TypedIs ==
  ASSUME route \in Routes, job \in Jobs, TokenizersAddUp
  PROVE  /\ Typed \in Nat
         /\ CountOf(Typed) <= AtLeast(CountOf(Placeholder), CountOf(Evidence))
         /\ CountOf(Typed) \in Nat
<1> DEFINE p == CountOf(Placeholder)
           e == CountOf(Evidence)
<1>1. job.evidence \in Seq(Nat)
  BY JobIs
<1>2. p \in Nat /\ e \in Nat /\ Placeholder \in Nat /\ Evidence \in Nat
  BY FinalPartsAre, CountOfIs
<1>3. ASSUME NEW chars
      PROVE  LET r == Rendered(job.evidence, chars)
             IN  r \in Nat /\ CountOf(r) \in Nat /\ CountOf(r) <= e
  <2> DEFINE r == Rendered(job.evidence, chars)
             d == Evidence - r
  <2>1. r \in Nat /\ r <= Evidence
    BY <1>1, RenderedIs DEF Evidence
  <2> HIDE DEF r
  <2>2. d \in Nat /\ Evidence = r + d
    BY <1>2, <2>1
  <2> HIDE DEF d
  <2>3. CountOf(r) <= CountOf(r + d)
    BY <2>1, <2>2, AddUp
  <2>4. CountOf(r) \in Nat
    BY <2>1, CountOfIs
  <2> QED
    BY <2>1, <2>2, <2>3, <2>4 DEF r
<1>4. Typed = Placeholder \/ \E chars : Typed = Rendered(job.evidence, chars)
  BY DEF Typed
<1> HIDE DEF Typed, p, e
<1>5. p <= AtLeast(p, e) /\ e <= AtLeast(p, e) /\ AtLeast(p, e) \in Nat
  BY <1>2 DEF AtLeast
<1>6. CASE Typed = Placeholder
  BY <1>2, <1>5, <1>6 DEF p, e
<1>7. CASE \E chars : Typed = Rendered(job.evidence, chars)
  <2>1. Typed \in Nat /\ CountOf(Typed) \in Nat /\ CountOf(Typed) <= e
    BY <1>3, <1>7
  <2> DEFINE t == CountOf(Typed)
             m == AtLeast(p, e)
  <2>2. t \in Nat /\ t <= e /\ e <= m /\ m \in Nat
    BY <1>5, <2>1
  <2> HIDE DEF t, m
  <2>3. t <= m
    BY <1>2, <2>2
  <2> QED
    BY <2>1, <2>3 DEF t, m, p, e
<1> QED
  BY <1>4, <1>6, <1>7

LEMMA FourAddUp ==
  ASSUME route \in Routes, TokenizersAddUp,
         NEW a \in Nat, NEW b \in Nat, NEW c \in Nat, NEW d \in Nat
  PROVE  /\ a + b + c + d \in Nat /\ CountOf(a + b + c + d) \in Nat
         /\ CountOf(a + b + c + d) <= CountOf(a) + CountOf(b) + CountOf(c) + CountOf(d)
<1> DEFINE x == a + b
           y == a + b + c
           z == a + b + c + d
<1>1. x \in Nat /\ y \in Nat /\ z \in Nat /\ x = a + b /\ y = x + c /\ z = y + d
  OBVIOUS
<1> HIDE DEF x, y, z
<1>2. CountOf(x) <= CountOf(a) + CountOf(b) /\ CountOf(y) <= CountOf(x) + CountOf(c)
      /\ CountOf(z) <= CountOf(y) + CountOf(d)
  BY <1>1, AddUp
<1>3. CountOf(a) \in Nat /\ CountOf(b) \in Nat /\ CountOf(c) \in Nat /\ CountOf(d) \in Nat
      /\ CountOf(x) \in Nat /\ CountOf(y) \in Nat /\ CountOf(z) \in Nat
  BY <1>1, CountOfIs
<1>4. CountOf(z) <= CountOf(a) + CountOf(b) + CountOf(c) + CountOf(d)
  BY <1>2, <1>3
<1> QED
  BY <1>1, <1>3, <1>4 DEF z

LEMMA FinalAddsUp ==
  ASSUME NEW all \in Nat, NEW probed \in Nat, NEW rest \in Nat, NEW prompt \in Nat, NEW bundle \in Nat,
         NEW value_ \in Nat, NEW typed \in Nat, NEW notes \in Nat, NEW evidence \in Nat,
         NEW protocol \in Nat, NEW input \in Nat, NEW final \in Nat,
         all <= prompt + bundle + value_ + typed, prompt <= probed + rest,
         value_ <= notes, typed <= evidence, all + protocol > input,
         final > 0 => final = input - (probed + protocol), notes >= 1
  PROVE  bundle + rest + notes + evidence > final
OBVIOUS

LEMMA FinalCallKept ==
  ASSUME SentInv, FinalKept, TokenizersAddUp, pc = "final",
         NEW typed \in Nat, typed \in {Typed, Placeholder},
         ~Fits(Plain(FinalPrompt + BundleText + value + typed), 0)
  PROVE  TooMuch
<1>0. route \in Routes /\ job \in Jobs
  BY DEF SentInv
<1>1. /\ FinalPrompt \in Nat /\ FinalPromptProbed \in Nat /\ FinalPrompt - FinalPromptProbed \in Nat
      /\ Placeholder \in Nat /\ Placeholder # 0 /\ Protocol \in Nat /\ MediaReserve \in Nat
      /\ BundleText \in Nat /\ Notes \in Nat /\ Evidence \in Nat
  BY <1>0, FinalPartsAre, JudgeAssumption
<1>2. value \in Nat /\ CountOf(value) <= AtLeast(CountOf(Placeholder), CountOf(Notes))
  BY DEF FinalKept, NotesAtMost
<1> DEFINE text == FinalPrompt + BundleText + value + typed
           p == CountOf(Placeholder)
           probed == CountOf(FinalPromptProbed)
           rest == CountOf(FinalPrompt - FinalPromptProbed)
           notes == AtLeast(p, CountOf(Notes))
           evidence == AtLeast(p, CountOf(Evidence))
           input == InputBudget(route)
           t == Tokens(Plain(text), 0)
           all == CountOf(text)
<1>3. /\ text \in Nat /\ all \in Nat
      /\ all <= CountOf(FinalPrompt) + CountOf(BundleText) + CountOf(value) + CountOf(typed)
  BY <1>0, <1>1, <1>2, FourAddUp
<1>4. input # Null /\ t > input
  <2>1. input # Null /\ ~(t <= input)
    BY DEF Fits
  <2>2. Plain(text) \in Text /\ 0 \in Nat
    <3> HIDE DEF text
    <3> QED
      BY <1>3, PlainIs
  <2>3. t \in Nat /\ input \in Nat
    <3> HIDE DEF text
    <3> QED
      BY <1>0, <2>1, <2>2, TokensAre, RouteIs
  <2> HIDE DEF t, input
  <2> QED
    BY <2>1, <2>3
<1>5. t = all + Protocol
  <2> HIDE DEF text
  <2>1. Plain(text) \in Text /\ 0 \in Nat
    BY <1>3, PlainIs
  <2>2. t = all + Protocol + 0 * MediaReserve
    BY <1>0, <2>1, TokensAre DEF CountOf
  <2> HIDE DEF all, t
  <2> QED
    BY <1>1, <1>3, <2>2
<1>6. FinalBudget \in Nat /\ input \in Nat
      /\ (FinalBudget > 0 => FinalBudget = input - (probed + Protocol))
  BY <1>0, <1>4, FinalPartsAre
<1>7. CountOf(FinalPrompt) <= probed + rest
  <2> DEFINE d == FinalPrompt - FinalPromptProbed
  <2>1. d \in Nat /\ FinalPromptProbed + d = FinalPrompt
    BY <1>1
  <2> HIDE DEF d
  <2>2. CountOf(FinalPromptProbed + d) <= CountOf(FinalPromptProbed) + CountOf(d)
    BY <1>0, <1>1, <2>1, AddUp
  <2> QED
    BY <2>1, <2>2 DEF d
<1>8. /\ CountOf(FinalPrompt) \in Nat /\ probed \in Nat /\ rest \in Nat /\ p \in Nat
      /\ CountOf(BundleText) \in Nat /\ CountOf(value) \in Nat
      /\ CountOf(Notes) \in Nat /\ CountOf(Evidence) \in Nat /\ CountOf(typed) \in Nat
  BY <1>0, <1>1, <1>2, CountOfIs
<1>9. p >= 1
  BY <1>0, <1>1, CountOfSome
<1>10. notes \in Nat /\ evidence \in Nat /\ p <= notes /\ p <= evidence
  <2> HIDE DEF p
  <2> QED
    BY <1>8 DEF AtLeast
<1>11. CountOf(typed) <= evidence
  <2>1. CASE typed = Placeholder
    BY <1>10, <2>1
  <2>2. CASE typed = Typed
    BY <1>0, <2>2, TypedIs
  <2> QED
    BY <2>1, <2>2
<1> HIDE DEF text, p, probed, rest, notes, evidence, input, t, all
<1>12. CountOf(value) <= notes
  BY <1>2 DEF notes, p
<1>13. all + Protocol > input /\ notes >= 1
  BY <1>4, <1>5, <1>8, <1>9, <1>10
<1> DEFINE bundle == CountOf(BundleText)
           prompt == CountOf(FinalPrompt)
           v == CountOf(value)
           y == CountOf(typed)
           final == FinalBudget
<1>14. /\ all \in Nat /\ probed \in Nat /\ rest \in Nat /\ prompt \in Nat /\ bundle \in Nat
       /\ v \in Nat /\ y \in Nat /\ notes \in Nat /\ evidence \in Nat /\ Protocol \in Nat
       /\ input \in Nat /\ final \in Nat
       /\ all <= prompt + bundle + v + y /\ prompt <= probed + rest /\ v <= notes /\ y <= evidence
       /\ all + Protocol > input
       /\ (final > 0 => final = input - (probed + Protocol)) /\ notes >= 1
  BY <1>1, <1>3, <1>6, <1>7, <1>8, <1>10, <1>11, <1>12, <1>13
<1> HIDE DEF bundle, prompt, v, y, final
<1>15. bundle + rest + notes + evidence > final
  BY <1>14, FinalAddsUp
<1> QED
  BY <1>15 DEF TooMuch, bundle, rest, notes, evidence, final, p

LEMMA SameFinal ==
  ASSUME UNCHANGED <<route, job>>
  PROVE  /\ NotesTooLong' = NotesTooLong /\ TooMuch' = TooMuch /\ Shardable' = Shardable
         /\ \A n : NotesAtMost(n)' = NotesAtMost(n)
<1>1. FinalBudget' = FinalBudget
  BY DEF FinalBudget, Tokens
<1>2. \A n : CountOf(n)' = CountOf(n)
  BY DEF CountOf
<1>3. BundleText' = BundleText /\ Notes' = Notes /\ Evidence' = Evidence
  BY DEF BundleText, Notes, Evidence
<1>4. NotesBudget' = NotesBudget
  BY <1>1, <1>2, <1>3 DEF NotesBudget
<1>5. ShardChars' = ShardChars
  BY <1>1 DEF ShardChars
<1>6. \A n : Shards(n)' = Shards(n)
  BY DEF Shards, FoldLeft, MapThenFoldSet
<1>7. Shardable' = Shardable
  BY <1>1, <1>5, <1>6 DEF Shardable
<1>8. NotesTooLong' = NotesTooLong
  BY <1>1, <1>2, <1>3, <1>4 DEF NotesTooLong
<1>9. TooMuch' = TooMuch
  BY <1>1, <1>2, <1>3 DEF TooMuch
<1>10. \A n : NotesAtMost(n)' = NotesAtMost(n)
  BY <1>2, <1>3 DEF NotesAtMost
<1> QED
  BY <1>7, <1>8, <1>9, <1>10

LEMMA FinalInitially == SentInv /\ Init => FinalKept
<1> SUFFICES ASSUME SentInv, Init PROVE FinalKept
  OBVIOUS
<1>1. pc = "start" /\ outcome = ""
  BY DEF Init
<1> QED
  BY <1>1 DEF FinalKept

\* A request that ends, or does not come to the final prompt.
LEMMA FinalStays ==
  ASSUME SentInv, FinalKept, UNCHANGED <<route, job>>, pc' # "final",
         job.kind = "finalize" /\ pc' \in {"reduce", "return"} => pc \in {"reduce", "return"},
         outcome' # "budget at the end",
         job.kind = "finalize" => outcome' # "refused"
  PROVE  FinalKept'
<1>1. NotesTooLong' = NotesTooLong /\ job'.kind = job.kind
  BY SameFinal
<1> QED
  BY <1>1 DEF FinalKept

LEMMA StartFinalizeKept == ASSUME SentInv, FinalKept, StartFinalize PROVE FinalKept'
<1> DEFINE tooLong == FinalBudget # Null /\ CountOf(Notes) > NotesBudget
<1>0. /\ pc = "start" /\ job.kind = "finalize" /\ UNCHANGED <<route, job, outcome>>
      /\ route \in Routes /\ job \in Jobs /\ outcome = ""
  BY DEF StartFinalize, SentInv, PlaceFits
<1>1. \/ tooLong /\ pc' = "reduce"
      \/ value' \in {Placeholder, Notes} /\ pc' = "final"
  BY DEF StartFinalize, Notes
<1>2. CASE tooLong /\ pc' = "reduce"
  <2>1. NotesTooLong'
    BY <1>0, <1>2, SameFinal DEF NotesTooLong
  <2> QED
    BY <1>0, <1>2, <2>1 DEF FinalKept
<1>3. CASE value' \in {Placeholder, Notes} /\ pc' = "final"
  <2> DEFINE p == CountOf(Placeholder)
             n == CountOf(Notes)
  <2>1. Placeholder \in Nat /\ Notes \in Nat
    BY <1>0, FinalPartsAre
  <2>2. p \in Nat /\ n \in Nat
    BY <1>0, <2>1, CountOfIs
  <2> HIDE DEF p, n
  <2>3. p <= AtLeast(p, n) /\ n <= AtLeast(p, n)
    BY <2>2 DEF AtLeast
  <2>4. NotesAtMost(Placeholder) /\ NotesAtMost(Notes)
    BY <2>1, <2>3 DEF NotesAtMost, p, n
  <2>5. \A k : NotesAtMost(k)' = NotesAtMost(k)
    BY <1>0, SameFinal
  <2> DEFINE w == value'
             q == NotesAtMost(value)'
  <2>6. NotesAtMost(w)
    BY <1>3, <2>4
  <2>7. q
    <3>1. \A k : k = value' => NotesAtMost(value)' = NotesAtMost(k)
      BY <2>5, SameFinal DEF NotesAtMost, CountOf, Notes
    <3> QED
      BY <2>6, <3>1
  <2> QED
    BY <1>0, <1>3, <2>7 DEF FinalKept
<1> QED
  BY <1>1, <1>2, <1>3

LEMMA NotesReducedKept == ASSUME SentInv, ReduceTyped, FinalKept, NotesReduced PROVE FinalKept'
<1>0. /\ pc = "return" /\ job.kind = "finalize" /\ UNCHANGED <<route, job, outcome>> /\ pc' = "final"
      /\ route \in Routes /\ job \in Jobs /\ outcome = "" /\ value \in Nat
  BY DEF NotesReduced, SentInv, PlaceFits, ReduceTyped
<1>1. NotesTooLong
  BY <1>0 DEF FinalKept
<1> DEFINE p == CountOf(Placeholder)
           n == CountOf(Notes)
           v == CountOf(value)
           b == NotesBudget
<1>2. Placeholder \in Nat /\ Notes \in Nat /\ BundleText \in Nat /\ FinalBudget \in Nat
  BY <1>0, <1>1, FinalPartsAre DEF NotesTooLong
<1>3. p \in Nat /\ n \in Nat /\ v \in Nat
  BY <1>0, <1>2, CountOfIs
<1>4. b \in Nat
  <2> DEFINE c == CountOf(BundleText)
  <2>1. c \in Nat
    BY <1>0, <1>2, CountOfIs
  <2> HIDE DEF c
  <2> DEFINE d == NonNegative(FinalBudget - c)
  <2>2. d \in Nat
    BY <1>2, <2>1 DEF NonNegative
  <2>3. b = d \div 2
    BY DEF NotesBudget, c
  <2> HIDE DEF d
  <2>4. d \div 2 \in Nat
    BY <2>2
  <2> QED
    BY <2>3, <2>4
<1>5. n > b
  BY <1>1 DEF NotesTooLong
<1>6. value' = Placeholder \/ (v <= b /\ value' = value)
  BY DEF NotesReduced
<1> HIDE DEF p, n, v, b
<1>7. p <= AtLeast(p, n) /\ n <= AtLeast(p, n) /\ AtLeast(p, n) \in Nat
  BY <1>3 DEF AtLeast
<1>8. v <= b => v <= AtLeast(p, n)
  <2> DEFINE m == AtLeast(p, n)
  <2>1. n <= m /\ m \in Nat
    BY <1>7
  <2> HIDE DEF m
  <2>2. v <= b => v <= m
    BY <1>3, <1>4, <1>5, <2>1
  <2> QED
    BY <2>2 DEF m
<1>9. \E k : k = value' /\ NotesAtMost(k)
  BY <1>0, <1>2, <1>6, <1>7, <1>8 DEF NotesAtMost, p, n, v
<1>10. NotesAtMost(value)'
  <2>1. \A k : NotesAtMost(k)' = NotesAtMost(k)
    BY <1>0, SameFinal
  <2>2. \A k : k = value' => NotesAtMost(value)' = NotesAtMost(k)
    BY <2>1, SameFinal DEF NotesAtMost, CountOf, Notes
  <2> QED
    BY <1>9, <2>2
<1> QED
  BY <1>0, <1>10 DEF FinalKept

LEMMA FinalCallGoes ==
  ASSUME SentInv, FinalKept, TokenizersAddUp, FinalCall
  PROVE  FinalKept'
<1>0. /\ pc = "final" /\ UNCHANGED <<route, job>> /\ pc' = "done" /\ job.kind = "finalize"
      /\ route \in Routes /\ job \in Jobs
  BY DEF FinalCall, SentInv, PlaceFits, End
<1>1. \E typed : /\ typed \in {Typed, Placeholder}
                 /\ outcome' = IF Fits(Plain(FinalPrompt + BundleText + value + typed), 0)
                               THEN "returned" ELSE "budget at the end"
  BY DEF FinalCall, End
<1>2. ASSUME outcome' = "budget at the end" PROVE TooMuch
  <2>1. PICK typed \in {Typed, Placeholder} :
          ~Fits(Plain(FinalPrompt + BundleText + value + typed), 0)
    BY <1>1, <1>2
  <2>2. typed \in Nat
    BY <1>0, <2>1, TypedIs, FinalPartsAre
  <2> QED
    BY <1>0, <2>1, <2>2, FinalCallKept
<1>3. outcome' # "refused"
  BY <1>1
<1>4. TooMuch' = TooMuch
  BY <1>0, SameFinal
<1> QED
  BY <1>0, <1>2, <1>3, <1>4 DEF FinalKept

LEMMA BundleRefusedKept == ASSUME SentInv, FinalKept, BundleRefused PROVE FinalKept'
<1>1. /\ pc' = "done" /\ UNCHANGED <<route, job>>
      /\ outcome' = IF Shards(ShardChars) = Null THEN "raised" ELSE "refused"
  BY DEF BundleRefused, End
<1>2. job.bundle # Null /\ FinalBudget # Null
  BY DEF BundleRefused, BundleFits
<1>3. outcome' = "refused" => Shardable
  BY <1>1, <1>2 DEF Shardable
<1>4. Shardable' = Shardable /\ outcome' # "budget at the end"
  BY <1>1, SameFinal
<1> QED
  BY <1>1, <1>3, <1>4 DEF FinalKept

LEMMA FinalPreserved ==
  ASSUME TokenizersAddUp PROVE SentInv /\ ReduceTyped /\ FinalKept /\ [Next]_vars => FinalKept'
<1> SUFFICES ASSUME SentInv, ReduceTyped, FinalKept, [Next]_vars PROVE FinalKept'
  OBVIOUS
<1>p. PlaceFits
  BY DEF SentInv
<1>e. ASSUME NEW how, End(how), how # "budget at the end", how # "refused", UNCHANGED <<route, job>>
      PROVE FinalKept'
  <2>1. outcome' = how /\ pc' = "done"
    BY <1>e DEF End
  <2> QED
    BY <1>e, <2>1, FinalStays
<1>g. ASSUME UNCHANGED <<route, job, outcome>>, pc # "done", pc' # "final",
             job.kind = "finalize" /\ pc' \in {"reduce", "return"} => pc \in {"reduce", "return"}
      PROVE  FinalKept'
  <2>1. outcome' = ""
    BY <1>p, <1>g DEF PlaceFits
  <2> QED
    BY <1>g, <2>1, FinalStays
<1>1. CASE Refuse
  <2>1. pc' = "done" /\ outcome' = "refused" /\ job.kind # "finalize" /\ UNCHANGED <<route, job>>
    BY <1>1 DEF Refuse, End
  <2> QED
    BY <2>1, FinalStays
<1>2. CASE StartInspect
  BY <1>2, <1>e, <1>g DEF StartInspect
<1>3. ASSUME NEW n \in AnswerLengths, SendSlice(n) PROVE FinalKept'
  BY <1>3, <1>e, <1>g DEF SendSlice
<1>4. CASE OneFinding
  BY <1>4, <1>e DEF OneFinding
<1>5. CASE CondenseFindings
  <2>1. job.kind = "inspect"
    BY <1>5, <1>p DEF CondenseFindings, PlaceFits
  <2> QED
    BY <1>5, <1>g, <2>1 DEF CondenseFindings
<1>6. CASE StartBatch
  <2>1. pc = "start" /\ job.kind \in {"questions", "tasks"} /\ UNCHANGED <<route, job>>
        /\ (End("returned") \/ (pc' = job.kind /\ outcome' = outcome))
    BY <1>6 DEF StartBatch
  <2>2. CASE End("returned")
    BY <1>e, <2>1, <2>2
  <2>3. CASE pc' = job.kind /\ outcome' = outcome
    BY <1>g, <2>1, <2>3
  <2> QED
    BY <2>1, <2>2, <2>3
<1>7. CASE AskQuestions \/ AskTasks
  <2>1. pc \in {"questions", "tasks"} /\ UNCHANGED <<route, job>>
        /\ (End("budget") \/ UNCHANGED <<pc, outcome>>)
    BY <1>7 DEF AskQuestions, AskTasks, AskFirst
  <2>2. CASE End("budget")
    BY <1>e, <2>1, <2>2
  <2>3. CASE UNCHANGED <<pc, outcome>>
    BY <1>g, <2>1, <2>3
  <2> QED
    BY <2>1, <2>2, <2>3
<1>8. CASE BatchDone
  BY <1>8, <1>e DEF BatchDone
<1>9. CASE SplitNotes
  <2>1. pc = "reduce" /\ UNCHANGED <<route, job>> /\ route \in Routes
    BY <1>9 DEF SplitNotes, SentInv
  <2>2. CASE \E groups, limit : Splits(groups, limit)
    BY <1>g, <2>1, <2>2 DEF Splits
  <2> QED
    BY <1>9, <1>e, <2>1, <2>2, SplitGoes
<1>10. ASSUME NEW n \in AnswerLengths, ReduceCall(n) PROVE FinalKept'
  BY <1>10, <1>e, <1>g DEF ReduceCall
<1>11. CASE NestedReturn
  <2>1. pc = "return" /\ pc' \in {"return", "reduce"} /\ UNCHANGED <<route, job, outcome>>
    BY <1>11 DEF NestedReturn
  <2> QED
    BY <1>g, <2>1
<1>12. CASE InspectReturn
  BY <1>12, <1>e DEF InspectReturn
<1>13. CASE BundleRefused
  BY <1>13, BundleRefusedKept
<1>14. CASE StartFinalize
  BY <1>14, StartFinalizeKept
<1>15. CASE NotesReduced
  BY <1>15, NotesReducedKept
<1>16. CASE FinalCall
  BY <1>16, FinalCallGoes
<1>17. CASE CallFails
  BY <1>17, <1>e DEF CallFails
<1>18. CASE UNCHANGED vars
  <2>1. UNCHANGED <<route, job, pc, outcome, value>>
    BY <1>18 DEF vars
  <2>2. /\ NotesTooLong' = NotesTooLong /\ TooMuch' = TooMuch /\ Shardable' = Shardable
    BY <2>1, SameFinal
  <2>3. NotesAtMost(value)' = NotesAtMost(value)
    BY <2>1 DEF NotesAtMost, CountOf, Notes
  <2> QED
    BY <2>1, <2>2, <2>3 DEF FinalKept
<1> QED
  BY <1>1, <1>2, <1>3, <1>4, <1>5, <1>6, <1>7, <1>8, <1>9, <1>10, <1>11, <1>12, <1>13, <1>14,
     <1>15, <1>16, <1>17, <1>18 DEF Next

-----------------------------------------------------------------------------
\* A bundle that is refused can be sent in shards.

LEMMA ShardsPacked ==
  ASSUME job.bundle \in Seq(Nat), NEW chars
  PROVE  LET limit == chars - ShardReserve
         IN  Shards(chars) =
               IF \E i \in DOMAIN job.bundle : job.bundle[i] + 1 > limit THEN Null
               ELSE Closed(PackFold(job.bundle, LineCost, limit))
<1> DEFINE items == job.bundle
           limit == chars - ShardReserve
           n == Len(items)
           S == SUBSET (1 .. n)
           put(acc, line) ==
             IF acc.current # <<>> /\ acc.size + line + 1 > limit
             THEN [groups |-> Append(acc.groups, acc.current), current |-> <<line>>, size |-> line + 1]
             ELSE [acc EXCEPT !.current = Append(@, line), !.size = @ + line + 1]
           more(f, s) == IF s = {} THEN NoItems ELSE put(f[s \ {Max(s)}], items[Max(s)])
           last == (CHOOSE f : f = [s \in S |-> more(f, s)])[1 .. n]
           closed == IF last.current = <<>> THEN last.groups ELSE Append(last.groups, last.current)
<1>1. n \in Nat /\ DOMAIN items = 1 .. n /\ \A i \in 1 .. n : items[i] \in Nat
  OBVIOUS
<1>2. Shards(chars) = IF \E i \in DOMAIN items : items[i] + 1 > limit THEN Null ELSE closed
  BY <1>1 DEF Shards, FoldLeft, MapThenFoldSet, NoItems
<1> HIDE DEF n, limit
<1>3. ASSUME NEW f, NEW s \in S PROVE more(f, s) = PackStep(items, LineCost, limit, f, s)
  <2>1. CASE s = {}
    BY <2>1 DEF PackStep
  <2>2. CASE s # {}
    <3> DEFINE item == items[Max(s)]
               acc == f[s \ {Max(s)}]
    <3>1. Max(s) \in 1 .. n
      BY <1>1, <2>2, LastOf
    <3>2. item \in Nat
      BY <1>1, <3>1
    <3> HIDE DEF item, acc
    <3>3. LineCost[item] = item
      BY <3>2 DEF LineCost
    <3>4. put(acc, item) = PutIn(acc, item, LineCost, limit)
      BY <3>3 DEF PutIn
    <3> QED
      BY <2>2, <3>4 DEF PackStep, item, acc
  <2> QED
    BY <2>1, <2>2
<1>4. \A f : [s \in S |-> more(f, s)] = [s \in S |-> PackStep(items, LineCost, limit, f, s)]
  <2> HIDE DEF more, S
  <2> QED
    BY <1>3
<1>5. last = PackFold(items, LineCost, limit)
  <2> HIDE DEF more
  <2>1. (CHOOSE f : f = [s \in S |-> more(f, s)])
          = (CHOOSE f : f = [s \in S |-> PackStep(items, LineCost, limit, f, s)])
    BY <1>4
  <2> QED
    BY <2>1 DEF PackFold, n
<1> HIDE DEF last
<1>6. closed = Closed(PackFold(items, LineCost, limit))
  BY <1>5 DEF Closed
<1> QED
  BY <1>2, <1>6 DEF limit

LEMMA ShardsFit ==
  ASSUME route \in Routes, job \in Jobs, Shardable
  PROVE  /\ FlattenSeq(Shards(ShardChars)) = job.bundle
         /\ \A i \in DOMAIN Shards(ShardChars) :
              Joined(<<ShardReserve>> \o Shards(ShardChars)[i]) <= ShardChars
<1> DEFINE chars == ShardChars
           limit == chars - ShardReserve
           items == job.bundle
           shards == Shards(chars)
<1>1. items \in Seq(Nat) /\ FinalBudget \in Nat /\ shards # Null
  BY JobIs, FinalPartsAre DEF Shardable
<1>2. chars \in Nat /\ ShardReserve \in Nat
  <2> DEFINE tokens == AtLeast(MinBundle, FinalBudget)
             c == route.counter.chars
             k == route.counter.tokens
             e == IF route.counter.exact \/ c >= k THEN tokens ELSE (tokens * c) \div k
  <2>1. /\ MinBundle \in Nat /\ MinShard \in Nat /\ ShardReserve \in Nat
        /\ route.counter \in Counter
    BY JudgeAssumption, RouteIs
  <2>2. c \in Nat \ {0} /\ k \in Nat \ {0} /\ tokens \in Nat
    BY <1>1, <2>1 DEF Counter, AtLeast
  <2>3. chars = AtLeast(MinShard, e)
    BY DEF ShardChars
  <2> HIDE DEF tokens, c, k, chars
  <2>4. tokens * c \in Nat
    BY <2>2
  <2>5. (tokens * c) \div k \in Nat
    <3> DEFINE m == tokens * c
    <3>1. m \in Nat
      BY <2>4
    <3> HIDE DEF m
    <3>2. m \div k \in Nat
      BY <2>2, <3>1
    <3> QED
      BY <3>2 DEF m
  <2>6. e \in Nat
    BY <2>2, <2>5
  <2> HIDE DEF e
  <2> QED
    BY <2>1, <2>3, <2>6 DEF AtLeast
<1> HIDE DEF chars
<1>3. limit \in Int
  BY <1>2
<1>4. /\ shards = IF \E i \in DOMAIN items : items[i] + 1 > limit THEN Null
                  ELSE Closed(PackFold(items, LineCost, limit))
  BY <1>1, ShardsPacked
<1> HIDE DEF shards, items, limit
<1>5. \A i \in DOMAIN items : ~(items[i] + 1 > limit)
  BY <1>1, <1>4
<1>6. shards = Closed(PackFold(items, LineCost, limit))
  BY <1>4, <1>5
<1>7. IsCost(LineCost) /\ \A p \in Nat : LineCost[p] = p
  BY DEF IsCost, LineCost
<1>8. shards \in Seq(Seq(Nat)) /\ Packed(shards, items, LineCost, limit)
  <2>1. Nat \subseteq Nat
    OBVIOUS
  <2> QED
    BY <1>1, <1>3, <1>6, <1>7, <2>1, PackedIs
<1>9. AllSmall(items, LineCost, limit)
  <2> DEFINE n == Len(items)
  <2>1. n \in Nat /\ DOMAIN items = 1 .. n /\ \A j \in 1 .. n : items[j] \in Nat
    BY <1>1, LenProperties, ElementOfSeq
  <2> HIDE DEF n
  <2>2. ASSUME NEW j \in 1 .. n PROVE LineCost[items[j]] + 1 <= limit
    <3> DEFINE p == items[j]
    <3>1. p \in Nat /\ ~(p + 1 > limit)
      BY <1>5, <2>1
    <3> HIDE DEF p
    <3>2. p + 1 <= limit /\ LineCost[p] = p
      BY <1>3, <1>7, <3>1
    <3> QED
      BY <3>2 DEF p
  <2> QED
    BY <2>2 DEF AllSmall, n
<1>10. FlattenSeq(shards) = items /\ \A i \in 1 .. Len(shards) : Sum(Costs(LineCost, shards[i])) <= limit
  BY <1>8, <1>9 DEF Packed
<1>11. ASSUME NEW i \in DOMAIN shards PROVE Joined(<<ShardReserve>> \o shards[i]) <= chars
  <2>1. i \in 1 .. Len(shards) /\ shards[i] \in Seq(Nat)
    BY <1>8, <1>11, LenProperties, ElementOfSeq
  <2> DEFINE g == shards[i]
             t == <<ShardReserve>> \o g
             a == Sum(g)
             n == Len(g)
  <2>2. g \in Seq(Nat) /\ Sum(Costs(LineCost, g)) <= limit
    BY <1>10, <2>1
  <2> HIDE DEF g
  <2>3. a \in Nat /\ n \in Nat /\ Sum(Costs(LineCost, g)) = a + n
    BY <2>2, LinesCost
  <2>4. Sum(t) = ShardReserve + a /\ t \in Seq(Nat)
    BY <1>2, <2>2, SumOneMore
  <2>5. Len(t) = n + 1
    <3>1. <<ShardReserve>> \in Seq(Nat) /\ Len(<<ShardReserve>>) = 1
      BY <1>2
    <3>2. Len(t) = Len(<<ShardReserve>>) + n
      BY <2>2, <3>1, ConcatProperties
    <3> HIDE DEF t, n
    <3> QED
      BY <2>3, <3>1, <3>2
  <2> HIDE DEF t, a, n
  <2>6. t # <<>>
    BY <2>3, <2>5, EmptySeq
  <2>7. Joined(t) = Sum(t) + Len(t) - 1
    BY <2>6 DEF Joined
  <2>8. Joined(t) = ShardReserve + a + n
    BY <1>2, <2>3, <2>4, <2>5, <2>7
  <2>9. a + n <= limit
    BY <2>2, <2>3
  <2>10. Joined(t) <= chars
    BY <1>2, <2>3, <2>8, <2>9 DEF limit
  <2> QED
    BY <2>10 DEF t, g
<1> QED
  BY <1>10, <1>11 DEF shards, items, chars

\* What the preflight checks of a judge promise (preflight_block, and preflight_finalize with
\* shard_decision_bundle) is kept in every run, for all routes, jobs and reserves: a block
\* they accept is not refused for its size, a final judgment that fits is made, and the
\* shards of a bundle that is refused lose no line and fit.  Of a tokenizer it is assumed
\* that the counts of plain texts add up; an estimate needs no assumption.
THEOREM PreflightKept == TokenizersAddUp => (Spec => []PreflightIsKept)
<1> SUFFICES ASSUME TokenizersAddUp PROVE Spec => []PreflightIsKept
  OBVIOUS
<1> DEFINE IInv == SentInv /\ ReduceTyped /\ BlockKept /\ FinalKept
<1>1. Init => IInv
  BY SentInitially, TypedInitially, BlockInitially, FinalInitially
<1>2. IInv /\ [Next]_vars => IInv'
  BY SentPreserved, TypedPreserved, BlockPreserved, FinalPreserved
<1>3. IInv => PreflightIsKept
  <2> SUFFICES ASSUME IInv PROVE PreflightIsKept
    OBVIOUS
  <2>1. route \in Routes /\ job \in Jobs
    BY DEF SentInv
  <2>2. (job.kind = "inspect" /\ outcome = "budget") =>
          route.counter.exact \/ route.counter.tokens > route.counter.chars
    <3>1. route.counter.tokens \in Nat /\ route.counter.chars \in Nat
      BY <2>1, RouteIs DEF Counter
    <3> QED
      BY <3>1 DEF BlockKept, Estimate
  <2>3. outcome = "budget at the end" =>
          CountOf(BundleText) + CountOf(FinalPrompt - FinalPromptProbed)
            + AtLeast(CountOf(Placeholder), CountOf(Joined(job.notes)))
            + AtLeast(CountOf(Placeholder), CountOf(Joined(job.evidence))) > FinalBudget
    BY DEF FinalKept, TooMuch, Notes, Evidence
  <2>4. (job.kind = "finalize" /\ outcome = "refused") =>
           /\ FlattenSeq(Shards(ShardChars)) = job.bundle
           /\ \A i \in DOMAIN Shards(ShardChars) :
                Joined(<<ShardReserve>> \o Shards(ShardChars)[i]) <= ShardChars
    BY <2>1, ShardsFit DEF FinalKept
  <2> QED
    BY <2>2, <2>3, <2>4 DEF PreflightIsKept
<1> HIDE DEF IInv
<1> QED
  BY <1>1, <1>2, <1>3, PTL DEF Spec

-----------------------------------------------------------------------------
\* Powers of two, and sequences of groups.

LEMMA PowerIs ==
  /\ \A k \in Nat : PowerOfTwo[k] \in Nat \ {0}
  /\ PowerOfTwo[0] = 1
  /\ \A k \in Nat : PowerOfTwo[k + 1] = 2 * PowerOfTwo[k]
<1> DEFINE m == [k \in Nat |-> k]
           X == Nat \ {0}
           more(f, k) == IF k = 0 THEN 1 ELSE 2 * f[k - 1]
           step == [p \in Nat \X [Nat -> X] |-> more(p[2], p[1])]
<1>1. m \in [Nat -> Nat] /\ \A k \in Nat : m[k] = k
  OBVIOUS
<1> HIDE DEF m
<1>2. step \in Steps(Nat, X)
  <2>1. ASSUME NEW f \in [Nat -> X], NEW k \in Nat PROVE more(f, k) \in X
    <3>1. CASE k = 0
      BY <3>1
    <3>2. CASE k # 0
      <4>1. k - 1 \in Nat
        BY <3>2
      <4>2. f[k - 1] \in X
        BY <4>1
      <4> DEFINE x == f[k - 1]
      <4>3. x \in Nat /\ x # 0
        BY <4>2
      <4> HIDE DEF x
      <4>4. 2 * x \in Nat /\ 2 * x # 0
        BY <4>3
      <4> QED
        BY <3>2, <4>4 DEF x
    <3> QED
      BY <3>1, <3>2
  <2> HIDE DEF more, X
  <2> QED
    BY <2>1 DEF Steps
<1>3. StepIsLocal(Nat, m, X, step)
  <2>1. ASSUME NEW k \in Nat, NEW f \in [Nat -> X], NEW g \in [Nat -> X],
               \A u \in Nat : m[u] < m[k] => f[u] = g[u]
        PROVE  more(f, k) = more(g, k)
    <3>1. CASE k = 0
      BY <3>1
    <3>2. CASE k # 0
      <4>1. k - 1 \in Nat /\ k - 1 < k
        BY <3>2
      <4>2. f[k - 1] = g[k - 1]
        BY <1>1, <2>1, <4>1
      <4> QED
        BY <3>2, <4>2
    <3> QED
      BY <3>1, <3>2
  <2> HIDE DEF more, X
  <2> QED
    BY <2>1 DEF StepIsLocal
<1> HIDE DEF step
<1>4. PICK f \in [Nat -> X] : Solves(f, Nat, step)
  <2>1. 1 \in X
    OBVIOUS
  <2>2. X # {}
    BY <2>1
  <2> HIDE DEF X, more
  <2> QED
    BY <1>1, <1>2, <1>3, <2>2, RecursionDefined
<1>5. f = [k \in Nat |-> more(f, k)]
  <2>1. \A k \in Nat : f[k] = more(f, k)
    <3> HIDE DEF more, X
    <3> QED
      BY <1>4 DEF Solves, step
  <2> HIDE DEF more
  <2> QED
    BY <2>1
<1>6. PowerOfTwo = CHOOSE g : g = [k \in Nat |-> more(g, k)]
  BY DEF PowerOfTwo
<1>7. PowerOfTwo = [k \in Nat |-> more(PowerOfTwo, k)]
  <2> DEFINE g == PowerOfTwo
  <2>1. g = CHOOSE h : h = [k \in Nat |-> more(h, k)]
    BY <1>6
  <2> HIDE DEF g, more
  <2> QED
    BY <1>5, <2>1 DEF g
<1> DEFINE p == PowerOfTwo
<1>8. \A k \in Nat : p[k] = IF k = 0 THEN 1 ELSE 2 * p[k - 1]
  <2> DEFINE g == PowerOfTwo
  <2>1. g = [k \in Nat |-> more(g, k)]
    BY <1>7
  <2> HIDE DEF g
  <2>2. \A k \in Nat : g[k] = more(g, k)
    BY <2>1
  <2> QED
    BY <2>2 DEF g
<1> HIDE DEF p
<1>9. p[0] = 1
  BY <1>8
<1>10. ASSUME NEW k \in Nat PROVE p[k + 1] = 2 * p[k]
  <2>1. k + 1 \in Nat /\ k + 1 # 0 /\ k + 1 - 1 = k
    OBVIOUS
  <2> QED
    BY <1>8, <2>1
<1>11. \A k \in Nat : p[k] \in X
  <2> DEFINE P == {k \in Nat : p[k] \in X}
  <2>1. 0 \in P
    BY <1>9
  <2>2. ASSUME NEW k \in Nat, k \in P PROVE k + 1 \in P
    <3> DEFINE x == p[k]
    <3>1. x \in Nat /\ x # 0 /\ p[k + 1] = 2 * x
      BY <1>10, <2>2
    <3> HIDE DEF x
    <3>2. 2 * x \in Nat /\ 2 * x # 0
      BY <3>1
    <3> QED
      BY <3>1, <3>2
  <2> HIDE DEF P
  <2>3. Nat \subseteq P
    BY <2>1, <2>2, Upwards
  <2> QED
    BY <2>3 DEF P
<1> QED
  BY <1>9, <1>10, <1>11 DEF p

LEMMA PowersGrow ==
  ASSUME NEW i \in Nat, NEW j \in Nat, i <= j
  PROVE  PowerOfTwo[i] <= PowerOfTwo[j] /\ PowerOfTwo[i] \in Nat /\ PowerOfTwo[j] \in Nat
<1> DEFINE p == PowerOfTwo
           P == {d \in Nat : p[i] <= p[i + d]}
<1>1. \A k \in Nat : p[k] \in Nat /\ p[k + 1] = 2 * p[k]
  BY PowerIs
<1> HIDE DEF p
<1>2. 0 \in P
  <2>1. p[i] \in Nat /\ i + 0 = i
    BY <1>1
  <2> QED
    BY <2>1
<1>3. ASSUME NEW d \in Nat, d \in P PROVE d + 1 \in P
  <2> DEFINE k == i + d
  <2>1. k \in Nat /\ i + (d + 1) = k + 1
    OBVIOUS
  <2>2. p[k + 1] = 2 * p[k] /\ p[k] \in Nat /\ p[i] \in Nat /\ p[i] <= p[k]
    BY <1>1, <1>3, <2>1
  <2> HIDE DEF k
  <2> DEFINE x == p[k]
             y == p[i]
  <2>3. x \in Nat /\ y \in Nat /\ y <= x /\ p[k + 1] = 2 * x
    BY <2>2
  <2> HIDE DEF x, y
  <2>4. y <= 2 * x
    BY <2>3
  <2> QED
    BY <2>1, <2>3, <2>4 DEF y
<1> HIDE DEF P
<1>4. Nat \subseteq P
  BY <1>2, <1>3, Upwards
<1>5. j - i \in Nat /\ i + (j - i) = j
  OBVIOUS
<1>6. p[i] <= p[i + (j - i)]
  BY <1>4, <1>5 DEF P
<1> QED
  BY <1>1, <1>5, <1>6 DEF p

\* Groups of one note each.
LEMMA FlattenSingles ==
  ASSUME NEW notes \in Seq(Nat)
  PROVE  FlattenSeq([i \in DOMAIN notes |-> <<notes[i]>>]) = notes
<1> DEFINE Ones(s) == [i \in DOMAIN s |-> <<s[i]>>]
           P == {s \in Seq(Nat) : Ones(s) \in Seq(Seq(Nat)) /\ FlattenSeq(Ones(s)) = s}
<1>1. <<>> \in P
  <2>1. Ones(<<>>) = <<>> /\ <<>> \in Seq(Nat) /\ <<>> \in Seq(Seq(Nat))
    BY EmptySeq
  <2>2. FlattenSeq(<<>>) = <<>>
    BY DEF FlattenSeq
  <2> HIDE DEF Ones
  <2> QED
    BY <2>1, <2>2
<1>2. ASSUME NEW s \in Seq(Nat), NEW e \in Nat, s \in P PROVE Append(s, e) \in P
  <2> DEFINE t == Append(s, e)
             n == Len(s)
  <2>1. n \in Nat /\ DOMAIN s = 1 .. n /\ t \in Seq(Nat) /\ DOMAIN t = 1 .. n + 1 /\ Len(t) = n + 1
        /\ (\A i \in 1 .. n : t[i] = s[i]) /\ t[n + 1] = e
    BY AppendProperties, LenProperties
  <2>2. Ones(s) \in Seq(Seq(Nat)) /\ FlattenSeq(Ones(s)) = s
    BY <1>2
  <2>3. <<e>> \in Seq(Nat)
    BY OneOf
  <2> DEFINE g == <<e>>
             u == Append(Ones(s), g)
  <2> HIDE DEF t, n, g
  <2>o. Ones(s) = [i \in 1 .. n |-> <<s[i]>>] /\ Ones(t) = [i \in 1 .. n + 1 |-> <<t[i]>>]
    BY <2>1
  <2>l. Len(Ones(s)) = n /\ \A i \in 1 .. n : Ones(s)[i] = <<s[i]>>
    BY <2>1, <2>o
  <2> DEFINE os == Ones(s)
             ot == Ones(t)
  <2>p. os \in Seq(Seq(Nat)) /\ Len(os) = n /\ (\A i \in 1 .. n : os[i] = <<s[i]>>) /\ g \in Seq(Nat)
    BY <2>2, <2>3, <2>l DEF g
  <2>q. ot = [i \in 1 .. n + 1 |-> <<t[i]>>]
    BY <2>o
  <2> HIDE DEF os, ot, Ones
  <2> DEFINE v == Append(os, g)
  <2>4. v \in Seq(Seq(Nat)) /\ Len(v) = n + 1 /\ (\A i \in 1 .. n : v[i] = os[i]) /\ v[n + 1] = g
        /\ DOMAIN v = 1 .. n + 1
    BY <2>1, <2>p, AppendProperties
  <2> HIDE DEF v
  <2>5. ASSUME NEW i \in 1 .. n + 1 PROVE v[i] = <<t[i]>>
    <3>1. CASE i \in 1 .. n
      BY <2>1, <2>4, <2>p, <3>1
    <3>2. CASE i = n + 1
      BY <2>1, <2>4, <3>2 DEF g
    <3> QED
      BY <2>1, <3>1, <3>2
  <2>6. v = [i \in 1 .. n + 1 |-> v[i]]
    BY <2>1, <2>4
  <2>7. ot = v
    BY <2>5, <2>6, <2>q
  <2>8. FlattenSeq(v) = FlattenSeq(os) \o g
    BY <2>p, FlattenAppends DEF v
  <2>9. FlattenSeq(v) = s \o g
    BY <2>2, <2>8 DEF os
  <2>10. s \o g = t
    BY AppendIsConcat DEF g, t
  <2> QED
    BY <2>1, <2>4, <2>7, <2>9, <2>10 DEF ot, t, Ones
<1> HIDE DEF P
<1>3. Seq(Nat) \subseteq P
  BY <1>1, <1>2, ByAppending
<1>4. notes \in P
  BY <1>3
<1> QED
  BY <1>4 DEF P

\* No more groups than items.
LEMMA GroupsNotMore ==
  ASSUME NEW groups \in Seq(Seq(Nat)), \A i \in 1 .. Len(groups) : groups[i] # <<>>
  PROVE  Len(groups) \in Nat /\ Len(FlattenSeq(groups)) \in Nat /\ Len(groups) <= Len(FlattenSeq(groups))
<1> DEFINE Full(s) == \A i \in 1 .. Len(s) : s[i] # <<>>
           Good(s) == Full(s) => Len(s) <= Len(FlattenSeq(s))
           Q == {n \in Nat : \A s \in Seq(Seq(Nat)) : Len(s) = n => Good(s)}
<1>e. FlattenSeq(<<>>) = <<>> /\ Len(<<>>) = 0
  BY EmptySeq DEF FlattenSeq
<1>1. 0 \in Q
  <2>1. ASSUME NEW s \in Seq(Seq(Nat)), Len(s) = 0 PROVE Good(s)
    <3>1. s = <<>>
      BY <2>1, EmptySeq
    <3> QED
      BY <1>e, <3>1
  <2> HIDE DEF Good
  <2> QED
    BY <2>1
<1>2. ASSUME NEW n \in Nat, n \in Q PROVE n + 1 \in Q
  <2>1. ASSUME NEW s \in Seq(Seq(Nat)), Len(s) = n + 1, Full(s) PROVE Len(s) <= Len(FlattenSeq(s))
    <3> DEFINE r == Front(s)
               e == Last(s)
    <3>0. s # <<>>
      <4>1. n + 1 # 0
        OBVIOUS
      <4> QED
        BY <2>1, <4>1, EmptySeq
    <3>1. r \in Seq(Seq(Nat)) /\ e \in Seq(Nat) /\ s = Append(r, e)
      BY <3>0, FrontAndLast
    <3>2. e = s[n + 1]
      BY <2>1 DEF Last
    <3> HIDE DEF r, e
    <3> DEFINE k == Len(r)
               l == n + 1
    <3>l. l \in Nat /\ l = n + 1
      OBVIOUS
    <3>3. k \in Nat /\ Len(s) = k + 1 /\ \A i \in 1 .. k : s[i] = r[i]
      BY <3>1, AppendProperties, LenProperties
    <3> HIDE DEF k, l
    <3>4. k = n /\ l \in 1 .. l
      BY <2>1, <3>3, <3>l
    <3>5. e # <<>>
      BY <2>1, <3>2, <3>4, <3>l
    <3>6. Full(r)
      <4>1. \A i \in 1 .. k : r[i] # <<>>
        BY <2>1, <3>3, <3>4
      <4> QED
        BY <4>1 DEF k
    <3> DEFINE a == Len(FlattenSeq(r))
               b == Len(e)
    <3>7. Good(r)
      BY <1>2, <3>1, <3>4 DEF k
    <3>8. FlattenSeq(r) \in Seq(Nat) /\ FlattenSeq(s) = FlattenSeq(r) \o e
      BY <3>1, FlattenAppends
    <3>9. Len(FlattenSeq(s)) = a + b /\ a \in Nat /\ b \in Nat
      BY <3>1, <3>8, ConcatProperties, LenProperties
    <3>10. b # 0
      BY <3>1, <3>5, EmptySeq
    <3>11. k <= a
      BY <3>6, <3>7 DEF k
    <3> HIDE DEF a, b
    <3>12. k + 1 <= a + b
      BY <3>3, <3>9, <3>10, <3>11
    <3> QED
      BY <3>3, <3>9, <3>12
  <2> HIDE DEF Full
  <2> QED
    BY <2>1
<1>3. Nat \subseteq Q
  <2> HIDE DEF Q
  <2> QED
    BY <1>1, <1>2, Upwards
<1>4. Len(groups) \in Nat /\ FlattenSeq(groups) \in Seq(Nat)
  <2>1. <<>> \in Seq(Nat)
    BY EmptySeq
  <2> QED
    BY <2>1, FlattenAppends, LenProperties
<1>5. Good(groups)
  <2> HIDE DEF Good
  <2> QED
    BY <1>3, <1>4
<1>6. Len(FlattenSeq(groups)) \in Nat
  BY <1>4, LenProperties
<1> QED
  BY <1>4, <1>5, <1>6

-----------------------------------------------------------------------------
\* The levels of a reduction.

FirstLevel == IF job.kind = "inspect" THEN 0 ELSE 99

\* How often the prompt of a deeper level is longer.
Rest(level) == IF level < 10 THEN 2 ELSE IF level < 100 THEN 1 ELSE 0

\* The logarithm of the number of notes a call may have that has p calls around it.
Room(base, p) == MaxDepth - p - Rest(base + p)

PowerUpTo(n, r) == r \in Nat /\ n \in Nat /\ n <= PowerOfTwo[r]

LEMMA RestIs ==
  ASSUME NEW level \in Nat
  PROVE  /\ Rest(level) \in 0 .. 2 /\ Rest(level + 1) \in {Rest(level), Rest(level) - 1}
         /\ Rest(level + 1) = Rest(level) => NoteBudget(level + 1) = NoteBudget(level)
         /\ Rest(99) = 1 /\ Rest(0) = 2
<1>1. /\ Rest(level) \in 0 .. 2 /\ Rest(level + 1) \in {Rest(level), Rest(level) - 1}
      /\ Rest(99) = 1 /\ Rest(0) = 2
  <2>1. \A l \in Nat : Rest(l) = IF l < 10 THEN 2 ELSE IF l < 100 THEN 1 ELSE 0
    BY DEF Rest
  <2>2. level + 1 \in Nat /\ 99 \in Nat /\ 0 \in Nat
    OBVIOUS
  <2> DEFINE r == Rest(level)
             s == Rest(level + 1)
  <2>3. /\ r = IF level < 10 THEN 2 ELSE IF level < 100 THEN 1 ELSE 0
        /\ s = IF level + 1 < 10 THEN 2 ELSE IF level + 1 < 100 THEN 1 ELSE 0
    BY <2>1, <2>2
  <2>4. Rest(99) = 1 /\ Rest(0) = 2
    BY <2>1, <2>2
  <2> HIDE DEF r, s
  <2>5. r \in 0 .. 2 /\ s \in {r, r - 1}
    BY <2>3
  <2> QED
    BY <2>4, <2>5 DEF r, s
<1>2. ReducePrompt \in Nat
  BY JudgeAssumption
<1>3. \A l \in Nat : ReduceText(l) = ReducePrompt + 3 - Rest(l)
  BY <1>2 DEF ReduceText, Rest
<1>4. level + 1 \in Nat
  OBVIOUS
<1>5. Rest(level + 1) = Rest(level) => ReduceText(level + 1) = ReduceText(level)
  BY <1>3, <1>4
<1> QED
  BY <1>1, <1>5 DEF NoteBudget

LEMMA RoomIs ==
  ASSUME NEW base \in {0, 99}, NEW p \in Nat
  PROVE  /\ base + p \in Nat /\ base + (p + 1) = base + p + 1
         /\ Room(base, p) \in Int /\ Room(base, p) <= MaxDepth - p
         /\ Room(base, p + 1) \in {Room(base, p), Room(base, p) - 1}
         /\ Room(base, p + 1) = Room(base, p) - 1 => NoteBudget(base + (p + 1)) = NoteBudget(base + p)
         /\ Room(base, 0) >= MaxDepth - 2
<1>1. MaxDepth \in Nat /\ base \in Nat
  BY JudgeAssumption
<1> DEFINE l == base + p
           r == Rest(l)
           s == Rest(l + 1)
<1>2. l \in Nat /\ base + (p + 1) = l + 1
  BY <1>1
<1>3. r \in 0 .. 2 /\ s \in {r, r - 1} /\ (s = r => NoteBudget(l + 1) = NoteBudget(l))
  <2> HIDE DEF l
  <2> QED
    BY <1>2, RestIs
<1>4. Room(base, p) = MaxDepth - p - r /\ Room(base, p + 1) = MaxDepth - (p + 1) - s
  <2> HIDE DEF l
  <2>1. Room(base, p + 1) = MaxDepth - (p + 1) - Rest(base + (p + 1))
    BY DEF Room
  <2> QED
    BY <1>2, <2>1 DEF Room, l
<1>5. Room(base, 0) >= MaxDepth - 2
  <2>1. base + 0 = base
    BY <1>1
  <2>2. Rest(base) \in {1, 2}
    BY <1>1 DEF Rest
  <2>3. Room(base, 0) = MaxDepth - 0 - Rest(base)
    BY <2>1 DEF Room
  <2> DEFINE q == Rest(base)
  <2>4. q \in {1, 2} /\ Room(base, 0) = MaxDepth - 0 - q
    BY <2>2, <2>3
  <2> HIDE DEF q, Room
  <2> QED
    BY <1>1, <2>4
<1> HIDE DEF r, s, l, Room
<1>6. Room(base, p) \in Int /\ Room(base, p) <= MaxDepth - p
      /\ Room(base, p + 1) \in {Room(base, p), Room(base, p) - 1}
      /\ (Room(base, p + 1) = Room(base, p) - 1 => s = r)
  BY <1>1, <1>3, <1>4
<1> QED
  BY <1>2, <1>3, <1>5, <1>6 DEF l

-----------------------------------------------------------------------------
\* Short notes and answers are reduced in few calls.

Short ==
  \A level \in Levels : NoteBudget(level) # Null =>
    /\ \A n \in FirstNotes : ~(CountOf(n) + 1 > NoteBudget(level))
    /\ \A n \in answers : ~(2 * (CountOf(n) + 1) > NoteBudget(level))

\* What a call depends on: which notes are over the limit, the level of the first call,
\* and the notes there are.
Now == [over |-> {x \in Entry : OverLimit(x.notes, x.level)}, base |-> FirstLevel,
        first |-> FirstNotes, answers |-> answers]

NotesOf(now, d) == IF d = 0 THEN now.answers ELSE now.first

\* A call with p calls around it, on answers (0) or on first notes (1).
CallFits(now, notes, p) ==
  \E d \in {0, 1} :
    /\ \A i \in 1 .. Len(notes) : notes[i] \in NotesOf(now, d)
    /\ [notes |-> notes, level |-> now.base + p] \in now.over =>
         PowerUpTo(Len(notes), Room(now.base, p) - d)

FrameFits(now, f, p) ==
  ~f.tail =>
    /\ PowerUpTo(Len(f.reduced) + 1 + Len(f.todo), Room(now.base, p) - 1)
    /\ \A i \in 1 .. Len(f.reduced) : f.reduced[i] \in now.answers
    /\ \A i \in 1 .. Len(f.todo) : CallFits(now, f.todo[i], p + 1)

SlicesCounted ==
  /\ \A i \in 1 .. Len(findings) : findings[i] \in answers
  /\ slices \in Seq(Piece)
  /\ Len(findings) + Len(slices) <= AtLeast(1, Len(job.block.text))

LevelsFit ==
  /\ pc \notin {"reduce", "return"} => frames = <<>>
  /\ pc = "start" => findings = <<>>
  /\ Len(frames) <= MaxDepth
  /\ \A i \in 1 .. Len(frames) : frames[i].level = FirstLevel + (i - 1)
  /\ pc = "reduce" => enter.level = FirstLevel + Len(frames)
  /\ pc = "slices" => SlicesCounted

ShortEnds ==
  Short =>
    /\ \A i \in 1 .. Len(frames) : FrameFits(Now, frames[i], i - 1)
    /\ pc = "reduce" => CallFits(Now, enter.notes, Len(frames))
    /\ pc = "return" => value \in answers
    /\ outcome # "recursion"

LEMMA ShortEnough == SentInv /\ ShortEnds => ReductionEnds
<1> SUFFICES ASSUME ShortEnds, outcome = "recursion", ~ReductionEnds PROVE FALSE
  BY DEF ReductionEnds
<1>1. Short
  BY DEF ReductionEnds, Short
<1> QED
  BY <1>1 DEF ShortEnds

LEMMA FitsMore ==
  ASSUME NEW now, NEW then, then.over = now.over, then.base = now.base,
         now.first \subseteq then.first, now.answers \subseteq then.answers
  PROVE  /\ \A notes, p : CallFits(now, notes, p) => CallFits(then, notes, p)
         /\ \A f, p : FrameFits(now, f, p) => FrameFits(then, f, p)
<1>1. \A d \in {0, 1} : NotesOf(now, d) \subseteq NotesOf(then, d)
  BY DEF NotesOf
<1>2. ASSUME NEW notes, NEW p, CallFits(now, notes, p) PROVE CallFits(then, notes, p)
  <2>1. PICK d \in {0, 1} :
          /\ \A i \in 1 .. Len(notes) : notes[i] \in NotesOf(now, d)
          /\ [notes |-> notes, level |-> now.base + p] \in now.over =>
               PowerUpTo(Len(notes), Room(now.base, p) - d)
    BY <1>2 DEF CallFits
  <2>2. \A i \in 1 .. Len(notes) : notes[i] \in NotesOf(then, d)
    BY <1>1, <2>1
  <2> QED
    BY <2>1, <2>2 DEF CallFits
<1>3. ASSUME NEW f, NEW p, FrameFits(now, f, p) PROVE FrameFits(then, f, p)
  BY <1>2, <1>3 DEF FrameFits
<1> QED
  BY <1>2, <1>3

\* The answers and first notes only become more.
LEMMA NowGoesOn ==
  ASSUME UNCHANGED <<route, job>>, answers \subseteq answers'
  PROVE  /\ Now'.over = Now.over /\ Now'.base = Now.base
         /\ Now.first \subseteq Now'.first /\ Now.answers \subseteq Now'.answers
         /\ Short' => Short
<1>1. FirstLevel' = FirstLevel /\ Levels' = Levels
  BY DEF FirstLevel, Levels
<1>2. \A level : NoteBudget(level)' = NoteBudget(level)
  BY DEF NoteBudget, Tokens
<1>3. \A n : CountOf(n)' = CountOf(n)
  BY DEF CountOf
<1>4. \A notes, level : OverLimit(notes, level)' = OverLimit(notes, level)
  BY <1>2, <1>3 DEF OverLimit
<1>5. FirstNotes \subseteq FirstNotes'
  BY DEF FirstNotes
<1>6. Now' = [over |-> {x \in Entry : OverLimit(x.notes, x.level)'}, base |-> FirstLevel',
              first |-> FirstNotes', answers |-> answers']
  BY DEF Now
<1>7. {x \in Entry : OverLimit(x.notes, x.level)'} = {x \in Entry : OverLimit(x.notes, x.level)}
  BY <1>4
<1>8. Short' => Short
  BY <1>1, <1>2, <1>3, <1>5 DEF Short
<1> QED
  BY <1>1, <1>5, <1>6, <1>7, <1>8 DEF Now

\* Short notes are grouped as they are.
LEMMA ShortGroups ==
  ASSUME route \in Routes, NEW E, E \subseteq Nat, NEW notes \in Seq(E), NEW limit \in Nat,
         AllSmall(notes, NoteCost, limit),
         NEW groups, groups = Grouped(FlattenSeq(AllPieces(notes, limit)), limit)
  PROVE  /\ groups \in Seq(Seq(E)) /\ Packed(groups, notes, NoteCost, limit)
         /\ Len(groups) \in Nat /\ Len(groups) <= Len(notes)
<1>1. notes \in Seq(Nat)
  BY AccBelow
<1>2. AllPieces(notes, limit) = [i \in DOMAIN notes |-> <<notes[i]>>]
  <2>1. ASSUME NEW i \in DOMAIN notes PROVE PiecesOf(notes[i], limit) = <<notes[i]>>
    <3> DEFINE k == notes[i]
    <3>1. k \in Nat /\ i \in 1 .. Len(notes)
      BY <1>1, LenProperties, ElementOfSeq
    <3>2. NoteCost[k] + 1 <= limit
      BY <3>1 DEF AllSmall
    <3> HIDE DEF k
    <3>3. CountOf(k) + 1 <= limit
      BY <3>1, <3>2, CountOfIs
    <3>4. PiecesOf(k, limit) = <<k>>
      BY <3>1, <3>3, PiecesAre
    <3> QED
      BY <3>4 DEF k
  <2> QED
    BY <2>1 DEF AllPieces
<1>3. FlattenSeq(AllPieces(notes, limit)) = notes
  BY <1>1, <1>2, FlattenSingles
<1>4. groups \in Seq(Seq(E)) /\ Packed(groups, notes, NoteCost, limit)
  BY <1>3, GroupsOf
<1>5. groups \in Seq(Seq(Nat))
  BY <1>4, AccBelow
<1>6. FlattenSeq(groups) = notes /\ \A i \in 1 .. Len(groups) : groups[i] # <<>>
  BY <1>4 DEF Packed
<1>7. Len(groups) \in Nat /\ Len(groups) <= Len(notes)
  BY <1>5, <1>6, GroupsNotMore
<1> QED
  BY <1>4, <1>7

\* One short note is not over the limit.
LEMMA SeveralOver ==
  ASSUME route \in Routes, NEW notes \in Seq(Nat), NEW level \in Nat, OverLimit(notes, level),
         AllSmall(notes, NoteCost, NoteBudget(level))
  PROVE  Len(notes) \in Nat /\ Len(notes) >= 2
<1> DEFINE limit == NoteBudget(level)
           n == Len(notes)
<1>1. n \in Nat /\ n # 0 /\ limit \in Nat /\ Sum(Costs(NoteCost, notes)) > limit
  BY OverLimitIs, LenProperties, EmptySeq
<1>2. ASSUME n = 1 PROVE FALSE
  <2> DEFINE k == notes[1]
  <2>1. k \in Nat /\ notes = <<k>>
    <3>1. Len(notes) = 1 /\ 1 \in 1 .. Len(notes)
      BY <1>2
    <3>2. notes[1] \in Nat
      BY <3>1, ElementOfSeq
    <3> QED
      BY <3>1, <3>2, OneItem
  <2>2. NoteCost[k] + 1 <= limit
    BY <1>2 DEF AllSmall
  <2> HIDE DEF k
  <2>3. Sum(Costs(NoteCost, <<k>>)) = NoteCost[k] + 1
    BY <2>1, CountOfIs, OneCost DEF IsCost
  <2>4. NoteCost[k] \in Nat
    BY <2>1, CountOfIs
  <2> DEFINE c == NoteCost[k] + 1
  <2>5. c \in Nat /\ c <= limit /\ c > limit
    BY <1>1, <2>1, <2>2, <2>3, <2>4
  <2> HIDE DEF c, limit
  <2> QED
    BY <1>1, <2>5
<1> HIDE DEF n, limit
<1>3. n >= 2
  BY <1>1, <1>2
<1> QED
  BY <1>1, <1>3 DEF n

\* How much short notes and answers cost.
LEMMA ShortCosts ==
  ASSUME route \in Routes, Short, NEW level \in Levels, NoteBudget(level) \in Nat, NEW d \in {0, 1},
         NEW notes \in Seq(Nat), \A i \in 1 .. Len(notes) : notes[i] \in NotesOf(Now, d)
  PROVE  /\ AllSmall(notes, NoteCost, NoteBudget(level))
         /\ d = 0 => AllHalf(notes, NoteCost, NoteBudget(level))
<1> DEFINE limit == NoteBudget(level)
<1>n. limit # Null /\ limit \in Nat
  BY VocabularyAssumption
<1>1. /\ \A n \in FirstNotes : ~(CountOf(n) + 1 > limit)
      /\ \A n \in answers : ~(2 * (CountOf(n) + 1) > limit)
  BY <1>n DEF Short
<1>2. NotesOf(Now, 0) = answers /\ NotesOf(Now, 1) = FirstNotes
  BY DEF NotesOf, Now
<1> HIDE DEF limit
<1>3. ASSUME NEW i \in 1 .. Len(notes)
      PROVE  NoteCost[notes[i]] + 1 <= limit /\ (d = 0 => 2 * (NoteCost[notes[i]] + 1) <= limit)
  <2> DEFINE k == notes[i]
             c == CountOf(k)
  <2>1. k \in Nat /\ k \in NotesOf(Now, d)
    BY LenProperties, ElementOfSeq
  <2> HIDE DEF k
  <2>2. c \in Nat /\ NoteCost[k] = c
    BY <2>1, CountOfIs
  <2>3. (d = 0 /\ ~(2 * (c + 1) > limit)) \/ (d = 1 /\ ~(c + 1 > limit))
    BY <1>1, <1>2, <2>1
  <2> HIDE DEF c
  <2>4. c + 1 <= limit /\ (d = 0 => 2 * (c + 1) <= limit)
    BY <1>n, <2>2, <2>3
  <2> QED
    BY <2>2, <2>4 DEF k
<1> QED
  BY <1>3 DEF AllSmall, AllHalf, limit

LEMMA OverIs ==
  ASSUME NEW notes \in Seq(Nat), NEW level \in Nat
  PROVE  [notes |-> notes, level |-> level] \in Now.over <=> OverLimit(notes, level)
<1> DEFINE x == [notes |-> notes, level |-> level]
<1>1. x \in Entry /\ x.notes = notes /\ x.level = level
  BY DEF Entry
<1>2. Now.over = {y \in Entry : OverLimit(y.notes, y.level)}
  BY DEF Now
<1> HIDE DEF x
<1> QED
  BY <1>1, <1>2 DEF x

LEMMA LevelIs ==
  ASSUME NEW p \in 0 .. MaxDepth
  PROVE  FirstLevel \in {0, 99} /\ Now.base = FirstLevel /\ FirstLevel + p \in Levels /\ FirstLevel + p \in Nat
<1>1. MaxDepth \in Nat
  BY JudgeAssumption
<1>2. FirstLevel \in {0, 99} /\ Levels = FirstLevel .. FirstLevel + MaxDepth /\ Now.base = FirstLevel
  BY DEF FirstLevel, Levels, Now
<1> QED
  BY <1>1, <1>2

\* A call on more than one note has room for another, and its groups for theirs.
LEMMA GroupsHaveRoom ==
  ASSUME NEW n \in Nat, NEW g \in Nat, NEW r \in Int, NEW d \in {0, 1}, n >= 2, PowerUpTo(n, r - d),
         g <= n, d = 0 => 2 * g <= n + 1
  PROVE  r >= 1 /\ PowerUpTo(g, r - 1)
<1> DEFINE k == r - d
           p == PowerOfTwo[k]
<1>1. k \in Nat /\ n <= p
  BY DEF PowerUpTo
<1>2. p \in Nat /\ PowerOfTwo[0] = 1
  BY <1>1, PowerIs
<1>3. k # 0
  <2>1. k = 0 => p = 1
    BY <1>2
  <2> HIDE DEF k, p
  <2> QED
    BY <1>1, <1>2, <2>1
<1>4. r >= 1 /\ r - 1 \in Nat
  BY <1>1, <1>3
<1>5. CASE d = 1
  <2>1. r - 1 = k
    BY <1>5
  <2> HIDE DEF k, p
  <2>2. g <= p
    BY <1>1, <1>2
  <2> QED
    BY <1>4, <2>1, <2>2 DEF PowerUpTo, p
<1>6. CASE d = 0
  <2> DEFINE j == r - 1
             q == PowerOfTwo[j]
  <2>1. j \in Nat /\ j + 1 = k
    BY <1>4, <1>6
  <2> HIDE DEF j
  <2>2. PowerOfTwo[j + 1] = 2 * q /\ q \in Nat
    BY <2>1, PowerIs
  <2>3. p = 2 * q
    BY <2>1, <2>2
  <2> HIDE DEF k, p, q
  <2>4. g <= q
    BY <1>1, <1>2, <1>6, <2>2, <2>3
  <2> QED
    BY <1>4, <2>4 DEF PowerUpTo, q, j
<1> QED
  BY <1>4, <1>5, <1>6

\* A group of a call is within the limit of the call, and so of the next one, unless the
\* prompt of that one is longer; which happens twice at most.
LEMMA GroupFits ==
  ASSUME route \in Routes, NEW p \in Nat, p < MaxDepth, NEW d \in {0, 1},
         NEW notes \in Seq(Nat), PowerUpTo(Len(notes), Room(FirstLevel, p) - d),
         NEW g \in Seq(Nat), Len(g) <= Len(notes),
         \A i \in 1 .. Len(g) : g[i] \in NotesOf(Now, d),
         NoteBudget(FirstLevel + p) \in Nat,
         Sum(Costs(NoteCost, g)) <= NoteBudget(FirstLevel + p)
  PROVE  CallFits(Now, g, p + 1)
<1> DEFINE b == FirstLevel
           r == Room(b, p)
           s == Room(b, p + 1)
           l == b + p
           k == b + (p + 1)
           c == Sum(Costs(NoteCost, g))
           n == Len(g)
<1>0. MaxDepth \in Nat /\ p + 1 \in Nat /\ p \in 0 .. MaxDepth /\ p + 1 \in 0 .. MaxDepth
  <2>1. MaxDepth \in Nat
    BY JudgeAssumption
  <2> QED
    BY <2>1
<1>1. b \in {0, 99} /\ Now.base = b /\ l \in Nat /\ k \in Nat
  BY <1>0, LevelIs
<1>2. r \in Int /\ s \in {r, r - 1} /\ (s = r - 1 => NoteBudget(k) = NoteBudget(l))
  <2> HIDE DEF b
  <2> QED
    BY <1>1, RoomIs
<1>3. [notes |-> g, level |-> k] \in Now.over <=> OverLimit(g, k)
  BY <1>1, OverIs
<1>4. OverLimit(g, k) => NoteBudget(k) # Null /\ c > NoteBudget(k)
  BY <1>1, OverLimitIs
<1>5. c \in Nat /\ c <= NoteBudget(l) /\ NoteBudget(l) \in Nat
  BY NotesCost
<1>6. n \in Nat /\ Len(notes) \in Nat
  BY LenProperties
<1> HIDE DEF b, r, s, l, k, c
<1>7. ASSUME OverLimit(g, k) PROVE PowerUpTo(n, s - d)
  <2>1. NoteBudget(k) # NoteBudget(l)
    <3>1. ~(c > NoteBudget(l))
      BY <1>5
    <3> QED
      BY <1>4, <1>7, <3>1
  <2>2. s = r
    BY <1>2, <2>1
  <2>3. PowerUpTo(Len(notes), r - d)
    BY DEF r, b
  <2> DEFINE q == PowerOfTwo[r - d]
             m == Len(notes)
  <2>4. r - d \in Nat /\ m <= q
    BY <2>3 DEF PowerUpTo
  <2>5. q \in Nat
    BY <2>4, PowerIs
  <2>6. n <= m /\ m \in Nat
    BY <1>6
  <2> HIDE DEF q, m, n
  <2>7. n <= q
    BY <1>6, <2>4, <2>5, <2>6
  <2> QED
    BY <1>6, <2>2, <2>4, <2>7 DEF PowerUpTo, q
<1>8. \A i \in 1 .. n : g[i] \in NotesOf(Now, d)
  OBVIOUS
<1> QED
  BY <1>1, <1>3, <1>7, <1>8 DEF CallFits, s, k, b

\* What is known of a call that splits its notes.
Splitting(notes, p, level, d) ==
  /\ notes = enter.notes /\ notes \in Seq(Nat)
  /\ p = Len(frames) /\ p \in Nat /\ p < MaxDepth
  /\ level = FirstLevel + p /\ level = enter.level /\ level \in Nat /\ NoteBudget(level) \in Nat
  /\ d \in {0, 1} /\ \A i \in 1 .. Len(notes) : notes[i] \in NotesOf(Now, d)
  /\ PowerUpTo(Len(notes), Room(FirstLevel, p) - d)
  /\ AllSmall(notes, NoteCost, NoteBudget(level))
  /\ d = 0 => AllHalf(notes, NoteCost, NoteBudget(level))
  /\ Len(notes) >= 2

LEMMA SplitIsBounded ==
  ASSUME SentInv, ReduceTyped, LevelsFit, ShortEnds, Short, SplitNotes
  PROVE  \E notes, p, level, d : Splitting(notes, p, level, d)
<1> DEFINE notes == enter.notes
           p == Len(frames)
           level == enter.level
<1>0. MaxDepth \in Nat
  BY JudgeAssumption
<1>1. /\ route \in Routes /\ pc = "reduce" /\ notes \in Seq(Nat) /\ level \in Nat
      /\ OverLimit(notes, level) /\ frames \in Seq(Frame)
  BY DEF SplitNotes, SentInv, ReduceTyped, Entry
<1>2. p \in Nat /\ p <= MaxDepth /\ level = FirstLevel + p
  BY <1>1, LenProperties DEF LevelsFit
<1>3. p \in 0 .. MaxDepth
  <2> HIDE DEF p
  <2> QED
    BY <1>0, <1>2
<1>4. level \in Levels /\ FirstLevel \in {0, 99} /\ Now.base = FirstLevel
  BY <1>2, <1>3, LevelIs
<1>5. NoteBudget(level) \in Nat
  BY <1>1, OverLimitIs
<1>6. CallFits(Now, notes, p)
  BY <1>1 DEF ShortEnds
<1>7. [notes |-> notes, level |-> FirstLevel + p] \in Now.over
  BY <1>1, <1>2, OverIs
<1> HIDE DEF notes, p, level
<1>8. PICK d \in {0, 1} : /\ \A i \in 1 .. Len(notes) : notes[i] \in NotesOf(Now, d)
                          /\ PowerUpTo(Len(notes), Room(FirstLevel, p) - d)
  BY <1>4, <1>6, <1>7 DEF CallFits
<1>9. AllSmall(notes, NoteCost, NoteBudget(level)) /\ (d = 0 => AllHalf(notes, NoteCost, NoteBudget(level)))
  BY <1>1, <1>4, <1>5, <1>8, ShortCosts
<1>10. Len(notes) \in Nat /\ Len(notes) >= 2
  BY <1>1, <1>9, SeveralOver
<1>11. p < MaxDepth
  <2> DEFINE n == Len(notes)
             r == Room(FirstLevel, p)
             q == PowerOfTwo[r - d]
  <2>1. r \in Int /\ r <= MaxDepth - p
    BY <1>2, <1>4, RoomIs
  <2>2. r - d \in Nat /\ n <= q
    BY <1>8 DEF PowerUpTo
  <2>3. PowerOfTwo[0] = 1
    BY PowerIs
  <2>4. r - d = 0 => q = 1
    BY <2>3
  <2> HIDE DEF r, q, n
  <2>5. n \in Nat /\ n >= 2
    BY <1>10 DEF n
  <2>6. r - d # 0
    BY <2>2, <2>4, <2>5
  <2> QED
    BY <1>0, <1>2, <1>3, <2>1, <2>2, <2>6
<1>12. Splitting(notes, p, level, d)
  BY <1>1, <1>2, <1>5, <1>8, <1>9, <1>10, <1>11 DEF Splitting, notes, p, level
<1> QED
  BY <1>12

LEMMA SplitEnds ==
  ASSUME SentInv, ReduceTyped, LevelsFit, ShortEnds, Short, SplitNotes
  PROVE  /\ ~(Len(frames) = MaxDepth /\ End("recursion"))
         /\ \A groups, limit : Splits(groups, limit) =>
              \E f, g : /\ frames' = Append(frames, f) /\ f \in Frame /\ f.level = enter.level
                        /\ enter' = [notes |-> g, level |-> enter.level + 1]
                        /\ FrameFits(Now, f, Len(frames)) /\ CallFits(Now, g, Len(frames) + 1)
                        /\ Len(frames) < MaxDepth /\ pc' = pc /\ outcome' = outcome
<1>1. PICK notes, p, level, d : Splitting(notes, p, level, d)
  BY SplitIsBounded
<1>r. route \in Routes /\ MaxDepth \in Nat
  BY JudgeAssumption DEF SentInv
<1>2. ~(Len(frames) = MaxDepth)
  BY <1>1, <1>r DEF Splitting
<1>3. ASSUME NEW groups, NEW limit, Splits(groups, limit)
      PROVE  \E f, g : /\ frames' = Append(frames, f) /\ f \in Frame /\ f.level = enter.level
                       /\ enter' = [notes |-> g, level |-> enter.level + 1]
                       /\ FrameFits(Now, f, Len(frames)) /\ CallFits(Now, g, Len(frames) + 1)
                       /\ Len(frames) < MaxDepth /\ pc' = pc /\ outcome' = outcome
  <2>1. /\ limit \in Nat /\ limit = NoteBudget(level) /\ groups # <<>>
        /\ groups = Grouped(FlattenSeq(AllPieces(notes, limit)), limit)
        /\ frames' = Append(frames, [level |-> level, todo |-> Tail(groups), reduced |-> <<>>, tail |-> FALSE])
        /\ enter' = [notes |-> Head(groups), level |-> level + 1]
        /\ pc' = pc /\ outcome' = outcome /\ level = enter.level /\ p = Len(frames) /\ p < MaxDepth
        /\ p \in Nat /\ level \in Nat /\ level = FirstLevel + p
    BY <1>1, <1>3 DEF Splits, Splitting
  <2> DEFINE E == NotesOf(Now, d) \cap Nat
  <2>2. E \subseteq Nat /\ notes \in Seq(Nat) /\ notes \in Seq(E)
    <3>1. notes \in Seq(Nat) /\ \A i \in 1 .. Len(notes) : notes[i] \in NotesOf(Now, d)
      BY <1>1 DEF Splitting
    <3>2. \A i \in 1 .. Len(notes) : notes[i] \in E
      BY <3>1, LenProperties, ElementOfSeq
    <3>3. Len(notes) \in Nat /\ notes = [i \in 1 .. Len(notes) |-> notes[i]]
      BY <3>1, LenProperties
    <3> HIDE DEF E
    <3>4. notes \in Seq(E)
      BY <3>2, <3>3
    <3> QED
      BY <3>1, <3>4 DEF E
  <2> HIDE DEF E
  <2>3. AllSmall(notes, NoteCost, limit) /\ (d = 0 => AllHalf(notes, NoteCost, limit))
    BY <1>1, <2>1 DEF Splitting
  <2>4. /\ groups \in Seq(Seq(E)) /\ Packed(groups, notes, NoteCost, limit)
        /\ Len(groups) \in Nat /\ Len(groups) <= Len(notes)
    BY <1>r, <2>1, <2>2, <2>3, ShortGroups
  <2>5. groups \in Seq(Seq(Nat))
    BY <2>2, <2>4, AccBelow
  <2>6. /\ \A i \in 1 .. Len(groups) : Len(groups[i]) <= Len(notes)
        /\ \A i \in 1 .. Len(groups) : Sum(Costs(NoteCost, groups[i])) <= limit
        /\ d = 0 => 2 * Len(groups) <= Len(notes) + 1
    BY <2>3, <2>4 DEF Packed
  <2>7. ASSUME NEW i \in 1 .. Len(groups) PROVE CallFits(Now, groups[i], p + 1)
    <3> DEFINE g == groups[i]
    <3>1. g \in Seq(Nat) /\ g \in Seq(E)
      BY <2>4, <2>5, ElementOfSeq
    <3>2. Len(g) <= Len(notes) /\ Sum(Costs(NoteCost, g)) <= limit
      BY <2>6
    <3> HIDE DEF g
    <3>3. \A j \in 1 .. Len(g) : g[j] \in NotesOf(Now, d)
      <4>1. \A j \in 1 .. Len(g) : g[j] \in E
        BY <3>1, ElementOfSeq
      <4> QED
        BY <4>1 DEF E
    <3>4. d \in {0, 1} /\ PowerUpTo(Len(notes), Room(FirstLevel, p) - d)
      BY <1>1 DEF Splitting
    <3>5. NoteBudget(FirstLevel + p) \in Nat /\ Sum(Costs(NoteCost, g)) <= NoteBudget(FirstLevel + p)
      BY <2>1, <3>2
    <3> QED
      BY <1>r, <2>1, <2>2, <3>1, <3>2, <3>3, <3>4, <3>5, GroupFits DEF g
  <2> DEFINE h == Head(groups)
             t == Tail(groups)
             f == [level |-> level, todo |-> t, reduced |-> <<>>, tail |-> FALSE]
             m == Len(groups)
             n == Len(notes)
             r == Room(FirstLevel, p)
  <2>8. /\ h = groups[1] /\ t \in Seq(Seq(Nat)) /\ Len(t) = m - 1 /\ m \in Nat /\ m # 0 /\ 1 \in 1 .. m
        /\ \A i \in 1 .. m - 1 : t[i] = groups[i + 1]
    <3>1. m \in Nat /\ m # 0
      BY <2>1, <2>4, <2>5, EmptySeq
    <3>2. 1 \in 1 .. m
      <4> HIDE DEF m
      <4> QED
        BY <3>1
    <3>3. /\ h = groups[1] /\ t \in Seq(Seq(Nat)) /\ Len(t) = m - 1
          /\ \A i \in 1 .. m - 1 : t[i] = groups[i + 1]
      BY <2>1, <2>5, HeadTailProperties
    <3> QED
      BY <3>1, <3>2, <3>3
  <2>9. CallFits(Now, h, p + 1)
    BY <2>7, <2>8
  <2>10. \A i \in 1 .. Len(t) : CallFits(Now, t[i], p + 1)
    <3> HIDE DEF m, t
    <3>1. ASSUME NEW i \in 1 .. m - 1 PROVE CallFits(Now, t[i], p + 1)
      <4>1. i + 1 \in 1 .. m
        BY <2>8
      <4>2. CallFits(Now, groups[i + 1], p + 1)
        BY <2>7, <4>1 DEF m
      <4> QED
        BY <2>8, <4>2
    <3> QED
      BY <2>8, <3>1
  <2>11. PowerUpTo(m, r - 1)
    <3>1. n \in Nat /\ n >= 2 /\ PowerUpTo(n, r - d) /\ d \in {0, 1}
      BY <1>1, LenProperties DEF Splitting
    <3>2. FirstLevel \in {0, 99}
      BY DEF FirstLevel
    <3>3. r \in Int
      BY <2>1, <3>2, RoomIs
    <3>4. m \in Nat /\ m <= n /\ (d = 0 => 2 * m <= n + 1)
      BY <2>4, <2>6
    <3> HIDE DEF m, n, r
    <3> QED
      BY <3>1, <3>3, <3>4, GroupsHaveRoom
  <2>12. f.tail = FALSE /\ f.todo = t /\ f.reduced = <<>> /\ f.level = level /\ f \in Frame
    <3> HIDE DEF t
    <3>1. <<>> \in Seq(Nat)
      BY EmptySeq
    <3> QED
      BY <2>1, <2>8, <3>1 DEF Frame
  <2> HIDE DEF f, t, m, n, r, h
  <2>13. FrameFits(Now, f, p)
    <3>1. Len(<<>>) = 0 /\ 0 + 1 + (m - 1) = m
      BY <2>8
    <3>2. Len(f.reduced) + 1 + Len(f.todo) = m
      BY <2>8, <2>12, <3>1
    <3>3. Now.base = FirstLevel
      BY DEF Now
    <3>4. \A i \in 1 .. Len(f.reduced) : f.reduced[i] \in Now.answers
      BY <2>12, <3>1
    <3> QED
      BY <2>10, <2>11, <2>12, <3>2, <3>3, <3>4 DEF FrameFits, r
  <2>14. frames' = Append(frames, f) /\ enter' = [notes |-> h, level |-> level + 1]
    BY <2>1 DEF f, h, t
  <2> QED
    BY <2>1, <2>9, <2>12, <2>13, <2>14
<1> QED
  BY <1>2, <1>3

-----------------------------------------------------------------------------
\* LevelsFit is kept by every step.

LEMMA LevelsNext ==
  ASSUME UNCHANGED job, NEW fs, frames' = fs, Len(fs) <= MaxDepth,
         \A i \in 1 .. Len(fs) : fs[i].level = FirstLevel + (i - 1),
         pc' \notin {"reduce", "return"} => fs = <<>>, pc' # "start",
         pc' = "reduce" => enter'.level = FirstLevel + Len(fs),
         pc' = "slices" => SlicesCounted'
  PROVE  LevelsFit'
<1>1. FirstLevel' = FirstLevel
  BY DEF FirstLevel
<1> QED
  BY <1>1 DEF LevelsFit

LEMMA NoFrames ==
  /\ <<>> \in Seq(Frame) /\ Len(<<>>) = 0 /\ Len(<<>>) <= MaxDepth
  /\ \A i \in 1 .. Len(<<>>) : FALSE
<1>1. MaxDepth \in Nat
  BY JudgeAssumption
<1> QED
  BY <1>1

LEMMA EndLevels == ASSUME NEW how, End(how), UNCHANGED job PROVE LevelsFit'
<1>1. frames' = <<>> /\ pc' = "done"
  BY DEF End
<1> QED
  BY <1>1, NoFrames, LevelsNext

LEMMA FramesStay ==
  ASSUME LevelsFit, UNCHANGED <<job, frames>>,
         pc' \notin {"reduce", "return"} => frames = <<>>, pc' # "start",
         pc' = "reduce" => enter'.level = FirstLevel + Len(frames),
         pc' = "slices" => SlicesCounted'
  PROVE  LevelsFit'
<1>1. Len(frames) <= MaxDepth /\ \A i \in 1 .. Len(frames) : frames[i].level = FirstLevel + (i - 1)
  BY DEF LevelsFit
<1>2. PICK fs : fs = frames
  OBVIOUS
<1> QED
  BY <1>1, <1>2, LevelsNext

LEMMA StartInspectLevels == ASSUME SentInv, LevelsFit, StartInspect PROVE LevelsFit'
<1> DEFINE whole == <<[from |-> 0, to |-> Len(job.block.text)]>>
           parts == IF SourceBudget = Null THEN whole
                    ELSE SplitText(route.counter, job.block.text, SourceBudget, OverlapChars)
           n == Len(job.block.text)
<1>1. /\ pc = "start" /\ UNCHANGED <<route, job, answers>>
      /\ End("budget") \/ (parts # Null /\ slices' = parts /\ pc' = "slices"
                           /\ UNCHANGED <<findings, frames>>)
  BY DEF StartInspect, reduction
<1>2. findings = <<>> /\ frames = <<>>
  BY <1>1 DEF LevelsFit
<1>3. /\ route.counter \in Counter /\ job.block.text \in Text /\ n \in Nat /\ OverlapChars \in Nat
      /\ SourceBudget \in Nat \cup {Null}
  BY RouteIs, JobIs, JudgeAssumption, SourceBudgetIs DEF SentInv
<1>4. AtLeast(1, n) >= 1 /\ AtLeast(1, n) \in Nat
  BY <1>3 DEF AtLeast
<1>5. ASSUME parts # Null PROVE parts \in Seq(Piece) /\ Len(parts) <= AtLeast(1, n)
  <2>1. CASE SourceBudget = Null
    <3>1. Gapless(whole, 0, n) /\ Len(whole) = 1
      BY <1>3, OneSlice
    <3>2. parts = whole
      BY <2>1
    <3> HIDE DEF whole, parts, n
    <3> QED
      BY <1>4, <3>1, <3>2 DEF Gapless
  <2>2. CASE SourceBudget # Null
    <3> DEFINE split == SplitText(route.counter, job.block.text, SourceBudget, OverlapChars)
    <3>1. parts = split
      BY <2>2
    <3>2. SourceBudget \in Nat
      BY <1>3, <2>2
    <3>3. split # Null => Gapless(split, 0, n) /\ Len(split) <= AtLeast(1, n)
      BY <1>3, <3>2, SplitTextIs
    <3> HIDE DEF split, parts, n
    <3> QED
      BY <1>5, <3>1, <3>3 DEF Gapless
  <2> QED
    BY <2>1, <2>2
<1>6. CASE End("budget")
  BY <1>1, <1>6, EndLevels
<1>7. CASE parts # Null /\ slices' = parts /\ pc' = "slices" /\ UNCHANGED <<findings, frames>>
  <2>1. PICK p : p = parts
    OBVIOUS
  <2>2. p \in Seq(Piece) /\ Len(p) <= AtLeast(1, n) /\ slices' = p /\ Len(p) \in Nat
    BY <1>5, <1>7, <2>1, LenProperties
  <2>3. findings' = <<>> /\ Len(<<>>) = 0 /\ 0 + Len(p) = Len(p)
    BY <1>2, <1>7, <2>2
  <2>4. Len(findings') + Len(slices') <= AtLeast(1, n)
    BY <2>2, <2>3
  <2>5. SlicesCounted'
    BY <1>1, <2>2, <2>3, <2>4 DEF SlicesCounted
  <2> QED
    BY <1>1, <1>2, <1>7, <2>5, FramesStay
<1> HIDE DEF parts
<1> QED
  BY <1>1, <1>6, <1>7

LEMMA SendSliceLevels ==
  ASSUME SentInv, ReduceTyped, LevelsFit, NEW k \in AnswerLengths, SendSlice(k)
  PROVE  LevelsFit'
<1>1. pc = "slices" /\ slices # <<>> /\ UNCHANGED <<route, job>>
  BY DEF SendSlice
<1>2. CASE End("budget")
  BY <1>1, <1>2, EndLevels
<1>3. CASE /\ answers' = answers \cup {k} /\ findings' = Append(findings, k) /\ slices' = Tail(slices)
           /\ UNCHANGED <<pc, frames>>
  <2>1. SlicesCounted /\ frames = <<>> /\ findings \in Seq(Nat) /\ k \in Nat
    BY <1>1, JudgeAssumption DEF LevelsFit, ReduceTyped
  <2> DEFINE m == Len(findings)
             l == Len(slices)
             a == AtLeast(1, Len(job.block.text))
  <2>2. PICK rest, fs : rest = Tail(slices) /\ fs = Append(findings, k)
    OBVIOUS
  <2>3. rest \in Seq(Piece) /\ Len(rest) = l - 1 /\ l \in Nat
    BY <1>1, <2>1, <2>2, HeadTailProperties, LenProperties DEF SlicesCounted
  <2>4. Len(fs) = m + 1 /\ m \in Nat /\ (\A i \in 1 .. m : fs[i] = findings[i]) /\ fs[m + 1] = k
    BY <2>1, <2>2, AppendProperties, LenProperties
  <2>5. m + l <= a /\ \A i \in 1 .. m : findings[i] \in answers
    BY <2>1 DEF SlicesCounted
  <2>f. AtLeast(1, Len(job.block.text))' = a
    BY <1>1
  <2> HIDE DEF m, l, a
  <2>6. Len(fs) + Len(rest) <= a
    <3>1. (m + 1) + (l - 1) = m + l
      BY <2>3, <2>4
    <3> QED
      BY <2>3, <2>4, <2>5, <3>1
  <2>7. \A i \in 1 .. Len(fs) : fs[i] \in answers'
    <3>1. \A i \in 1 .. m + 1 : i \in 1 .. m \/ i = m + 1
      BY <2>4
    <3> QED
      BY <1>3, <2>4, <2>5, <3>1
  <2>8. SlicesCounted'
    BY <1>3, <2>2, <2>3, <2>6, <2>7, <2>f DEF SlicesCounted
  <2> QED
    BY <1>1, <1>3, <2>1, <2>8, FramesStay
<1> QED
  BY <1>1, <1>2, <1>3 DEF SendSlice, reduction

LEMMA LevelsInitially == Init => LevelsFit
<1> SUFFICES ASSUME Init PROVE LevelsFit
  OBVIOUS
<1>1. frames = <<>> /\ findings = <<>> /\ pc = "start"
  BY DEF Init
<1> QED
  BY <1>1, NoFrames DEF LevelsFit

LEMMA SplitLevels == ASSUME SentInv, ReduceTyped, LevelsFit, SplitNotes PROVE LevelsFit'
<1>1. route \in Routes /\ UNCHANGED job /\ pc = "reduce" /\ frames \in Seq(Frame) /\ enter \in Entry
  BY DEF SentInv, SplitNotes, ReduceTyped
<1>2. ASSUME NEW how, End(how) PROVE LevelsFit'
  BY <1>1, <1>2, EndLevels
<1>3. ASSUME NEW groups, NEW limit, Splits(groups, limit) PROVE LevelsFit'
  <2> DEFINE f == [level |-> enter.level, todo |-> Tail(groups), reduced |-> <<>>, tail |-> FALSE]
             p == Len(frames)
  <2>1. frames' = Append(frames, f) /\ enter'.level = enter.level + 1 /\ pc' = "reduce" /\ p # MaxDepth
    BY <1>1, <1>3 DEF Splits
  <2>2. p \in Nat /\ p <= MaxDepth /\ enter.level = FirstLevel + p /\ FirstLevel \in Nat /\ MaxDepth \in Nat
    BY <1>1, LenProperties, JudgeAssumption DEF LevelsFit, FirstLevel
  <2>3. f \in Frame /\ f.level = enter.level
    <3>1. Tail(groups) \in Seq(Seq(Nat)) /\ <<>> \in Seq(Nat) /\ enter.level \in Nat
      BY <1>1, <1>3, HeadAndTail, EmptySeq DEF Splits, Entry
    <3> QED
      BY <3>1 DEF Frame
  <2> HIDE DEF f
  <2>4. PICK fs : fs = Append(frames, f)
    OBVIOUS
  <2>5. Len(fs) = p + 1 /\ fs[p + 1] = f /\ \A i \in 1 .. p : fs[i] = frames[i]
    BY <1>1, <2>3, <2>4, AppendProperties
  <2>6. \A i \in 1 .. p : frames[i].level = FirstLevel + (i - 1)
    BY DEF LevelsFit
  <2> HIDE DEF p
  <2>7. p + 1 <= MaxDepth /\ enter.level + 1 = FirstLevel + (p + 1)
    BY <2>1, <2>2
  <2>8. ASSUME NEW i \in 1 .. p + 1 PROVE fs[i].level = FirstLevel + (i - 1)
    <3>1. CASE i \in 1 .. p
      BY <2>5, <2>6, <3>1
    <3>2. CASE i = p + 1
      <4>1. fs[i] = f /\ FirstLevel + (i - 1) = FirstLevel + p
        BY <2>2, <2>5, <3>2
      <4> QED
        BY <2>2, <2>3, <4>1
    <3> QED
      BY <2>2, <3>1, <3>2
  <2> QED
    BY <1>1, <2>1, <2>4, <2>5, <2>7, <2>8, LevelsNext
<1> QED
  BY <1>1, <1>2, <1>3, SplitGoes

LEMMA ReturnLevels == ASSUME SentInv, ReduceTyped, LevelsFit, NestedReturn PROVE LevelsFit'
<1> DEFINE rest == Front(frames)
           q == Len(rest)
           p == Len(frames)
<1>1. UNCHANGED job /\ pc = "return" /\ frames \in Seq(Frame) /\ frames # <<>>
  BY DEF NestedReturn, ReduceTyped
<1>2. rest \in Seq(Frame) /\ frames = Append(rest, Last(frames)) /\ p = q + 1 /\ q \in Nat
  BY <1>1, FrontAndLast, LenProperties
<1>3. (\A i \in 1 .. q : frames[i] = rest[i]) /\ frames[q + 1] = Last(frames)
  BY <1>1, <1>2, FrontAndLast, AppendProperties
<1>4. p <= MaxDepth /\ MaxDepth \in Nat /\ FirstLevel \in Nat
      /\ \A i \in 1 .. p : frames[i].level = FirstLevel + (i - 1)
  BY JudgeAssumption DEF LevelsFit, FirstLevel
<1> HIDE DEF rest, p, q
<1>5. q <= MaxDepth /\ q + 1 \in 1 .. p /\ \A i \in 1 .. q : i \in 1 .. p
  BY <1>2, <1>4
<1>6. \A i \in 1 .. q : rest[i].level = FirstLevel + (i - 1)
  BY <1>3, <1>4, <1>5
<1>7. CASE frames' = rest /\ UNCHANGED <<pc, enter, value>>
  <2>1. Len(rest) = q
    BY DEF q
  <2> QED
    BY <1>1, <1>5, <1>6, <1>7, <2>1, LevelsNext
<1>8. ASSUME NEW f \in Frame, NEW g \in Frame, Resumes(f, g) PROVE LevelsFit'
  <2>1. frames' = Append(rest, g) /\ f = frames[q + 1] /\ g.level = f.level /\ pc' = "reduce"
        /\ enter'.level = f.level + 1
    BY <1>3, <1>8 DEF Resumes, rest
  <2>2. f.level = FirstLevel + q
    <3>1. f.level = FirstLevel + ((q + 1) - 1)
      BY <1>4, <1>5, <2>1
    <3> QED
      BY <1>2, <3>1
  <2>3. PICK fs : fs = Append(rest, g)
    OBVIOUS
  <2>4. Len(fs) = q + 1 /\ fs[q + 1] = g /\ \A i \in 1 .. q : fs[i] = rest[i]
    BY <1>2, <2>3, AppendProperties DEF q
  <2>5. ASSUME NEW i \in 1 .. q + 1 PROVE fs[i].level = FirstLevel + (i - 1)
    <3>1. CASE i \in 1 .. q
      BY <1>6, <2>4, <3>1
    <3>2. CASE i = q + 1
      <4>1. fs[i] = g /\ FirstLevel + (i - 1) = FirstLevel + q
        BY <1>2, <1>4, <2>4, <3>2
      <4> QED
        BY <2>1, <2>2, <4>1
    <3> QED
      BY <1>2, <3>1, <3>2
  <2>6. f.level + 1 = FirstLevel + (q + 1)
    BY <1>2, <1>4, <2>2
  <2>7. q + 1 <= MaxDepth
    BY <1>2, <1>4
  <2> QED
    BY <1>1, <2>1, <2>3, <2>4, <2>5, <2>6, <2>7, LevelsNext
<1> QED
  BY <1>7, <1>8, ReturnGoes DEF rest

\* Every step keeps the levels, whatever the length of notes and answers.
LEMMA LevelsPreserved == SentInv /\ ReduceTyped /\ LevelsFit /\ [Next]_vars => LevelsFit'
<1> SUFFICES ASSUME SentInv, ReduceTyped, LevelsFit, [Next]_vars PROVE LevelsFit'
  OBVIOUS
<1>r. route \in Routes /\ job.kind \in Kinds /\ PlaceFits
  BY JobIs DEF SentInv
<1>f. pc \notin {"reduce", "return"} => frames = <<>>
  BY DEF LevelsFit
<1>e. ASSUME NEW how, End(how), UNCHANGED job PROVE LevelsFit'
  BY <1>e, EndLevels
<1>1. CASE Refuse
  BY <1>1, <1>e DEF Refuse
<1>2. CASE StartInspect
  BY <1>2, StartInspectLevels
<1>3. ASSUME NEW n \in AnswerLengths, SendSlice(n) PROVE LevelsFit'
  BY <1>3, SendSliceLevels
<1>4. CASE OneFinding
  BY <1>4, <1>e DEF OneFinding
<1>5. CASE CondenseFindings
  <2>1. pc = "slices" /\ enter'.level = 0 /\ pc' = "reduce" /\ UNCHANGED <<job, frames>>
    BY <1>5 DEF CondenseFindings
  <2>2. job.kind = "inspect" /\ frames = <<>>
    BY <1>r, <1>f, <2>1 DEF PlaceFits
  <2>3. FirstLevel = 0
    BY <2>2 DEF FirstLevel
  <2>4. Len(<<>>) = 0 /\ 0 = 0 + 0
    OBVIOUS
  <2> QED
    BY <2>1, <2>2, <2>3, <2>4, FramesStay
<1>6. CASE StartBatch
  <2>1. CASE pc' = job.kind /\ UNCHANGED reduction
    <3>1. pc = "start" /\ job.kind \in {"questions", "tasks"} /\ UNCHANGED job
      BY <1>6 DEF StartBatch
    <3> QED
      BY <1>f, <2>1, <3>1, FramesStay DEF reduction
  <2>2. UNCHANGED job
    BY <1>6 DEF StartBatch
  <2> QED
    BY <1>6, <1>e, <2>1, <2>2 DEF StartBatch
<1>7. CASE AskQuestions \/ AskTasks
  <2>1. pc \in {"questions", "tasks"} /\ AskFirst /\ UNCHANGED job
    BY <1>7 DEF AskQuestions, AskTasks, AskFirst
  <2>2. CASE UNCHANGED <<pc, reduction>>
    BY <1>f, <2>1, <2>2, FramesStay DEF reduction
  <2>3. (\E how : End(how)) \/ UNCHANGED <<pc, reduction>>
    BY <2>1 DEF AskFirst
  <2> QED
    BY <1>e, <2>1, <2>2, <2>3
<1>8. CASE BatchDone
  BY <1>8, <1>e DEF BatchDone
<1>9. CASE SplitNotes
  BY <1>9, SplitLevels
<1>10. ASSUME NEW n \in AnswerLengths, ReduceCall(n) PROVE LevelsFit'
  <2>1. CASE pc' = "return" /\ UNCHANGED <<job, frames>>
    BY <2>1, FramesStay
  <2> QED
    BY <1>10, <1>e, <2>1 DEF ReduceCall
<1>11. CASE NestedReturn
  BY <1>11, ReturnLevels
<1>12. CASE InspectReturn
  BY <1>12, <1>e DEF InspectReturn
<1>13. CASE BundleRefused
  BY <1>13, <1>e DEF BundleRefused
<1>14. CASE StartFinalize
  <2>1. /\ pc = "start" /\ job.kind = "finalize" /\ UNCHANGED <<job, frames>>
        /\ pc' = "final" \/ (pc' = "reduce" /\ enter'.level = 99)
    BY <1>14 DEF StartFinalize
  <2>2. FirstLevel = 99 /\ frames = <<>> /\ Len(<<>>) = 0 /\ 99 = 99 + 0
    BY <1>f, <2>1 DEF FirstLevel
  <2> QED
    BY <2>1, <2>2, FramesStay
<1>15. CASE NotesReduced
  <2>1. frames = <<>> /\ pc' = "final" /\ UNCHANGED <<job, frames>>
    BY <1>15 DEF NotesReduced
  <2> QED
    BY <2>1, FramesStay
<1>16. CASE FinalCall
  BY <1>16, <1>e DEF FinalCall
<1>17. CASE CallFails
  BY <1>17, <1>e DEF CallFails
<1>18. CASE UNCHANGED vars
  BY <1>18 DEF vars, LevelsFit, FirstLevel, SlicesCounted
<1> QED
  BY <1>1, <1>2, <1>3, <1>4, <1>5, <1>6, <1>7, <1>8, <1>9, <1>10, <1>11, <1>12, <1>13, <1>14,
     <1>15, <1>16, <1>17, <1>18 DEF Next

-----------------------------------------------------------------------------
\* ShortEnds is kept by every step.

LEMMA MoreRoom ==
  ASSUME NEW n, NEW r \in Int, NEW s \in Int, PowerUpTo(n, r), r <= s
  PROVE  PowerUpTo(n, s)
<1> DEFINE p == PowerOfTwo[r]
           q == PowerOfTwo[s]
<1>1. r \in Nat /\ s \in Nat /\ n \in Nat /\ n <= p
  BY DEF PowerUpTo
<1>2. p <= q /\ p \in Nat /\ q \in Nat
  BY <1>1, PowersGrow
<1> HIDE DEF p, q
<1>3. n <= q
  BY <1>1, <1>2
<1> QED
  BY <1>1, <1>3 DEF PowerUpTo, q

LEMMA ShortNext ==
  ASSUME UNCHANGED <<route, job>>, answers \subseteq answers', NEW fs, frames' = fs,
         Short => /\ \A i \in 1 .. Len(fs) : FrameFits(Now, fs[i], i - 1)
                  /\ pc' = "reduce" => CallFits(Now, enter'.notes, Len(fs))
                  /\ pc' = "return" => value' \in answers'
                  /\ outcome' # "recursion"
  PROVE  ShortEnds'
<1> SUFFICES ASSUME Short'
             PROVE  /\ \A i \in 1 .. Len(fs) : FrameFits(Now', fs[i], i - 1)
                    /\ pc' = "reduce" => CallFits(Now', enter'.notes, Len(fs))
                    /\ pc' = "return" => value' \in answers'
                    /\ outcome' # "recursion"
  BY DEF ShortEnds
<1>1. Short
  BY NowGoesOn
<1>2. /\ \A notes, p : CallFits(Now, notes, p) => CallFits(Now', notes, p)
      /\ \A f, p : FrameFits(Now, f, p) => FrameFits(Now', f, p)
  BY NowGoesOn, FitsMore
<1> QED
  BY <1>1, <1>2

LEMMA EndShort ==
  ASSUME NEW how, End(how), how # "recursion", UNCHANGED <<route, job>>, answers \subseteq answers'
  PROVE  ShortEnds'
<1>1. frames' = <<>> /\ pc' = "done" /\ outcome' # "recursion"
  BY DEF End
<1>2. \A i \in 1 .. Len(<<>>) : FrameFits(Now, <<>>[i], i - 1)
  BY NoFrames
<1> QED
  BY <1>1, <1>2, ShortNext

LEMMA ShortStays ==
  ASSUME ShortEnds, UNCHANGED <<route, job, frames, outcome>>, answers \subseteq answers',
         Short => /\ pc' = "reduce" => CallFits(Now, enter'.notes, Len(frames))
                  /\ pc' = "return" => value' \in answers'
  PROVE  ShortEnds'
<1>1. Short => outcome' # "recursion" /\ \A i \in 1 .. Len(frames) : FrameFits(Now, frames[i], i - 1)
  BY DEF ShortEnds
<1>2. PICK fs : fs = frames
  OBVIOUS
<1> QED
  BY <1>1, <1>2, ShortNext

LEMMA FirstCall ==
  ASSUME NEW notes, Len(notes) \in 0 .. PowerOfTwo[MaxDepth - 3],
         \A i \in 1 .. Len(notes) : notes[i] \in FirstNotes
  PROVE  CallFits(Now, notes, 0)
<1> DEFINE r == Room(FirstLevel, 0)
           n == Len(notes)
<1>1. MaxDepth \in Nat
  BY JudgeAssumption
<1>2. MaxDepth >= 3
  BY DepthAssumption
<1>3. r \in Int /\ r >= MaxDepth - 2
  <2>1. FirstLevel \in {0, 99}
    BY DEF FirstLevel
  <2>2. 0 \in Nat
    OBVIOUS
  <2> QED
    BY <2>1, <2>2, RoomIs
<1> HIDE DEF r
<1>4. MaxDepth - 3 \in Nat /\ r - 1 \in Int /\ MaxDepth - 3 <= r - 1
  BY <1>1, <1>2, <1>3
<1>5. PowerUpTo(n, MaxDepth - 3)
  <2> DEFINE k == PowerOfTwo[MaxDepth - 3]
  <2>1. n \in 0 .. k /\ k \in Nat
    BY <1>4, PowerIs
  <2> HIDE DEF n, k
  <2>2. n \in Nat /\ n <= k
    BY <2>1
  <2> QED
    BY <1>4, <2>2 DEF PowerUpTo, k
<1>6. PowerUpTo(n, r - 1)
  <2> HIDE DEF n
  <2> QED
    BY <1>4, <1>5, MoreRoom
<1>7. Now.base = FirstLevel /\ NotesOf(Now, 1) = FirstNotes
  BY DEF Now, NotesOf
<1> QED
  BY <1>6, <1>7 DEF CallFits, r

LEMMA ReturnShort ==
  ASSUME SentInv, ReduceTyped, LevelsFit, ShortEnds, NestedReturn PROVE ShortEnds'
<1> DEFINE rest == Front(frames)
           q == Len(rest)
           p == Len(frames)
<1>1. /\ UNCHANGED <<route, job, answers, outcome>> /\ pc = "return"
      /\ frames \in Seq(Frame) /\ frames # <<>> /\ value \in Nat
  BY DEF NestedReturn, ReduceTyped
<1>2. rest \in Seq(Frame) /\ frames = Append(rest, Last(frames)) /\ p = q + 1 /\ q \in Nat
  BY <1>1, FrontAndLast, LenProperties
<1>3. (\A i \in 1 .. q : frames[i] = rest[i]) /\ frames[q + 1] = Last(frames)
  BY <1>1, <1>2, FrontAndLast, AppendProperties
<1>4. Short => /\ \A i \in 1 .. p : FrameFits(Now, frames[i], i - 1)
               /\ value \in answers /\ outcome' # "recursion"
  BY <1>1 DEF ShortEnds
<1> HIDE DEF rest, p, q
<1>5. q + 1 \in 1 .. p /\ (q + 1) - 1 = q /\ \A i \in 1 .. q : i \in 1 .. p
  BY <1>2
<1>6. Short => /\ \A i \in 1 .. q : FrameFits(Now, rest[i], i - 1)
               /\ FrameFits(Now, Last(frames), q)
  BY <1>3, <1>4, <1>5
<1>7. CASE frames' = rest /\ UNCHANGED <<pc, enter, value>>
  <2>1. Len(rest) = q
    BY DEF q
  <2> QED
    BY <1>1, <1>4, <1>6, <1>7, <2>1, ShortNext
<1>8. ASSUME NEW f \in Frame, NEW g \in Frame, Resumes(f, g) PROVE ShortEnds'
  <2>1. frames' = Append(rest, g) /\ f = Last(frames) /\ pc' = "reduce" /\ ~f.tail
    BY <1>8 DEF Resumes, rest
  <2>2. PICK fs : fs = Append(rest, g)
    OBVIOUS
  <2>3. Len(fs) = q + 1 /\ fs[q + 1] = g /\ \A i \in 1 .. q : fs[i] = rest[i]
    BY <1>2, <2>2, AppendProperties DEF q
  <2>4. ASSUME Short PROVE FrameFits(Now, g, q) /\ CallFits(Now, enter'.notes, q + 1)
    <3> DEFINE c == Len(f.reduced)
               t == Len(f.todo)
               more == Append(f.reduced, value)
               r == Room(FirstLevel, q)
    <3>1. f.reduced \in Seq(Nat) /\ f.todo \in Seq(Seq(Nat))
      BY DEF Frame
    <3>2. Now.base = FirstLevel /\ FirstLevel \in {0, 99} /\ Now.answers = answers
      BY DEF Now, FirstLevel
    <3>3. /\ PowerUpTo(c + 1 + t, r - 1)
          /\ \A i \in 1 .. c : f.reduced[i] \in answers
          /\ \A i \in 1 .. t : CallFits(Now, f.todo[i], q + 1)
      BY <1>6, <2>1, <2>4, <3>2 DEF FrameFits
    <3>4. c \in Nat /\ t \in Nat
      BY <3>1, LenProperties
    <3>5. Len(more) = c + 1 /\ more[c + 1] = value /\ \A i \in 1 .. c : more[i] = f.reduced[i]
      BY <1>1, <3>1, AppendProperties
    <3>6. \A i \in 1 .. Len(more) : more[i] \in answers
      <4> HIDE DEF c, more
      <4>1. \A i \in 1 .. c + 1 : i \in 1 .. c \/ i = c + 1
        BY <3>4
      <4> QED
        BY <1>4, <2>4, <3>3, <3>5, <4>1 DEF c
    <3>7. CASE /\ f.todo # <<>> /\ g.todo = Tail(f.todo) /\ g.reduced = more /\ ~g.tail
               /\ enter' = [notes |-> Head(f.todo), level |-> f.level + 1]
      <4> DEFINE s == Tail(f.todo)
      <4>1. Head(f.todo) = f.todo[1] /\ Len(s) = t - 1 /\ \A i \in 1 .. t - 1 : s[i] = f.todo[i + 1]
        BY <3>1, <3>7, HeadTailProperties
      <4>2. t # 0
        BY <3>1, <3>7, EmptySeq
      <4> HIDE DEF s, c, t, more
      <4>3. 1 \in 1 .. t /\ (c + 1) + 1 + (t - 1) = c + 1 + t /\ \A i \in 1 .. t - 1 : i + 1 \in 1 .. t
        BY <3>4, <4>2
      <4>4. CallFits(Now, Head(f.todo), q + 1)
        BY <3>3, <4>1, <4>3 DEF t
      <4>5. \A i \in 1 .. Len(s) : CallFits(Now, s[i], q + 1)
        BY <3>3, <4>1, <4>3 DEF t
      <4>6. PowerUpTo(Len(more) + 1 + Len(s), r - 1)
        BY <3>3, <3>5, <4>1, <4>3
      <4>7. FrameFits(Now, g, q)
        BY <3>2, <3>6, <3>7, <4>5, <4>6 DEF FrameFits, s, r
      <4> QED
        BY <3>7, <4>4, <4>7
    <3>8. CASE f.todo = <<>> /\ g.tail /\ enter' = [notes |-> more, level |-> f.level + 1]
      <4> DEFINE s == Room(FirstLevel, q + 1)
      <4>1. t = 0 /\ Len(<<>>) = 0
        BY <3>8
      <4>2. r \in Int /\ s \in {r, r - 1}
        BY <1>2, <3>2, RoomIs
      <4> HIDE DEF r, s, c, t, more
      <4>3. r - 1 \in Int /\ s \in Int /\ r - 1 <= s /\ c + 1 + t = c + 1 /\ s - 0 = s
        BY <3>4, <4>1, <4>2
      <4>4. PowerUpTo(c + 1, s - 0)
        BY <3>3, <4>3, MoreRoom
      <4>5. NotesOf(Now, 0) = answers
        BY <3>2 DEF NotesOf
      <4>6. CallFits(Now, more, q + 1)
        BY <3>2, <3>5, <3>6, <4>4, <4>5 DEF CallFits, s
      <4>7. FrameFits(Now, g, q)
        BY <3>8 DEF FrameFits
      <4> QED
        BY <3>8, <4>6, <4>7
    <3> QED
      BY <1>8, <3>7, <3>8 DEF Resumes
  <2>5. ASSUME Short, NEW i \in 1 .. q + 1 PROVE FrameFits(Now, fs[i], i - 1)
    <3>1. CASE i \in 1 .. q
      BY <1>6, <2>3, <2>5, <3>1
    <3>2. CASE i = q + 1
      BY <1>5, <2>3, <2>4, <2>5, <3>2
    <3> QED
      BY <1>2, <3>1, <3>2
  <2> QED
    BY <1>1, <1>4, <2>1, <2>2, <2>3, <2>4, <2>5, ShortNext
<1> QED
  BY <1>7, <1>8, ReturnGoes DEF rest

LEMMA ShortInitially == Init => ShortEnds
<1> SUFFICES ASSUME Init PROVE ShortEnds
  OBVIOUS
<1>1. frames = <<>> /\ pc = "start" /\ outcome = ""
  BY DEF Init
<1>2. \A i \in 1 .. Len(<<>>) : FrameFits(Now, <<>>[i], i - 1)
  BY NoFrames
<1> QED
  BY <1>1, <1>2 DEF ShortEnds

LEMMA SplitShort ==
  ASSUME SentInv, ReduceTyped, LevelsFit, ShortEnds, SplitNotes PROVE ShortEnds'
<1>1. /\ route \in Routes /\ UNCHANGED <<route, job, answers>> /\ answers \subseteq answers'
      /\ pc = "reduce" /\ frames \in Seq(Frame)
  BY DEF SentInv, SplitNotes, ReduceTyped
<1>2. CASE End("budget")
  BY <1>1, <1>2, EndShort
<1>3. CASE Len(frames) = MaxDepth /\ End("recursion")
  <2>1. ~Short
    BY <1>3, SplitEnds
  <2>2. PICK fs : fs = frames'
    OBVIOUS
  <2> QED
    BY <1>1, <2>1, <2>2, ShortNext
<1>4. ASSUME NEW groups, NEW limit, Splits(groups, limit) PROVE ShortEnds'
  <2>1. PICK fs : fs = frames'
    OBVIOUS
  <2> DEFINE p == Len(frames)
  <2>2. p \in Nat
    BY <1>1, LenProperties
  <2>3. ASSUME Short
        PROVE  /\ \A i \in 1 .. Len(fs) : FrameFits(Now, fs[i], i - 1)
               /\ CallFits(Now, enter'.notes, Len(fs))
               /\ pc' = "reduce" /\ outcome' # "recursion"
    <3>1. PICK f, g : /\ frames' = Append(frames, f) /\ f \in Frame
                      /\ enter' = [notes |-> g, level |-> enter.level + 1]
                      /\ FrameFits(Now, f, p) /\ CallFits(Now, g, p + 1)
                      /\ pc' = pc /\ outcome' = outcome
      BY <1>4, <2>3, SplitEnds
    <3>2. Len(fs) = p + 1 /\ fs[p + 1] = f /\ \A i \in 1 .. p : fs[i] = frames[i]
      BY <1>1, <2>1, <3>1, AppendProperties
    <3>3. (\A i \in 1 .. p : FrameFits(Now, frames[i], i - 1)) /\ outcome # "recursion"
      BY <2>3 DEF ShortEnds
    <3> HIDE DEF p
    <3>4. ASSUME NEW i \in 1 .. p + 1 PROVE FrameFits(Now, fs[i], i - 1)
      <4>1. CASE i \in 1 .. p
        BY <3>2, <3>3, <4>1
      <4>2. CASE i = p + 1
        <5>1. i - 1 = p
          BY <2>2, <4>2
        <5> QED
          BY <3>1, <3>2, <4>2, <5>1
      <4> QED
        BY <2>2, <4>1, <4>2
    <3>5. enter'.notes = g
      BY <3>1
    <3> QED
      BY <1>1, <3>1, <3>2, <3>3, <3>4, <3>5
  <2> QED
    BY <1>1, <2>1, <2>3, ShortNext
<1> QED
  BY <1>1, <1>2, <1>3, <1>4, SplitGoes

LEMMA CondenseShort ==
  ASSUME SentInv, ReduceTyped, LevelsFit, ShortEnds, CondenseFindings PROVE ShortEnds'
<1> DEFINE notes == [i \in DOMAIN findings |-> SlicePrefix + findings[i]]
           n == Len(findings)
           l == Len(job.block.text)
           k == PowerOfTwo[MaxDepth - 3]
<1>1. /\ pc = "slices" /\ slices = <<>> /\ enter' = [notes |-> notes, level |-> 0] /\ pc' = "reduce"
      /\ UNCHANGED <<route, job, frames, answers, outcome>> /\ answers \subseteq answers'
  BY DEF CondenseFindings
<1>2. job.kind = "inspect" /\ frames = <<>> /\ SlicesCounted
  BY <1>1 DEF LevelsFit, SentInv, PlaceFits
<1>3. n \in Nat /\ DOMAIN findings = 1 .. n
  BY LenProperties DEF ReduceTyped
<1>4. Len(notes) = n /\ \A i \in 1 .. n : notes[i] \in FirstNotes
  <2>1. \A i \in 1 .. n : SlicePrefix + findings[i] \in FirstNotes
    BY <1>2 DEF SlicesCounted, FirstNotes
  <2>2. notes = [i \in 1 .. n |-> SlicePrefix + findings[i]]
    BY <1>3
  <2> HIDE DEF n
  <2> QED
    BY <1>3, <2>1, <2>2
<1>5. n \in 0 .. k
  <2>1. n + Len(<<>>) <= AtLeast(1, l)
    BY <1>1, <1>2 DEF SlicesCounted
  <2>2. l \in 0 .. k
    BY DepthAssumption DEF SentInv
  <2>3. MaxDepth \in Nat
    BY JudgeAssumption
  <2>4. MaxDepth >= 3
    BY DepthAssumption
  <2>5. MaxDepth - 3 \in Nat
    BY <2>3, <2>4
  <2>6. k \in Nat /\ k # 0
    BY <2>5, PowerIs
  <2>7. Len(<<>>) = 0
    OBVIOUS
  <2> HIDE DEF n, l, k
  <2>8. AtLeast(1, l) <= k /\ AtLeast(1, l) \in Nat
    BY <2>2, <2>6 DEF AtLeast
  <2> QED
    BY <1>3, <2>1, <2>6, <2>7, <2>8
<1> HIDE DEF notes, n, k
<1>6. CallFits(Now, notes, 0)
  BY <1>4, <1>5, FirstCall DEF k
<1>7. enter'.notes = notes /\ Len(frames) = 0
  BY <1>1, <1>2
<1> QED
  BY <1>1, <1>6, <1>7, ShortStays

LEMMA StartFinalizeShort ==
  ASSUME SentInv, LevelsFit, ShortEnds, StartFinalize PROVE ShortEnds'
<1>1. /\ pc = "start" /\ job.kind = "finalize" /\ job \in Jobs
      /\ UNCHANGED <<route, job, frames, answers, outcome>> /\ answers \subseteq answers'
      /\ pc' = "final" \/ (pc' = "reduce" /\ enter'.notes = job.notes)
  BY DEF StartFinalize, SentInv
<1>2. frames = <<>> /\ Len(<<>>) = 0
  BY <1>1 DEF LevelsFit
<1>3. CallFits(Now, job.notes, 0)
  <2>1. Len(job.notes) \in 0 .. PowerOfTwo[MaxDepth - 3]
    BY <1>1, DepthAssumption
  <2>2. job.notes \in Seq(Nat) /\ FirstNotes = Range(job.notes)
    BY <1>1, JobIs DEF FirstNotes
  <2>3. \A i \in 1 .. Len(job.notes) : job.notes[i] \in FirstNotes
    BY <2>2, LenProperties DEF Range
  <2> QED
    BY <2>1, <2>3, FirstCall
<1> QED
  BY <1>1, <1>2, <1>3, ShortStays

LEMMA ShortPreserved ==
  SentInv /\ ReduceTyped /\ LevelsFit /\ ShortEnds /\ [Next]_vars => ShortEnds'
<1> SUFFICES ASSUME SentInv, ReduceTyped, LevelsFit, ShortEnds, [Next]_vars PROVE ShortEnds'
  OBVIOUS
<1>r. job.kind \in Kinds
  BY JobIs DEF SentInv
<1>e. ASSUME NEW how, End(how), how # "recursion", UNCHANGED <<route, job>>, answers \subseteq answers'
      PROVE  ShortEnds'
  BY <1>e, EndShort
<1>s. ASSUME UNCHANGED <<route, job, frames, outcome>>, answers \subseteq answers',
             pc' \notin {"reduce", "return"}
      PROVE  ShortEnds'
  BY <1>s, ShortStays
<1>1. CASE Refuse
  BY <1>1, <1>e DEF Refuse
<1>2. CASE StartInspect
  BY <1>2, <1>e, <1>s DEF StartInspect, reduction
<1>3. ASSUME NEW n \in AnswerLengths, SendSlice(n) PROVE ShortEnds'
  BY <1>3, <1>e, <1>s DEF SendSlice, reduction
<1>4. CASE OneFinding
  BY <1>4, <1>e DEF OneFinding
<1>5. CASE CondenseFindings
  BY <1>5, CondenseShort
<1>6. CASE StartBatch
  BY <1>6, <1>e, <1>s DEF StartBatch, reduction
<1>7. CASE AskQuestions \/ AskTasks
  <2>1. pc \in {"questions", "tasks"} /\ AskFirst /\ UNCHANGED <<route, job, answers>>
    BY <1>7 DEF AskQuestions, AskTasks, AskFirst
  <2>2. End("budget") \/ UNCHANGED <<pc, frames, outcome>>
    BY <2>1 DEF AskFirst, reduction
  <2> QED
    BY <1>e, <1>s, <2>1, <2>2
<1>8. CASE BatchDone
  BY <1>8, <1>e DEF BatchDone
<1>9. CASE SplitNotes
  BY <1>9, SplitShort
<1>10. ASSUME NEW n \in AnswerLengths, ReduceCall(n) PROVE ShortEnds'
  <2>1. CASE pc' = "return" /\ value' = n /\ answers' = answers \cup {n} /\ UNCHANGED <<route, job, frames, outcome>>
    BY <2>1, ShortStays
  <2> QED
    BY <1>10, <1>e, <2>1 DEF ReduceCall
<1>11. CASE NestedReturn
  BY <1>11, ReturnShort
<1>12. CASE InspectReturn
  BY <1>12, <1>e DEF InspectReturn
<1>13. CASE BundleRefused
  BY <1>13, <1>e DEF BundleRefused
<1>14. CASE StartFinalize
  BY <1>14, StartFinalizeShort
<1>15. CASE NotesReduced
  BY <1>15, <1>s DEF NotesReduced
<1>16. CASE FinalCall
  BY <1>16, <1>e DEF FinalCall
<1>17. CASE CallFails
  BY <1>17, <1>e DEF CallFails
<1>18. CASE UNCHANGED vars
  <2>1. UNCHANGED <<route, job, frames, outcome, pc, enter, value, answers>>
    BY <1>18 DEF vars
  <2>2. Short => /\ pc = "reduce" => CallFits(Now, enter.notes, Len(frames))
                 /\ pc = "return" => value \in answers
    BY DEF ShortEnds
  <2> QED
    BY <2>1, <2>2, ShortStays
<1> QED
  BY <1>1, <1>2, <1>3, <1>4, <1>5, <1>6, <1>7, <1>8, <1>9, <1>10, <1>11, <1>12, <1>13, <1>14,
     <1>15, <1>16, <1>17, <1>18 DEF Next

\* reduce_notes does not run into Python's recursion limit, for all routes, jobs and answers,
\* unless a note is longer than a prompt allows or two answers of the model do not fit into
\* one: but for the first call, and the two whose prompt is longer by a digit of the level,
\* a call has at most about half as many notes as the one around it.
THEOREM ReductionIsBounded == Spec => []ReductionEnds
<1> DEFINE IInv == SentInv /\ ReduceTyped /\ LevelsFit /\ ShortEnds
<1>1. Init => IInv
  BY SentInitially, TypedInitially, LevelsInitially, ShortInitially
<1>2. IInv /\ [Next]_vars => IInv'
  BY SentPreserved, TypedPreserved, LevelsPreserved, ShortPreserved
<1>3. IInv => ReductionEnds
  BY ShortEnough
<1> HIDE DEF IInv
<1> QED
  BY <1>1, <1>2, <1>3, PTL DEF Spec
=============================================================================
