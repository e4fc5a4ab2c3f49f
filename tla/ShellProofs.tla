---------------------------- MODULE ShellProofs ----------------------------
(***************************************************************************)
(* Theorems about Shell: for any words that can be written, in any number, *)
(* quoted in any way.                                                      *)
(***************************************************************************)
EXTENDS Shell, SequenceTheorems, WellFoundedInduction, TLAPS

---------------------------------------------------------------------------
(* Induction.  The theorems of the library take a predicate as a parameter, *)
(* which the provers do not instantiate; the least element of a set of      *)
(* numbers does the same.                                                   *)

Less == {p \in Nat \X Nat : p[1] < p[2]}

LEMMA Least ==
    ASSUME NEW T \in SUBSET Nat, T # {}
    PROVE  \E n \in T : \A m \in T : n <= m
<1>1. IsWellFoundedOn(Less, Nat)
  <2>1. Less = OpToRel(<, Nat)
    BY DEF OpToRel, Less
  <2>. QED
    BY <2>1, NatLessThanWellFounded
<1>2. PICK n \in T : \A m \in T : ~(<<m, n>> \in Less)
  BY <1>1, WFMin
<1>3. ASSUME NEW m \in T PROVE n <= m
  <2>1. n \in Nat /\ m \in Nat /\ <<m, n>> \notin Less
    BY <1>2
  <2>2. m < n => <<m, n>> \in Less
    BY <2>1 DEF Less
  <2>. QED
    BY <2>1, <2>2
<1>. QED
  BY <1>3

\* A recursion that goes from each place up to M on to a later one has a solution.
Ahead(next, M, N) == \A i \in 1..M : next[i] \in (i + 1)..N
Follows(f, next, step, base, M, N) ==
    \A i \in 1..N : f[i] = IF i > M THEN base ELSE step[<<i, f[next[i]]>>]

LEMMA ForwardRecursion ==
    ASSUME NEW M \in Nat, NEW N \in Nat, M <= N, NEW V, NEW base \in V,
           NEW next \in [1..M -> Nat], Ahead(next, M, N),
           NEW step \in [(1..M) \X V -> V]
    PROVE  \E f \in [1..N -> V] : Follows(f, next, step, base, M, N)
<1>. DEFINE Solves(f, n) == \A i \in (n + 1)..N :
                                f[i] = IF i > M THEN base ELSE step[<<i, f[next[i]]>>]
            T == {n \in 0..N : \E f \in [1..N -> V] : Solves(f, n)}
<1>. HIDE DEF Solves
<1>1. N \in T
  <2>1. [i \in 1..N |-> base] \in [1..N -> V] /\ Solves([i \in 1..N |-> base], N)
    BY DEF Solves
  <2>. QED
    BY <2>1
<1>2. PICK n \in T : \A m \in T : n <= m
  <2>1. T \in SUBSET Nat
    OBVIOUS
  <2>. HIDE DEF T
  <2>. QED
    BY <1>1, <2>1, Least
<1>3. PICK f \in [1..N -> V] : Solves(f, n)
  BY <1>2
<1>4. ASSUME n # 0 PROVE FALSE
  <2>1. n \in 1..N /\ n - 1 \in 0..N /\ (n - 1) + 1 = n
    BY <1>2, <1>4
  <2>2. PICK v : v = IF n > M THEN base ELSE step[<<n, f[next[n]]>>]
    OBVIOUS
  <2>3. v \in V
    <3>1. CASE n > M
      BY <2>2, <3>1
    <3>2. CASE ~(n > M)
      <4>1. n \in 1..M /\ next[n] \in 1..N
        BY <2>1, <3>2 DEF Ahead
      <4>2. <<n, f[next[n]]>> \in (1..M) \X V
        BY <4>1
      <4>. QED
        BY <2>2, <3>2, <4>2
    <3>. QED
      BY <3>1, <3>2
  <2>4. PICK g : g = [f EXCEPT ![n] = v]
    OBVIOUS
  <2>5. g \in [1..N -> V] /\ g[n] = v /\ \A i \in 1..N : i # n => g[i] = f[i]
    BY <2>1, <2>3, <2>4
  <2>6. ASSUME NEW i \in n..N
        PROVE  g[i] = IF i > M THEN base ELSE step[<<i, g[next[i]]>>]
    <3>1. /\ i \in Nat /\ n \in Nat /\ i \in 1..N
          /\ i > M <=> ~(i <= M)
          /\ i <= M => next[i] \in 1..N /\ next[i] # n
      BY <2>1 DEF Ahead
    <3>2. i <= M => g[next[i]] = f[next[i]]
      BY <2>5, <3>1
    <3>3. CASE i = n
      BY <2>2, <2>5, <3>1, <3>2, <3>3
    <3>4. CASE i # n
      <4>1. i \in (n + 1)..N
        BY <3>1, <3>4
      <4>2. f[i] = IF i > M THEN base ELSE step[<<i, f[next[i]]>>]
        BY <1>3, <4>1 DEF Solves
      <4>. QED
        BY <2>5, <3>1, <3>2, <3>4, <4>2
    <3>. QED
      BY <3>3, <3>4
  <2>7. Solves(g, n - 1)
    BY <2>1, <2>6 DEF Solves
  <2>8. n - 1 \in T
    BY <2>1, <2>5, <2>7
  <2>9. n <= n - 1
    BY <1>2, <2>8
  <2>. QED
    BY <2>1, <2>9
<1>5. Solves(f, 0)
  BY <1>3, <1>4
<1>6. (0 + 1)..N = 1..N
  OBVIOUS
<1>. QED
  BY <1>5, <1>6 DEF Solves, Follows

---------------------------------------------------------------------------
(* tokenize.                                                               *)

LEMMA FindIs ==
    ASSUME NEW s, NEW n \in Nat, Len(s) = n, NEW c, NEW i \in 1..(n + 1)
    PROVE  /\ Find(s, c, i) \in i..(n + 1)
           /\ Find(s, c, i) <= n => s[Find(s, c, i)] = c
           /\ \A k \in i..(Find(s, c, i) - 1) : s[k] # c
<1>. DEFINE T == {j \in i..(n + 1) : j <= n => s[j] = c}
<1>1. T \in SUBSET Nat /\ n + 1 \in T
  OBVIOUS
<1>2. PICK j \in T : \A m \in T : j <= m
  <2>. HIDE DEF T
  <2>. QED
    BY <1>1, Least
<1>3. /\ j \in i..(n + 1)
      /\ j <= n => s[j] = c
      /\ \A k \in i..(j - 1) : s[k] # c
  <2>1. ASSUME NEW k \in i..(j - 1), s[k] = c PROVE FALSE
    <3>1. k \in T /\ k < j
      BY <1>2, <2>1
    <3>. QED
      BY <1>2, <3>1
  <2>. QED
    BY <1>2, <2>1
<1>. HIDE DEF T
<1>. QED
  BY <1>3 DEF Find

LEMMA FindUnique ==
    ASSUME NEW s, NEW n \in Nat, Len(s) = n, NEW c, NEW i \in 1..(n + 1),
           NEW j \in i..(n + 1), j <= n => s[j] = c,
           \A k \in i..(j - 1) : s[k] # c
    PROVE  Find(s, c, i) = j
<1>1. PICK f : /\ f = Find(s, c, i)
               /\ f \in i..(n + 1)
               /\ f <= n => s[f] = c
               /\ \A k \in i..(f - 1) : s[k] # c
  BY FindIs
<1>2. i \in Nat /\ j \in Nat /\ f \in Nat
  BY <1>1
<1>3. f < j => f \in i..(j - 1) /\ f <= n
  BY <1>1, <1>2
<1>4. j < f => j \in i..(f - 1) /\ j <= n
  BY <1>1, <1>2
<1>5. ~(f < j)
  BY <1>1, <1>3
<1>6. ~(j < f)
  BY <1>1, <1>4
<1>. QED
  BY <1>1, <1>2, <1>5, <1>6

\* Where a word ends and the next one begins.
LEMMA Ends ==
    ASSUME NEW s, NEW n \in Nat, Len(s) = n, NEW i \in 1..n
    PROVE  /\ End(s, i) \in i..(n + 1)
           /\ After(s, i) \in (i + 1)..(n + 3)
<1>1. CASE s[i] \in Quotes
  <2>1. Find(s, s[i], i + 1) \in (i + 1)..(n + 1)
    BY FindIs
  <2>. QED
    BY <1>1, <2>1 DEF End, After
<1>2. CASE s[i] \notin Quotes
  <2>1. Find(s, Blank, i) \in i..(n + 1)
    BY FindIs
  <2>. QED
    BY <1>2, <2>1 DEF End, After
<1>. QED
  BY <1>1, <1>2

\* The characters that can occur, and the lines and words made of them.
Character == {Blank} \cup Quotes \cup Name \cup UNION {Range(w) : w \in Word}
Characters == Seq(Character)
Words == Seq(Characters)

LEMMA WordIs ==
    ASSUME NEW s \in Characters, NEW n \in Nat, Len(s) = n, NEW i \in 1..n
    PROVE  WordAt(s, i) \in Characters
<1>1. PICK a, b : a \in {i, i + 1} /\ b = End(s, i) - 1 /\ WordAt(s, i) = SubSeq(s, a, b)
  BY DEF WordAt
<1>2. a \in 1..(n + 1) /\ b \in (i - 1)..n
  <2>1. PICK e \in i..(n + 1) : e = End(s, i)
    BY Ends
  <2>2. b = e - 1
    BY <1>1, <2>1
  <2>3. b \in (i - 1)..n
    BY <2>1, <2>2
  <2>4. a = i \/ a = i + 1
    BY <1>1
  <2>5. a \in 1..(n + 1)
    BY <2>4
  <2>. QED
    BY <2>3, <2>5
<1>3. \A k \in a..b : s[k] \in Character
  BY <1>2, ElementOfSeq DEF Characters
<1>. QED
  BY <1>1, <1>2, <1>3, SubSeqProperties DEF Characters

\* The two recursions of tokenize end, and so have the values they are defined by.
LEMMA TokensUnfold ==
    ASSUME NEW s \in Characters, NEW n \in Nat, Len(s) = n
    PROVE  \E from :
              /\ Tokens(s) = from[1]
              /\ from = [i \in 1..(n + 3) |->
                            IF i > n THEN <<>> ELSE <<WordAt(s, i)>> \o from[After(s, i)]]
<1>1. PICK next : next = [i \in 1..n |-> After(s, i)]
  OBVIOUS
<1>2. next \in [1..n -> Nat] /\ Ahead(next, n, n + 3)
  <2>1. \A i \in 1..n : next[i] \in (i + 1)..(n + 3)
    BY <1>1, Ends
  <2>2. \A i \in 1..n : next[i] \in Nat
    BY <2>1
  <2>. QED
    BY <1>1, <2>1, <2>2 DEF Ahead
<1>3. PICK step : step = [p \in (1..n) \X Words |-> <<WordAt(s, p[1])>> \o p[2]]
  OBVIOUS
<1>4. step \in [(1..n) \X Words -> Words]
  BY <1>3, WordIs DEF Words
<1>5. PICK N \in Nat : N = n + 3
  OBVIOUS
<1>6. PICK f \in [1..N -> Words] : Follows(f, next, step, <<>>, n, N)
  <2>1. <<>> \in Words /\ n <= N
    BY <1>5 DEF Words
  <2>. QED
    BY <1>2, <1>4, <1>5, <2>1, ForwardRecursion
<1>7. ASSUME NEW i \in 1..N
      PROVE  f[i] = IF i > n THEN <<>> ELSE <<WordAt(s, i)>> \o f[After(s, i)]
  <2>1. CASE i > n
    BY <1>6, <2>1 DEF Follows
  <2>2. CASE ~(i > n)
    <3>1. i \in 1..n /\ next[i] = After(s, i) /\ After(s, i) \in 1..N
      BY <1>1, <1>2, <1>5, <2>2 DEF Ahead
    <3>2. step[<<i, f[next[i]]>>] = <<WordAt(s, i)>> \o f[next[i]]
      BY <1>3, <3>1
    <3>. QED
      BY <1>6, <2>2, <3>1, <3>2 DEF Follows
  <2>. QED
    BY <2>1, <2>2
<1>8. f = [i \in 1..(Len(s) + 3) |->
              IF i > Len(s) THEN <<>> ELSE <<WordAt(s, i)>> \o f[After(s, i)]]
  BY <1>5, <1>7
<1>9. \E from :
          /\ Tokens(s) = from[1]
          /\ from = [i \in 1..(Len(s) + 3) |->
                        IF i > Len(s) THEN <<>> ELSE <<WordAt(s, i)>> \o from[After(s, i)]]
  BY <1>8, Zenon DEF Tokens
<1>. QED
  BY <1>9

LEMMA QuoteOpenUnfold ==
    ASSUME NEW s \in Characters, NEW n \in Nat, Len(s) = n
    PROVE  \E open :
              /\ QuoteOpen(s) = open[1]
              /\ open = [i \in 1..(n + 3) |->
                            IF i > n THEN FALSE
                            ELSE (s[i] \in Quotes /\ End(s, i) > n) \/ open[After(s, i)]]
<1>1. PICK next : next = [i \in 1..n |-> After(s, i)]
  OBVIOUS
<1>2. next \in [1..n -> Nat] /\ Ahead(next, n, n + 3)
  <2>1. \A i \in 1..n : next[i] \in (i + 1)..(n + 3)
    BY <1>1, Ends
  <2>2. \A i \in 1..n : next[i] \in Nat
    BY <2>1
  <2>. QED
    BY <1>1, <2>1, <2>2 DEF Ahead
<1>3. PICK step : step = [p \in (1..n) \X BOOLEAN |->
                             (s[p[1]] \in Quotes /\ End(s, p[1]) > n) \/ p[2]]
  OBVIOUS
<1>4. step \in [(1..n) \X BOOLEAN -> BOOLEAN]
  BY <1>3
<1>5. PICK N \in Nat : N = n + 3
  OBVIOUS
<1>6. PICK f \in [1..N -> BOOLEAN] : Follows(f, next, step, FALSE, n, N)
  <2>1. FALSE \in BOOLEAN /\ n <= N
    BY <1>5
  <2>. QED
    BY <1>2, <1>4, <1>5, <2>1, ForwardRecursion
<1>7. ASSUME NEW i \in 1..N
      PROVE  f[i] = IF i > n THEN FALSE
                    ELSE (s[i] \in Quotes /\ End(s, i) > n) \/ f[After(s, i)]
  <2>1. CASE i > n
    BY <1>6, <2>1 DEF Follows
  <2>2. CASE ~(i > n)
    <3>1. i \in 1..n /\ next[i] = After(s, i) /\ After(s, i) \in 1..N
      BY <1>1, <1>2, <1>5, <2>2 DEF Ahead
    <3>2. step[<<i, f[next[i]]>>] = ((s[i] \in Quotes /\ End(s, i) > n) \/ f[next[i]])
      BY <1>3, <3>1
    <3>. QED
      BY <1>6, <2>2, <3>1, <3>2 DEF Follows
  <2>. QED
    BY <2>1, <2>2
<1>8. f = [i \in 1..(Len(s) + 3) |->
              IF i > Len(s) THEN FALSE
              ELSE (s[i] \in Quotes /\ End(s, i) > Len(s)) \/ f[After(s, i)]]
  BY <1>5, <1>7
<1>9. \E open :
          /\ QuoteOpen(s) = open[1]
          /\ open = [i \in 1..(Len(s) + 3) |->
                        IF i > Len(s) THEN FALSE
                        ELSE (s[i] \in Quotes /\ End(s, i) > Len(s)) \/ open[After(s, i)]]
  BY <1>8, Zenon DEF QuoteOpen
<1>. QED
  BY <1>9

---------------------------------------------------------------------------
(* What was written is read back.                                          *)

Joins(c, a, b, m, n) ==
    /\ c \in Seq(Character)
    /\ Len(c) = m + n
    /\ \A i \in 1..m : c[i] = a[i]
    /\ \A i \in 1..n : c[m + i] = b[i]

LEMMA Joined ==
    ASSUME NEW a \in Seq(Character), NEW b \in Seq(Character), NEW c, c = a \o b,
           NEW m \in Nat, NEW n \in Nat, Len(a) = m, Len(b) = n
    PROVE  Joins(c, a, b, m, n)
<1>1. c \in Seq(Character)
  OBVIOUS
<1>2. Len(c) = m + n
  <2>1. Len(a \o b) = Len(a) + Len(b)
    BY ConcatProperties
  <2>. QED
    BY <2>1
<1>3. ASSUME NEW i \in 1..m PROVE c[i] = a[i]
  OBVIOUS
<1>4. ASSUME NEW i \in 1..n PROVE c[m + i] = b[i]
  OBVIOUS
<1>. QED
  BY <1>1, <1>2, <1>3, <1>4 DEF Joins

LEMMA Cut ==
    ASSUME NEW S, NEW s \in Seq(S), NEW a \in Nat, NEW n \in Nat, a + n <= Len(s)
    PROVE  /\ SubSeq(s, a + 1, a + n) \in Seq(S)
           /\ Len(SubSeq(s, a + 1, a + n)) = n
           /\ \A i \in 1..n : SubSeq(s, a + 1, a + n)[i] = s[a + i]
<1>1. PICK c, d : c = a + 1 /\ d = a + n /\ c \in Int /\ d \in Int
  OBVIOUS
<1>2. \A k \in c..d : s[k] \in S
  BY <1>1, ElementOfSeq
<1>3. /\ SubSeq(s, c, d) \in Seq(S)
      /\ Len(SubSeq(s, c, d)) = IF c <= d THEN d - c + 1 ELSE 0
      /\ \A i \in 1..(d - c + 1) : SubSeq(s, c, d)[i] = s[c + i - 1]
  BY <1>1, <1>2, SubSeqProperties
<1>4. Len(SubSeq(s, c, d)) = n
  BY <1>1, <1>3
<1>5. ASSUME NEW i \in 1..n PROVE SubSeq(s, c, d)[i] = s[a + i]
  <2>1. i \in 1..(d - c + 1) /\ c + i - 1 = a + i
    BY <1>1
  <2>. QED
    BY <1>3, <2>1
<1>. QED
  BY <1>1, <1>3, <1>4, <1>5

\* How a word w of length n is written.
Spelling(t, w, n) ==
    \/ \E q \in Quotes : /\ Len(t) = n + 2
                         /\ t[1] = q
                         /\ t[n + 2] = q
                         /\ \A i \in 1..n : t[i + 1] = w[i] /\ w[i] # q
    \/ /\ n >= 1
       /\ Len(t) = n
       /\ t[1] \notin Quotes
       /\ \A i \in 1..n : t[i] = w[i] /\ w[i] # Blank

LEMMA WrittenIs ==
    ASSUME NEW w \in Characters, NEW n \in Nat, Len(w) = n, NEW t \in Written(w)
    PROVE  t \in Characters /\ Spelling(t, w, n)
<1>1. w \in Seq(Character) /\ DOMAIN w = 1..n
  BY LenProperties DEF Characters
<1>2. ASSUME NEW q \in Quotes, \A i \in DOMAIN w : w[i] # q, t = <<q>> \o w \o <<q>>
      PROVE  /\ t \in Characters
             /\ Len(t) = n + 2
             /\ t[1] = q
             /\ t[n + 2] = q
             /\ \A i \in 1..n : t[i + 1] = w[i] /\ w[i] # q
  <2>1. q \in Character
    BY DEF Character
  <2>2. PICK o : o = <<q>>
    OBVIOUS
  <2>3. o \in Seq(Character) /\ Len(o) = 1 /\ o[1] = q
    BY <2>1, <2>2
  <2>4. PICK m \in Nat : m = 1 /\ Len(o) = m
    BY <2>3
  <2>5. PICK u, l : u = o \o w /\ l = m + n
    OBVIOUS
  <2>6. Joins(u, o, w, m, n)
    BY <1>1, <2>3, <2>4, <2>5, Joined
  <2>7. Joins(t, u, o, l, m)
    <3>1. t = u \o o /\ l \in Nat /\ u \in Seq(Character) /\ Len(u) = l
      BY <1>2, <2>2, <2>5, <2>6 DEF Joins
    <3>. QED
      BY <2>3, <2>4, <3>1, Joined
  <2>8. t \in Seq(Character) /\ Len(t) = n + 2
    BY <2>4, <2>5, <2>7 DEF Joins
  <2>9. t[1] = q /\ t[n + 2] = q
    BY <2>3, <2>4, <2>5, <2>6, <2>7 DEF Joins
  <2>10. ASSUME NEW i \in 1..n PROVE t[i + 1] = w[i] /\ w[i] # q
    <3>1. u[m + i] = w[i] /\ t[m + i] = u[m + i] /\ m + i = i + 1
      BY <2>4, <2>5, <2>6, <2>7 DEF Joins
    <3>. QED
      BY <1>1, <1>2, <3>1
  <2>. QED
    BY <2>8, <2>9, <2>10 DEF Characters
<1>3. ASSUME w # <<>>, Head(w) \notin Quotes, \A i \in DOMAIN w : w[i] # Blank, t = w
      PROVE  n >= 1 /\ t[1] \notin Quotes /\ \A i \in 1..n : t[i] = w[i] /\ w[i] # Blank
  <2>1. n >= 1
    BY <1>1, <1>3, EmptySeq
  <2>2. Head(w) = w[1]
    BY <1>1, <1>3
  <2>. QED
    BY <1>1, <1>3, <2>1, <2>2
<1>4. \/ \E q \in Quotes : (\A i \in DOMAIN w : w[i] # q) /\ t = <<q>> \o w \o <<q>>
      \/ w # <<>> /\ Head(w) \notin Quotes /\ (\A i \in DOMAIN w : w[i] # Blank) /\ t = w
  BY DEF Written
<1>5. CASE \E q \in Quotes : (\A i \in DOMAIN w : w[i] # q) /\ t = <<q>> \o w \o <<q>>
  BY <1>2, <1>5 DEF Spelling
<1>6. CASE w # <<>> /\ Head(w) \notin Quotes /\ (\A i \in DOMAIN w : w[i] # Blank) /\ t = w
  BY <1>3, <1>6 DEF Spelling
<1>. QED
  BY <1>4, <1>5, <1>6

\* The two ways of writing a word at the end of a line, each read back as it was meant.
QuotedAt(s, i, e, w, n, q) ==
    /\ e = i + n + 1
    /\ Len(s) = e
    /\ s[i] = q
    /\ s[e] = q
    /\ \A k \in 1..n : s[i + k] = w[k] /\ w[k] # q

LEMMA QuotedIsRead ==
    ASSUME NEW s \in Characters, NEW w \in Characters, NEW n \in Nat, Len(w) = n,
           NEW i \in Nat \ {0}, NEW e \in Nat, NEW q \in Quotes, QuotedAt(s, i, e, w, n, q)
    PROVE  /\ End(s, i) = e
           /\ WordAt(s, i) = w
           /\ After(s, i) = e + 2
<1>0. /\ e = i + n + 1
      /\ Len(s) = e
      /\ s[i] = q
      /\ s[e] = q
      /\ \A k \in 1..n : s[i + k] = w[k] /\ w[k] # q
  BY DEF QuotedAt
<1>1. Find(s, q, i + 1) = e
  <2>1. PICK x \in 1..(e + 1) : x = i + 1
    BY <1>0
  <2>2. PICK j \in x..(e + 1) : j = e
    BY <1>0, <2>1
  <2>3. Len(s) = e /\ (j <= e => s[j] = q)
    BY <1>0, <2>2
  <2>4. ASSUME NEW k \in x..(j - 1) PROVE s[k] # q
    <3>1. k - i \in 1..n /\ i + (k - i) = k
      BY <1>0, <2>1, <2>2
    <3>. QED
      BY <1>0, <3>1
  <2>5. Find(s, q, x) = j
    BY <2>3, <2>4, FindUnique
  <2>. QED
    BY <2>1, <2>2, <2>5
<1>2. End(s, i) = e
  BY <1>0, <1>1 DEF End
<1>3. WordAt(s, i) = w
  <2>1. PICK c : c = WordAt(s, i)
    OBVIOUS
  <2>2. c = SubSeq(s, i + 1, i + n) /\ s \in Seq(Character) /\ i + n <= Len(s)
    <3>1. e - 1 = i + n
      BY <1>0
    <3>. QED
      BY <1>0, <1>2, <2>1, <3>1 DEF WordAt, Characters
  <2>3. c \in Seq(Character)
    BY <2>2, Cut
  <2>4. Len(c) = n
    BY <2>2, Cut
  <2>5. ASSUME NEW k \in 1..n PROVE c[k] = w[k]
    <3>1. c[k] = s[i + k]
      BY <2>2, Cut
    <3>. QED
      BY <1>0, <3>1
  <2>. QED
    BY <2>1, <2>3, <2>4, <2>5, SeqEqual DEF Characters
<1>. QED
  BY <1>0, <1>2, <1>3 DEF After

LEMMA PlainIsRead ==
    ASSUME NEW s \in Characters, NEW w \in Characters, NEW n \in Nat, Len(w) = n,
           NEW b \in Nat, NEW e \in Nat, e = b + n, Len(s) = e, n >= 1,
           s[b + 1] \notin Quotes,
           \A k \in 1..n : s[b + k] = w[k] /\ w[k] # Blank
    PROVE  /\ WordAt(s, b + 1) = w
           /\ After(s, b + 1) = e + 2
<1>1. Find(s, Blank, b + 1) = e + 1
  <2>1. PICK x \in 1..(e + 1) : x = b + 1
    OBVIOUS
  <2>2. PICK j \in x..(e + 1) : j = e + 1
    BY <2>1
  <2>3. ~(j <= e)
    BY <2>2
  <2>4. ASSUME NEW k \in x..(j - 1) PROVE s[k] # Blank
    <3>1. k - b \in 1..n /\ b + (k - b) = k
      BY <2>1, <2>2
    <3>. QED
      BY <3>1
  <2>5. Find(s, Blank, x) = j
    BY <2>3, <2>4, FindUnique
  <2>. QED
    BY <2>1, <2>2, <2>5
<1>2. End(s, b + 1) = e + 1
  BY <1>1 DEF End
<1>3. WordAt(s, b + 1) = w
  <2>1. PICK c : c = WordAt(s, b + 1)
    OBVIOUS
  <2>2. c = SubSeq(s, b + 1, b + n) /\ s \in Seq(Character) /\ b + n <= Len(s)
    <3>1. (e + 1) - 1 = b + n
      OBVIOUS
    <3>. QED
      BY <1>2, <2>1, <3>1 DEF WordAt, Characters
  <2>3. c \in Seq(Character)
    BY <2>2, Cut
  <2>4. Len(c) = n
    BY <2>2, Cut
  <2>5. ASSUME NEW k \in 1..n PROVE c[k] = w[k]
    <3>1. c[k] = s[b + k]
      BY <2>2, Cut
    <3>. QED
      BY <3>1
  <2>. QED
    BY <2>1, <2>3, <2>4, <2>5, SeqEqual DEF Characters
<1>. QED
  BY <1>2, <1>3 DEF After

EndsWith(s, t, b, m) ==
    /\ Len(t) = m
    /\ Len(s) = b + m
    /\ \A k \in 1..m : s[b + k] = t[k]

LEMMA ReadBack ==
    ASSUME NEW w \in Characters, NEW t \in Written(w), NEW s \in Characters,
           NEW b \in Nat, NEW m \in Nat, EndsWith(s, t, b, m)
    PROVE  /\ m >= 1
           /\ WordAt(s, b + 1) = w
           /\ After(s, b + 1) = b + m + 2
           /\ s[b + 1] \in Quotes => End(s, b + 1) <= b + m
<1>0. Len(t) = m /\ Len(s) = b + m /\ \A k \in 1..m : s[b + k] = t[k]
  BY DEF EndsWith
<1>1. PICK n \in Nat : Len(w) = n
  BY LenProperties DEF Characters
<1>2. ASSUME NEW q \in Quotes, m = n + 2, t[1] = q, t[n + 2] = q,
             \A k \in 1..n : t[k + 1] = w[k] /\ w[k] # q
      PROVE  /\ m >= 1
             /\ WordAt(s, b + 1) = w
             /\ After(s, b + 1) = b + m + 2
             /\ s[b + 1] \in Quotes => End(s, b + 1) <= b + m
  <2>1. PICK i \in Nat \ {0} : i = b + 1
    OBVIOUS
  <2>2. PICK e \in Nat : e = b + m
    OBVIOUS
  <2>3. e = i + n + 1 /\ Len(s) = e
    BY <1>0, <1>2, <2>1, <2>2
  <2>4. s[i] = q /\ s[e] = q
    BY <1>0, <1>2, <2>1, <2>2
  <2>5. \A k \in 1..n : s[i + k] = w[k] /\ w[k] # q
    <3>1. ASSUME NEW k \in 1..n PROVE s[i + k] = w[k] /\ w[k] # q
      <4>1. k + 1 \in 1..m /\ b + (k + 1) = i + k
        BY <1>2, <2>1
      <4>. QED
        BY <1>0, <1>2, <4>1
    <3>. QED
      BY <3>1
  <2>6. QuotedAt(s, i, e, w, n, q)
    BY <2>3, <2>4, <2>5 DEF QuotedAt
  <2>7. End(s, i) = e
    BY <1>1, <2>6, QuotedIsRead
  <2>8. WordAt(s, i) = w
    BY <1>1, <2>6, QuotedIsRead
  <2>9. After(s, i) = e + 2
    BY <1>1, <2>6, QuotedIsRead
  <2>. QED
    BY <1>2, <2>1, <2>2, <2>7, <2>8, <2>9
<1>3. ASSUME n >= 1, m = n, t[1] \notin Quotes, \A k \in 1..n : t[k] = w[k] /\ w[k] # Blank
      PROVE  /\ m >= 1
             /\ WordAt(s, b + 1) = w
             /\ After(s, b + 1) = b + m + 2
             /\ s[b + 1] \in Quotes => End(s, b + 1) <= b + m
  <2>1. PICK e \in Nat : e = b + m
    OBVIOUS
  <2>2. s[b + 1] \notin Quotes
    BY <1>0, <1>3
  <2>3. ASSUME NEW k \in 1..n PROVE s[b + k] = w[k] /\ w[k] # Blank
    BY <1>0, <1>3
  <2>4. e = b + n /\ Len(s) = e
    BY <1>0, <1>3, <2>1
  <2>5. WordAt(s, b + 1) = w
    BY <1>1, <1>3, <2>2, <2>3, <2>4, PlainIsRead
  <2>6. After(s, b + 1) = e + 2
    BY <1>1, <1>3, <2>2, <2>3, <2>4, PlainIsRead
  <2>. QED
    BY <1>3, <2>1, <2>2, <2>5, <2>6
<1>4. Spelling(t, w, n)
  BY <1>1, WrittenIs
<1>. QED
  BY <1>0, <1>2, <1>3, <1>4 DEF Spelling

\* A word that was read in a line is read in a longer one: what follows is a blank.
LEMMA FoundStill ==
    ASSUME NEW l, NEW s, NEW n \in Nat, NEW z \in Nat, Len(l) = n, Len(s) = z, n < z,
           \A k \in 1..n : s[k] = l[k], NEW c, NEW i \in 1..(n + 1),
           Find(l, c, i) <= n \/ s[n + 1] = c
    PROVE  Find(s, c, i) = Find(l, c, i)
<1>1. PICK j \in i..(n + 1) : j = Find(l, c, i)
  BY FindIs
<1>2. j <= n => l[j] = c
  BY <1>1, FindIs
<1>3. \A k \in i..(j - 1) : l[k] # c
  BY <1>1, FindIs
<1>4. i \in 1..(z + 1) /\ j \in i..(z + 1) /\ j <= z
  BY <1>1
<1>5. s[j] = c
  <2>1. CASE j <= n
    BY <1>1, <1>2, <2>1
  <2>2. CASE ~(j <= n)
    BY <1>1, <2>2
  <2>. QED
    BY <2>1, <2>2
<1>6. ASSUME NEW k \in i..(j - 1) PROVE s[k] # c
  <2>1. k \in 1..n
    BY <1>1
  <2>. QED
    BY <1>3, <2>1
<1>7. Find(s, c, i) = j
  BY <1>4, <1>5, <1>6, FindUnique
<1>. QED
  BY <1>1, <1>7

Extends(s, l, n, z) ==
    /\ Len(l) = n
    /\ Len(s) = z
    /\ n < z
    /\ \A k \in 1..n : s[k] = l[k]
    /\ s[n + 1] = Blank

LEMMA StillRead ==
    ASSUME NEW l \in Characters, NEW s \in Characters, NEW n \in Nat, NEW z \in Nat,
           Extends(s, l, n, z), NEW i \in 1..n, l[i] \in Quotes => End(l, i) <= n
    PROVE  /\ s[i] = l[i]
           /\ End(s, i) = End(l, i)
           /\ WordAt(s, i) = WordAt(l, i)
           /\ After(s, i) = After(l, i)
<1>1. Len(l) = n /\ Len(s) = z /\ n < z /\ \A k \in 1..n : s[k] = l[k]
  BY DEF Extends
<1>2. s[n + 1] = Blank /\ s[i] = l[i]
  BY DEF Extends
<1>3. End(s, i) = End(l, i)
  <2>1. CASE l[i] \in Quotes
    <3>1. Find(l, l[i], i + 1) <= n /\ i + 1 \in 1..(n + 1)
      BY <2>1 DEF End
    <3>2. Find(s, l[i], i + 1) = Find(l, l[i], i + 1)
      BY <1>1, <3>1, FoundStill
    <3>. QED
      BY <1>2, <2>1, <3>2 DEF End
  <2>2. CASE l[i] \notin Quotes
    <3>1. i \in 1..(n + 1)
      OBVIOUS
    <3>2. Find(s, Blank, i) = Find(l, Blank, i)
      BY <1>1, <1>2, <3>1, FoundStill
    <3>. QED
      BY <1>2, <2>2, <3>2 DEF End
  <2>. QED
    BY <2>1, <2>2
<1>4. PICK a \in 0..n, m \in 0..n : /\ WordAt(l, i) = SubSeq(l, a + 1, a + m)
                                    /\ WordAt(s, i) = SubSeq(s, a + 1, a + m)
                                    /\ a + m <= n
  <2>1. PICK e \in i..(n + 1) : e = End(l, i)
    BY <1>1, Ends
  <2>2. CASE l[i] \in Quotes
    <3>1. Find(l, l[i], i + 1) \in (i + 1)..(n + 1)
      BY <1>1, FindIs
    <3>2. e \in (i + 1)..n
      BY <2>1, <2>2, <3>1 DEF End
    <3>3. PICK m \in 0..n : m = e - 1 - i
      BY <3>2
    <3>4. i \in 0..n /\ i + m <= n /\ e - 1 = i + m
      BY <3>2, <3>3
    <3>5. WordAt(l, i) = SubSeq(l, i + 1, i + m) /\ WordAt(s, i) = SubSeq(s, i + 1, i + m)
      BY <1>2, <1>3, <2>1, <2>2, <3>4 DEF WordAt
    <3>. QED
      BY <3>4, <3>5
  <2>3. CASE l[i] \notin Quotes
    <3>1. PICK a \in 0..n : a = i - 1
      OBVIOUS
    <3>2. PICK m \in 0..n : m = e - 1 - a
      BY <3>1
    <3>3. a + 1 = i /\ e - 1 = a + m /\ a + m <= n
      BY <3>1, <3>2
    <3>4. WordAt(l, i) = SubSeq(l, a + 1, a + m) /\ WordAt(s, i) = SubSeq(s, a + 1, a + m)
      BY <1>2, <1>3, <2>1, <2>3, <3>3 DEF WordAt
    <3>. QED
      BY <3>3, <3>4
  <2>. QED
    BY <2>2, <2>3
<1>5. PICK u, v : u = WordAt(l, i) /\ v = WordAt(s, i)
  OBVIOUS
<1>6. /\ a \in Nat /\ m \in Nat /\ a + m <= Len(l) /\ a + m <= Len(s)
      /\ l \in Seq(Character) /\ s \in Seq(Character)
  BY <1>1, <1>4 DEF Characters
<1>7. u \in Seq(Character) /\ Len(u) = m /\ \A k \in 1..m : u[k] = l[a + k]
  <2>1. /\ SubSeq(l, a + 1, a + m) \in Seq(Character)
        /\ Len(SubSeq(l, a + 1, a + m)) = m
        /\ \A k \in 1..m : SubSeq(l, a + 1, a + m)[k] = l[a + k]
    BY <1>6, Cut
  <2>. QED
    BY <1>4, <1>5, <2>1
<1>8. v \in Seq(Character) /\ Len(v) = m /\ \A k \in 1..m : v[k] = s[a + k]
  <2>1. /\ SubSeq(s, a + 1, a + m) \in Seq(Character)
        /\ Len(SubSeq(s, a + 1, a + m)) = m
        /\ \A k \in 1..m : SubSeq(s, a + 1, a + m)[k] = s[a + k]
    BY <1>6, Cut
  <2>. QED
    BY <1>4, <1>5, <2>1
<1>9. ASSUME NEW k \in 1..m PROVE u[k] = v[k]
  <2>1. u[k] = l[a + k]
    BY <1>7
  <2>2. v[k] = s[a + k]
    BY <1>8
  <2>3. a + k \in 1..n
    BY <1>4, <1>6
  <2>. QED
    BY <1>1, <2>1, <2>2, <2>3
<1>10. u = v
  BY <1>7, <1>8, <1>9, SeqEqual
<1>. QED
  BY <1>2, <1>3, <1>5, <1>10 DEF After

---------------------------------------------------------------------------
(* Lines that spell their words.                                           *)

\* The words of m, c in number, begin in the line l, n long, at the places p; a quoted
\* one finds its partner.
SpelledAt(l, m, n, c, p) ==
    /\ Len(l) = n
    /\ Len(m) = c
    /\ p[1] = 1
    /\ p[c + 1] = n + 2
    /\ \A k \in 1..c : /\ p[k] \in 1..n
                       /\ WordAt(l, p[k]) = m[k]
                       /\ After(l, p[k]) = p[k + 1]
                       /\ l[p[k]] \in Quotes => End(l, p[k]) <= n

Spelled(l, m) ==
    \E n, c \in Nat : \E p \in [1..(c + 1) -> Nat] : SpelledAt(l, m, n, c, p)

\* tokenize finds the words that a line spells, and no open quote.
LEMMA SpelledIsRead ==
    ASSUME NEW l \in Characters, NEW m \in Words, Spelled(l, m)
    PROVE  Tokens(l) = m /\ ~QuoteOpen(l)
<1>1. PICK n \in Nat, c \in Nat : \E p \in [1..(c + 1) -> Nat] : SpelledAt(l, m, n, c, p)
  BY DEF Spelled
<1>2. PICK p \in [1..(c + 1) -> Nat] : SpelledAt(l, m, n, c, p)
  BY <1>1
<1>3. Len(l) = n /\ Len(m) = c /\ p[1] = 1 /\ p[c + 1] = n + 2
  BY <1>2 DEF SpelledAt
<1>4. \A k \in 1..c : /\ p[k] \in 1..n
                      /\ WordAt(l, p[k]) = m[k]
                      /\ After(l, p[k]) = p[k + 1]
                      /\ l[p[k]] \in Quotes => End(l, p[k]) <= n
  BY <1>2 DEF SpelledAt
<1>5. PICK from : /\ Tokens(l) = from[1]
                  /\ from = [i \in 1..(n + 3) |->
                                IF i > n THEN <<>> ELSE <<WordAt(l, i)>> \o from[After(l, i)]]
  BY <1>3, TokensUnfold
<1>6. PICK open : /\ QuoteOpen(l) = open[1]
                  /\ open = [i \in 1..(n + 3) |->
                                IF i > n THEN FALSE
                                ELSE (l[i] \in Quotes /\ End(l, i) > n) \/ open[After(l, i)]]
  BY <1>3, QuoteOpenUnfold
<1>. DEFINE Good(j) == /\ from[p[c + 1 - j]] = SubSeq(m, c + 1 - j, c)
                       /\ open[p[c + 1 - j]] = FALSE
            T == {j \in 0..c : ~Good(j)}
<1>. HIDE DEF Good
<1>7. T = {}
  <2>1. SUFFICES ASSUME T # {} PROVE FALSE
    OBVIOUS
  <2>2. PICK j \in T : \A k \in T : j <= k
    <3>1. T \in SUBSET Nat
      OBVIOUS
    <3>. HIDE DEF T
    <3>. QED
      BY <2>1, <3>1, Least
  <2>3. j \in 0..c /\ ~Good(j)
    OBVIOUS
  <2>4. CASE j = 0
    <3>1. c + 1 - j = c + 1 /\ n + 2 \in 1..(n + 3) /\ n + 2 > n
      BY <2>4
    <3>2. from[n + 2] = <<>> /\ open[n + 2] = FALSE
      BY <1>5, <1>6, <3>1
    <3>3. SubSeq(m, c + 1, c) = <<>>
      BY SubSeqEmpty
    <3>. QED
      BY <1>3, <2>3, <3>1, <3>2, <3>3 DEF Good
  <2>5. CASE j # 0
    <3>1. PICK k \in 1..c : k = c + 1 - j
      BY <2>3, <2>5
    <3>2. j - 1 \in 0..c /\ c + 1 - (j - 1) = k + 1 /\ ~(j <= j - 1)
      BY <2>3, <2>5, <3>1
    <3>3. Good(j - 1)
      BY <2>2, <3>2
    <3>4. from[p[k + 1]] = SubSeq(m, k + 1, c) /\ open[p[k + 1]] = FALSE
      BY <3>2, <3>3 DEF Good
    <3>5. PICK i \in 1..n : i = p[k]
      BY <1>4
    <3>6. i \in 1..(n + 3) /\ ~(i > n)
      OBVIOUS
    <3>7. WordAt(l, i) = m[k] /\ After(l, i) = p[k + 1] /\ (l[i] \in Quotes => End(l, i) <= n)
      BY <1>4, <3>5
    <3>8. from[i] = <<m[k]>> \o SubSeq(m, k + 1, c)
      BY <1>5, <3>4, <3>6, <3>7
    <3>9. from[i] = SubSeq(m, k, c)
      <4>1. k \in 1..Len(m) /\ c \in k..Len(m) /\ m \in Seq(Characters)
        BY <1>3 DEF Words
      <4>2. SubSeq(m, k, c) = <<m[k]>> \o SubSeq(m, k + 1, c)
        BY <4>1, SubSeqRecursiveFirst
      <4>. QED
        BY <3>8, <4>2
    <3>10. open[i] = FALSE
      <4>1. End(l, i) \in Nat
        <5>1. End(l, i) \in i..(n + 1)
          BY <1>3, Ends
        <5>. QED
          BY <5>1
      <4>2. ~(l[i] \in Quotes /\ End(l, i) > n)
        BY <3>7, <4>1
      <4>. QED
        BY <1>6, <3>4, <3>6, <3>7, <4>2
    <3>. QED
      BY <2>3, <3>1, <3>5, <3>9, <3>10 DEF Good
  <2>. QED
    BY <2>4, <2>5
<1>8. c \in 0..c /\ c + 1 - c = 1
  OBVIOUS
<1>9. Good(c)
  BY <1>7, <1>8
<1>10. from[1] = SubSeq(m, 1, c) /\ open[1] = FALSE
  BY <1>3, <1>8, <1>9 DEF Good
<1>11. SubSeq(m, 1, c) = m
  BY <1>3, SubSeqFull DEF Words
<1>. QED
  BY <1>5, <1>6, <1>10, <1>11

\* A line goes on spelling its words as the next word is written.
LEMMA FirstWord ==
    ASSUME NEW w \in Characters, NEW t \in Written(w)
    PROVE  t \in Characters /\ t # <<>> /\ Spelled(t, <<w>>)
<1>1. t \in Characters /\ Len(t) \in Nat
  <2>1. PICK n \in Nat : Len(w) = n
    BY LenProperties DEF Characters
  <2>2. t \in Characters
    BY <2>1, WrittenIs
  <2>. QED
    BY <2>2, LenProperties DEF Characters
<1>2. PICK z \in Nat : z = Len(t)
  BY <1>1
<1>3. PICK b \in Nat : b = 0
  OBVIOUS
<1>4. EndsWith(t, t, b, z) /\ Len(t) = z
  BY <1>2, <1>3 DEF EndsWith
<1>5. z >= 1
  BY <1>1, <1>4, ReadBack
<1>6. WordAt(t, b + 1) = w
  BY <1>1, <1>4, ReadBack
<1>7. After(t, b + 1) = b + z + 2
  BY <1>1, <1>4, ReadBack
<1>8. t[b + 1] \in Quotes => End(t, b + 1) <= b + z
  BY <1>1, <1>4, ReadBack
<1>9. PICK c \in Nat : c = 1
  OBVIOUS
<1>10. PICK p : p = [k \in 1..(c + 1) |-> IF k = 1 THEN 1 ELSE z + 2]
  OBVIOUS
<1>11. p \in [1..(c + 1) -> Nat] /\ p[1] = 1 /\ p[c + 1] = z + 2
  BY <1>9, <1>10
<1>12. Len(<<w>>) = c /\ <<w>>[1] = w
  BY <1>9
<1>13. ASSUME NEW k \in 1..c
       PROVE  /\ p[k] \in 1..z
              /\ WordAt(t, p[k]) = <<w>>[k]
              /\ After(t, p[k]) = p[k + 1]
              /\ t[p[k]] \in Quotes => End(t, p[k]) <= z
  <2>1. k = 1 /\ k + 1 = c + 1 /\ b + 1 = 1 /\ b + z = z
    BY <1>3, <1>9
  <2>2. p[k] = b + 1 /\ p[k + 1] = b + z + 2
    BY <1>11, <2>1
  <2>. QED
    BY <1>5, <1>6, <1>7, <1>8, <1>12, <2>1, <2>2
<1>14. SpelledAt(t, <<w>>, z, c, p)
  BY <1>4, <1>11, <1>12, <1>13 DEF SpelledAt
<1>15. Spelled(t, <<w>>)
  BY <1>11, <1>14 DEF Spelled
<1>16. t # <<>>
  BY <1>1, <1>4, <1>5
<1>. QED
  BY <1>1, <1>15, <1>16

LEMMA NextWord ==
    ASSUME NEW l \in Characters, NEW m \in Words, Spelled(l, m),
           NEW w \in Characters, NEW t \in Written(w), NEW s, s = Append(l, Blank) \o t
    PROVE  s \in Characters /\ s # <<>> /\ Spelled(s, Append(m, w))
<1>1. PICK n \in Nat, c \in Nat : \E p \in [1..(c + 1) -> Nat] : SpelledAt(l, m, n, c, p)
  BY DEF Spelled
<1>2. PICK p \in [1..(c + 1) -> Nat] : SpelledAt(l, m, n, c, p)
  BY <1>1
<1>3. Len(l) = n /\ Len(m) = c /\ p[1] = 1 /\ p[c + 1] = n + 2
  BY <1>2 DEF SpelledAt
<1>4. \A k \in 1..c : /\ p[k] \in 1..n
                      /\ WordAt(l, p[k]) = m[k]
                      /\ After(l, p[k]) = p[k + 1]
                      /\ l[p[k]] \in Quotes => End(l, p[k]) <= n
  BY <1>2 DEF SpelledAt
<1>5. t \in Seq(Character)
  <2>1. PICK x \in Nat : Len(w) = x
    BY LenProperties DEF Characters
  <2>. QED
    BY <2>1, WrittenIs DEF Characters
<1>6. PICK z \in Nat : z = Len(t)
  BY <1>5, LenProperties
<1>7. PICK u, b : u = Append(l, Blank) /\ b = n + 1
  OBVIOUS
<1>8. /\ b \in Nat
      /\ u \in Seq(Character)
      /\ Len(u) = b
      /\ u[b] = Blank
      /\ \A k \in 1..n : u[k] = l[k]
  <2>0. b \in Nat
    BY <1>7
  <2>1. l \in Seq(Character) /\ Blank \in Character
    BY DEF Characters, Character
  <2>2. u \in Seq(Character)
    BY <1>7, <2>1
  <2>3. Len(u) = b /\ u[b] = Blank
    BY <1>3, <1>7, <2>1
  <2>4. ASSUME NEW k \in 1..n PROVE u[k] = l[k]
    BY <1>3, <1>7, <2>1
  <2>. QED
    BY <2>0, <2>2, <2>3, <2>4
<1>9. Joins(s, u, t, b, z)
  <2>1. s = u \o t /\ Len(u) = b /\ Len(t) = z
    BY <1>6, <1>7, <1>8
  <2>. QED
    BY <1>5, <1>8, <2>1, Joined
<1>10. s \in Characters
  BY <1>9 DEF Joins, Characters
<1>11. EndsWith(s, t, b, z) /\ Len(s) = b + z
  BY <1>6, <1>9 DEF Joins, EndsWith
<1>12. z >= 1
  BY <1>8, <1>10, <1>11, ReadBack
<1>13. WordAt(s, b + 1) = w
  BY <1>8, <1>10, <1>11, ReadBack
<1>14. After(s, b + 1) = b + z + 2
  BY <1>8, <1>10, <1>11, ReadBack
<1>15. s[b + 1] \in Quotes => End(s, b + 1) <= b + z
  BY <1>8, <1>10, <1>11, ReadBack
<1>16. PICK e \in Nat, d \in Nat : e = b + z /\ d = c + 1
  BY <1>8
<1>17. Extends(s, l, n, e)
  <2>1. n < e /\ n + 1 \in 1..b
    BY <1>7, <1>8, <1>16
  <2>2. s[n + 1] = Blank
    BY <1>7, <1>8, <1>9, <2>1 DEF Joins
  <2>3. ASSUME NEW k \in 1..n PROVE s[k] = l[k]
    BY <1>7, <1>8, <1>9 DEF Joins
  <2>. QED
    BY <1>3, <1>11, <1>16, <2>1, <2>2, <2>3 DEF Extends
<1>18. PICK q : q = [k \in 1..(d + 1) |-> IF k = d + 1 THEN e + 2 ELSE p[k]]
  OBVIOUS
<1>19. q \in [1..(d + 1) -> Nat]
  BY <1>16, <1>18
<1>20. q[d + 1] = e + 2 /\ q[d] = n + 2 /\ \A k \in 1..(c + 1) : q[k] = p[k]
  BY <1>3, <1>16, <1>18
<1>21. q[1] = 1
  BY <1>3, <1>20
<1>22. PICK r : r = Append(m, w)
  OBVIOUS
<1>23. Len(r) = d /\ r[d] = w /\ \A k \in 1..c : r[k] = m[k]
  <2>1. m \in Seq(Characters)
    BY DEF Words
  <2>2. Len(r) = d /\ r[d] = w
    BY <1>3, <1>16, <1>22, <2>1
  <2>3. ASSUME NEW k \in 1..c PROVE r[k] = m[k]
    BY <1>3, <1>22, <2>1
  <2>. QED
    BY <2>2, <2>3
<1>24. ASSUME NEW k \in 1..d
       PROVE  /\ q[k] \in 1..e
              /\ WordAt(s, q[k]) = r[k]
              /\ After(s, q[k]) = q[k + 1]
              /\ s[q[k]] \in Quotes => End(s, q[k]) <= e
  <2>1. CASE k \in 1..c
    <3>1. k \in 1..(c + 1) /\ k + 1 \in 1..(c + 1)
      BY <2>1
    <3>2. q[k] = p[k] /\ q[k + 1] = p[k + 1] /\ r[k] = m[k]
      BY <1>20, <1>23, <2>1, <3>1
    <3>3. PICK i \in 1..n : i = p[k]
      BY <1>4, <2>1
    <3>4. WordAt(l, i) = m[k] /\ After(l, i) = p[k + 1] /\ (l[i] \in Quotes => End(l, i) <= n)
      BY <1>4, <2>1, <3>3
    <3>5. s[i] = l[i]
      BY <1>17 DEF Extends
    <3>6. End(s, i) = End(l, i)
      BY <1>10, <1>17, <3>4, StillRead
    <3>7. WordAt(s, i) = WordAt(l, i)
      BY <1>10, <1>17, <3>4, StillRead
    <3>8. After(s, i) = After(l, i)
      BY <1>10, <1>17, <3>4, StillRead
    <3>9. n <= e /\ End(l, i) \in Nat
      <4>1. End(l, i) \in i..(n + 1)
        BY <1>3, Ends
      <4>. QED
        BY <1>7, <1>8, <1>16, <4>1
    <3>10. s[i] \in Quotes => End(s, i) <= e
      BY <3>4, <3>5, <3>6, <3>9
    <3>11. q[k] = i /\ i \in 1..e
      BY <1>16, <3>2, <3>3, <3>9
    <3>12. WordAt(s, i) = r[k] /\ After(s, i) = q[k + 1]
      BY <3>2, <3>4, <3>7, <3>8
    <3>. QED
      BY <3>10, <3>11, <3>12
  <2>2. CASE k = d
    <3>1. q[k] = b + 1 /\ q[k + 1] = b + z + 2 /\ r[k] = w /\ b + 1 \in 1..e
      BY <1>7, <1>8, <1>12, <1>16, <1>20, <1>23, <2>2
    <3>. QED
      BY <1>13, <1>14, <1>15, <1>16, <3>1
  <2>3. k \in 1..c \/ k = d
    BY <1>16
  <2>. QED
    BY <2>1, <2>2, <2>3
<1>25. SpelledAt(s, r, e, d, q)
  BY <1>11, <1>16, <1>20, <1>21, <1>23, <1>24 DEF SpelledAt
<1>26. Spelled(s, r)
  BY <1>19, <1>25 DEF Spelled
<1>27. s # <<>>
  BY <1>7, <1>10, <1>11, <1>12
<1>. QED
  BY <1>10, <1>22, <1>26, <1>27

---------------------------------------------------------------------------
(* interpret.                                                              *)

LEMMA Operations ==
    /\ Operation = {"create_stream", "delete_stream", "push", "create_projection",
                    "get_streams", "get_projections", "delete_projection", "play"}
    /\ Arity["create_stream"] = {1} /\ Arity["delete_stream"] = {1}
    /\ Arity["push"] = {4} /\ Arity["create_projection"] = {1, 2}
    /\ Arity["get_streams"] = {0, 1} /\ Arity["get_projections"] = {0, 1}
    /\ Arity["delete_projection"] = {1} /\ Arity["play"] = {2, 3}
BY DEF Operation, Arity

LEMMA ArityIs == ASSUME NEW o \in Operation PROVE Arity[o] \subseteq 0..4
BY Operations

\* The places of the numbers are places of arguments.
LEMMA NumericIs ==
    ASSUME NEW o \in Operation
    PROVE  /\ DOMAIN Numeric[o] \subseteq {1, 2}
           /\ \A n \in Arity[o] : \A i \in DOMAIN Numeric[o] : Numeric[o][i] \in 1..n
<1>1. CASE o \in {"delete_stream", "delete_projection", "play"}
  <2>1. Numeric[o] = <<1>>
    BY <1>1 DEF Numeric
  <2>2. \A n \in Arity[o] : n \in Nat /\ n >= 1
    BY <1>1, Operations
  <2>. QED
    BY <2>1, <2>2
<1>2. CASE o = "push"
  <2>1. Numeric[o] = <<1, 4>> /\ Arity[o] = {4}
    BY <1>2, Operations DEF Numeric
  <2>. QED
    BY <2>1
<1>3. CASE o \notin {"delete_stream", "delete_projection", "play", "push"}
  <2>1. Numeric[o] = <<>>
    BY <1>3 DEF Numeric
  <2>. QED
    BY <2>1
<1>. QED
  BY <1>1, <1>2, <1>3

\* A conversion that is out of range has found such a number among the arguments.
LEMMA OutOfRange ==
    ASSUME NEW o \in Operation, NEW args, Len(args) \in Arity[o],
           Conversion(o, args) = "out_of_range"
    PROVE  \E k \in 1..Len(args) : args[k] \in Huge
<1>. DEFINE bad == {i \in DOMAIN Numeric[o] : args[Numeric[o][i]] \notin Number}
            first == CHOOSE i \in bad : \A j \in bad : i <= j
<1>1. bad # {} /\ args[Numeric[o][first]] \in Huge
  BY DEF Conversion
<1>2. first \in bad
  <2>1. bad \in SUBSET Nat
    BY NumericIs
  <2>2. \E i \in bad : \A j \in bad : i <= j
    <3>. HIDE DEF bad
    <3>. QED
      BY <1>1, <2>1, Least
  <2>. QED
    BY <2>2
<1>3. first \in DOMAIN Numeric[o]
  BY <1>2
<1>4. Numeric[o][first] \in 1..Len(args)
  <2>. HIDE DEF first
  <2>. QED
    BY <1>3, NumericIs
<1>. QED
  BY <1>1, <1>4

LEMMA Replaced ==
    ASSUME NEW T, NEW s \in Seq(T), NEW i \in 1..Len(s), NEW e
    PROVE  Len(ReplaceAt(s, i, e)) = Len(s)
<1>1. s \in Seq(T \cup {e})
  BY SeqMonotonic
<1>2. Len([s EXCEPT ![i] = e]) = Len(s)
  BY <1>1, ExceptSeq
<1>. QED
  BY <1>2 DEF ReplaceAt

LEMMA CallIs ==
    ASSUME NEW o \in Operation, NEW args \in Words, Len(args) \in Arity[o],
           NEW a \in CallArgs(o, args)
    PROVE  Len(a) \in Arity[o]
<1>1. CASE o = "play"
  <2>1. 2 \in 1..Len(args)
    BY <1>1, Operations
  <2>2. a \in PlayArgs(args)
    BY <1>1 DEF CallArgs
  <2>3. PICK e : a = ReplaceAt(args, 2, e)
    BY <2>2 DEF PlayArgs
  <2>. QED
    BY <2>1, <2>3, Replaced DEF Words
<1>2. CASE /\ o \in {"create_projection", "get_streams", "get_projections"}
           /\ Len(args) = (CHOOSE n \in Arity[o] : n - 1 \in Arity[o])
           /\ Last(args) = <<>>
  <2>1. a = Front(args)
    BY <1>2 DEF CallArgs
  <2>2. \E n \in Arity[o] : n - 1 \in Arity[o]
    <3>1. CASE o = "create_projection"
      <4>1. 2 \in Arity[o] /\ 2 - 1 \in Arity[o]
        BY <3>1, Operations
      <4>. QED
        BY <4>1
    <3>2. CASE o \in {"get_streams", "get_projections"}
      <4>1. 1 \in Arity[o] /\ 1 - 1 \in Arity[o]
        BY <3>2, Operations
      <4>. QED
        BY <4>1
    <3>. QED
      BY <1>2, <3>1, <3>2
  <2>3. Len(args) - 1 \in Arity[o]
    BY <1>2, <2>2
  <2>4. Len(args) \in Nat /\ Len(args) - 1 \in Nat
    BY <2>3, ArityIs
  <2>5. Len(Front(args)) = Len(args) - 1
    <3>1. PICK k \in Nat : k = Len(args) - 1
      BY <2>4
    <3>2. \A i \in 1..k : args[i] \in Characters
      BY <2>4, <3>1, ElementOfSeq DEF Words
    <3>3. Len(SubSeq(args, 1, k)) = IF 1 <= k THEN k - 1 + 1 ELSE 0
      BY <3>2, SubSeqProperties
    <3>. QED
      BY <3>1, <3>3 DEF Front
  <2>. QED
    BY <2>1, <2>3, <2>5
<1>3. CASE /\ o # "play"
           /\ ~(/\ o \in {"create_projection", "get_streams", "get_projections"}
                /\ Len(args) = (CHOOSE n \in Arity[o] : n - 1 \in Arity[o])
                /\ Last(args) = <<>>)
  <2>1. a = args
    BY <1>3 DEF CallArgs
  <2>. QED
    BY <2>1
<1>. QED
  BY <1>1, <1>2, <1>3

\* What is known of a command that words become.
Proper(c, words) ==
    /\ c.kind \in Kinds \ {"none"}
    /\ c.kind = "call" => Len(c.args) \in Arity[c.op]
    /\ c.kind = "throws" => \/ Oversized(words)
                            \/ Len(words) = 4 /\ words[4] \notin Json

LEMMA CommandIs ==
    ASSUME NEW words \in Words, words # <<>>, NEW c \in Commands(words)
    PROVE  Proper(c, words)
<1>0. PICK args : args = Tail(words)
  OBVIOUS
<1>1. /\ args \in Words
      /\ Len(words) \in Nat /\ Len(args) = Len(words) - 1
      /\ \A i \in 1..Len(args) : args[i] = words[i + 1]
  BY <1>0, HeadTailProperties, LenProperties DEF Words
<1>2. CASE c \in {Simple("help"), Simple("quit"), Simple("unknown"), Simple("invalid")}
  BY <1>2 DEF Proper, Simple, Kinds
<1>3. CASE /\ c \notin {Simple("help"), Simple("quit"), Simple("unknown"), Simple("invalid")}
           /\ \E o \in Operation : Head(words) = <<o>>
  <2>1. PICK o \in Operation : Head(words) = <<o>>
    BY <1>3
  <2>2. Head(words)[1] = o
    BY <2>1
  <2>3. Head(words) # <<"help">> /\ Head(words) # <<"quit">>
    <3>1. <<o>>[1] # <<"help">>[1] /\ <<o>>[1] # <<"quit">>[1]
      BY Operations
    <3>. QED
      BY <2>1, <3>1
  <2>4. c \in IF \/ Len(args) \notin Arity[o]
                 \/ Conversion(o, args) = "invalid_argument"
              THEN {Simple("invalid")}
              ELSE IF \/ Conversion(o, args) = "out_of_range"
                      \/ o = "play" /\ Len(args) = 3 /\ args[3] \notin Json
                   THEN {Simple("throws")}
                   ELSE {Call(o, a) : a \in CallArgs(o, args)}
    BY <1>0, <2>1, <2>2, <2>3 DEF Commands
  <2>5. Len(args) \in Arity[o] /\ Conversion(o, args) # "invalid_argument"
    BY <1>3, <2>4
  <2>6. CASE Conversion(o, args) = "out_of_range"
    <3>1. c = Simple("throws")
      BY <2>4, <2>5, <2>6
    <3>2. PICK k \in 1..Len(args) : args[k] \in Huge
      BY <2>5, <2>6, OutOfRange
    <3>3. k + 1 \in 2..Len(words) /\ words[k + 1] \in Huge
      BY <1>1, <3>2
    <3>4. Oversized(words)
      BY <3>3 DEF Oversized
    <3>. QED
      BY <3>1, <3>4 DEF Proper, Simple, Kinds
  <2>7. CASE /\ Conversion(o, args) # "out_of_range"
             /\ o = "play" /\ Len(args) = 3 /\ args[3] \notin Json
    <3>1. c = Simple("throws")
      BY <2>4, <2>5, <2>7
    <3>2. Len(words) = 4 /\ words[4] \notin Json
      <4>1. Len(words) = 4
        <5>1. PICK x \in Nat : x = Len(words)
          BY <1>1
        <5>2. x - 1 = 3
          BY <1>1, <2>7, <5>1
        <5>3. x = 4
          BY <5>2
        <5>. QED
          BY <5>1, <5>3
      <4>2. 3 \in 1..Len(args) /\ 3 + 1 = 4
        BY <2>7
      <4>3. args[3] = words[4]
        BY <1>1, <4>2
      <4>4. words[4] \notin Json
        BY <2>7, <4>3
      <4>. QED
        BY <4>1, <4>4
    <3>. QED
      BY <3>1, <3>2 DEF Proper, Simple, Kinds
  <2>8. CASE /\ Conversion(o, args) # "out_of_range"
             /\ ~(o = "play" /\ Len(args) = 3 /\ args[3] \notin Json)
    <3>1. PICK a \in CallArgs(o, args) : c = Call(o, a)
      BY <2>4, <2>5, <2>8
    <3>2. Len(a) \in Arity[o]
      BY <1>1, <2>5, CallIs
    <3>. QED
      BY <3>1, <3>2 DEF Proper, Call, Kinds
  <2>. QED
    BY <2>6, <2>7, <2>8
<1>. QED
  BY <1>2, <1>3 DEF Commands

---------------------------------------------------------------------------
(* The inductive invariant.                                                *)

Typed ==
    /\ at \in Places
    /\ closed \in BOOLEAN
    /\ line \in Characters
    /\ meant \in Words

\* What is on the prompt spells what the user means.
Composed ==
    at = "prompt" => /\ closed = TRUE
                     /\ IF meant = <<>> THEN line = <<>> ELSE line # <<>> /\ Spelled(line, meant)

\* So does the line that was entered, unless its last quote was forgotten.
Entered ==
    at = "line" => /\ meant # <<>>
                   /\ IF closed THEN Spelled(line, meant) ELSE QuoteOpen(line)

Idle == at \in {"prompt", "line", "spinning"} => cmd = Simple("none")

Plays == cmd.kind = "call" /\ cmd.op = "play"

\* What was interpreted is a command that the words become, and what ends the shell in
\* it is a play.
Interpreted ==
    at \in {"execute", "exited", "crashed", "aborted"} =>
        \/ at = "crashed" /\ ~closed /\ cmd = Simple("none")
        \/ /\ closed
           /\ Proper(cmd, meant)
           /\ cmd.kind = "throws" => at = "crashed"
           /\ at = "crashed" => cmd.kind = "throws" \/ (Plays /\ raised = "logic_error")
           /\ at = "aborted" => Plays /\ raised = "fatal"

\* An operation has ended the shell only where it is over.
Raised ==
    /\ raised \in {"none", "logic_error", "fatal"}
    /\ at \notin {"crashed", "aborted"} => raised = "none"

IInv == Typed /\ Composed /\ Entered /\ Idle /\ Interpreted /\ Raised

LEMMA WordIsWritable == ASSUME NEW w \in Word PROVE w \in Characters
<1>1. w \in Seq(Range(w))
  BY WordAssumption
<1>2. Range(w) \subseteq Character
  BY DEF Character
<1>. QED
  BY <1>1, <1>2, SeqMonotonic DEF Characters

LEMMA NameIsWritable == ASSUME NEW n \in Name PROVE <<n>> \in Characters
<1>1. n \in Character
  BY DEF Character
<1>. QED
  BY <1>1 DEF Characters

LEMMA ComposeKeeps ==
    ASSUME IInv, NEW w \in Characters, Compose(w)
    PROVE  IInv'
<1>1. /\ at = "prompt" /\ at' = at /\ closed' = closed /\ cmd' = cmd
      /\ meant' = Append(meant, w) /\ raised' = raised
  BY DEF Compose
<1>2. PICK t \in Written(w) : line' = (IF line = <<>> THEN line ELSE Append(line, Blank)) \o t
  BY DEF Compose
<1>3. /\ meant \in Words /\ line \in Characters /\ closed = TRUE /\ cmd = Simple("none")
      /\ raised = "none"
      /\ IF meant = <<>> THEN line = <<>> ELSE line # <<>> /\ Spelled(line, meant)
  BY <1>1 DEF IInv, Typed, Composed, Idle, Raised
<1>4. meant' \in Words /\ meant' # <<>>
  <2>1. meant \in Seq(Characters)
    BY <1>3 DEF Words
  <2>2. meant' \in Seq(Characters) /\ Len(meant') = Len(meant) + 1 /\ Len(meant) \in Nat
    BY <1>1, <2>1
  <2>. QED
    BY <2>2, EmptySeq DEF Words
<1>5. line' \in Characters /\ line' # <<>> /\ Spelled(line', meant')
  <2>1. CASE meant = <<>>
    <3>1. t \in Characters /\ t # <<>> /\ Spelled(t, <<w>>)
      BY FirstWord
    <3>2. line' = <<>> \o t
      BY <1>2, <1>3, <2>1
    <3>3. line' = t
      BY <3>1, <3>2, ConcatEmptySeq DEF Characters
    <3>4. meant' = <<w>>
      BY <1>1, <2>1
    <3>. QED
      BY <3>1, <3>3, <3>4
  <2>2. CASE meant # <<>>
    <3>1. line # <<>> /\ Spelled(line, meant)
      BY <1>3, <2>2
    <3>2. line' = Append(line, Blank) \o t
      BY <1>2, <3>1
    <3>3. line' \in Characters /\ line' # <<>> /\ Spelled(line', Append(meant, w))
      BY <1>3, <3>1, <3>2, NextWord
    <3>. QED
      BY <1>1, <3>3
  <2>. QED
    BY <2>1, <2>2
<1>6. Typed'
  BY <1>1, <1>3, <1>4, <1>5 DEF Typed, Places
<1>7. Composed'
  BY <1>1, <1>3, <1>4, <1>5 DEF Composed
<1>8. Entered' /\ Idle' /\ Interpreted' /\ Raised'
  BY <1>1, <1>3 DEF Entered, Idle, Interpreted, Raised
<1>. QED
  BY <1>6, <1>7, <1>8 DEF IInv

LEMMA EnterKeeps == ASSUME IInv, Enter PROVE IInv'
<1>1. /\ at = "prompt" /\ at' = "line" /\ line # <<>>
      /\ meant' = meant /\ line' = line /\ closed' = closed /\ cmd' = cmd
      /\ raised' = raised
  BY DEF Enter
<1>2. /\ closed = TRUE /\ meant # <<>> /\ Spelled(line, meant) /\ cmd = Simple("none")
      /\ raised = "none"
  BY <1>1 DEF IInv, Composed, Idle, Raised
<1>3. Typed'
  BY <1>1 DEF IInv, Typed, Places
<1>4. Entered'
  BY <1>1, <1>2 DEF Entered
<1>5. Composed' /\ Idle' /\ Interpreted' /\ Raised'
  BY <1>1, <1>2 DEF Composed, Idle, Interpreted, Raised
<1>. QED
  BY <1>3, <1>4, <1>5 DEF IInv

LEMMA EnterOpenKeeps == ASSUME IInv, EnterOpen PROVE IInv'
<1>1. /\ at = "prompt" /\ at' = "line" /\ line # <<>> /\ line' = Front(line)
      /\ meant' = meant /\ closed' = FALSE /\ cmd' = cmd /\ QuoteOpen(line')
      /\ raised' = raised
  BY DEF EnterOpen
<1>2. /\ meant # <<>> /\ cmd = Simple("none") /\ meant \in Words /\ line \in Characters
      /\ raised = "none"
  BY <1>1 DEF IInv, Typed, Composed, Idle, Raised
<1>3. line' \in Characters
  <2>1. PICK n \in Nat : n = Len(line)
    BY <1>2, LenProperties DEF Characters
  <2>2. PICK k \in Int : k = n - 1
    OBVIOUS
  <2>3. \A i \in 1..k : line[i] \in Character
    BY <1>2, <2>1, <2>2, ElementOfSeq DEF Characters
  <2>4. SubSeq(line, 1, k) \in Seq(Character)
    BY <2>3, SubSeqProperties
  <2>. QED
    BY <1>1, <2>1, <2>2, <2>4 DEF Front, Characters
<1>4. Typed'
  BY <1>1, <1>2, <1>3 DEF Typed, Places
<1>5. Entered'
  BY <1>1, <1>2 DEF Entered
<1>6. Composed' /\ Idle' /\ Interpreted' /\ Raised'
  BY <1>1, <1>2 DEF Composed, Idle, Interpreted, Raised
<1>. QED
  BY <1>4, <1>5, <1>6 DEF IInv

LEMMA InterpretKeeps == ASSUME IInv, Interpret PROVE IInv'
<1>1. /\ at = "line"
      /\ meant' = meant /\ line' = line /\ closed' = closed /\ raised' = raised
  BY DEF Interpret
<1>2. /\ meant # <<>> /\ meant \in Words /\ line \in Characters /\ closed \in BOOLEAN
      /\ cmd = Simple("none") /\ raised = "none"
      /\ IF closed THEN Spelled(line, meant) ELSE QuoteOpen(line)
  BY <1>1 DEF IInv, Typed, Entered, Idle, Raised
<1>3. at' \in {"execute", "crashed"} /\ Interpreted'
  <2>1. CASE ~closed
    <3>1. at' = "crashed" /\ cmd' = cmd
      BY <1>2, <2>1 DEF Interpret
    <3>. QED
      BY <1>1, <1>2, <2>1, <3>1 DEF Interpreted
  <2>2. CASE closed
    <3>1. Tokens(line) = meant /\ ~QuoteOpen(line)
      BY <1>2, <2>2, SpelledIsRead
    <3>2. PICK c \in Commands(meant) :
             cmd' = c /\ at' = IF c.kind = "throws" THEN "crashed" ELSE "execute"
      BY <3>1 DEF Interpret
    <3>3. Proper(c, meant)
      BY <1>2, CommandIs
    <3>4. Proper(cmd', meant')
      BY <1>1, <3>2, <3>3
    <3>5. at' = IF cmd'.kind = "throws" THEN "crashed" ELSE "execute"
      BY <3>2
    <3>. QED
      BY <1>1, <2>2, <3>4, <3>5 DEF Interpreted
  <2>. QED
    BY <1>2, <2>1, <2>2
<1>4. Typed'
  BY <1>1, <1>2, <1>3 DEF Typed, Places
<1>5. Composed' /\ Entered' /\ Idle' /\ Raised'
  BY <1>1, <1>2, <1>3 DEF Composed, Entered, Idle, Raised
<1>. QED
  BY <1>3, <1>4, <1>5 DEF IInv

LEMMA NextPromptKeeps == ASSUME NextPrompt PROVE IInv'
<1>1. /\ at' = "prompt" /\ meant' = <<>> /\ line' = <<>> /\ closed' = TRUE
      /\ cmd' = Simple("none") /\ raised' = "none"
  BY DEF NextPrompt
<1>2. Typed'
  BY <1>1, EmptySeq DEF Typed, Places, Characters, Words
<1>3. Composed' /\ Entered' /\ Idle' /\ Interpreted' /\ Raised'
  BY <1>1 DEF Composed, Entered, Idle, Interpreted, Raised
<1>. QED
  BY <1>2, <1>3 DEF IInv

\* The operation that ends the shell is a play, and it was not a runtime_error.
LEMMA PlayDies ==
    ASSUME ExecuteCall, ~NextPrompt
    PROVE  \E end \in {"logic_error", "fatal"} : Plays /\ Die(end)
BY DEF ExecuteCall, Outcome, Caught, Plays

LEMMA ExecuteKeeps == ASSUME IInv, ExecuteCall \/ ExecuteOther \/ ExecuteQuit PROVE IInv'
<1>1. /\ at = "execute" /\ closed /\ Proper(cmd, meant) /\ cmd.kind # "throws"
      /\ raised = "none"
      /\ Typed
  BY DEF IInv, Interpreted, Raised, ExecuteCall, ExecuteOther, ExecuteQuit
<1>2. CASE NextPrompt
  BY <1>2, NextPromptKeeps
<1>3. CASE ~NextPrompt
  <2>1. /\ meant' = meant /\ line' = line /\ closed' = closed /\ cmd' = cmd
        /\ \/ at' = "crashed" /\ Plays /\ raised' = "logic_error"
           \/ at' = "aborted" /\ Plays /\ raised' = "fatal"
           \/ at' = "exited" /\ raised' = raised
    <3>1. CASE ExecuteCall
      BY <1>3, <3>1, PlayDies DEF Die
    <3>2. CASE ExecuteOther \/ ExecuteQuit
      BY <1>3, <3>2 DEF ExecuteOther, ExecuteQuit
    <3>. QED
      BY <3>1, <3>2
  <2>2. Typed'
    BY <1>1, <2>1 DEF Typed, Places
  <2>3. Proper(cmd', meant')
    BY <1>1, <2>1
  <2>4. Interpreted'
    BY <1>1, <2>1, <2>3 DEF Interpreted, Plays
  <2>5. Composed' /\ Entered' /\ Idle' /\ Raised'
    BY <1>1, <2>1 DEF Composed, Entered, Idle, Raised
  <2>. QED
    BY <2>2, <2>4, <2>5 DEF IInv
<1>. QED
  BY <1>2, <1>3

LEMMA StutterKeeps == ASSUME IInv, UNCHANGED vars PROVE IInv'
<1>1. /\ at' = at /\ meant' = meant /\ line' = line /\ closed' = closed /\ cmd' = cmd
      /\ raised' = raised
  BY DEF vars
<1>. QED
  BY <1>1 DEF IInv, Typed, Composed, Entered, Idle, Interpreted, Raised, Plays

LEMMA EndOfInputKeeps == ASSUME IInv, EndOfInput PROVE IInv'
<1>1. /\ at = "prompt" /\ at' = "spinning"
      /\ meant' = meant /\ line' = line /\ closed' = closed /\ cmd' = cmd
      /\ raised' = raised
  BY DEF EndOfInput
<1>. QED
  BY <1>1 DEF IInv, Typed, Places, Composed, Entered, Idle, Interpreted, Raised

\* The inductive invariant of the shell.
THEOREM ShellInvariant == Spec => []IInv
<1>1. Init => IInv
  <2>1. SUFFICES ASSUME Init PROVE IInv
    OBVIOUS
  <2>2. Typed
    BY <2>1, EmptySeq DEF Init, Typed, Places, Characters, Words
  <2>3. Composed /\ Entered /\ Idle /\ Interpreted /\ Raised
    BY <2>1 DEF Init, Composed, Entered, Idle, Interpreted, Raised
  <2>. QED
    BY <2>2, <2>3 DEF IInv
<1>2. IInv /\ [Next]_vars => IInv'
  <2>1. SUFFICES ASSUME IInv, [Next]_vars PROVE IInv'
    OBVIOUS
  <2>2. CASE \E n \in Name : Compose(<<n>>)
    BY <2>1, <2>2, NameIsWritable, ComposeKeeps
  <2>3. CASE \E w \in Word : Compose(w)
    BY <2>1, <2>3, WordIsWritable, ComposeKeeps
  <2>4. CASE Enter
    BY <2>1, <2>4, EnterKeeps
  <2>5. CASE EnterOpen
    BY <2>1, <2>5, EnterOpenKeeps
  <2>6. CASE EndOfInput
    BY <2>1, <2>6, EndOfInputKeeps
  <2>7. CASE Interpret
    BY <2>1, <2>7, InterpretKeeps
  <2>8. CASE ExecuteCall \/ ExecuteOther \/ ExecuteQuit
    BY <2>1, <2>8, ExecuteKeeps
  <2>9. CASE UNCHANGED vars
    BY <2>1, <2>9, StutterKeeps
  <2>. QED
    BY <2>1, <2>2, <2>3, <2>4, <2>5, <2>6, <2>7, <2>8, <2>9 DEF Next, Run
<1>. QED
  BY <1>1, <1>2, PTL DEF Spec

\* The loop of the shell is always at a known place, and a command that calls the
\* handler has as many arguments as the operation takes, whatever was typed.
THEOREM ShellTypeCorrect == Spec => []TypeOK
<1>1. IInv => TypeOK
  BY DEF IInv, Typed, Idle, Interpreted, Proper, Raised, TypeOK, Places, Kinds, Simple
<1>. QED
  BY <1>1, ShellInvariant, PTL

\* tokenize recovers the words of the user from every line that writes them, in any
\* number and quoted in any way, and reports no open quote.
THEOREM WordsArriveHolds == Spec => []WordsArrive
<1>1. IInv => WordsArrive
  BY SpelledIsRead DEF IInv, Typed, Entered, WordsArrive
<1>. QED
  BY <1>1, ShellInvariant, PTL

\* An exception ends the shell only for an open quote, a number out of range, an
\* initial state that is not JSON, or a play whose projection returns nothing; only a play
\* ends it without an exception, and every other failure of an operation is caught.
THEOREM CrashHasCauseHolds == Spec => []CrashHasCause
<1>1. IInv => CrashHasCause
  BY DEF IInv, Interpreted, Proper, Plays, CrashHasCause, Simple
<1>. QED
  BY <1>1, ShellInvariant, PTL
============================================================================
