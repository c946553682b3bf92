----------------------------- MODULE ListProofs -----------------------------
(***************************************************************************)
(* The facts about sequences that the proofs rest on: induction and        *)
(* recursion over the naturals, what sending and taking a message do to a  *)
(* channel and to the region its receiver will know, and what a filter     *)
(* keeps.                                                                  *)
(***************************************************************************)
EXTENDS Lists, TLAPS, SequenceTheorems, WellFoundedInduction

(***************************************************************************)
(* Induction and recursion over the naturals, for sets and functions       *)
(***************************************************************************)
\* Induction over Nat, for a set in place of a predicate.
LEMMA Induction ==
  ASSUME NEW T, 0 \in T, \A n \in Nat : n \in T => n + 1 \in T
  PROVE  \A n \in Nat : n \in T
<1> SUFFICES ASSUME NEW m \in Nat, m \notin T PROVE FALSE
  OBVIOUS
<1> DEFINE R == OpToRel(<, Nat)
           B == {n \in Nat : n \notin T}
<1>1. IsWellFoundedOn(R, Nat)
  BY Zenon, NatLessThanWellFounded
<1>2. \A x, y \in Nat : x < y => <<x, y>> \in R
  BY DEF OpToRel
<1>3. B \subseteq Nat /\ B # {}
  OBVIOUS
<1> HIDE DEF R
<1>4. PICK x \in B : \A y \in B : ~(<<y, x>> \in R)
  <2> HIDE DEF B
  <2> QED
    BY <1>1, <1>3, WFMin, Zenon
<1>5. x \in Nat /\ x # 0
  BY <1>4
<1>6. x - 1 \in Nat /\ x - 1 < x
  BY <1>5
<1>7. x - 1 \in T
  BY <1>2, <1>4, <1>5, <1>6, Zenon
<1> QED
  BY <1>4, <1>5, <1>6, <1>7

\* The functions with a given first value and a given step from each to the next.
Iterates(S, first, step) ==
  {f \in [Nat -> S] : f[0] = first /\ \A n \in Nat : f[n + 1] = step[<<n, f[n]>>]}

LEMMA Recursion ==
  ASSUME NEW S, NEW first \in S, NEW step \in [Nat \X S -> S]
  PROVE  Iterates(S, first, step) # {}
<1> DEFINE G(n) == {g \in [Nat -> S] :
                      g[0] = first /\ \A k \in Nat : k < n => g[k + 1] = step[<<k, g[k]>>]}
           T == {n \in Nat : G(n) # {}}
           some == [n \in Nat |-> CHOOSE g : g \in G(n)]
           f == [n \in Nat |-> some[n][n]]
<1>1. ASSUME NEW n \in Nat, n \in T
      PROVE  n + 1 \in T
  <2>1. PICK g : g \in G(n)
    BY <1>1
  <2> DEFINE h == [g EXCEPT ![n + 1] = step[<<n, g[n]>>]]
  <2>2. h \in [Nat -> S] /\ h[0] = first /\ h[n + 1] = step[<<n, g[n]>>] /\ h[n] = g[n]
    BY <2>1
  <2>3. \A k \in Nat : k < n => h[k + 1] = step[<<k, h[k]>>]
    BY <2>1
  <2>4. \A k \in Nat : k < n + 1 => k < n \/ k = n
    OBVIOUS
  <2> HIDE DEF h
  <2>5. h \in G(n + 1)
    BY <2>2, <2>3, <2>4
  <2> QED
    BY <2>5
<1>2. 0 \in T
  <2>1. [k \in Nat |-> first] \in G(0)
    OBVIOUS
  <2> QED
    BY <2>1
<1>3. ASSUME NEW n \in Nat, NEW m \in Nat, NEW g \in G(n), NEW h \in G(m)
      PROVE  \A k \in Nat : k <= n /\ k <= m => g[k] = h[k]
  <2> DEFINE U == {k \in Nat : k <= n /\ k <= m => g[k] = h[k]}
  <2>1. 0 \in U
    OBVIOUS
  <2>2. ASSUME NEW k \in Nat, k \in U
        PROVE  k + 1 \in U
    <3>1. CASE k + 1 <= n /\ k + 1 <= m
      <4>1. g[k] = h[k] /\ k < n /\ k < m
        BY <2>2, <3>1
      <4>2. g[k + 1] = step[<<k, g[k]>>] /\ h[k + 1] = step[<<k, h[k]>>]
        BY <4>1
      <4> QED
        BY <4>1, <4>2
    <3> QED
      BY <3>1
  <2>3. \A k \in Nat : k \in U
    <3> HIDE DEF U
    <3> QED
      BY <2>1, <2>2, Induction
  <2> QED
    BY <2>3
<1>5. \A n \in Nat : n \in T
  <2> HIDE DEF T
  <2> QED
    BY <1>1, <1>2, Induction
<1>6. \A n \in Nat : some[n] \in G(n)
  <2>1. \A n \in Nat : G(n) # {}
    BY <1>5, Zenon
  <2> HIDE DEF G
  <2> QED
    BY <2>1
<1> HIDE DEF some, G
<1>7. f \in [Nat -> S]
  <2>1. \A n \in Nat : some[n] \in [Nat -> S]
    BY <1>6 DEF G
  <2> QED
    BY <2>1
<1>8. f[0] = first
  BY <1>6 DEF G
<1>9. ASSUME NEW n \in Nat
      PROVE  f[n + 1] = step[<<n, f[n]>>]
  <2>1. n <= n /\ n < n + 1 /\ n <= n + 1 /\ n + 1 \in Nat
    OBVIOUS
  <2>2. some[n] \in G(n) /\ some[n + 1] \in G(n + 1)
    BY <1>6, <2>1
  <2>3. some[n + 1][n] = some[n][n]
    BY <1>3, <2>1, <2>2
  <2>4. some[n + 1][n + 1] = step[<<n, some[n + 1][n]>>]
    BY <2>1, <2>2 DEF G
  <2> QED
    BY <2>1, <2>3, <2>4
<1> HIDE DEF f
<1> QED
  BY <1>7, <1>8, <1>9 DEF Iterates

(***************************************************************************)
(* Channels                                                                *)
(***************************************************************************)
\* Taking the head of a channel leaves a channel, no longer than before, and
\* adding to one that has a slot keeps it within its capacity.
LEMMA ChannelFacts ==
  ASSUME NEW S, NEW s \in Seq(S), NEW slots \in Nat, Len(s) <= slots
  PROVE  /\ s # <<>> => /\ Head(s) \in S
                        /\ Tail(s) \in Seq(S)
                        /\ Len(Tail(s)) <= slots
         /\ \A m \in S : Len(s) < slots => /\ Append(s, m) \in Seq(S)
                                           /\ Len(Append(s, m)) <= slots
OBVIOUS

\* A part of a sequence holds what the sequence has at its places.
LEMMA SubSeqFacts ==
  ASSUME NEW S, NEW s \in Seq(S), NEW a \in Nat, NEW b \in Nat, b <= Len(s)
  PROVE  /\ SubSeq(s, a + 1, b) \in Seq(S)
         /\ Len(SubSeq(s, a + 1, b)) = IF a + 1 <= b THEN b - a ELSE 0
         /\ \A i \in 1..b - a : SubSeq(s, a + 1, b)[i] = s[a + i]
<1>1. \A i \in a + 1..b : s[i] \in S
  OBVIOUS
<1>2. PICK m \in Int : m = a + 1
  OBVIOUS
<1>3. /\ SubSeq(s, m, b) \in Seq(S)
      /\ Len(SubSeq(s, m, b)) = IF m <= b THEN b - m + 1 ELSE 0
      /\ \A i \in 1..b - m + 1 : SubSeq(s, m, b)[i] = s[m + i - 1]
  BY <1>1, <1>2, SubSeqProperties
<1> QED
  BY <1>2, <1>3

\* Sending and taking make up no message.
LEMMA QueueFacts ==
  ASSUME NEW S, NEW s \in Seq(S)
  PROVE  /\ s # <<>> => /\ Head(s) \in S /\ Tail(s) \in Seq(S)
                        /\ \A i \in 1..Len(Tail(s)) : \E j \in 1..Len(s) : Tail(s)[i] = s[j]
         /\ \A m \in S : /\ Append(s, m) \in Seq(S)
                         /\ \A i \in 1..Len(Append(s, m)) :
                              Append(s, m)[i] = m \/ \E j \in 1..Len(s) : Append(s, m)[i] = s[j]
<1>1. ASSUME s # <<>>, NEW i \in 1..Len(Tail(s))
      PROVE  i + 1 \in 1..Len(s) /\ Tail(s)[i] = s[i + 1]
  BY <1>1
<1>2. s # <<>> => Head(s) \in S /\ Tail(s) \in Seq(S)
  OBVIOUS
<1>3. ASSUME NEW m \in S
      PROVE  /\ Append(s, m) \in Seq(S)
             /\ \A i \in 1..Len(Append(s, m)) :
                  Append(s, m)[i] = m \/ \E j \in 1..Len(s) : Append(s, m)[i] = s[j]
  BY <1>3
<1> QED
  BY <1>1, <1>2, <1>3

(***************************************************************************)
(* What sending and taking a message, and joining two channels, do to      *)
(* WillKnow                                                                *)
(***************************************************************************)
\* The region a message carries is the one that will be known; a message of
\* another type changes nothing.
LEMMA AppendKnows ==
  ASSUME NEW S, NEW s \in Seq(S), NEW m \in S, NEW type, NEW current, NEW r,
         WillKnow(s, type, current, r)
  PROVE  WillKnow(Append(s, m), type, current, IF m.type = type THEN m.region ELSE r)
<1> DEFINE t == Append(s, m)
<1>1. /\ Len(t) = Len(s) + 1 /\ t[Len(s) + 1] = m /\ Len(s) \in Nat
      /\ \A i \in 1..Len(s) : t[i] = s[i]
  OBVIOUS
<1> HIDE DEF t
<1>2. CASE m.type = type
  <2>1. Len(s) + 1 \in 1..Len(t) /\ \A j \in (Len(s) + 1) + 1..Len(t) : FALSE
    BY <1>1
  <2> QED
    BY <1>1, <1>2, <2>1 DEF WillKnow, t
<1>3. CASE m.type # type
  <2>1. \A i \in 1..Len(t) : i \in 1..Len(s) \/ i = Len(s) + 1
    BY <1>1
  <2>2. ASSUME current = r, \A i \in 1..Len(s) : s[i].type # type
        PROVE  \A i \in 1..Len(t) : t[i].type # type
    BY <1>1, <1>3, <2>1, <2>2
  <2>3. ASSUME NEW i \in 1..Len(s), s[i].type = type, s[i].region = r,
               \A j \in i+1..Len(s) : s[j].type # type
        PROVE  /\ i \in 1..Len(t) /\ t[i].type = type /\ t[i].region = r
               /\ \A j \in i+1..Len(t) : t[j].type # type
    <3>1. \A j \in i+1..Len(t) : j \in i+1..Len(s) \/ j = Len(s) + 1
      BY <1>1
    <3>2. \A j \in i+1..Len(s) : j \in 1..Len(s)
      BY <1>1
    <3> QED
      BY <1>1, <1>3, <2>3, <3>1, <3>2
  <2> QED
    BY <1>3, <2>2, <2>3 DEF WillKnow, t
<1> QED
  BY <1>2, <1>3

\* Taking a message, the receiver moves to the region it carries, or stays.
LEMMA TailKnows ==
  ASSUME NEW S, NEW s \in Seq(S), s # <<>>, NEW type, NEW current, NEW r,
         WillKnow(s, type, current, r)
  PROVE  WillKnow(Tail(s), type, IF Head(s).type = type THEN Head(s).region ELSE current, r)
<1> DEFINE t == Tail(s)
<1>1. /\ Len(s) \in Nat \ {0} /\ Len(t) = Len(s) - 1 /\ Head(s) = s[1]
      /\ \A i \in 1..Len(t) : t[i] = s[i + 1]
  OBVIOUS
<1> HIDE DEF t
<1>2. CASE current = r /\ \A i \in 1..Len(s) : s[i].type # type
  <2>1. \A i \in 1..Len(t) : i + 1 \in 1..Len(s)
    BY <1>1
  <2>2. 1 \in 1..Len(s)
    BY <1>1
  <2> QED
    BY <1>1, <1>2, <2>1, <2>2 DEF WillKnow, t
<1>3. ASSUME NEW i \in 1..Len(s), s[i].type = type, s[i].region = r,
             \A j \in i+1..Len(s) : s[j].type # type
      PROVE  WillKnow(t, type, IF Head(s).type = type THEN Head(s).region ELSE current, r)
  <2>1. \A j \in i..Len(t) : j \in 1..Len(t) /\ j + 1 \in i+1..Len(s)
    BY <1>1
  <2>2. \A j \in i..Len(t) : t[j].type # type
    BY <1>1, <1>3, <2>1
  <2>3. CASE i = 1
    BY <1>1, <1>3, <2>2, <2>3 DEF WillKnow
  <2>4. CASE i # 1
    <3>1. /\ i - 1 \in 1..Len(t) /\ t[i - 1] = s[i]
          /\ \A j \in (i - 1) + 1..Len(t) : j \in i..Len(t)
      BY <1>1, <2>4
    <3> QED
      BY <1>3, <2>2, <3>1 DEF WillKnow
  <2> QED
    BY <2>3, <2>4
<1> QED
  BY <1>2, <1>3 DEF WillKnow, t

\* A region sent last is the one that will be known.
LEMMA LastKnows ==
  ASSUME NEW S, NEW s \in Seq(S), NEW m \in S, NEW type, m.type = type, NEW current
  PROVE  WillKnow(Append(s, m), type, current, m.region)
<1> DEFINE t == Append(s, m)
<1>1. Len(t) = Len(s) + 1 /\ t[Len(s) + 1] = m /\ Len(s) \in Nat
  OBVIOUS
<1> HIDE DEF t
<1>2. Len(s) + 1 \in 1..Len(t) /\ \A j \in (Len(s) + 1) + 1..Len(t) : FALSE
  BY <1>1
<1> QED
  BY <1>1, <1>2 DEF WillKnow, t

\* Who drains s knows x and who drains u from there knows r: draining both in
\* turn leads to r.
LEMMA JoinKnows ==
  ASSUME NEW S, NEW s \in Seq(S), NEW u \in Seq(S), NEW type, NEW current, NEW x, NEW r,
         WillKnow(s, type, current, x), WillKnow(u, type, x, r)
  PROVE  WillKnow(s \o u, type, current, r)
<1> DEFINE t == s \o u
<1>1. /\ Len(s) \in Nat /\ Len(u) \in Nat /\ Len(t) = Len(s) + Len(u)
      /\ \A i \in 1..Len(s) : t[i] = s[i]
      /\ \A i \in 1..Len(u) : t[Len(s) + i] = u[i]
  <2>1. Len(s) \in Nat /\ Len(u) \in Nat /\ Len(t) = Len(s) + Len(u)
    OBVIOUS
  <2>2. ASSUME NEW i \in 1..Len(s)
        PROVE  t[i] = s[i]
    OBVIOUS
  <2>3. ASSUME NEW i \in 1..Len(u)
        PROVE  t[Len(s) + i] = u[i]
    OBVIOUS
  <2> QED
    BY <2>1, <2>2, <2>3
<1> HIDE DEF t
<1>2. ASSUME NEW i \in 1..Len(t), i \notin 1..Len(s)
      PROVE  i - Len(s) \in 1..Len(u) /\ t[i] = u[i - Len(s)]
  <2>1. i - Len(s) \in 1..Len(u) /\ i = Len(s) + (i - Len(s))
    BY <1>1, <1>2
  <2> QED
    BY <1>1, <2>1
<1>3. ASSUME NEW i \in 1..Len(u), u[i].type = type, u[i].region = r,
             \A j \in i+1..Len(u) : u[j].type # type
      PROVE  WillKnow(t, type, current, r)
  <2>1. Len(s) + i \in 1..Len(t) /\ t[Len(s) + i] = u[i]
    BY <1>1
  <2>2. ASSUME NEW j \in Len(s) + i + 1..Len(t)
        PROVE  t[j].type # type
    <3>1. j \in 1..Len(t) /\ j \notin 1..Len(s) /\ j - Len(s) \in i+1..Len(u)
      BY <1>1, <2>2
    <3> QED
      BY Zenon, <1>2, <1>3, <3>1
  <2> QED
    BY <1>3, <2>1, <2>2 DEF WillKnow
<1>4. ASSUME x = r, \A i \in 1..Len(u) : u[i].type # type
      PROVE  WillKnow(t, type, current, r)
  <2>1. \A i \in 1..Len(t) : i \notin 1..Len(s) => t[i].type # type
    BY <1>2, <1>4
  <2>2. CASE current = x /\ \A i \in 1..Len(s) : s[i].type # type
    BY <1>1, <1>4, <2>1, <2>2 DEF WillKnow
  <2>3. ASSUME NEW i \in 1..Len(s), s[i].type = type, s[i].region = x,
               \A j \in i+1..Len(s) : s[j].type # type
        PROVE  WillKnow(t, type, current, r)
    <3>1. i \in 1..Len(t) /\ t[i] = s[i]
      BY <1>1
    <3>2. \A j \in i+1..Len(t) : j \in 1..Len(t) /\ (j \in 1..Len(s) => j \in i+1..Len(s))
      BY <1>1
    <3>3. \A j \in i+1..Len(t) : t[j].type # type
      BY <1>1, <2>1, <2>3, <3>2
    <3> QED
      BY <1>4, <2>3, <3>1, <3>3 DEF WillKnow
  <2> QED
    BY <2>2, <2>3 DEF WillKnow
<1> QED
  BY Zenon, <1>3, <1>4 DEF WillKnow, t

(***************************************************************************)
(* Filters                                                                 *)
(***************************************************************************)
\* What is kept of n elements, given what is kept of fewer.
KeptOf(s, S, kept, n) ==
  IF n = 0 THEN <<>> ELSE IF s[n] \in S THEN Append(kept[n - 1], s[n]) ELSE kept[n - 1]

LEMMA KeptIsDefined ==
  ASSUME NEW T, NEW s \in Seq(T), NEW S
  PROVE  Kept(s, S) = [n \in 0..Len(s) |-> KeptOf(s, S, Kept(s, S), n)]
<1> DEFINE Q == Seq(T)
           step == [x \in Nat \X Q |-> IF x[1] + 1 \in 1..Len(s) /\ s[x[1] + 1] \in S
                                         THEN Append(x[2], s[x[1] + 1]) ELSE x[2]]
<1>1. ASSUME NEW n \in Nat, NEW q \in Q
      PROVE  /\ step[<<n, q>>] = IF n + 1 \in 1..Len(s) /\ s[n + 1] \in S
                                   THEN Append(q, s[n + 1]) ELSE q
             /\ step[<<n, q>>] \in Q
  OBVIOUS
<1>2. step \in [Nat \X Q -> Q]
  <2>1. \A x \in Nat \X Q : x[1] \in Nat /\ x[2] \in Q /\ x = <<x[1], x[2]>>
    OBVIOUS
  <2>2. \A x \in Nat \X Q : step[x] \in Q
    <3> HIDE DEF step, Q
    <3> QED
      BY <1>1, <2>1
  <2> QED
    BY <2>2
<1>3. <<>> \in Q
  OBVIOUS
<1>4. PICK g \in [Nat -> Q] : g[0] = <<>> /\ \A n \in Nat : g[n + 1] = step[<<n, g[n]>>]
  <2> HIDE DEF step, Q
  <2>1. Iterates(Q, <<>>, step) # {}
    BY <1>2, <1>3, Recursion, Zenon
  <2> QED
    BY <2>1 DEF Iterates
<1> HIDE DEF step, Q
<1> DEFINE f == [n \in 0..Len(s) |-> g[n]]
<1>5. ASSUME NEW n \in 0..Len(s)
      PROVE  f[n] = KeptOf(s, S, f, n)
  <2>1. CASE n = 0
    BY <1>4, <2>1 DEF KeptOf
  <2>2. CASE n # 0
    <3>1. /\ n - 1 \in Nat /\ n - 1 \in 0..Len(s) /\ (n - 1) + 1 = n
          /\ n \in 1..Len(s) /\ n \in 0..Len(s)
      BY <2>2
    <3>2. PICK m \in Nat : m = n - 1
      BY <3>1
    <3>3. m + 1 = n
      BY <3>1, <3>2
    <3>4. g[m] \in Q /\ g[m + 1] = step[<<m, g[m]>>]
      BY <1>4
    <3>5. g[n] = IF s[n] \in S THEN Append(g[m], s[n]) ELSE g[m]
      BY Zenon, <1>1, <3>1, <3>3, <3>4
    <3> QED
      BY <2>2, <3>1, <3>2, <3>5 DEF KeptOf
  <2> QED
    BY <2>1, <2>2
<1>6. f = [n \in 0..Len(s) |-> KeptOf(s, S, f, n)]
  <2>1. f = [n \in 0..Len(s) |-> f[n]]
    OBVIOUS
  <2> HIDE DEF f
  <2> QED
    BY <1>5, <2>1, Zenon
<1> HIDE DEF f
<1> QED
  BY <1>6, Zenon DEF Kept, KeptOf

LEMMA KeptNext ==
  ASSUME NEW T, NEW s \in Seq(T), NEW S
  PROVE  /\ Kept(s, S)[0] = <<>>
         /\ \A n \in 1..Len(s) :
              Kept(s, S)[n] = IF s[n] \in S THEN Append(Kept(s, S)[n - 1], s[n])
                                            ELSE Kept(s, S)[n - 1]
<1> DEFINE f == Kept(s, S)
<1>1. f = [n \in 0..Len(s) |-> KeptOf(s, S, f, n)]
  BY KeptIsDefined, Zenon
<1> HIDE DEF f
<1>2. \A n \in 0..Len(s) : f[n] = KeptOf(s, S, f, n)
  BY <1>1, Zenon
<1>3. Len(s) \in Nat /\ 0 \in 0..Len(s) /\ \A n \in 1..Len(s) : n \in 0..Len(s) /\ n # 0
  OBVIOUS
<1> QED
  BY <1>2, <1>3 DEF KeptOf, f

\* q is what a filter keeps of the first n elements of s: it has all of them
\* that are in S, no others, and begins with the first.
Keeps(q, s, S, n) ==
  /\ Len(q) <= n
  /\ \A i \in 1..n : s[i] \in S => \E j \in 1..Len(q) : q[j] = s[i]
  /\ \A j \in 1..Len(q) : \E i \in 1..n : q[j] = s[i] /\ s[i] \in S
  /\ q # <<>> => \E i \in 1..n : /\ q[1] = s[i] /\ s[i] \in S
                                /\ \A j \in 1..i-1 : s[j] \notin S

LEMMA KeepsNext ==
  ASSUME NEW T, NEW s \in Seq(T), NEW S, NEW n \in Nat, n + 1 \in 1..Len(s),
         NEW q \in Seq(T), Keeps(q, s, S, n)
  PROVE  /\ s[n + 1] \in S => /\ Append(q, s[n + 1]) \in Seq(T)
                              /\ Keeps(Append(q, s[n + 1]), s, S, n + 1)
         /\ s[n + 1] \notin S => Keeps(q, s, S, n + 1)
<1>1. \A i \in 1..n + 1 : i \in 1..n \/ i = n + 1
  OBVIOUS
<1>2. \A i \in 1..n : i \in 1..n + 1
  OBVIOUS
<1>3. ASSUME s[n + 1] \notin S
      PROVE  Keeps(q, s, S, n + 1)
  <2>1. Len(q) <= n + 1
    BY DEF Keeps
  <2>2. ASSUME NEW i \in 1..n + 1, s[i] \in S
        PROVE  \E j \in 1..Len(q) : q[j] = s[i]
    BY <1>1, <1>3, <2>2, Zenon DEF Keeps
  <2> QED
    BY <1>2, <2>1, <2>2, Zenon DEF Keeps
<1>4. ASSUME s[n + 1] \in S
      PROVE  Keeps(Append(q, s[n + 1]), s, S, n + 1)
  <2> DEFINE r == Append(q, s[n + 1])
  <2>1. /\ Len(q) \in Nat /\ Len(r) = Len(q) + 1 /\ r[Len(q) + 1] = s[n + 1]
        /\ \A j \in 1..Len(q) : r[j] = q[j]
    OBVIOUS
  <2>2. /\ Len(q) + 1 \in 1..Len(r)
        /\ \A j \in 1..Len(q) : j \in 1..Len(r)
        /\ \A j \in 1..Len(r) : j \in 1..Len(q) \/ j = Len(q) + 1
        /\ n + 1 \in 1..n + 1
    BY <2>1
  <2> HIDE DEF r
  <2>3. Len(r) <= n + 1
    BY <2>1 DEF Keeps
  <2>4. ASSUME NEW i \in 1..n + 1, s[i] \in S
        PROVE  \E j \in 1..Len(r) : r[j] = s[i]
    <3>1. CASE i = n + 1
      BY <2>1, <2>2, <3>1
    <3>2. CASE i \in 1..n
      <4>1. PICK j \in 1..Len(q) : q[j] = s[i]
        BY <2>4, <3>2, Zenon DEF Keeps
      <4> QED
        BY <2>1, <2>2, <4>1
    <3> QED
      BY <1>1, <3>1, <3>2
  <2>5. ASSUME NEW j \in 1..Len(r)
        PROVE  \E i \in 1..n + 1 : r[j] = s[i] /\ s[i] \in S
    <3>1. CASE j = Len(q) + 1
      BY <1>4, <2>1, <2>2, <3>1
    <3>2. CASE j \in 1..Len(q)
      <4>1. PICK i \in 1..n : q[j] = s[i] /\ s[i] \in S
        BY <3>2, Zenon DEF Keeps
      <4> QED
        BY <1>2, <2>1, <3>2, <4>1
    <3> QED
      BY <2>2, <3>1, <3>2
  <2>6. \E i \in 1..n + 1 : r[1] = s[i] /\ s[i] \in S /\ \A j \in 1..i-1 : s[j] \notin S
    <3>1. CASE q = <<>>
      <4>1. Len(q) = 0 /\ r[1] = s[n + 1]
        BY <2>1, <3>1
      <4>2. \A i \in 1..n : s[i] \notin S
        BY <4>1 DEF Keeps
      <4>3. \A j \in 1..(n + 1) - 1 : j \in 1..n
        OBVIOUS
      <4> QED
        BY <1>4, <2>2, <4>1, <4>2, <4>3
    <3>2. CASE q # <<>>
      <4>1. 1 \in 1..Len(q)
        BY <3>2
      <4> QED
        BY Zenon, <1>2, <2>1, <3>2, <4>1 DEF Keeps
    <3> QED
      BY <3>1, <3>2
  <2> QED
    BY Zenon, <2>3, <2>4, <2>5, <2>6 DEF Keeps, r
<1> QED
  BY <1>3, <1>4

LEMMA FilterKeeps ==
  ASSUME NEW T, NEW s \in Seq(T), NEW S
  PROVE  Filter(s, S) \in Seq(T) /\ Keeps(Filter(s, S), s, S, Len(s))
<1> DEFINE f == Kept(s, S)
           U == {n \in Nat : n \in 0..Len(s) => f[n] \in Seq(T) /\ Keeps(f[n], s, S, n)}
<1>1. /\ f[0] = <<>>
      /\ \A n \in 1..Len(s) : f[n] = IF s[n] \in S THEN Append(f[n - 1], s[n]) ELSE f[n - 1]
  BY KeptNext
<1> HIDE DEF f
<1>2. 0 \in U
  <2>1. <<>> \in Seq(T) /\ Len(<<>>) = 0
    OBVIOUS
  <2>2. \A i \in 1..0 : FALSE
    OBVIOUS
  <2>3. Keeps(<<>>, s, S, 0)
    BY <2>1, <2>2 DEF Keeps
  <2> QED
    BY Zenon, <1>1, <2>1, <2>3
<1>3. ASSUME NEW n \in Nat, n \in U
      PROVE  n + 1 \in U
  <2>1. CASE n + 1 \in 0..Len(s)
    <3>1. n \in 0..Len(s) /\ n + 1 \in 1..Len(s) /\ (n + 1) - 1 = n
      BY <2>1
    <3>2. f[n] \in Seq(T) /\ Keeps(f[n], s, S, n)
      BY <1>3, <3>1
    <3>3. f[n + 1] = IF s[n + 1] \in S THEN Append(f[n], s[n + 1]) ELSE f[n]
      <4>1. PICK m \in 1..Len(s) : m = n + 1 /\ m - 1 = n
        BY <3>1
      <4>2. f[m] = IF s[m] \in S THEN Append(f[m - 1], s[m]) ELSE f[m - 1]
        BY <1>1
      <4> QED
        BY <4>1, <4>2
    <3>4. /\ s[n + 1] \in S => /\ Append(f[n], s[n + 1]) \in Seq(T)
                              /\ Keeps(Append(f[n], s[n + 1]), s, S, n + 1)
          /\ s[n + 1] \notin S => Keeps(f[n], s, S, n + 1)
      BY <3>1, <3>2, KeepsNext, Zenon
    <3>5. f[n + 1] \in Seq(T) /\ Keeps(f[n + 1], s, S, n + 1)
      BY <3>2, <3>3, <3>4
    <3> QED
      BY <3>5
  <2> QED
    BY <2>1
<1>4. \A n \in Nat : n \in U
  <2> HIDE DEF U
  <2> QED
    BY <1>2, <1>3, Induction
<1>5. Len(s) \in Nat /\ Len(s) \in 0..Len(s)
  OBVIOUS
<1> QED
  BY <1>4, <1>5 DEF Filter, f

\* A message sent is kept at the end.
LEMMA FilterAppend ==
  ASSUME NEW T, NEW s \in Seq(T), NEW m \in T, NEW S
  PROVE  Filter(Append(s, m), S) = IF m \in S THEN Append(Filter(s, S), m) ELSE Filter(s, S)
<1> DEFINE t == Append(s, m)
           f == Kept(s, S)
           g == Kept(t, S)
           U == {n \in Nat : n \in 0..Len(s) => g[n] = f[n]}
<1>1. /\ t \in Seq(T) /\ Len(s) \in Nat /\ Len(t) = Len(s) + 1 /\ t[Len(s) + 1] = m
      /\ \A i \in 1..Len(s) : t[i] = s[i]
  OBVIOUS
<1>2. /\ f[0] = <<>>
      /\ \A n \in 1..Len(s) : f[n] = IF s[n] \in S THEN Append(f[n - 1], s[n]) ELSE f[n - 1]
  BY KeptNext
<1> HIDE DEF t
<1>3. /\ g[0] = <<>>
      /\ \A n \in 1..Len(t) : g[n] = IF t[n] \in S THEN Append(g[n - 1], t[n]) ELSE g[n - 1]
  BY <1>1, KeptNext
<1> HIDE DEF f, g
<1>4. 0 \in U
  BY <1>2, <1>3
<1>5. ASSUME NEW n \in Nat, n \in U
      PROVE  n + 1 \in U
  <2>1. CASE n + 1 \in 0..Len(s)
    <3>1. PICK k \in 1..Len(s) : k = n + 1 /\ k - 1 = n
      BY <2>1
    <3>2. k \in 1..Len(t) /\ t[k] = s[k] /\ g[n] = f[n]
      BY <1>1, <1>5, <3>1
    <3>3. g[k] = f[k]
      BY <1>2, <1>3, <3>1, <3>2
    <3> QED
      BY <3>1, <3>3
  <2> QED
    BY <2>1
<1>6. \A n \in Nat : n \in U
  <2> HIDE DEF U
  <2> QED
    BY <1>4, <1>5, Induction
<1>7. g[Len(s)] = f[Len(s)]
  BY <1>1, <1>6
<1>8. PICK k \in 1..Len(t) : k = Len(t) /\ t[k] = m /\ k - 1 = Len(s)
  BY <1>1
<1>9. g[k] = IF t[k] \in S THEN Append(g[k - 1], t[k]) ELSE g[k - 1]
  BY <1>3
<1> QED
  BY <1>7, <1>8, <1>9 DEF Filter, f, g, t

LEMMA ConcatAppend ==
  ASSUME NEW T, NEW p \in Seq(T), NEW q \in Seq(T), NEW e \in T
  PROVE  Append(p \o q, e) = p \o Append(q, e) /\ Append(q, e) \in Seq(T)
<1>1. p \o q \in Seq(T) /\ <<e>> \in Seq(T) /\ Append(q, e) \in Seq(T)
  OBVIOUS
<1>2. Append(p \o q, e) = (p \o q) \o <<e>> /\ Append(q, e) = q \o <<e>>
  BY <1>1, AppendIsConcat
<1>3. (p \o q) \o <<e>> = p \o (q \o <<e>>)
  BY <1>1, ConcatAssociative
<1> QED
  BY <1>1, <1>2, <1>3

\* A message taken was the first kept, or not kept.
LEMMA FilterTail ==
  ASSUME NEW T, NEW s \in Seq(T), s # <<>>, NEW S
  PROVE  /\ Head(s) \in S => /\ Filter(s, S) # <<>> /\ Head(Filter(s, S)) = Head(s)
                             /\ Filter(Tail(s), S) = Tail(Filter(s, S))
         /\ Head(s) \notin S => Filter(Tail(s), S) = Filter(s, S)
<1> DEFINE t == Tail(s)
           f == Kept(s, S)
           g == Kept(t, S)
           h == IF Head(s) \in S THEN <<Head(s)>> ELSE <<>>
           U == {n \in Nat : n \in 0..Len(t) => f[n + 1] = h \o g[n] /\ g[n] \in Seq(T)}
<1>0. \A p, q \in Seq(T), e \in T :
         Append(p \o q, e) = p \o Append(q, e) /\ Append(q, e) \in Seq(T)
  BY Zenon, ConcatAppend
<1>1. /\ t \in Seq(T) /\ Len(s) \in Nat \ {0} /\ Len(t) = Len(s) - 1
      /\ \A i \in 1..Len(t) : t[i] = s[i + 1] /\ t[i] \in T
      /\ Head(s) = s[1] /\ Head(s) \in T
  OBVIOUS
<1>2. /\ f[0] = <<>>
      /\ \A n \in 1..Len(s) : f[n] = IF s[n] \in S THEN Append(f[n - 1], s[n]) ELSE f[n - 1]
  BY KeptNext
<1> HIDE DEF t
<1>3. /\ g[0] = <<>>
      /\ \A n \in 1..Len(t) : g[n] = IF t[n] \in S THEN Append(g[n - 1], t[n]) ELSE g[n - 1]
  BY <1>1, KeptNext
<1> HIDE DEF f, g
<1>4. h \in Seq(T)
  BY <1>1
<1>5. 0 \in U
  <2>1. PICK k \in 1..Len(s) : k = 1 /\ k - 1 = 0
    BY <1>1
  <2>2. f[k] = IF s[k] \in S THEN Append(<<>>, s[k]) ELSE <<>>
    BY Zenon, <1>2, <2>1
  <2>3. Append(<<>>, s[k]) = <<s[k]>> /\ h \o <<>> = h /\ <<>> \in Seq(T)
    BY <1>1, <1>4, <2>1
  <2>4. f[0 + 1] = h
    BY <1>1, <2>1, <2>2, <2>3
  <2> QED
    BY Zenon, <1>3, <2>3, <2>4
<1>6. ASSUME NEW n \in Nat, n \in U
      PROVE  n + 1 \in U
  <2>1. CASE n + 1 \in 0..Len(t)
    <3>1. PICK j \in 1..Len(t), k \in 1..Len(s) :
            j = n + 1 /\ j - 1 = n /\ k = j + 1 /\ k - 1 = n + 1 /\ n \in 0..Len(t)
      <4>1. n + 1 \in 1..Len(t) /\ n + 2 \in 1..Len(s) /\ n \in 0..Len(t)
        BY <1>1, <2>1
      <4> QED
        BY <4>1
    <3>2. f[n + 1] = h \o g[n] /\ g[n] \in Seq(T) /\ t[j] = s[k] /\ t[j] \in T
      BY Zenon, <1>1, <1>6, <3>1
    <3>3. f[k] = IF t[j] \in S THEN Append(h \o g[n], t[j]) ELSE h \o g[n]
      BY Zenon, <1>2, <3>1, <3>2
    <3>4. g[j] = IF t[j] \in S THEN Append(g[n], t[j]) ELSE g[n]
      BY <1>3, <3>1
    <3> HIDE DEF h
    <3>5. Append(h \o g[n], t[j]) = h \o Append(g[n], t[j]) /\ Append(g[n], t[j]) \in Seq(T)
      BY <1>0, <1>4, <3>2, Zenon
    <3>6. f[k] = h \o g[j] /\ g[j] \in Seq(T)
      BY Zenon, <3>2, <3>3, <3>4, <3>5
    <3> QED
      BY <3>1, <3>6
  <2>2. CASE n + 1 \notin 0..Len(t)
    <3>1. n + 1 \in Nat
      OBVIOUS
    <3> QED
      BY <2>2, <3>1, Zenon
  <2> QED
    BY <2>1, <2>2, Zenon
<1>7. \A n \in Nat : n \in U
  <2> HIDE DEF U
  <2> QED
    BY <1>5, <1>6, Induction
<1>8. PICK n \in Nat : n = Len(t) /\ n + 1 = Len(s) /\ n \in 0..Len(t)
  BY <1>1
<1>9. f[n + 1] = h \o g[n] /\ g[n] \in Seq(T)
  BY Zenon, <1>7, <1>8
<1>10. Filter(s, S) = h \o g[n] /\ Filter(t, S) = g[n]
  BY Zenon, <1>8, <1>9 DEF Filter, f, g
<1>11. ASSUME NEW q \in Seq(T), NEW e \in T
       PROVE  <<e>> \o q # <<>> /\ Head(<<e>> \o q) = e /\ Tail(<<e>> \o q) = q /\ <<>> \o q = q
  OBVIOUS
<1>12. CASE Head(s) \in S
  <2>1. Filter(s, S) = <<Head(s)>> \o g[n]
    BY <1>10, <1>12
  <2> QED
    BY <1>1, <1>9, <1>10, <1>11, <1>12, <2>1 DEF t
<1>13. CASE Head(s) \notin S
  <2>1. Filter(s, S) = <<>> \o g[n]
    BY Zenon, <1>10, <1>13
  <2> QED
    BY <1>1, <1>9, <1>10, <1>11, <1>13, <2>1 DEF t
<1> QED
  BY <1>12, <1>13
=============================================================================
